-------------------------- MODULE Dataflow_proofs ---------------------------
(***************************************************************************)
(* What is in flight in the pipeline, for every configuration, program and *)
(* state of the memory: the instructions are the program's, each where the *)
(* one before it leads (ChainOK), and every operand and every result, in a *)
(* station, a unit, the re-order buffer or the load/store queue, is the    *)
(* one that the older instructions in flight give it (DataInv).            *)
(*                                                                         *)
(* A handler changes only who stands behind a tag: the sets of entries     *)
(* before and after it correspond, so the data stay what they were         *)
(* (DataStays), but for what the handler moves.                            *)
(***************************************************************************)
EXTENDS Cpu_proofs

-----------------------------------------------------------------------------
(* What the older instructions in flight give an operand.  E is the set of *)
(* the entries of the re-order buffer, g the register files, l and s the   *)
(* committed vl and sew.                                                   *)

Entries(q) == {q[i] : i \in DOMAIN q}

\* Register r of file t is read at all (x0 and an absent operand are zero).
IsRead(t, r) == ~(t = "NONE" \/ (t = "INT" /\ r = 0))

\* The writers of r older than tag, the vsets older than tag, and the youngest.
Writers(E, tag, t, r) == {e \in E : e.tag < tag /\ R!Names(e, t, r)}
Setters(E, tag) == {e \in E : e.tag < tag /\ e.op \in VSet}
Youngest(S) == {e \in S : \A f \in S : f.tag <= e.tag}

\* The value instruction tag must find in its operand, when it is there; and the
\* instruction that will bring it, when it is not.
Given(E, g, tag, t, r) ==
  IF ~IsRead(t, r) THEN {scalar(0)}
  ELSE IF Writers(E, tag, t, r) = {} THEN {g[t][r]}
  ELSE {e.result.value : e \in {f \in Youngest(Writers(E, tag, t, r)) : f.ready}}
Awaited(E, tag, t, r) ==
  IF IsRead(t, r)
    THEN {e.tag : e \in {f \in Youngest(Writers(E, tag, t, r)) : ~f.ready}} ELSE {}

\* The same for the vl and sew it runs under.
GivenConfig(E, l, s, tag) ==
  IF Setters(E, tag) = {} THEN {<<l, s>>}
  ELSE {<<e.result.vl, e.result.sew>> : e \in {f \in Youngest(Setters(E, tag)) : f.ready}}
AwaitedConfig(E, tag) == {e.tag : e \in {f \in Youngest(Setters(E, tag)) : ~f.ready}}

\* Operand (V, Q) of instruction tag is the value, or names the producer, it must.
Provides(E, g, tag, t, r, V, Q) ==
  IF Q = NoTag THEN V \in Given(E, g, tag, t, r) ELSE Q \in Awaited(E, tag, t, r)
ProvidesConfig(E, l, s, tag, n, w, Q) ==
  IF Q = NoTag THEN <<n, w>> \in GivenConfig(E, l, s, tag) ELSE Q \in AwaitedConfig(E, tag)

\* A tag names one instruction.
IsFlight(E) == /\ \A e \in E : e.tag \in Nat
               /\ \A e, f \in E : e.tag = f.tag => e = f

\* Entry e has become f: the same, or, if it is the one with tag w, with its result.
Becomes(e, f, w, res) ==
  /\ f.tag = e.tag /\ f.op = e.op /\ f.rd = e.rd /\ f.pc = e.pc
  /\ IF e.tag = w THEN ~e.ready /\ f.ready /\ f.result = res
     ELSE f.ready = e.ready /\ f.result = e.result

\* The entries older than tag are still those, and w has got its result res.
Moves(E, E2, tag, w, res) ==
  /\ \A e \in E : e.tag < tag => \E f \in E2 : Becomes(e, f, w, res)
  /\ \A f \in E2 : f.tag < tag => \E e \in E : Becomes(e, f, w, res)

\* The youngest of two sets of entries that correspond.
LEMMA YoungestMoves ==
  ASSUME NEW E, NEW E2, IsFlight(E), IsFlight(E2), NEW w, NEW res,
         NEW S \in SUBSET E, NEW S2 \in SUBSET E2,
         \A e \in S : \E f \in S2 : Becomes(e, f, w, res),
         \A f \in S2 : \E e \in S : Becomes(e, f, w, res),
         NEW e \in Youngest(S)
  PROVE  \E f \in Youngest(S2) : Becomes(e, f, w, res)
<1>1. e \in S /\ \A d \in S : d.tag <= e.tag
  BY DEF Youngest
<1>2. PICK f \in S2 : Becomes(e, f, w, res)
  BY <1>1
<1>3. ASSUME NEW h \in S2 PROVE h.tag <= f.tag
  <2>1. PICK d \in S : Becomes(d, h, w, res)
    OBVIOUS
  <2>2. d.tag <= e.tag
    BY <1>1
  <2> QED
    BY <1>2, <2>1, <2>2 DEF Becomes
<1> QED
  BY <1>2, <1>3 DEF Youngest

\* Entries that correspond write the same registers.
LEMMA WritersMove ==
  ASSUME NEW E, NEW E2, NEW tag, NEW w, NEW res, Moves(E, E2, tag, w, res), NEW t, NEW r
  PROVE  /\ \A e \in Writers(E, tag, t, r) :
              \E f \in Writers(E2, tag, t, r) : Becomes(e, f, w, res)
         /\ \A f \in Writers(E2, tag, t, r) :
              \E e \in Writers(E, tag, t, r) : Becomes(e, f, w, res)
         /\ \A e \in Setters(E, tag) : \E f \in Setters(E2, tag) : Becomes(e, f, w, res)
         /\ \A f \in Setters(E2, tag) : \E e \in Setters(E, tag) : Becomes(e, f, w, res)
<1>1. \A e, f : Becomes(e, f, w, res) => /\ R!Names(e, t, r) <=> R!Names(f, t, r)
                                         /\ e.op = f.op /\ e.tag = f.tag
  BY DEF Becomes, R!Names
<1>2. ASSUME NEW e \in E, e.tag < tag
      PROVE  \E f \in E2 : Becomes(e, f, w, res) /\ f.tag < tag
  BY <1>1, <1>2 DEF Moves
<1>3. ASSUME NEW f \in E2, f.tag < tag
      PROVE  \E e \in E : Becomes(e, f, w, res) /\ e.tag < tag
  BY <1>1, <1>3 DEF Moves
<1>4. \A e \in Writers(E, tag, t, r) :
              \E f \in Writers(E2, tag, t, r) : Becomes(e, f, w, res)
  BY <1>1, <1>2 DEF Writers
<1>5. \A f \in Writers(E2, tag, t, r) :
              \E e \in Writers(E, tag, t, r) : Becomes(e, f, w, res)
  BY <1>1, <1>3 DEF Writers
<1>6. \A e \in Setters(E, tag) : \E f \in Setters(E2, tag) : Becomes(e, f, w, res)
  BY <1>1, <1>2 DEF Setters
<1>7. \A f \in Setters(E2, tag) : \E e \in Setters(E, tag) : Becomes(e, f, w, res)
  BY <1>1, <1>3 DEF Setters
<1> QED
  BY <1>4, <1>5, <1>6, <1>7

\* What is given stays given, and what is awaited stays awaited or is now given.
GivenStill(E, g, l, s, E2, g2, l2, s2, tag) ==
  /\ \A t \in RegType, r \in Reg : Given(E, g, tag, t, r) \subseteq Given(E2, g2, tag, t, r)
  /\ GivenConfig(E, l, s, tag) \subseteq GivenConfig(E2, l2, s2, tag)
AwaitedStill(E, E2, g2, l2, s2, tag, w, res) ==
  /\ \A t \in RegType, r \in Reg : \A Q \in Awaited(E, tag, t, r) :
       IF Q = w THEN res.value \in Given(E2, g2, tag, t, r) ELSE Q \in Awaited(E2, tag, t, r)
  /\ \A Q \in AwaitedConfig(E, tag) :
       IF Q = w THEN <<res.vl, res.sew>> \in GivenConfig(E2, l2, s2, tag)
       ELSE Q \in AwaitedConfig(E2, tag)

\* An instruction that moves on leaves what the others are given as it was, and those
\* that await it get its result.
LEMMA GivenMoves ==
  ASSUME NEW E, NEW E2, IsFlight(E), IsFlight(E2), NEW tag, NEW w, NEW res,
         Moves(E, E2, tag, w, res), NEW g, NEW l, NEW s
  PROVE  /\ GivenStill(E, g, l, s, E2, g, l, s, tag)
         /\ AwaitedStill(E, E2, g, l, s, tag, w, res)
<1>1. ASSUME NEW t, NEW r PROVE
        /\ Writers(E, tag, t, r) = {} <=> Writers(E2, tag, t, r) = {}
        /\ \A e \in Youngest(Writers(E, tag, t, r)) :
             \E f \in Youngest(Writers(E2, tag, t, r)) : Becomes(e, f, w, res)
  <2>1. /\ Writers(E, tag, t, r) \in SUBSET E /\ Writers(E2, tag, t, r) \in SUBSET E2
    BY DEF Writers
  <2>2. /\ \A e \in Writers(E, tag, t, r) :
             \E f \in Writers(E2, tag, t, r) : Becomes(e, f, w, res)
        /\ \A f \in Writers(E2, tag, t, r) :
             \E e \in Writers(E, tag, t, r) : Becomes(e, f, w, res)
    BY WritersMove
  <2>3. \A e \in Youngest(Writers(E, tag, t, r)) :
             \E f \in Youngest(Writers(E2, tag, t, r)) : Becomes(e, f, w, res)
    BY <2>1, <2>2, YoungestMoves
  <2> QED
    BY <2>2, <2>3
<1>2. /\ Setters(E, tag) = {} <=> Setters(E2, tag) = {}
      /\ \A e \in Youngest(Setters(E, tag)) :
           \E f \in Youngest(Setters(E2, tag)) : Becomes(e, f, w, res)
  <2>1. /\ Setters(E, tag) \in SUBSET E /\ Setters(E2, tag) \in SUBSET E2
    BY DEF Setters
  <2>2. /\ \A e \in Setters(E, tag) : \E f \in Setters(E2, tag) : Becomes(e, f, w, res)
        /\ \A f \in Setters(E2, tag) : \E e \in Setters(E, tag) : Becomes(e, f, w, res)
    BY WritersMove
  <2>3. \A e \in Youngest(Setters(E, tag)) :
             \E f \in Youngest(Setters(E2, tag)) : Becomes(e, f, w, res)
    BY <2>1, <2>2, YoungestMoves
  <2> QED
    BY <2>2, <2>3
<1>3. ASSUME NEW t, NEW r PROVE Given(E, g, tag, t, r) \subseteq Given(E2, g, tag, t, r)
  BY <1>1 DEF Given, Becomes
<1>4. GivenConfig(E, l, s, tag) \subseteq GivenConfig(E2, l, s, tag)
  BY <1>2 DEF GivenConfig, Becomes
<1>5. ASSUME NEW t, NEW r, NEW Q \in Awaited(E, tag, t, r)
      PROVE  IF Q = w THEN res.value \in Given(E2, g, tag, t, r) ELSE Q \in Awaited(E2, tag, t, r)
  <2>1. IsRead(t, r)
    BY <1>5 DEF Awaited
  <2>2. PICK e \in Youngest(Writers(E, tag, t, r)) : ~e.ready /\ Q = e.tag
    BY <1>5, <2>1 DEF Awaited
  <2>3. PICK f \in Youngest(Writers(E2, tag, t, r)) : Becomes(e, f, w, res)
    BY <1>1
  <2>4. Writers(E2, tag, t, r) # {}
    BY DEF Youngest
  <2>5. CASE Q = w
    BY <2>1, <2>2, <2>3, <2>4, <2>5 DEF Given, Becomes
  <2>6. CASE Q # w
    BY <2>1, <2>2, <2>3, <2>4, <2>6 DEF Awaited, Becomes
  <2> QED
    BY <2>5, <2>6
<1>6. ASSUME NEW Q \in AwaitedConfig(E, tag)
      PROVE  IF Q = w THEN <<res.vl, res.sew>> \in GivenConfig(E2, l, s, tag)
             ELSE Q \in AwaitedConfig(E2, tag)
  <2>2. PICK e \in Youngest(Setters(E, tag)) : ~e.ready /\ Q = e.tag
    BY <1>6 DEF AwaitedConfig
  <2>3. PICK f \in Youngest(Setters(E2, tag)) : Becomes(e, f, w, res)
    BY <1>2
  <2>4. Setters(E2, tag) # {}
    BY DEF Youngest
  <2>5. CASE Q = w
    BY <2>2, <2>3, <2>4, <2>5 DEF GivenConfig, Becomes
  <2>6. CASE Q # w
    BY <2>2, <2>3, <2>4, <2>6 DEF AwaitedConfig, Becomes
  <2> QED
    BY <2>5, <2>6
<1> QED
  BY <1>3, <1>4, <1>5, <1>6 DEF GivenStill, AwaitedStill

-----------------------------------------------------------------------------
\* An integer or floating-point register holds one word.
Normal(op, V) == dst_type(op) \in {"INT", "FLOAT"} => V = scalar(V[0])

\* The oldest of a set of entries matters for its youngest only when it is alone.
LEMMA YoungestWithout ==
  ASSUME NEW S, NEW h, h.tag \in Nat, \A e \in S : e.tag \in Nat,
         \A e \in S \ {h} : h.tag < e.tag, S \ {h} # {}
  PROVE  Youngest(S) = Youngest(S \ {h})
<1>1. \A e \in Youngest(S) : e \in S \ {h}
  <2> SUFFICES ASSUME h \in Youngest(S) PROVE FALSE
    BY DEF Youngest
  <2>1. PICK e \in S \ {h} : TRUE
    OBVIOUS
  <2>2. e.tag <= h.tag /\ h.tag < e.tag /\ e.tag \in Nat
    BY <2>1 DEF Youngest
  <2> QED
    BY <2>2
<1>2. ASSUME NEW e \in Youngest(S) PROVE e \in Youngest(S \ {h})
  BY <1>1 DEF Youngest
<1>3. ASSUME NEW e \in Youngest(S \ {h}) PROVE e \in Youngest(S)
  <2>1. e \in S \ {h} /\ h.tag < e.tag /\ e.tag \in Nat
    BY DEF Youngest
  <2>2. h.tag <= e.tag
    BY <2>1
  <2> QED
    BY <2>1, <2>2 DEF Youngest
<1> QED
  BY <1>2, <1>3

\* What commit writes to the register files.
LEMMA WrittenReads ==
  ASSUME NEW g \in [RegFiles -> [Reg -> Value]], NEW h, h.rd \in Reg,
         Normal(h.op, h.result.value), NEW t \in RegType, NEW r \in Reg, IsRead(t, r)
  PROVE  Written(g, dst_type(h.op), h.rd, h.result.value)[t][r]
           = IF R!Names(h, t, r) THEN h.result.value ELSE g[t][r]
<1>1. t \in RegFiles
  BY DEF IsRead, RegType
<1>2. R!Names(h, t, r) <=> dst_type(h.op) = t /\ h.rd = r
  BY DestinationsAgree DEF R!Names, IsRead
<1> DEFINE u == dst_type(h.op)
           v == h.result.value
           w == IF u = "VECTOR" THEN v ELSE scalar(v[0])
<1>3. u = t => w = v
  BY <1>1 DEF Normal, RegFiles
<1>4. CASE u = "NONE" \/ (u = "INT" /\ h.rd = 0)
  <2>1. Written(g, u, h.rd, v) = g
    BY <1>4 DEF Written
  <2>2. ~R!Names(h, t, r)
    BY <1>1, <1>2, <1>4 DEF IsRead
  <2> QED
    BY <2>1, <2>2
<1>5. CASE ~(u = "NONE" \/ (u = "INT" /\ h.rd = 0))
  <2>1. Written(g, u, h.rd, v) = [g EXCEPT ![u][h.rd] = w]
    BY <1>5 DEF Written
  <2> HIDE DEF u, v, w
  <2>2. [g EXCEPT ![u][h.rd] = w][t][r] = IF u = t /\ h.rd = r THEN w ELSE g[t][r]
    BY <1>1
  <2> QED
    BY <1>2, <1>3, <2>1, <2>2 DEF u, v
<1> QED
  BY <1>4, <1>5

\* Entry h, the oldest, leaves and writes its register.
LEMMA GivenRetires ==
  ASSUME NEW E, IsFlight(E), NEW h \in E, \A e \in E : e # h => h.tag < e.tag,
         h.ready, h.rd \in Reg, Normal(h.op, h.result.value), NEW tag \in Nat, h.tag < tag,
         NEW g \in [RegFiles -> [Reg -> Value]], NEW l, NEW s, NEW res,
         NEW E2, E2 = E \ {h},
         NEW g2, g2 = Written(g, dst_type(h.op), h.rd, h.result.value),
         NEW l2, l2 = IF h.op \in VSet THEN h.result.vl ELSE l,
         NEW s2, s2 = IF h.op \in VSet THEN h.result.sew ELSE s
  PROVE  /\ GivenStill(E, g, l, s, E2, g2, l2, s2, tag)
         /\ AwaitedStill(E, E2, g2, l2, s2, tag, NoTag, res)
<1>1. \A e \in E : e.tag \in Nat /\ e.tag # NoTag
  BY DEF IsFlight, NoTag
<1>2. ASSUME NEW t, NEW r
      PROVE  /\ Writers(E2, tag, t, r) = Writers(E, tag, t, r) \ {h}
             /\ Writers(E, tag, t, r) \in SUBSET E
             /\ h \in Writers(E, tag, t, r) <=> R!Names(h, t, r)
  BY DEF Writers
<1>3. /\ Setters(E2, tag) = Setters(E, tag) \ {h} /\ Setters(E, tag) \in SUBSET E
      /\ h \in Setters(E, tag) <=> h.op \in VSet
  BY DEF Setters
<1>4. ASSUME NEW S \in SUBSET E, S \ {h} # {}
      PROVE  Youngest(S) = Youngest(S \ {h})
  <2>1. /\ h.tag \in Nat /\ \A e \in S : e.tag \in Nat
        /\ \A e \in S \ {h} : h.tag < e.tag
    BY <1>1
  <2> QED
    BY ONLY <1>4, <2>1, YoungestWithout
<1>5. \A S : Youngest(S) \subseteq S
  BY DEF Youngest
<1>6. ASSUME NEW t \in RegType, NEW r \in Reg
      PROVE  Given(E, g, tag, t, r) \subseteq Given(E2, g2, tag, t, r)
  <2> DEFINE S == Writers(E, tag, t, r)
             S2 == Writers(E2, tag, t, r)
  <2>1. CASE ~IsRead(t, r)
    BY <2>1 DEF Given
  <2>2. CASE IsRead(t, r) /\ S2 # {}
    <3>1. S # {} /\ Youngest(S) = Youngest(S2)
      BY <1>2, <1>4, <2>2
    <3> QED
      BY <2>2, <3>1 DEF Given
  <2>3. CASE IsRead(t, r) /\ S2 = {}
    <3>1. g2[t][r] = IF R!Names(h, t, r) THEN h.result.value ELSE g[t][r]
      BY <2>3, WrittenReads
    <3>2. S = {} \/ S = {h}
      <4>1. S \ {h} = {}
        BY <1>2, <2>3
      <4> HIDE DEF S
      <4> QED
        BY <4>1
    <3>3. CASE S = {}
      <4>1. ~R!Names(h, t, r)
        BY <1>2, <3>3
      <4> QED
        BY <2>3, <3>1, <3>3, <4>1 DEF Given
    <3>4. CASE S = {h}
      <4>1. R!Names(h, t, r)
        BY <1>2, <3>4
      <4>2. Given(E2, g2, tag, t, r) = {h.result.value}
        BY <2>3, <3>1, <4>1 DEF Given
      <4>3. Given(E, g, tag, t, r) = {e.result.value : e \in {f \in Youngest(S) : f.ready}}
        BY <2>3, <3>4 DEF Given
      <4> QED
        BY <1>5, <3>4, <4>2, <4>3
    <3> QED
      BY <3>2, <3>3, <3>4
  <2> QED
    BY <2>1, <2>2, <2>3
<1>7. GivenConfig(E, l, s, tag) \subseteq GivenConfig(E2, l2, s2, tag)
  <2> DEFINE S == Setters(E, tag)
             S2 == Setters(E2, tag)
  <2>1. CASE S2 # {}
    <3>1. S # {} /\ Youngest(S) = Youngest(S2)
      BY <1>3, <1>4, <2>1
    <3> QED
      BY <2>1, <3>1 DEF GivenConfig
  <2>2. CASE S2 = {} /\ S = {}
    BY <1>3, <2>2 DEF GivenConfig
  <2>3. CASE S2 = {} /\ S # {}
    <3>1. S = {h} /\ h.op \in VSet
      BY <1>3, <2>3
    <3>2. GivenConfig(E2, l2, s2, tag) = {<<h.result.vl, h.result.sew>>}
      BY <2>3, <3>1 DEF GivenConfig
    <3>3. GivenConfig(E, l, s, tag)
            = {<<e.result.vl, e.result.sew>> : e \in {f \in Youngest(S) : f.ready}}
      BY <2>3 DEF GivenConfig
    <3> QED
      BY <1>5, <3>1, <3>2, <3>3
  <2> QED
    BY <2>1, <2>2, <2>3
<1>8. ASSUME NEW S \in SUBSET E, NEW e \in Youngest(S), ~e.ready
      PROVE  e \in Youngest(S \ {h}) /\ e.tag # NoTag
  <2>1. e \in S /\ e # h
    BY <1>5, <1>8
  <2> QED
    BY <1>1, <1>4, <1>8, <2>1
<1>9. ASSUME NEW t \in RegType, NEW r \in Reg, NEW Q \in Awaited(E, tag, t, r)
      PROVE  Q # NoTag /\ Q \in Awaited(E2, tag, t, r)
  <2>1. IsRead(t, r)
    BY <1>9 DEF Awaited
  <2>2. PICK e \in Youngest(Writers(E, tag, t, r)) : ~e.ready /\ Q = e.tag
    BY <2>1 DEF Awaited
  <2>3. e \in Youngest(Writers(E2, tag, t, r)) /\ Q # NoTag
    BY <1>2, <1>8, <2>2
  <2> QED
    BY <2>1, <2>2, <2>3 DEF Awaited
<1>10. ASSUME NEW Q \in AwaitedConfig(E, tag) PROVE Q # NoTag /\ Q \in AwaitedConfig(E2, tag)
  <2>1. PICK e \in Youngest(Setters(E, tag)) : ~e.ready /\ Q = e.tag
    BY DEF AwaitedConfig
  <2>2. e \in Youngest(Setters(E2, tag)) /\ Q # NoTag
    BY <1>3, <1>8, <2>1
  <2> QED
    BY <2>1, <2>2 DEF AwaitedConfig
<1> QED
  BY <1>6, <1>7, <1>9, <1>10 DEF GivenStill, AwaitedStill

-----------------------------------------------------------------------------
(* Instructions in the stations and units, their results, and accesses.    *)

\* The instruction at address a of program p.
Instr(p, a) == p[a \div WORD_BYTES + 1]
UsesConfig(op) == op \in Vec \ VSet

\* Station entry e holds instruction x of the re-order buffer, with the operands there are.
StationData(E, g, l, s, p, x, e) ==
  LET d == Instr(p, x.pc)
  IN  /\ e.pc = x.pc /\ e.op = d.op /\ e.imm = d.imm /\ e.rm = d.rm
      /\ Provides(E, g, x.tag, src_type(d.op, 0), d.rs1, e.Vj, e.Qj)
      /\ Provides(E, g, x.tag, src_type(d.op, 1), d.rs2, e.Vk, e.Qk)
      /\ Provides(E, g, x.tag, src_type(d.op, 2), d.rs3, e.Vl, e.Ql)
      /\ IF UsesConfig(d.op) THEN ProvidesConfig(E, l, s, x.tag, e.vl, e.sew, e.Qv)
         ELSE e.Qv = NoTag
      /\ d.op \in VSet => e.sew = d.sew

\* A unit works on it with all of them; one that generates an address needs only that
\* of the address.
UnitData(E, g, l, s, p, x, e) ==
  LET d == Instr(p, x.pc)
  IN  /\ e.pc = x.pc /\ e.op = d.op /\ e.imm = d.imm /\ e.rm = d.rm
      /\ e.Vj \in Given(E, g, x.tag, src_type(d.op, 0), d.rs1)
      /\ ~IsAccess(d.op) => /\ e.Vk \in Given(E, g, x.tag, src_type(d.op, 1), d.rs2)
                            /\ e.Vl \in Given(E, g, x.tag, src_type(d.op, 2), d.rs3)
      /\ UsesConfig(d.op) => <<e.vl, e.sew>> \in GivenConfig(E, l, s, x.tag)
      /\ d.op \in VSet => e.sew = d.sew

\* Instruction d at a with operands V and the vl and sew of c, as far as its unit looks.
Operated(d, a, V, c) ==
  [op |-> d.op, pc |-> a, imm |-> d.imm, rm |-> d.rm, Vj |-> V[1], Vk |-> V[2], Vl |-> V[3],
   vl |-> IF UsesConfig(d.op) THEN c[1] ELSE 0,
   sew |-> IF d.op \in VSet THEN d.sew ELSE IF UsesConfig(d.op) THEN c[2] ELSE 0]

\* What its unit computes from them is res.
Yields(d, a, V, c, res) ==
  ~Unsupported(Operated(d, a, V, c)) /\ res = Compute(Operated(d, a, V, c), 0)

\* res is the result of instruction x, which is not a load or a store.
Computed(E, g, l, s, p, x, res) ==
  LET d == Instr(p, x.pc)
  IN  \E a \in Given(E, g, x.tag, src_type(d.op, 0), d.rs1),
         b \in Given(E, g, x.tag, src_type(d.op, 1), d.rs2),
         c \in Given(E, g, x.tag, src_type(d.op, 2), d.rs3),
         n \in IF UsesConfig(d.op) THEN GivenConfig(E, l, s, x.tag) ELSE {<<0, 0>>} :
         Yields(d, x.pc, <<a, b, c>>, n, res)

\* Access a of the queue is that of instruction x.
AccessData(E, g, l, s, p, x, a) ==
  LET d == Instr(p, x.pc)
  IN  /\ a.Qa = NoTag =>
           \E V \in Given(E, g, x.tag, src_type(d.op, 0), d.rs1) :
             a.Va = ToWord(V[0] + d.imm)
      /\ a.Qa = NoTag /\ a.op \in VLoad \cup VStore =>
           \E c \in GivenConfig(E, l, s, x.tag) : a.vl = c[1]
      /\ a.op \in Store => Provides(E, g, x.tag, src_type(d.op, 1), d.rs2, a.V, a.Q)

\* The source registers of an instruction.
LEMMA SourceTypes == \A op, i : src_type(op, i) \in RegType
BY DEF src_type, RegType, RegFiles

\* For every instruction that remains, what was given and awaited still is, but that w
\* has come with res.
Stays(E, g, l, s, E2, g2, l2, s2, w, res) ==
  \A x \in E, y \in E2 : x.tag = y.tag =>
    /\ y.pc = x.pc
    /\ GivenStill(E, g, l, s, E2, g2, l2, s2, x.tag)
    /\ AwaitedStill(E, E2, g2, l2, s2, x.tag, w, res)

\* One operand.
LEMMA OperandStays ==
  ASSUME NEW E, NEW g, NEW l, NEW s, NEW E2, NEW g2, NEW l2, NEW s2, NEW w, NEW res, NEW tag,
         GivenStill(E, g, l, s, E2, g2, l2, s2, tag),
         AwaitedStill(E, E2, g2, l2, s2, tag, w, res),
         NEW t \in RegType, NEW r \in Reg, NEW V, NEW Q, Provides(E, g, tag, t, r, V, Q)
  PROVE  IF Q = w /\ w # NoTag
           THEN Provides(E2, g2, tag, t, r, res.value, NoTag)
           ELSE Provides(E2, g2, tag, t, r, V, Q)
<1>1. CASE Q = NoTag
  BY <1>1 DEF Provides, GivenStill
<1>2. CASE Q # NoTag
  <2>1. Q \in Awaited(E, tag, t, r)
    BY <1>2 DEF Provides
  <2>2. IF Q = w THEN res.value \in Given(E2, g2, tag, t, r) ELSE Q \in Awaited(E2, tag, t, r)
    BY <2>1 DEF AwaitedStill
  <2> QED
    BY <1>2, <2>2 DEF Provides
<1> QED
  BY <1>1, <1>2

\* The vl and sew.
LEMMA ConfigStays ==
  ASSUME NEW E, NEW g, NEW l, NEW s, NEW E2, NEW g2, NEW l2, NEW s2, NEW w, NEW res, NEW tag,
         GivenStill(E, g, l, s, E2, g2, l2, s2, tag),
         AwaitedStill(E, E2, g2, l2, s2, tag, w, res),
         NEW n, NEW k, NEW Q, ProvidesConfig(E, l, s, tag, n, k, Q)
  PROVE  IF Q = w /\ w # NoTag
           THEN ProvidesConfig(E2, l2, s2, tag, res.vl, res.sew, NoTag)
           ELSE ProvidesConfig(E2, l2, s2, tag, n, k, Q)
<1>1. CASE Q = NoTag
  BY <1>1 DEF ProvidesConfig, GivenStill
<1>2. CASE Q # NoTag
  <2>1. Q \in AwaitedConfig(E, tag)
    BY <1>2 DEF ProvidesConfig
  <2>2. IF Q = w THEN <<res.vl, res.sew>> \in GivenConfig(E2, l2, s2, tag)
        ELSE Q \in AwaitedConfig(E2, tag)
    BY <2>1 DEF AwaitedStill
  <2> QED
    BY <1>2, <2>2 DEF ProvidesConfig
<1> QED
  BY <1>1, <1>2

\* Instruction d has the fields of an instruction.
LEMMA SourceRegisters ==
  ASSUME NEW d \in Instruction
  PROVE  d.rs1 \in Reg /\ d.rs2 \in Reg /\ d.rs3 \in Reg
BY DEF Instruction

\* A station keeps what it must hold; what comes is put in its place.
LEMMA StationStays ==
  ASSUME NEW E, NEW g, NEW l, NEW s, NEW E2, NEW g2, NEW l2, NEW s2, NEW w, NEW res,
         Stays(E, g, l, s, E2, g2, l2, s2, w, res), NEW p,
         NEW x \in E, NEW y \in E2, x.tag = y.tag, Instr(p, x.pc) \in Instruction,
         NEW e, StationOK(e), StationData(E, g, l, s, p, x, e)
  PROVE  /\ w = NoTag => StationData(E2, g2, l2, s2, p, y, e)
         /\ \A a : ResultIn(a) /\ a.tag = w /\ a.result = res =>
              StationData(E2, g2, l2, s2, p, y, P!Wake(e, a))
<1> DEFINE d == Instr(p, x.pc)
<1>1. /\ y.pc = x.pc /\ y.tag = x.tag
      /\ GivenStill(E, g, l, s, E2, g2, l2, s2, x.tag)
      /\ AwaitedStill(E, E2, g2, l2, s2, x.tag, w, res)
  BY DEF Stays
<1>2. /\ d.rs1 \in Reg /\ d.rs2 \in Reg /\ d.rs3 \in Reg
      /\ \A i : src_type(d.op, i) \in RegType
  BY SourceRegisters, SourceTypes
<1>3. /\ e.pc = x.pc /\ e.op = d.op /\ e.imm = d.imm /\ e.rm = d.rm
      /\ Provides(E, g, x.tag, src_type(d.op, 0), d.rs1, e.Vj, e.Qj)
      /\ Provides(E, g, x.tag, src_type(d.op, 1), d.rs2, e.Vk, e.Qk)
      /\ Provides(E, g, x.tag, src_type(d.op, 2), d.rs3, e.Vl, e.Ql)
      /\ IF UsesConfig(d.op) THEN ProvidesConfig(E, l, s, x.tag, e.vl, e.sew, e.Qv)
         ELSE e.Qv = NoTag
      /\ d.op \in VSet => e.sew = d.sew
  BY DEF StationData
<1> HIDE DEF d
<1>4. /\ IF e.Qj = w /\ w # NoTag
           THEN Provides(E2, g2, x.tag, src_type(d.op, 0), d.rs1, res.value, NoTag)
           ELSE Provides(E2, g2, x.tag, src_type(d.op, 0), d.rs1, e.Vj, e.Qj)
      /\ IF e.Qk = w /\ w # NoTag
           THEN Provides(E2, g2, x.tag, src_type(d.op, 1), d.rs2, res.value, NoTag)
           ELSE Provides(E2, g2, x.tag, src_type(d.op, 1), d.rs2, e.Vk, e.Qk)
      /\ IF e.Ql = w /\ w # NoTag
           THEN Provides(E2, g2, x.tag, src_type(d.op, 2), d.rs3, res.value, NoTag)
           ELSE Provides(E2, g2, x.tag, src_type(d.op, 2), d.rs3, e.Vl, e.Ql)
  BY <1>1, <1>2, <1>3, OperandStays
<1>5. UsesConfig(d.op) =>
        IF e.Qv = w /\ w # NoTag
          THEN ProvidesConfig(E2, l2, s2, x.tag, res.vl, res.sew, NoTag)
          ELSE ProvidesConfig(E2, l2, s2, x.tag, e.vl, e.sew, e.Qv)
  BY <1>1, <1>3, ConfigStays
<1>6. ASSUME w = NoTag PROVE StationData(E2, g2, l2, s2, p, y, e)
  BY <1>1, <1>3, <1>4, <1>5, <1>6 DEF StationData, d
<1>7. ASSUME NEW a, ResultIn(a), a.tag = w, a.result = res
      PROVE  StationData(E2, g2, l2, s2, p, y, P!Wake(e, a))
  <2> DEFINE f == P!Wake(e, a)
  <2>1. w # NoTag
    BY <1>7 DEF ResultIn, NoTag
  <2>2. /\ f.pc = e.pc /\ f.op = e.op /\ f.imm = e.imm /\ f.rm = e.rm
        /\ f.Vj = (IF e.Qj = w THEN res.value ELSE e.Vj)
        /\ f.Vk = (IF e.Qk = w THEN res.value ELSE e.Vk)
        /\ f.Vl = (IF e.Ql = w THEN res.value ELSE e.Vl)
        /\ f.vl = (IF e.Qv = w THEN res.vl ELSE e.vl)
        /\ f.sew = (IF e.Qv = w THEN res.sew ELSE e.sew)
    BY <1>7 DEF P!Wake, StationOK, Station
  <2>3. /\ f.Qj = (IF e.Qj = w THEN NoTag ELSE e.Qj)
        /\ f.Qk = (IF e.Qk = w THEN NoTag ELSE e.Qk)
        /\ f.Ql = (IF e.Ql = w THEN NoTag ELSE e.Ql)
        /\ f.Qv = (IF e.Qv = w THEN NoTag ELSE e.Qv)
    BY <1>7, WokenEntry
  <2> HIDE DEF f
  <2>4. /\ Provides(E2, g2, x.tag, src_type(d.op, 0), d.rs1, f.Vj, f.Qj)
        /\ Provides(E2, g2, x.tag, src_type(d.op, 1), d.rs2, f.Vk, f.Qk)
        /\ Provides(E2, g2, x.tag, src_type(d.op, 2), d.rs3, f.Vl, f.Ql)
    BY <1>4, <2>1, <2>2, <2>3
  <2>5. IF UsesConfig(d.op) THEN ProvidesConfig(E2, l2, s2, x.tag, f.vl, f.sew, f.Qv)
        ELSE f.Qv = NoTag
    BY <1>3, <1>5, <2>1, <2>2, <2>3
  <2>6. d.op \in VSet => f.sew = d.sew
    BY <1>3, <2>1, <2>2 DEF UsesConfig
  <2>7. StationData(E2, g2, l2, s2, p, y, f)
    BY <1>1, <1>3, <2>2, <2>4, <2>5, <2>6 DEF StationData, d
  <2> QED
    BY <2>7 DEF f
<1> QED
  BY <1>6, <1>7

\* A unit, a result and an access keep theirs.
LEMMA UnitStays ==
  ASSUME NEW E, NEW g, NEW l, NEW s, NEW E2, NEW g2, NEW l2, NEW s2, NEW w, NEW res,
         Stays(E, g, l, s, E2, g2, l2, s2, w, res), NEW p,
         NEW x \in E, NEW y \in E2, x.tag = y.tag, Instr(p, x.pc) \in Instruction, NEW e
  PROVE  UnitData(E, g, l, s, p, x, e) => UnitData(E2, g2, l2, s2, p, y, e)
<1> DEFINE d == Instr(p, x.pc)
<1>1. /\ y.pc = x.pc /\ y.tag = x.tag
      /\ GivenStill(E, g, l, s, E2, g2, l2, s2, x.tag)
  BY DEF Stays
<1>2. /\ d.rs1 \in Reg /\ d.rs2 \in Reg /\ d.rs3 \in Reg
      /\ \A i : src_type(d.op, i) \in RegType
  BY SourceRegisters, SourceTypes
<1>3. /\ \A i, V : /\ V \in Given(E, g, x.tag, src_type(d.op, i), d.rs1)
                        => V \in Given(E2, g2, x.tag, src_type(d.op, i), d.rs1)
                   /\ V \in Given(E, g, x.tag, src_type(d.op, i), d.rs2)
                        => V \in Given(E2, g2, x.tag, src_type(d.op, i), d.rs2)
                   /\ V \in Given(E, g, x.tag, src_type(d.op, i), d.rs3)
                        => V \in Given(E2, g2, x.tag, src_type(d.op, i), d.rs3)
      /\ \A c : c \in GivenConfig(E, l, s, x.tag) => c \in GivenConfig(E2, l2, s2, x.tag)
  BY <1>1, <1>2 DEF GivenStill
<1> QED
  BY <1>1, <1>3 DEF UnitData

\* A result stays the one of its instruction as long as what is given to it stays.
LEMMA ResultStays ==
  ASSUME NEW E, NEW g, NEW l, NEW s, NEW E2, NEW g2, NEW l2, NEW s2, NEW w, NEW res,
         Stays(E, g, l, s, E2, g2, l2, s2, w, res), NEW p,
         NEW x \in E, NEW y \in E2, x.tag = y.tag, Instr(p, x.pc) \in Instruction, NEW c
  PROVE  Computed(E, g, l, s, p, x, c) => Computed(E2, g2, l2, s2, p, y, c)
<1> DEFINE d == Instr(p, x.pc)
<1>1. /\ y.pc = x.pc /\ y.tag = x.tag
      /\ GivenStill(E, g, l, s, E2, g2, l2, s2, x.tag)
  BY DEF Stays
<1>2. /\ d.rs1 \in Reg /\ d.rs2 \in Reg /\ d.rs3 \in Reg
      /\ \A i : src_type(d.op, i) \in RegType
  BY SourceRegisters, SourceTypes
<1>3. /\ \A i, V : /\ V \in Given(E, g, x.tag, src_type(d.op, i), d.rs1)
                        => V \in Given(E2, g2, x.tag, src_type(d.op, i), d.rs1)
                   /\ V \in Given(E, g, x.tag, src_type(d.op, i), d.rs2)
                        => V \in Given(E2, g2, x.tag, src_type(d.op, i), d.rs2)
                   /\ V \in Given(E, g, x.tag, src_type(d.op, i), d.rs3)
                        => V \in Given(E2, g2, x.tag, src_type(d.op, i), d.rs3)
      /\ \A k : k \in GivenConfig(E, l, s, x.tag) => k \in GivenConfig(E2, l2, s2, x.tag)
  BY <1>1, <1>2 DEF GivenStill
<1> QED
  BY <1>1, <1>3 DEF Computed

\* So does an access, whose store data may have come with the result.
LEMMA AccessStays ==
  ASSUME NEW E, NEW g, NEW l, NEW s, NEW E2, NEW g2, NEW l2, NEW s2, NEW w, NEW res,
         Stays(E, g, l, s, E2, g2, l2, s2, w, res), NEW p,
         NEW x \in E, NEW y \in E2, x.tag = y.tag, Instr(p, x.pc) \in Instruction,
         NEW a, AccessData(E, g, l, s, p, x, a),
         NEW b, b.op = a.op, b.Qa = a.Qa, b.Va = a.Va, b.vl = a.vl,
         a.op \in Store => IF a.Q = w /\ w # NoTag THEN b.Q = NoTag /\ b.V = res.value
                           ELSE b.Q = a.Q /\ b.V = a.V
  PROVE  AccessData(E2, g2, l2, s2, p, y, b)
<1> DEFINE d == Instr(p, x.pc)
<1>1. /\ y.pc = x.pc /\ y.tag = x.tag
      /\ GivenStill(E, g, l, s, E2, g2, l2, s2, x.tag)
      /\ AwaitedStill(E, E2, g2, l2, s2, x.tag, w, res)
  BY DEF Stays
<1>2. /\ d.rs1 \in Reg /\ d.rs2 \in Reg /\ d.rs3 \in Reg
      /\ \A i : src_type(d.op, i) \in RegType
  BY SourceRegisters, SourceTypes
<1>3. /\ \A V : V \in Given(E, g, x.tag, src_type(d.op, 0), d.rs1)
                  => V \in Given(E2, g2, x.tag, src_type(d.op, 0), d.rs1)
      /\ \A c : c \in GivenConfig(E, l, s, x.tag) => c \in GivenConfig(E2, l2, s2, x.tag)
  BY <1>1, <1>2 DEF GivenStill
<1>4. a.op \in Store =>
        IF a.Q = w /\ w # NoTag
          THEN Provides(E2, g2, x.tag, src_type(d.op, 1), d.rs2, res.value, NoTag)
          ELSE Provides(E2, g2, x.tag, src_type(d.op, 1), d.rs2, a.V, a.Q)
  <2> SUFFICES ASSUME a.op \in Store
               PROVE  IF a.Q = w /\ w # NoTag
                        THEN Provides(E2, g2, x.tag, src_type(d.op, 1), d.rs2, res.value, NoTag)
                        ELSE Provides(E2, g2, x.tag, src_type(d.op, 1), d.rs2, a.V, a.Q)
    OBVIOUS
  <2>1. Provides(E, g, x.tag, src_type(d.op, 1), d.rs2, a.V, a.Q)
    BY DEF AccessData
  <2> HIDE DEF d
  <2> QED
    BY <1>1, <1>2, <2>1, OperandStays
<1>5. b.op \in Store => Provides(E2, g2, x.tag, src_type(d.op, 1), d.rs2, b.V, b.Q)
  BY <1>4
<1>6. /\ a.Qa = NoTag => \E V \in Given(E, g, x.tag, src_type(d.op, 0), d.rs1) :
                           a.Va = ToWord(V[0] + d.imm)
      /\ a.Qa = NoTag /\ a.op \in VLoad \cup VStore =>
           \E c \in GivenConfig(E, l, s, x.tag) : a.vl = c[1]
  BY DEF AccessData
<1> HIDE DEF d
<1>7. /\ b.Qa = NoTag => \E V \in Given(E2, g2, x.tag, src_type(d.op, 0), d.rs1) :
                           b.Va = ToWord(V[0] + d.imm)
      /\ b.Qa = NoTag /\ b.op \in VLoad \cup VStore =>
           \E c \in GivenConfig(E2, l2, s2, x.tag) : b.vl = c[1]
  BY <1>3, <1>6
<1> QED
  BY <1>1, <1>5, <1>7 DEF AccessData, d

-----------------------------------------------------------------------------
(* Everything that holds an operand or a result holds the right one: the   *)
(* stations and units of the paths ps, their results, the re-order buffer  *)
(* and the load/store queue q.                                             *)

StationsData(E, g, l, s, p, ps) ==
  \A t \in ExecType : \A i \in DOMAIN ps[t].stations : \A x \in E :
    x.tag = ps[t].stations[i].tag => StationData(E, g, l, s, p, x, ps[t].stations[i])

UnitsData(E, g, l, s, p, ps) ==
  \A t \in ExecType : \A u \in ps[t].units : \A x \in E :
    x.tag = u.rs.tag => UnitData(E, g, l, s, p, x, u.rs)

ResultsData(E, g, l, s, p, ps) ==
  \A t \in ExecType \ {"LOADSTORE"} : \A y \in ps[t].completed : \A x \in E :
    x.tag = y.tag => Computed(E, g, l, s, p, x, y.result)

ReadyData(E, g, l, s, p) ==
  \A x \in E : x.ready /\ ~IsAccess(x.op) => Computed(E, g, l, s, p, x, x.result)

AccessesData(E, g, l, s, p, q) ==
  \A i \in DOMAIN q : \A x \in E : x.tag = q[i].tag => AccessData(E, g, l, s, p, x, q[i])

\* What an access has brought back is what the queue has of it.
BroughtData(E, ps, q) ==
  /\ \A y \in ps["LOADSTORE"].completed : \A i \in DOMAIN q :
       q[i].tag = y.tag => q[i].done /\ y.result.value = q[i].V
  /\ \A i \in DOMAIN q : \A x \in E :
       x.tag = q[i].tag /\ x.ready => q[i].done /\ x.result.value = q[i].V
  /\ \A i \in DOMAIN q : q[i].done => Normal(q[i].op, q[i].V)

DataOK(E, g, l, s, p, ps, q) ==
  /\ StationsData(E, g, l, s, p, ps) /\ UnitsData(E, g, l, s, p, ps)
  /\ ResultsData(E, g, l, s, p, ps) /\ ReadyData(E, g, l, s, p)
  /\ AccessesData(E, g, l, s, p, q) /\ BroughtData(E, ps, q)

\* The instructions are in flight.
Known(E, tag) == \E x \in E : x.tag = tag
AllKnown(E, ps, q) ==
  /\ \A t \in ExecType : /\ \A i \in DOMAIN ps[t].stations :
                              /\ Known(E, ps[t].stations[i].tag)
                              /\ StationOK(ps[t].stations[i])
                         /\ \A u \in ps[t].units : Known(E, u.rs.tag)
                         /\ \A y \in ps[t].completed : Known(E, y.tag)
  /\ \A i \in DOMAIN q : Known(E, q[i].tag)

Coded(E, p) == \A x \in E : Instr(p, x.pc) \in Instruction

\* Two sets of entries with the same instructions, but for younger ones that have
\* left or entered.
Corresponds(E, E2, w, res) ==
  /\ \A e \in E : (\E f \in E2 : Becomes(e, f, w, res)) \/ (\A f \in E2 : f.tag < e.tag)
  /\ \A f \in E2 : (\E e \in E : Becomes(e, f, w, res)) \/ (\A e \in E : e.tag < f.tag)

\* Between sets of entries that correspond, operands stay what they were.
LEMMA CorrespondStays ==
  ASSUME NEW E, NEW E2, IsFlight(E), IsFlight(E2), NEW w, NEW res,
         Corresponds(E, E2, w, res), NEW g, NEW l, NEW s
  PROVE  Stays(E, g, l, s, E2, g, l, s, w, res)
<1> SUFFICES ASSUME NEW x \in E, NEW y \in E2, x.tag = y.tag
             PROVE  /\ y.pc = x.pc
                    /\ GivenStill(E, g, l, s, E2, g, l, s, x.tag)
                    /\ AwaitedStill(E, E2, g, l, s, x.tag, w, res)
  BY DEF Stays
<1>1. (\A e \in E : e.tag \in Nat) /\ (\A e \in E2 : e.tag \in Nat)
  BY DEF IsFlight
<1>2. \E f \in E2 : Becomes(x, f, w, res)
  <2>1. ~(y.tag < x.tag)
    BY <1>1
  <2> QED
    BY <2>1 DEF Corresponds
<1>3. y.pc = x.pc
  BY <1>2 DEF Becomes, IsFlight
<1>4. ASSUME NEW e \in E, e.tag < x.tag PROVE \E f \in E2 : Becomes(e, f, w, res)
  <2>1. ~(y.tag < e.tag)
    BY <1>1, <1>4
  <2> QED
    BY <2>1 DEF Corresponds
<1>5. ASSUME NEW f \in E2, f.tag < x.tag PROVE \E e \in E : Becomes(e, f, w, res)
  <2>1. ~(x.tag < f.tag)
    BY <1>1, <1>5
  <2> QED
    BY <2>1 DEF Corresponds
<1>6. Moves(E, E2, x.tag, w, res)
  BY <1>4, <1>5 DEF Moves
<1> QED
  BY <1>3, <1>6, GivenMoves

\* Nobody waits for an instruction that writes no register.
LEMMA NobodyWaits ==
  ASSUME NEW E, IsFlight(E), NEW g, NEW l, NEW s, NEW E2, NEW g2, NEW l2, NEW s2,
         NEW o \in E, NEW res, Stays(E, g, l, s, E2, g2, l2, s2, o.tag, res),
         ~writes_register(o.op)
  PROVE  Stays(E, g, l, s, E2, g2, l2, s2, NoTag, res)
<1>1. \A e \in E : e.tag # NoTag
  BY DEF IsFlight, NoTag
<1>2. \A e \in E : e.tag = o.tag => e = o
  BY DEF IsFlight
<1>3. \A t \in RegType : \A r : IsRead(t, r) => ~R!Names(o, t, r)
  BY DestinationsAgree DEF R!Names, writes_register, IsRead, RegType
<1>4. o.op \notin VSet
  BY DEF writes_register, dst_type, VSet
<1>5. ASSUME NEW tag, NEW t \in RegType, NEW r, NEW Q \in Awaited(E, tag, t, r)
      PROVE  Q # NoTag /\ Q # o.tag
  <2>1. IsRead(t, r)
    BY <1>5 DEF Awaited
  <2>2. PICK e \in Writers(E, tag, t, r) : Q = e.tag
    BY <2>1 DEF Awaited, Youngest
  <2>3. e \in E /\ R!Names(e, t, r)
    BY DEF Writers
  <2> QED
    BY <1>1, <1>2, <1>3, <2>1, <2>2, <2>3
<1>6. ASSUME NEW tag, NEW Q \in AwaitedConfig(E, tag) PROVE Q # NoTag /\ Q # o.tag
  <2>1. PICK e \in Setters(E, tag) : Q = e.tag
    BY DEF AwaitedConfig, Youngest
  <2>2. e \in E /\ e.op \in VSet
    BY DEF Setters
  <2> QED
    BY <1>1, <1>2, <1>4, <2>1, <2>2
<1>7. ASSUME NEW tag, AwaitedStill(E, E2, g2, l2, s2, tag, o.tag, res)
      PROVE  AwaitedStill(E, E2, g2, l2, s2, tag, NoTag, res)
  BY <1>5, <1>6, <1>7 DEF AwaitedStill
<1> QED
  BY <1>7 DEF Stays

\* The paths of ps2 hold nothing that those of ps do not, nor does the queue q2.
HoldsNoMore(ps, ps2) ==
  \A t \in ExecType :
    /\ \A j \in DOMAIN ps2[t].stations :
         j \in DOMAIN ps[t].stations /\ ps2[t].stations[j] = ps[t].stations[j]
    /\ ps2[t].units \subseteq ps[t].units
    /\ ps2[t].completed \subseteq ps[t].completed
QueuesNoMore(q, q2) == \A j \in DOMAIN q2 : \E i \in DOMAIN q : q2[j] = q[i]
\* And the ready entries are the same.
ReadyBefore(E, E2) ==
  \A y \in E2 : y.ready =>
    \E x \in E : x.tag = y.tag /\ x.ready /\ x.op = y.op /\ x.result = y.result

\* Nothing new comes: what is there stays right.
LEMMA DataStays ==
  ASSUME NEW E, NEW g, NEW l, NEW s, NEW E2, NEW g2, NEW l2, NEW s2, NEW res,
         Stays(E, g, l, s, E2, g2, l2, s2, NoTag, res), NEW p, Coded(E, p),
         NEW ps, NEW q, NEW ps2, NEW q2,
         DataOK(E, g, l, s, p, ps, q), AllKnown(E, ps, q),
         HoldsNoMore(ps, ps2), QueuesNoMore(q, q2), ReadyBefore(E, E2)
  PROVE  DataOK(E2, g2, l2, s2, p, ps2, q2)
<1>1. StationsData(E2, g2, l2, s2, p, ps2)
  <2> SUFFICES ASSUME NEW t \in ExecType, NEW i \in DOMAIN ps2[t].stations, NEW y \in E2,
                      y.tag = ps2[t].stations[i].tag
               PROVE  StationData(E2, g2, l2, s2, p, y, ps2[t].stations[i])
    BY DEF StationsData
  <2> DEFINE e == ps2[t].stations[i]
  <2>1. i \in DOMAIN ps[t].stations /\ e = ps[t].stations[i]
    BY DEF HoldsNoMore
  <2>2. PICK x \in E : x.tag = e.tag
    BY <2>1 DEF AllKnown, Known
  <2>3. StationData(E, g, l, s, p, x, e) /\ StationOK(e) /\ Instr(p, x.pc) \in Instruction
    BY <2>1, <2>2 DEF DataOK, StationsData, AllKnown, Coded
  <2> HIDE DEF e
  <2>4. x.tag = y.tag
    BY <2>2 DEF e
  <2>5. StationData(E2, g2, l2, s2, p, y, e)
    BY <2>3, <2>4, StationStays
  <2> QED
    BY <2>5 DEF e
<1>2. UnitsData(E2, g2, l2, s2, p, ps2)
  <2> SUFFICES ASSUME NEW t \in ExecType, NEW u \in ps2[t].units, NEW y \in E2,
                      y.tag = u.rs.tag
               PROVE  UnitData(E2, g2, l2, s2, p, y, u.rs)
    BY DEF UnitsData
  <2>1. u \in ps[t].units
    BY DEF HoldsNoMore
  <2>2. PICK x \in E : x.tag = u.rs.tag
    BY <2>1 DEF AllKnown, Known
  <2>3. UnitData(E, g, l, s, p, x, u.rs) /\ Instr(p, x.pc) \in Instruction
    BY <2>1, <2>2 DEF DataOK, UnitsData, Coded
  <2>4. x.tag = y.tag
    BY <2>2
  <2> QED
    BY <2>3, <2>4, UnitStays
<1>3. ResultsData(E2, g2, l2, s2, p, ps2)
  <2> SUFFICES ASSUME NEW t \in ExecType \ {"LOADSTORE"}, NEW c \in ps2[t].completed,
                      NEW y \in E2, y.tag = c.tag
               PROVE  Computed(E2, g2, l2, s2, p, y, c.result)
    BY DEF ResultsData
  <2>1. c \in ps[t].completed
    BY DEF HoldsNoMore
  <2>2. PICK x \in E : x.tag = c.tag
    BY <2>1 DEF AllKnown, Known
  <2>3. Computed(E, g, l, s, p, x, c.result) /\ Instr(p, x.pc) \in Instruction
    BY <2>1, <2>2 DEF DataOK, ResultsData, Coded
  <2>4. x.tag = y.tag
    BY <2>2
  <2> QED
    BY <2>3, <2>4, ResultStays
<1>4. ReadyData(E2, g2, l2, s2, p)
  <2> SUFFICES ASSUME NEW y \in E2, y.ready, ~IsAccess(y.op)
               PROVE  Computed(E2, g2, l2, s2, p, y, y.result)
    BY DEF ReadyData
  <2>1. PICK x \in E : x.tag = y.tag /\ x.ready /\ x.op = y.op /\ x.result = y.result
    BY DEF ReadyBefore
  <2>2. Computed(E, g, l, s, p, x, y.result) /\ Instr(p, x.pc) \in Instruction
    BY <2>1 DEF DataOK, ReadyData, Coded
  <2> QED
    BY <2>1, <2>2, ResultStays
<1>5. AccessesData(E2, g2, l2, s2, p, q2)
  <2> SUFFICES ASSUME NEW j \in DOMAIN q2, NEW y \in E2, y.tag = q2[j].tag
               PROVE  AccessData(E2, g2, l2, s2, p, y, q2[j])
    BY DEF AccessesData
  <2>1. PICK i \in DOMAIN q : q2[j] = q[i]
    BY DEF QueuesNoMore
  <2>2. PICK x \in E : x.tag = q[i].tag
    BY <2>1 DEF AllKnown, Known
  <2>3. AccessData(E, g, l, s, p, x, q2[j]) /\ Instr(p, x.pc) \in Instruction
    BY <2>1, <2>2 DEF DataOK, AccessesData, Coded
  <2>4. x.tag = y.tag
    BY <2>1, <2>2
  <2> QED
    BY <2>3, <2>4, AccessStays
<1>6. BroughtData(E2, ps2, q2)
  <2>1. "LOADSTORE" \in ExecType
    BY DEF ExecType
  <2>2. ASSUME NEW c \in ps2["LOADSTORE"].completed, NEW j \in DOMAIN q2, q2[j].tag = c.tag
        PROVE  q2[j].done /\ c.result.value = q2[j].V
    <3>1. c \in ps["LOADSTORE"].completed
      BY <2>1 DEF HoldsNoMore
    <3>2. PICK i \in DOMAIN q : q2[j] = q[i]
      BY DEF QueuesNoMore
    <3> QED
      BY <2>2, <3>1, <3>2 DEF DataOK, BroughtData
  <2>3. ASSUME NEW j \in DOMAIN q2, NEW y \in E2, y.tag = q2[j].tag, y.ready
        PROVE  q2[j].done /\ y.result.value = q2[j].V
    <3>1. PICK x \in E : x.tag = y.tag /\ x.ready /\ x.op = y.op /\ x.result = y.result
      BY <2>3 DEF ReadyBefore
    <3>2. PICK i \in DOMAIN q : q2[j] = q[i]
      BY DEF QueuesNoMore
    <3> QED
      BY <2>3, <3>1, <3>2 DEF DataOK, BroughtData
  <2>4. ASSUME NEW j \in DOMAIN q2, q2[j].done PROVE Normal(q2[j].op, q2[j].V)
    <3>2. PICK i \in DOMAIN q : q2[j] = q[i]
      BY DEF QueuesNoMore
    <3> QED
      BY <2>4, <3>2 DEF DataOK, BroughtData
  <2> QED
    BY <2>2, <2>3, <2>4 DEF BroughtData
<1> QED
  BY <1>1, <1>2, <1>3, <1>4, <1>5, <1>6 DEF DataOK

-----------------------------------------------------------------------------
\* The paths ps2 and queue q2 are ps and q when result x has been taken and broadcast.
PathsWoken(ps, ps2, x) ==
  \A t \in ExecType :
    /\ DOMAIN ps2[t].stations = DOMAIN ps[t].stations
    /\ \A j \in DOMAIN ps[t].stations :
         ps2[t].stations[j] = IF writes_register(x.op) THEN P!Wake(ps[t].stations[j], x)
                              ELSE ps[t].stations[j]
    /\ ps2[t].units = ps[t].units
    /\ ps2[t].completed \subseteq ps[t].completed
QueueWoken(q, q2, x) ==
  /\ DOMAIN q2 = DOMAIN q
  /\ \A j \in DOMAIN q :
       q2[j] = IF writes_register(x.op) /\ ~q[j].done /\ q[j].op \in Store /\ q[j].Q = x.tag
                 THEN [q[j] EXCEPT !.Q = NoTag, !.V = x.result.value] ELSE q[j]
ReadyWith(E, E2, x) ==
  \A y \in E2 : y.ready =>
    \/ y.tag = x.tag /\ y.op = x.op /\ y.result = x.result
    \/ \E e \in E : e.tag = y.tag /\ e.ready /\ e.op = y.op /\ e.result = y.result

\* An entry of the queue, when result x has come.
LEMMA WokenAccess ==
  ASSUME NEW q, NEW q2, NEW x, QueueWoken(q, q2, x), NEW j \in DOMAIN q, AccessOK(q[j]),
         x.tag # NoTag
  PROVE  /\ q2[j].op = q[j].op /\ q2[j].tag = q[j].tag /\ q2[j].Qa = q[j].Qa
         /\ q2[j].Va = q[j].Va /\ q2[j].vl = q[j].vl /\ q2[j].done = q[j].done
         /\ q[j].done => q2[j].V = q[j].V
         /\ q[j].op \in Store =>
              IF writes_register(x.op) /\ q[j].Q = x.tag
                THEN q2[j].Q = NoTag /\ q2[j].V = x.result.value
                ELSE q2[j].Q = q[j].Q /\ q2[j].V = q[j].V
<1> DEFINE a == q[j]
           b == q2[j]
           c == writes_register(x.op) /\ ~a.done /\ a.op \in Store /\ a.Q = x.tag
<1>1. b = IF c THEN [a EXCEPT !.Q = NoTag, !.V = x.result.value] ELSE a
  BY DEF QueueWoken
<1>2. a \in AnAccess /\ (a.Q # NoTag => ~a.done)
  BY DEF AccessOK
<1>3. CASE c
  <2>1. b = [a EXCEPT !.Q = NoTag, !.V = x.result.value]
    BY <1>1, <1>3
  <2> HIDE DEF b
  <2> QED
    BY <1>2, <1>3, <2>1 DEF AnAccess, b
<1>4. CASE ~c
  <2>1. b = a
    BY <1>1, <1>4
  <2> QED
    BY <1>2, <1>4, <2>1
<1> QED
  BY <1>3, <1>4

\* A result reaches the re-order buffer and those who wait for it.
LEMMA DataWoken ==
  ASSUME NEW E, IsFlight(E), NEW g, NEW l, NEW s, NEW E2, NEW x, ResultIn(x),
         NEW o \in E, o.tag = x.tag, o.op = x.op,
         Stays(E, g, l, s, E2, g, l, s, x.tag, x.result), NEW p, Coded(E, p),
         NEW ps, NEW q, NEW ps2, NEW q2,
         DataOK(E, g, l, s, p, ps, q), AllKnown(E, ps, q),
         NEW tx \in ExecType, x \in ps[tx].completed, tx = "LOADSTORE" <=> IsAccess(x.op),
         PathsWoken(ps, ps2, x), QueueWoken(q, q2, x), ReadyWith(E, E2, x),
         \A i \in DOMAIN q : AccessOK(q[i]) /\ (q[i].tag = x.tag => IsAccess(x.op))
  PROVE  DataOK(E2, g, l, s, p, ps2, q2)
<1> DEFINE v == IF writes_register(x.op) THEN x.tag ELSE NoTag
           res == x.result
<1>1. Stays(E, g, l, s, E2, g, l, s, v, res)
  <2>1. CASE writes_register(x.op)
    BY <2>1
  <2>2. CASE ~writes_register(x.op)
    <3>1. Stays(E, g, l, s, E2, g, l, s, o.tag, res) /\ ~writes_register(o.op)
      BY <2>2
    <3>2. Stays(E, g, l, s, E2, g, l, s, NoTag, res)
      BY <3>1, NobodyWaits
    <3> QED
      BY <2>2, <3>2
  <2> QED
    BY <2>1, <2>2
<1>2. x.tag # NoTag
  BY DEF ResultIn, NoTag
<1>3. StationsData(E2, g, l, s, p, ps2)
  <2> SUFFICES ASSUME NEW t \in ExecType, NEW i \in DOMAIN ps2[t].stations, NEW y \in E2,
                      y.tag = ps2[t].stations[i].tag
               PROVE  StationData(E2, g, l, s, p, y, ps2[t].stations[i])
    BY DEF StationsData
  <2> DEFINE e == ps[t].stations[i]
             f == ps2[t].stations[i]
  <2>1. i \in DOMAIN ps[t].stations
        /\ f = IF writes_register(x.op) THEN P!Wake(e, x) ELSE e
    BY DEF PathsWoken
  <2>2. StationOK(e)
    BY <2>1 DEF AllKnown
  <2>3. f.tag = e.tag
    BY <2>1, <2>2, WokenEntry
  <2>4. PICK z \in E : z.tag = e.tag
    BY <2>1 DEF AllKnown, Known
  <2>5. StationData(E, g, l, s, p, z, e) /\ Instr(p, z.pc) \in Instruction
    BY <2>1, <2>4 DEF DataOK, StationsData, Coded
  <2>6. z.tag = y.tag
    BY <2>3, <2>4
  <2> HIDE DEF e, f, res, v
  <2>7. /\ v = NoTag => StationData(E2, g, l, s, p, y, e)
        /\ \A a : ResultIn(a) /\ a.tag = v /\ a.result = res =>
             StationData(E2, g, l, s, p, y, P!Wake(e, a))
    BY <1>1, <2>2, <2>5, <2>6, StationStays
  <2>8. StationData(E2, g, l, s, p, y, f)
    BY <2>1, <2>7 DEF v, res
  <2> QED
    BY <2>8 DEF f
<1>4. UnitsData(E2, g, l, s, p, ps2)
  <2> SUFFICES ASSUME NEW t \in ExecType, NEW u \in ps2[t].units, NEW y \in E2,
                      y.tag = u.rs.tag
               PROVE  UnitData(E2, g, l, s, p, y, u.rs)
    BY DEF UnitsData
  <2>1. u \in ps[t].units
    BY DEF PathsWoken
  <2>2. PICK z \in E : z.tag = u.rs.tag
    BY <2>1 DEF AllKnown, Known
  <2>3. UnitData(E, g, l, s, p, z, u.rs) /\ Instr(p, z.pc) \in Instruction
    BY <2>1, <2>2 DEF DataOK, UnitsData, Coded
  <2>4. z.tag = y.tag
    BY <2>2
  <2> HIDE DEF v, res
  <2> QED
    BY <1>1, <2>3, <2>4, UnitStays
<1>5. ResultsData(E2, g, l, s, p, ps2)
  <2> SUFFICES ASSUME NEW t \in ExecType \ {"LOADSTORE"}, NEW c \in ps2[t].completed,
                      NEW y \in E2, y.tag = c.tag
               PROVE  Computed(E2, g, l, s, p, y, c.result)
    BY DEF ResultsData
  <2>1. c \in ps[t].completed
    BY DEF PathsWoken
  <2>2. PICK z \in E : z.tag = c.tag
    BY <2>1 DEF AllKnown, Known
  <2>3. Computed(E, g, l, s, p, z, c.result) /\ Instr(p, z.pc) \in Instruction
    BY <2>1, <2>2 DEF DataOK, ResultsData, Coded
  <2>4. z.tag = y.tag
    BY <2>2
  <2> HIDE DEF v, res
  <2> QED
    BY <1>1, <2>3, <2>4, ResultStays
<1>6. ReadyData(E2, g, l, s, p)
  <2> SUFFICES ASSUME NEW y \in E2, y.ready, ~IsAccess(y.op)
               PROVE  Computed(E2, g, l, s, p, y, y.result)
    BY DEF ReadyData
  <2>1. CASE \E z \in E : z.tag = y.tag /\ z.ready /\ z.op = y.op /\ z.result = y.result
    <3>1. PICK z \in E : z.tag = y.tag /\ z.ready /\ z.op = y.op /\ z.result = y.result
      BY <2>1
    <3>2. Computed(E, g, l, s, p, z, y.result) /\ Instr(p, z.pc) \in Instruction
      BY <3>1 DEF DataOK, ReadyData, Coded
    <3> HIDE DEF v, res
    <3> QED
      BY <1>1, <3>1, <3>2, ResultStays
  <2>2. CASE y.tag = x.tag /\ y.op = x.op /\ y.result = x.result
    <3>1. tx \in ExecType \ {"LOADSTORE"}
      BY <2>2
    <3>2. Computed(E, g, l, s, p, o, y.result) /\ Instr(p, o.pc) \in Instruction
      BY <2>2, <3>1 DEF DataOK, ResultsData, Coded
    <3>3. o.tag = y.tag
      BY <2>2
    <3> HIDE DEF v, res
    <3> QED
      BY <1>1, <3>2, <3>3, ResultStays
  <2> QED
    BY <2>1, <2>2 DEF ReadyWith
<1>7. AccessesData(E2, g, l, s, p, q2)
  <2> SUFFICES ASSUME NEW j \in DOMAIN q, NEW y \in E2, y.tag = q2[j].tag
               PROVE  AccessData(E2, g, l, s, p, y, q2[j])
    BY DEF AccessesData, QueueWoken
  <2> DEFINE a == q[j]
             b == q2[j]
  <2>1. /\ b.op = a.op /\ b.tag = a.tag /\ b.Qa = a.Qa /\ b.Va = a.Va /\ b.vl = a.vl
        /\ a.op \in Store =>
             IF writes_register(x.op) /\ a.Q = x.tag
               THEN b.Q = NoTag /\ b.V = x.result.value
               ELSE b.Q = a.Q /\ b.V = a.V
    BY <1>2, WokenAccess
  <2>2. PICK z \in E : z.tag = a.tag
    BY DEF AllKnown, Known
  <2>3. AccessData(E, g, l, s, p, z, a) /\ Instr(p, z.pc) \in Instruction
    BY <2>2 DEF DataOK, AccessesData, Coded
  <2>4. z.tag = y.tag
    BY <2>1, <2>2
  <2>5. a.op \in Store => IF a.Q = v /\ v # NoTag THEN b.Q = NoTag /\ b.V = res.value
                          ELSE b.Q = a.Q /\ b.V = a.V
    BY <1>2, <2>1
  <2> HIDE DEF a, b, v, res
  <2>6. AccessData(E2, g, l, s, p, y, b)
    BY <1>1, <2>1, <2>3, <2>4, <2>5, AccessStays
  <2> QED
    BY <2>6 DEF b
<1>8. BroughtData(E2, ps2, q2)
  <2>1. "LOADSTORE" \in ExecType /\ DOMAIN q2 = DOMAIN q
    BY DEF ExecType, QueueWoken
  <2>2. ASSUME NEW j \in DOMAIN q
        PROVE  /\ q2[j].op = q[j].op /\ q2[j].tag = q[j].tag /\ q2[j].done = q[j].done
               /\ q[j].done => q2[j].V = q[j].V
    BY <1>2, WokenAccess
  <2>3. ASSUME NEW c \in ps2["LOADSTORE"].completed, NEW j \in DOMAIN q2, q2[j].tag = c.tag
        PROVE  q2[j].done /\ c.result.value = q2[j].V
    <3>1. c \in ps["LOADSTORE"].completed
      BY <2>1 DEF PathsWoken
    <3> QED
      BY <2>1, <2>2, <2>3, <3>1 DEF DataOK, BroughtData
  <2>4. ASSUME NEW j \in DOMAIN q2, NEW y \in E2, y.tag = q2[j].tag, y.ready
        PROVE  q2[j].done /\ y.result.value = q2[j].V
    <3>1. CASE \E z \in E : z.tag = y.tag /\ z.ready /\ z.op = y.op /\ z.result = y.result
      BY <2>1, <2>2, <2>4, <3>1 DEF DataOK, BroughtData
    <3>2. CASE y.tag = x.tag /\ y.op = x.op /\ y.result = x.result
      <4>1. q[j].tag = x.tag
        BY <2>1, <2>2, <2>4, <3>2
      <4>2. tx = "LOADSTORE" => q[j].done /\ x.result.value = q[j].V
        BY <2>1, <4>1 DEF DataOK, BroughtData
      <4>3. tx = "LOADSTORE"
        BY <2>1, <4>1
      <4> QED
        BY <2>1, <2>2, <3>2, <4>2, <4>3
    <3> QED
      BY <2>4, <3>1, <3>2 DEF ReadyWith
  <2>5. ASSUME NEW j \in DOMAIN q2, q2[j].done PROVE Normal(q2[j].op, q2[j].V)
    <3>1. q[j].done /\ q2[j].V = q[j].V /\ q2[j].op = q[j].op /\ j \in DOMAIN q
      BY <2>1, <2>2, <2>5
    <3> QED
      BY <3>1 DEF DataOK, BroughtData
  <2> QED
    BY <2>3, <2>4, <2>5 DEF BroughtData
<1> QED
  BY <1>3, <1>4, <1>5, <1>6, <1>7, <1>8 DEF DataOK

-----------------------------------------------------------------------------
(* The instructions in flight are the program's, one after the other.      *)

\* Entry d of the decode queue is instruction d.pc of the program.
InProgram(p, d) ==
  /\ d.pc + WORD_BYTES <= WORD_BYTES * Len(p)
  /\ LET i == Instr(p, d.pc)
     IN  /\ d.op = i.op /\ d.rd = i.rd /\ d.rs1 = i.rs1 /\ d.rs2 = i.rs2 /\ d.rs3 = i.rs3
         /\ d.imm = i.imm /\ d.rm = i.rm /\ d.sew = i.sew
  /\ d.op \notin Ctrl => d.pred_target = ToWord(d.pc + WORD_BYTES)

IssuedFrom(p, e) ==
  /\ e.pc + WORD_BYTES <= WORD_BYTES * Len(p)
  /\ e.op = Instr(p, e.pc).op /\ e.rd = Instr(p, e.pc).rd
  /\ e.op \notin Ctrl => ~e.ctrl_handled /\ e.pred_target = ToWord(e.pc + WORD_BYTES)

\* The address of what is behind entry e of the re-order buffer.
Successor(e) == IF e.ctrl_handled THEN ToWord(R!Target(e)) ELSE e.pred_target

FetchPc(f, a) == IF f # <<>> THEN f[1] ELSE a
DecodePc(d, f, a) == IF d # <<>> THEN d[1].pc ELSE FetchPc(f, a)

\* Each leads to the next, and the last to n.
RobLinks(r, n) ==
  \A i \in DOMAIN r : Successor(r[i]) = IF i = Len(r) THEN n ELSE r[i+1].pc
DecodeLinks(d, n) ==
  \A i \in DOMAIN d : d[i].pred_target = IF i = Len(d) THEN n ELSE d[i+1].pc
FetchLinks(f, n) ==
  \A i \in DOMAIN f : ToWord(f[i] + WORD_BYTES) = IF i = Len(f) THEN n ELSE f[i+1]

AllIssued(p, r) == \A i \in DOMAIN r : IssuedFrom(p, r[i])
AllDecoded(p, d) == \A i \in DOMAIN d : InProgram(p, d[i])

Chain(p, r, d, f, a) ==
  /\ AllIssued(p, r) /\ AllDecoded(p, d)
  /\ RobLinks(r, DecodePc(d, f, a)) /\ DecodeLinks(d, FetchPc(f, a)) /\ FetchLinks(f, a)
ChainOK == Chain(program, rob, decode_q, fetch_q, pc)

\* The address of the oldest instruction there is.
OldestPc(r, n) == IF r # <<>> THEN r[1].pc ELSE n

\* The oldest leaves: what it leads to is the oldest now.
LEMMA ChainRetires ==
  ASSUME NEW E, NEW r \in Seq(E), Tagged(r), r # <<>>, NEW p, AllIssued(p, r),
         NEW n, RobLinks(r, n)
  PROVE  /\ AllIssued(p, Tail(r)) /\ RobLinks(Tail(r), n)
         /\ OldestPc(Tail(r), n) = Successor(r[1])
<1> DEFINE t == Tail(r)
<1>1. /\ 1 \in DOMAIN r /\ t \in Seq(E) /\ Len(t) = Len(r) - 1 /\ Tagged(t)
      /\ \A i \in DOMAIN t : i + 1 \in DOMAIN r /\ t[i] = r[i + 1]
  BY TailOf
<1>2. DOMAIN t = 1..Len(t) /\ DOMAIN r = 1..Len(r) /\ Len(r) \in Nat /\ Len(t) \in Nat
  BY <1>1 DEF Tagged
<1>3. t = <<>> <=> Len(t) = 0
  BY <1>1, EmptySeq
<1> HIDE DEF t
<1>4. AllIssued(p, t)
  BY <1>1 DEF AllIssued
<1>5. RobLinks(t, n)
  <2> SUFFICES ASSUME NEW i \in DOMAIN t
               PROVE  Successor(t[i]) = IF i = Len(t) THEN n ELSE t[i+1].pc
    BY DEF RobLinks
  <2>1. Successor(r[i+1]) = IF i + 1 = Len(r) THEN n ELSE r[i+2].pc
    <3>1. i \in Int
      BY <1>2
    <3>2. (i + 1) + 1 = i + 2
      BY <3>1
    <3> QED
      BY <1>1, <3>2 DEF RobLinks
  <2>2. i # Len(t) => i + 1 \in DOMAIN t /\ (i + 1) + 1 = i + 2
    BY <1>2
  <2>3. i + 1 = Len(r) <=> i = Len(t)
    BY <1>1, <1>2
  <2> QED
    BY <1>1, <2>1, <2>2, <2>3
<1>6. OldestPc(t, n) = Successor(r[1])
  <2>1. Successor(r[1]) = IF 1 = Len(r) THEN n ELSE r[1+1].pc
    BY <1>1 DEF RobLinks
  <2>2. CASE Len(t) = 0
    BY <1>1, <1>2, <1>3, <2>1, <2>2 DEF OldestPc
  <2>3. CASE Len(t) # 0
    <3>1. 1 \in DOMAIN t /\ Len(r) # 1
      BY <1>1, <1>2, <2>3
    <3> QED
      BY <1>1, <1>3, <2>1, <2>3, <3>1 DEF OldestPc
  <2> QED
    BY <2>2, <2>3
<1> QED
  BY <1>4, <1>5, <1>6 DEF t

\* Entries change in what does not matter here.
LEMMA ChainSame ==
  ASSUME NEW r, NEW w, DOMAIN w = DOMAIN r, Len(w) = Len(r), w = <<>> <=> r = <<>>,
         \A i \in DOMAIN r : w[i].pc = r[i].pc /\ Successor(w[i]) = Successor(r[i]),
         NEW p, AllIssued(p, r), \A i \in DOMAIN r : IssuedFrom(p, r[i]) => IssuedFrom(p, w[i]),
         Tagged(r), NEW n, RobLinks(r, n)
  PROVE  AllIssued(p, w) /\ RobLinks(w, n) /\ OldestPc(w, n) = OldestPc(r, n)
<1>1. DOMAIN r = 1..Len(r) /\ Len(r) \in Nat
  BY DEF Tagged
<1>2. RobLinks(w, n)
  <2> SUFFICES ASSUME NEW i \in DOMAIN r
               PROVE  Successor(w[i]) = IF i = Len(r) THEN n ELSE w[i+1].pc
    BY DEF RobLinks
  <2>1. i # Len(r) => i + 1 \in DOMAIN r
    BY <1>1
  <2> QED
    BY <2>1 DEF RobLinks
<1>3. OldestPc(w, n) = OldestPc(r, n)
  <2>1. CASE r = <<>>
    BY <2>1 DEF OldestPc
  <2>2. CASE r # <<>>
    <3>1. 1 \in DOMAIN r \/ DOMAIN r = {}
      BY <1>1
    <3>2. r[1] = r[1]
      OBVIOUS
    <3> QED
      BY <2>2, <3>1 DEF OldestPc
  <2> QED
    BY <2>1, <2>2
<1> QED
  BY <1>2, <1>3 DEF AllIssued

\* Another enters behind the youngest.
LEMMA ChainGrows ==
  ASSUME NEW r, Tagged(r), NEW e, NEW w, DOMAIN w = DOMAIN r \cup {Len(r) + 1},
         Len(w) = Len(r) + 1, \A i \in DOMAIN r : w[i] = r[i], w[Len(r) + 1] = e,
         r = <<>> => Len(r) = 0, w # <<>>,
         NEW p, AllIssued(p, r), IssuedFrom(p, e), RobLinks(r, e.pc)
  PROVE  AllIssued(p, w) /\ RobLinks(w, Successor(e)) /\ OldestPc(w, Successor(e)) = OldestPc(r, e.pc)
<1>1. DOMAIN r = 1..Len(r) /\ Len(r) \in Nat
  BY DEF Tagged
<1>2. RobLinks(w, Successor(e))
  <2> SUFFICES ASSUME NEW i \in DOMAIN w
               PROVE  Successor(w[i]) = IF i = Len(w) THEN Successor(e) ELSE w[i+1].pc
    BY DEF RobLinks
  <2>1. CASE i = Len(r) + 1
    BY <2>1
  <2>2. CASE i # Len(r) + 1
    <3>1. i \in DOMAIN r /\ i # Len(w)
      BY <2>2
    <3>2. Successor(r[i]) = IF i = Len(r) THEN e.pc ELSE r[i+1].pc
      BY <3>1 DEF RobLinks
    <3>3. i # Len(r) => i + 1 \in DOMAIN r
      BY <1>1, <3>1
    <3> QED
      BY <3>1, <3>2, <3>3
  <2> QED
    BY <2>1, <2>2
<1>3. AllIssued(p, w)
  BY DEF AllIssued
<1>4. OldestPc(w, Successor(e)) = OldestPc(r, e.pc)
  <2>1. CASE r = <<>>
    BY <2>1 DEF OldestPc
  <2>2. CASE r # <<>>
    <3>1. CASE 1 \in DOMAIN r
      BY <2>2, <3>1 DEF OldestPc
    <3>2. CASE 1 \notin DOMAIN r
      <4>1. Len(r) = 0
        BY <1>1, <3>2
      <4>2. DOMAIN r = {} /\ r = <<>>
        BY <1>1, <4>1
      <4> QED
        BY <2>2, <4>2
    <3> QED
      BY <3>1, <3>2
  <2> QED
    BY <2>1, <2>2
<1> QED
  BY <1>2, <1>3, <1>4

\* What is behind entry i is emptied.
LEMMA ChainCut ==
  ASSUME NEW r, Tagged(r), NEW i \in DOMAIN r, NEW w, Len(w) = i, DOMAIN w = 1..i,
         \A j \in 1..(i-1) : w[j] = r[j], w[i].pc = r[i].pc,
         r # <<>>, w # <<>>,
         NEW p, AllIssued(p, r), IssuedFrom(p, w[i]), NEW n, RobLinks(r, n)
  PROVE  /\ AllIssued(p, w) /\ RobLinks(w, Successor(w[i]))
         /\ OldestPc(w, Successor(w[i])) = OldestPc(r, n)
<1>1. DOMAIN r = 1..Len(r) /\ Len(r) \in Nat /\ i \in Nat /\ i # 0
  BY DEF Tagged
<1>2. RobLinks(w, Successor(w[i]))
  <2> SUFFICES ASSUME NEW j \in 1..i
               PROVE  Successor(w[j]) = IF j = i THEN Successor(w[i]) ELSE w[j+1].pc
    BY DEF RobLinks
  <2>1. CASE j = i
    BY <2>1
  <2>2. CASE j # i
    <3> DEFINE n0 == Len(r)
    <3>4. n0 \in Nat /\ i \in 1..n0 /\ j \in 1..i
      BY <1>1
    <3> HIDE DEF n0
    <3>5. j \in 1..(i-1) /\ j \in 1..n0 /\ j # n0
      BY <2>2, <3>4
    <3>1. j \in 1..(i-1) /\ j \in DOMAIN r /\ j # Len(r)
      BY <1>1, <3>5, Zenon DEF n0
    <3>2. Successor(w[j]) = r[j+1].pc
      BY <3>1 DEF RobLinks
    <3>3. j + 1 = i \/ j + 1 \in 1..(i-1)
      BY <2>2, <3>4
    <3> QED
      BY <2>2, <3>2, <3>3
  <2> QED
    BY <2>1, <2>2
<1>3. AllIssued(p, w)
  <2>1. \A j \in 1..i : j = i \/ (j \in 1..(i-1) /\ j \in DOMAIN r)
    BY <1>1
  <2> QED
    BY <2>1 DEF AllIssued
<1>4. w[1].pc = r[1].pc
  <2>1. 1 = i \/ 1 \in 1..(i-1)
    BY <1>1
  <2> QED
    BY <2>1
<1> QED
  BY <1>2, <1>3, <1>4 DEF OldestPc

\* The address the next instruction to commit has, in these terms.
LEMMA NextPcMeans ==
  /\ NextPc = OldestPc(rob, DecodePc(decode_q, fetch_q, pc))
  /\ NextPc' = OldestPc(rob', DecodePc(decode_q', fetch_q', pc'))
BY DEF NextPc, OldestPc, DecodePc, FetchPc

ChainKept == ChainOK' /\ NextPc' = NextPc

\* A step that touches none of the queues keeps the order.
LEMMA ChainUnchanged ==
  ASSUME ChainOK, UNCHANGED <<program, rob, decode_q, fetch_q, pc>>
  PROVE  ChainKept
<1>1. ChainOK'
  BY DEF ChainOK
<1>2. NextPc' = NextPc
  BY NextPcMeans
<1> QED
  BY <1>1, <1>2 DEF ChainKept

\* A commit goes to the successor of the oldest instruction.
LEMMA ChainCommitOne ==
  ASSUME CpuInv, ChainOK, CommitOne
  PROVE  ChainOK' /\ NextPc' = Successor(rob[1])
<1>1. /\ rob # <<>> /\ rob' = Tail(rob) /\ program' = program /\ decode_q' = decode_q
      /\ fetch_q' = fetch_q /\ pc' = pc
  BY DEF CommitOne, R!Retire, CanCommit, inputVars, frontVars
<1>2. rob \in Seq(R!ROBEntry) /\ Tagged(rob)
  BY RobFacts DEF CpuInv
<1> DEFINE n == DecodePc(decode_q, fetch_q, pc)
<1>3. /\ AllIssued(program, Tail(rob)) /\ RobLinks(Tail(rob), n)
      /\ OldestPc(Tail(rob), n) = Successor(rob[1])
  <2>1. AllIssued(program, rob) /\ RobLinks(rob, n)
    BY DEF ChainOK, Chain
  <2> HIDE DEF n
  <2> QED
    BY <1>1, <1>2, <2>1, ChainRetires
<1>4. ChainOK'
  BY <1>1, <1>3 DEF ChainOK, Chain
<1>5. NextPc' = Successor(rob[1])
  BY <1>1, <1>3, NextPcMeans
<1> QED
  BY <1>4, <1>5

\* One entry becomes another of the same address that leads to the same.
LEMMA ChainReplaces ==
  ASSUME CpuInv, ChainOK, NEW i \in DOMAIN rob, NEW e, rob' \in Seq(R!ROBEntry),
         Replaces(rob', rob, i, e), UNCHANGED <<program, decode_q, fetch_q, pc>>,
         e.pc = rob[i].pc, Successor(e) = Successor(rob[i]),
         IssuedFrom(program, rob[i]) => IssuedFrom(program, e)
  PROVE  ChainKept
<1>1. rob \in Seq(R!ROBEntry) /\ Tagged(rob) /\ DOMAIN rob = 1..Len(rob) /\ Len(rob) \in Nat
  BY RobFacts DEF CpuInv
<1> DEFINE n == DecodePc(decode_q, fetch_q, pc)
<1>2. DOMAIN rob' = DOMAIN rob /\ Len(rob') = Len(rob) /\ (rob' = <<>> <=> rob = <<>>)
  <2>1. DOMAIN rob' = DOMAIN rob
    BY DEF Replaces
  <2>2. Len(rob') \in Nat /\ DOMAIN rob' = 1..Len(rob')
    BY LenProperties
  <2>3. Len(rob') = Len(rob)
    <3> DEFINE a == Len(rob')
               b == Len(rob)
    <3>1. a \in Nat /\ b \in Nat /\ 1..a = 1..b
      BY <1>1, <2>1, <2>2
    <3> HIDE DEF a, b
    <3>2. a \in 1..a \/ a = 0
      BY <3>1
    <3>3. b \in 1..b \/ b = 0
      BY <3>1
    <3>4. a <= b
      BY <3>1, <3>2
    <3>5. b <= a
      BY <3>1, <3>3
    <3>6. a = b
      BY <3>1, <3>4, <3>5
    <3> QED
      BY <3>6 DEF a, b
  <2> QED
    BY <1>1, <2>1, <2>3, EmptySeq
<1>3. \A j \in DOMAIN rob : /\ rob'[j].pc = rob[j].pc /\ Successor(rob'[j]) = Successor(rob[j])
                            /\ IssuedFrom(program, rob[j]) => IssuedFrom(program, rob'[j])
  BY DEF Replaces
<1>4. AllIssued(program, rob) /\ RobLinks(rob, n)
  BY DEF ChainOK, Chain
<1>5. AllIssued(program, rob') /\ RobLinks(rob', n) /\ OldestPc(rob', n) = OldestPc(rob, n)
  <2> HIDE DEF n
  <2> QED
    BY <1>1, <1>2, <1>3, <1>4, ChainSame
<1>6. ChainOK'
  BY <1>5 DEF ChainOK, Chain
<1>7. NextPc' = NextPc
  BY <1>5, NextPcMeans
<1> QED
  BY <1>6, <1>7 DEF ChainKept

\* A result does not change where an instruction leads before it is resolved.
LEMMA ChainWriteback ==
  ASSUME CpuInv, ChainOK, WritebackOne
  PROVE  ChainKept
<1>1. UNCHANGED <<program, decode_q, fetch_q, pc>>
  BY DEF WritebackOne, inputVars, frontVars
<1> DEFINE x == CHOOSE y \in Completed : \A z \in Completed : y.tag <= z.tag
<1>2. Completed # {}
  BY DEF WritebackOne
<1>3. x \in Completed /\ ResultIn(x) /\ Pending(rob, x.tag, x.op)
  BY <1>2, ChosenResult
<1>4. PICK i \in DOMAIN rob : rob[i].tag = x.tag /\ R!Update(i, x.result)
  <2>1. \E i \in DOMAIN rob : rob[i].tag = x.tag
    BY <1>3 DEF Pending
  <2> QED
    BY <2>1 DEF WritebackOne
<1> HIDE DEF x
<1>5. rob \in Seq(R!ROBEntry) /\ Tagged(rob) /\ rob[i] \in R!ROBEntry
  BY RobFacts DEF CpuInv
<1>6. ~rob[i].ready
  <2>1. PICK j \in DOMAIN rob : rob[j].tag = x.tag /\ ~rob[j].ready
    BY <1>3 DEF Pending
  <2>2. i = j
    BY <1>4, <1>5, <2>1, OneEntry
  <2> QED
    BY <2>1, <2>2
<1> DEFINE e == [rob[i] EXCEPT !.ready = TRUE, !.result = x.result]
<1>7. rob' = [rob EXCEPT ![i] = e]
  BY <1>4, <1>5 DEF R!Update
<1>8. Replaces(rob', rob, i, e)
  BY <1>5, <1>7, ReplacesExcept
<1>9. /\ e.pc = rob[i].pc /\ e.op = rob[i].op /\ e.rd = rob[i].rd /\ e.pred_target = rob[i].pred_target
      /\ e.ctrl_handled = rob[i].ctrl_handled
  BY <1>5 DEF R!ROBEntry
<1>10. ~rob[i].ctrl_handled
  <2>1. rob[i].op \notin Ctrl => ~rob[i].ctrl_handled
    BY DEF ChainOK, Chain, AllIssued, IssuedFrom
  <2>2. rob[i].op \in Ctrl /\ rob[i].ctrl_handled => rob[i].ready
    BY OperationsAgree DEF CpuInv, RenameInv, R!ResolvedInOrder
  <2> QED
    BY <1>6, <2>1, <2>2
<1> HIDE DEF e
<1>11. Successor(e) = Successor(rob[i])
  BY <1>9, <1>10 DEF Successor
<1>12. IssuedFrom(program, rob[i]) => IssuedFrom(program, e)
  BY <1>9 DEF IssuedFrom
<1>13. rob' \in Seq(R!ROBEntry)
  BY WritebackOneInv DEF CpuInv, RenameInv, R!RenameTypeOK
<1> QED
  BY <1>1, <1>8, <1>9, <1>11, <1>12, <1>13, ChainReplaces

\* A control instruction that is marked as handled leads where it went.
LEMMA ChainMarked ==
  ASSUME CpuInv, ChainOK, NEW i \in DOMAIN rob, R!Resolvable(i), NEW e,
         e = [rob[i] EXCEPT !.ctrl_handled = TRUE]
  PROVE  /\ e.pc = rob[i].pc /\ e.tag = rob[i].tag /\ e.op = rob[i].op /\ e.rd = rob[i].rd
         /\ e.ready = rob[i].ready /\ e.result = rob[i].result
         /\ Successor(e) = ToWord(R!Target(rob[i])) /\ ~rob[i].ctrl_handled
         /\ IssuedFrom(program, e)
<1>1. rob[i] \in R!ROBEntry /\ rob[i].op \in Ctrl /\ ~rob[i].ctrl_handled
  BY RobFacts, OperationsAgree DEF CpuInv, R!Resolvable
<1>2. /\ e.pc = rob[i].pc /\ e.tag = rob[i].tag /\ e.op = rob[i].op /\ e.rd = rob[i].rd
      /\ e.ready = rob[i].ready /\ e.result = rob[i].result /\ e.ctrl_handled
      /\ e.pred_target = rob[i].pred_target
  BY <1>1 DEF R!ROBEntry
<1>3. R!Target(e) = R!Target(rob[i])
  BY <1>2 DEF R!Target
<1>4. Successor(e) = ToWord(R!Target(rob[i]))
  BY <1>2, <1>3 DEF Successor
<1>5. IssuedFrom(program, rob[i])
  BY DEF ChainOK, Chain, AllIssued
<1>6. IssuedFrom(program, e)
  BY <1>1, <1>2, <1>5 DEF IssuedFrom
<1> QED
  BY <1>1, <1>2, <1>4, <1>6

\* A control instruction that was predicted leads where its result says.
LEMMA ChainResolve ==
  ASSUME CpuInv, ChainOK, ResolveOne
  PROVE  ChainKept
<1>1. UNCHANGED <<program, decode_q, fetch_q, pc>>
  BY DEF ResolveOne, inputVars, frontVars
<1>2. PICK i \in DOMAIN rob : R!Resolve(i)
  BY DEF ResolveOne
<1>3. R!Resolvable(i) /\ ~R!Mispredicted(rob[i]) /\ rob' = [rob EXCEPT ![i].ctrl_handled = TRUE]
  BY <1>2 DEF R!Resolve
<1> DEFINE e == [rob[i] EXCEPT !.ctrl_handled = TRUE]
<1>4. /\ e.pc = rob[i].pc /\ Successor(e) = ToWord(R!Target(rob[i])) /\ ~rob[i].ctrl_handled
      /\ IssuedFrom(program, e)
  BY <1>3, ChainMarked
<1>5. rob \in Seq(R!ROBEntry) /\ rob[i] \in R!ROBEntry
  BY RobFacts DEF CpuInv
<1>6. Replaces(rob', rob, i, e)
  <2>1. rob' = [rob EXCEPT ![i] = e]
    BY <1>3
  <2> QED
    BY <1>5, <2>1, ReplacesExcept
<1> HIDE DEF e
<1>7. R!Target(rob[i]) = rob[i].pred_target /\ rob[i].pred_target \in Word
  BY <1>3, <1>5 DEF R!Mispredicted, R!ROBEntry
<1>8. ToWord(rob[i].pred_target) = rob[i].pred_target
  BY <1>7, WordSizes DEF ToWord, Word
<1>9. Successor(rob[i]) = rob[i].pred_target
  BY <1>4 DEF Successor
<1>10. rob' \in Seq(R!ROBEntry)
  BY ResolveOneInv DEF CpuInv, RenameInv, R!RenameTypeOK
<1> QED
  BY <1>1, <1>4, <1>6, <1>7, <1>8, <1>9, <1>10, ChainReplaces

\* What a flush leaves of the re-order buffer: the entries up to the mispredicted one.
FlushedAt(i) ==
  /\ R!Resolvable(i) /\ R!Mispredict(i) /\ Train(rob[i]) /\ flush(rob[i].tag)
  /\ pc' = ToWord(R!Target(rob[i]))
  /\ rob' \in Seq(R!ROBEntry) /\ Tagged(rob')
  /\ Len(rob') = i /\ DOMAIN rob' = 1..i
  /\ \A j \in 1..(i-1) : rob'[j] = rob[j]
  /\ rob'[i] = [rob[i] EXCEPT !.ctrl_handled = TRUE]
  /\ i \in Nat \ {0} /\ i <= Len(rob)

\* A misprediction leaves the entries up to one of the control instructions.
LEMMA FlushLeaves ==
  ASSUME CpuInv, FlushMispredicted
  PROVE  \E i \in DOMAIN rob : FlushedAt(i)
<1>1. PICK i \in DOMAIN rob :
        /\ R!Mispredict(i) /\ Train(rob[i]) /\ flush(rob[i].tag)
        /\ pc' = ToWord(R!Target(rob[i]))
  BY DEF FlushMispredicted
<1> DEFINE tag == rob[i].tag
           q == [rob EXCEPT ![i].ctrl_handled = TRUE]
<1>2. /\ R!Resolvable(i) /\ rob[i].ready /\ rob' = FlushAfter(q, tag)
  BY <1>1, FlushesAgree DEF R!Mispredict, R!Resolvable
<1>3. /\ rob \in Seq(R!ROBEntry) /\ Tagged(rob) /\ tag \in Nat
      /\ rob[i] \in R!ROBEntry
  BY RobFacts DEF CpuInv
<1>4. /\ q \in Seq(R!ROBEntry) /\ Tagged(q) /\ DOMAIN q = DOMAIN rob
      /\ q[i].tag = tag /\ q[i].ctrl_handled
      /\ \A j \in DOMAIN rob : j # i => q[j] = rob[j]
  BY <1>2, Marked
<1>5. q[i] = [rob[i] EXCEPT !.ctrl_handled = TRUE]
  BY <1>3
<1> HIDE DEF q
<1>6. /\ rob' \in Seq(R!ROBEntry) /\ Tagged(rob')
      /\ \A j \in DOMAIN rob' : j \in DOMAIN q /\ q[j].tag <= tag /\ rob'[j] = q[j]
      /\ \A j \in DOMAIN q : q[j].tag <= tag => j \in DOMAIN rob' /\ rob'[j] = q[j]
  BY <1>2, <1>3, <1>4, Kept
<1>7. DOMAIN q = 1..Len(q) /\ Len(q) \in Nat /\ i \in Nat /\ i # 0 /\ i <= Len(q)
  BY <1>4 DEF Tagged
<1>8. \A j \in DOMAIN q : q[j].tag <= tag <=> j <= i
  <2> SUFFICES ASSUME NEW j \in DOMAIN q PROVE q[j].tag <= tag <=> j <= i
    OBVIOUS
  <2>1. q[j].tag \in Nat /\ q[i].tag \in Nat /\ i \in DOMAIN q
    BY <1>4 DEF Tagged
  <2>2. /\ i < j => q[i].tag < q[j].tag
        /\ j < i => q[j].tag < q[i].tag
    BY <1>4, <2>1 DEF Tagged, TagsGrow
  <2>3. i < j \/ j < i \/ i = j
    BY <1>7
  <2> QED
    BY <1>3, <1>4, <1>7, <2>1, <2>2, <2>3
<1>9. DOMAIN rob' = 1..i
  <2>1. \A j : j \in DOMAIN rob' <=> j \in DOMAIN q /\ j <= i
    BY <1>6, <1>8
  <2>2. \A j : j \in DOMAIN q /\ j <= i <=> j \in 1..i
    <3> DEFINE n == Len(q)
    <3>1. n \in Nat /\ i \in Nat /\ i <= n /\ DOMAIN q = 1..n
      BY <1>7
    <3> HIDE DEF n
    <3> QED
      BY <3>1
  <2> QED
    BY <2>1, <2>2
<1>10. Len(rob') = i
  <2>1. DOMAIN rob' = 1..Len(rob') /\ Len(rob') \in Nat
    BY <1>6 DEF Tagged
  <2> DEFINE n == Len(rob')
  <2>2. n \in Nat /\ i \in Nat /\ 1..n = 1..i /\ i # 0
    BY <1>7, <1>9, <2>1
  <2> HIDE DEF n
  <2>3. i \in 1..n
    BY <2>2
  <2>4. n \in 1..i
    BY <2>2, <2>3
  <2>5. n = i
    BY <2>2, <2>3, <2>4
  <2> QED
    BY <2>5 DEF n
<1>11. \A j \in 1..(i-1) : rob'[j] = rob[j]
  <2> SUFFICES ASSUME NEW j \in 1..(i-1) PROVE rob'[j] = rob[j]
    OBVIOUS
  <2>1. j \in 1..i /\ j # i
    BY <1>7
  <2> QED
    BY <1>4, <1>6, <1>9, <2>1
<1>12. rob'[i] = [rob[i] EXCEPT !.ctrl_handled = TRUE]
  <2>1. i \in DOMAIN rob'
    BY <1>7, <1>9
  <2> QED
    BY <1>5, <1>6, <2>1
<1>13. i <= Len(rob)
  BY <1>3 DEF Tagged
<1>14. FlushedAt(i)
  BY <1>1, <1>2, <1>6, <1>7, <1>9, <1>10, <1>11, <1>12, <1>13 DEF FlushedAt
<1> QED
  BY <1>14

\* What is left after a flush goes on at the target of the mispredicted instruction.
LEMMA ChainFlush ==
  ASSUME CpuInv, ChainOK, FlushMispredicted
  PROVE  ChainKept
<1>1. PICK i \in DOMAIN rob : FlushedAt(i)
  BY FlushLeaves
<1>2. program' = program /\ decode_q' = <<>> /\ fetch_q' = <<>>
  BY <1>1 DEF FlushMispredicted, inputVars, FlushedAt, flush
<1> DEFINE e == [rob[i] EXCEPT !.ctrl_handled = TRUE]
           n == DecodePc(decode_q, fetch_q, pc)
<1>3. /\ e.pc = rob[i].pc /\ Successor(e) = ToWord(R!Target(rob[i]))
      /\ IssuedFrom(program, e)
  BY <1>1, ChainMarked DEF FlushedAt
<1>4. rob'[i] = e /\ pc' = Successor(e)
  BY <1>1, <1>3 DEF FlushedAt
<1> HIDE DEF e
<1>5. Tagged(rob) /\ rob # <<>> /\ rob' # <<>>
  <2>1. DOMAIN rob' # {} /\ DOMAIN rob # {}
    BY <1>1 DEF FlushedAt
  <2> QED
    BY <2>1, RobFacts DEF CpuInv
<1>6. AllIssued(program, rob) /\ RobLinks(rob, n)
  BY DEF ChainOK, Chain
<1>7. /\ Len(rob') = i /\ DOMAIN rob' = 1..i /\ \A j \in 1..(i-1) : rob'[j] = rob[j]
      /\ rob'[i].pc = rob[i].pc /\ IssuedFrom(program, rob'[i])
  BY <1>1, <1>3, <1>4 DEF FlushedAt
<1>8. /\ AllIssued(program, rob') /\ RobLinks(rob', Successor(rob'[i]))
      /\ OldestPc(rob', Successor(rob'[i])) = OldestPc(rob, n)
  <2> HIDE DEF n
  <2> QED
    BY <1>5, <1>6, <1>7, ChainCut
<1>9. DecodePc(decode_q', fetch_q', pc') = pc' /\ FetchPc(fetch_q', pc') = pc'
  BY <1>2 DEF DecodePc, FetchPc
<1>10. /\ AllDecoded(program, decode_q') /\ DecodeLinks(decode_q', pc')
       /\ FetchLinks(fetch_q', pc')
  <2>1. DOMAIN decode_q' = {} /\ DOMAIN fetch_q' = {}
    BY <1>2
  <2> QED
    BY <2>1 DEF AllDecoded, DecodeLinks, FetchLinks
<1>11. ChainOK'
  BY <1>2, <1>4, <1>8, <1>9, <1>10 DEF ChainOK, Chain
<1>12. NextPc' = NextPc
  BY <1>4, <1>8, <1>9, NextPcMeans
<1> QED
  BY <1>11, <1>12 DEF ChainKept

\* A dispatch moves the oldest decoded instruction behind the youngest in flight.
LEMMA ChainDispatch ==
  ASSUME CpuInv, ChainOK, DispatchOne
  PROVE  ChainKept
<1> DEFINE d == Head(decode_q)
           e == R!NewEntry(d, next_tag)
           m == FetchPc(fetch_q, pc)
           n == DecodePc(decode_q, fetch_q, pc)
<1>1. /\ decode_q # <<>> /\ decode_q' = Tail(decode_q) /\ rob' = Append(rob, e)
      /\ UNCHANGED <<program, fetch_q, pc>>
  BY DEF DispatchOne, R!Allocate, inputVars
<1>2. decode_q \in Seq(Fetched)
  BY DEF CpuInv, FrontOK
<1> DEFINE t == Tail(decode_q)
<1>3. /\ d = decode_q[1] /\ 1 \in DOMAIN decode_q /\ Len(decode_q) \in Nat
      /\ DOMAIN decode_q = 1..Len(decode_q)
      /\ t \in Seq(Fetched) /\ Len(t) = Len(decode_q) - 1 /\ DOMAIN t = 1..Len(t)
      /\ \A i \in 1..Len(t) : t[i] = decode_q[i+1]
      /\ (t = <<>> <=> Len(t) = 0) /\ d \in Fetched
  <2>1. Len(decode_q) \in Nat \ {0} /\ DOMAIN decode_q = 1..Len(decode_q)
    BY <1>1, <1>2, EmptySeq, LenProperties
  <2>2. t \in Seq(Fetched) /\ Len(t) = Len(decode_q) - 1 /\ \A i \in 1..Len(t) : t[i] = decode_q[i+1]
    BY <1>1, <1>2, HeadTailProperties
  <2>3. DOMAIN t = 1..Len(t) /\ (t = <<>> <=> Len(t) = 0)
    BY <2>2, LenProperties, EmptySeq
  <2>4. d \in Fetched /\ d = decode_q[1]
    BY <1>1, <1>2, HeadTailProperties
  <2> QED
    BY <2>1, <2>2, <2>3, <2>4
<1>4. InProgram(program, d) /\ n = d.pc
  BY <1>1, <1>3 DEF ChainOK, Chain, AllDecoded, DecodePc
<1>5. /\ e.pc = d.pc /\ e.op = d.op /\ e.rd = d.rd /\ ~e.ctrl_handled /\ e.pred_target = d.pred_target
  BY DEF R!NewEntry
<1>6. IssuedFrom(program, e) /\ Successor(e) = d.pred_target
  <2> HIDE DEF e, d
  <2> QED
    BY <1>4, <1>5 DEF InProgram, IssuedFrom, Successor
<1>7. d.pred_target = DecodePc(t, fetch_q, pc)
  <2>1. decode_q[1].pred_target = IF 1 = Len(decode_q) THEN m ELSE decode_q[1+1].pc
    BY <1>3 DEF ChainOK, Chain, DecodeLinks
  <2> HIDE DEF m, t
  <2>2. CASE Len(t) = 0
    BY <1>3, <2>1, <2>2 DEF DecodePc, m
  <2>3. CASE Len(t) # 0
    <3>1. 1 \in 1..Len(t) /\ Len(decode_q) # 1
      BY <1>3, <2>3
    <3> QED
      BY <1>3, <2>1, <2>3, <3>1 DEF DecodePc
  <2> QED
    BY <2>2, <2>3
<1>8. AllDecoded(program, t) /\ DecodeLinks(t, m)
  <2>0. AllDecoded(program, decode_q) /\ DecodeLinks(decode_q, m)
    BY DEF ChainOK, Chain
  <2> HIDE DEF t, m
  <2>1. \A i \in 1..Len(t) : i + 1 \in DOMAIN decode_q
    <3> DEFINE a == Len(t)
               b == Len(decode_q)
    <3>1. b \in Nat /\ a = b - 1 /\ DOMAIN decode_q = 1..b
      BY <1>3
    <3> HIDE DEF a, b
    <3>2. \A i \in 1..a : i + 1 \in 1..b
      BY <3>1
    <3> QED
      BY <3>1, <3>2 DEF a
  <2>2. AllDecoded(program, t)
    BY <1>3, <2>0, <2>1 DEF AllDecoded
  <2>3. DecodeLinks(t, m)
    <3> SUFFICES ASSUME NEW i \in DOMAIN t
                 PROVE  t[i].pred_target = IF i = Len(t) THEN m ELSE t[i+1].pc
      BY DEF DecodeLinks
    <3>1. i \in 1..Len(t) /\ i \in Int
      BY <1>3
    <3>2. t[i] = decode_q[i+1] /\ i + 1 \in DOMAIN decode_q
      BY <1>3, <2>1, <3>1
    <3>3. decode_q[i+1].pred_target = IF i + 1 = Len(decode_q) THEN m ELSE decode_q[(i+1)+1].pc
      BY <2>0, <3>2 DEF DecodeLinks
    <3>4. i + 1 = Len(decode_q) <=> i = Len(t)
      BY <1>3, <3>1
    <3>5. i # Len(t) => t[i+1] = decode_q[(i+1)+1]
      <4>1. i # Len(t) => i + 1 \in 1..Len(t)
        BY <1>3, <3>1
      <4> QED
        BY <1>3, <4>1
    <3> QED
      BY <3>2, <3>3, <3>4, <3>5
  <2> QED
    BY <2>2, <2>3
<1>9. /\ Tagged(rob) /\ DOMAIN rob' = DOMAIN rob \cup {Len(rob) + 1}
      /\ Len(rob') = Len(rob) + 1 /\ (\A i \in DOMAIN rob : rob'[i] = rob[i]) /\ rob'[Len(rob) + 1] = e
      /\ (rob = <<>> => Len(rob) = 0) /\ rob' # <<>>
  <2>1. /\ rob \in Seq(R!ROBEntry) /\ Tagged(rob) /\ DOMAIN rob = 1..Len(rob) /\ Len(rob) \in Nat
        /\ \A i \in DOMAIN rob : rob[i].tag < next_tag
    BY RobFacts DEF CpuInv
  <2>2. rob' \in Seq(R!ROBEntry)
    BY DispatchOneInv DEF CpuInv, RenameInv, R!RenameTypeOK
  <2>3. /\ Len(rob') = Len(rob) + 1
        /\ DOMAIN rob' = 1..(Len(rob) + 1)
        /\ \A i \in 1..Len(rob) : rob'[i] = rob[i]
        /\ rob'[Len(rob) + 1] = e
    <3>1. Len(rob) \in Nat /\ \A i \in 1..(Len(rob) + 1) : i \in 1..Len(rob) \/ i = Len(rob) + 1
      BY <2>1
    <3> HIDE DEF e
    <3> QED
      BY <1>1, <2>1, <3>1
  <2>4. 1..(Len(rob) + 1) = (1..Len(rob)) \cup {Len(rob) + 1}
    <3> DEFINE a == Len(rob)
    <3>1. a \in Nat
      BY <2>1
    <3> HIDE DEF a
    <3>2. 1..(a + 1) = (1..a) \cup {a + 1}
      BY <3>1
    <3> QED
      BY <3>2 DEF a
  <2>5. rob' # <<>>
    BY <2>1, <2>2, <2>3, EmptySeq
  <2>6. rob = <<>> => Len(rob) = 0
    BY EmptySeq
  <2> QED
    BY <2>1, <2>3, <2>4, <2>5, <2>6
<1>10. AllIssued(program, rob) /\ RobLinks(rob, n) /\ FetchLinks(fetch_q, pc)
  BY DEF ChainOK, Chain
<1>11. /\ AllIssued(program, rob') /\ RobLinks(rob', Successor(e))
       /\ OldestPc(rob', Successor(e)) = OldestPc(rob, n)
  <2>1. n = e.pc
    BY <1>4, <1>5
  <2> HIDE DEF e, n, d
  <2> QED
    BY <1>6, <1>9, <1>10, <2>1, ChainGrows
<1> HIDE DEF e, n, d, m, t
<1>12. ChainOK'
  BY <1>1, <1>6, <1>7, <1>8, <1>10, <1>11 DEF ChainOK, Chain, t, m
<1>13. NextPc' = NextPc
  BY <1>1, <1>6, <1>7, <1>11, NextPcMeans DEF n, t
<1> QED
  BY <1>12, <1>13 DEF ChainKept

\* What is decoded is the program's, and leads on when it is not predicted to be taken.
LEMMA DecodeLeads ==
  ASSUME NEW a \in Nat, a + WORD_BYTES <= end
  PROVE  /\ Decode(a).pc = a /\ InProgram(program, Decode(a))
         /\ ~Decode(a).pred_taken => Decode(a).pred_target = ToWord(a + WORD_BYTES)
<1> DEFINE i == Instr(program, a)
           guess == IF i.op \in Ctrl THEN B!predict(bp, a, i.op, i.imm)
                    ELSE [taken |-> FALSE, target |-> ToWord(a + WORD_BYTES)]
<1>1. Decode(a) = [op |-> i.op, rd |-> i.rd, rs1 |-> i.rs1, rs2 |-> i.rs2, rs3 |-> i.rs3,
                   imm |-> i.imm, rm |-> i.rm, sew |-> i.sew, pc |-> a,
                   pred_taken |-> guess.taken, pred_target |-> guess.target]
  BY DEF Decode, Instr
<1>2. ~guess.taken => guess.target = ToWord(a + WORD_BYTES)
  <2> DEFINE p == B!predict(bp, a, i.op, i.imm)
  <2>1. \/ p = [taken |-> FALSE, target |-> (a + 4) % WordMod]
        \/ p = [taken |-> TRUE, target |-> (a + i.imm) % WordMod]
        \/ p = [taken |-> TRUE, target |-> bp.btb[B!index(a)].target]
    BY Zenon DEF B!predict, B!WORD_BYTES
  <2> HIDE DEF p
  <2>2. ~p.taken => p.target = ToWord(a + WORD_BYTES)
    BY <2>1 DEF ToWord, WORD_BYTES
  <2>3. CASE i.op \in Ctrl
    BY <2>2, <2>3 DEF p
  <2>4. CASE i.op \notin Ctrl
    BY <2>4
  <2> QED
    BY <2>3, <2>4
<1>3. i.op \notin Ctrl => guess.target = ToWord(a + WORD_BYTES)
  OBVIOUS
<1> HIDE DEF guess
<1> DEFINE d == Decode(a)
<1>4. /\ d.op = i.op /\ d.rd = i.rd /\ d.rs1 = i.rs1 /\ d.rs2 = i.rs2 /\ d.rs3 = i.rs3
      /\ d.imm = i.imm /\ d.rm = i.rm /\ d.sew = i.sew /\ d.pc = a
      /\ d.pred_taken = guess.taken /\ d.pred_target = guess.target
  BY <1>1
<1> HIDE DEF i, d
<1>5. InProgram(program, d)
  BY <1>3, <1>4 DEF InProgram, i, end
<1> QED
  BY <1>2, <1>4, <1>5 DEF d

\* The words that are fetched follow each other.
LEMMA FetchLeads ==
  ASSUME CpuInv, NEW from \in Word, NEW count \in Nat,
         NEW f \in Seq(Nat), Len(f) = count, f = [i \in 1..count |-> from + (i - 1) * WORD_BYTES],
         \A i \in DOMAIN f : f[i] + WORD_BYTES <= end, NEW a, a = ToWord(from + count * WORD_BYTES)
  PROVE  FetchLinks(f, a) /\ FetchPc(f, a) = from
<1>1. end < WordMod /\ end \in Nat /\ from \in Nat /\ from < WordMod
  <2>1. Len(program) \in Nat /\ end = 4 * Len(program) /\ end < WordMod
    BY ConfigFacts DEF CpuInv
  <2> QED
    BY <2>1, WordSizes DEF Word
<1>2. DOMAIN f = 1..count /\ \A i \in 1..count : f[i] = from + (i - 1) * 4 /\ f[i] + 4 <= end
  BY DEF WORD_BYTES
<1>3. a = (from + count * 4) % WordMod
  BY DEF ToWord, WORD_BYTES
<1>4. FetchLinks(f, a)
  <2> SUFFICES ASSUME NEW i \in 1..count
               PROVE  (f[i] + 4) % WordMod = IF i = count THEN a ELSE f[i+1]
    BY <1>2 DEF FetchLinks, ToWord, WORD_BYTES
  <2>1. f[i] = from + (i - 1) * 4 /\ f[i] + 4 <= end
    BY <1>2
  <2>2. f[i] + 4 = from + i * 4 /\ from + i * 4 \in Nat /\ from + i * 4 < WordMod
    BY <1>1, <2>1, WordSizes
  <2>3. (from + i * 4) % WordMod = from + i * 4
    <3> DEFINE x == from + i * 4
    <3>1. x \in Nat /\ x < WordMod /\ WordMod \in Nat
      BY <2>2, WordSizes
    <3> HIDE DEF x
    <3>2. x % WordMod = x
      BY <3>1
    <3> QED
      BY <3>2 DEF x
  <2>4. CASE i = count
    BY <1>3, <2>2, <2>4
  <2>5. CASE i # count
    <3>1. i + 1 \in 1..count
      BY <2>5
    <3>2. f[i+1] = from + ((i + 1) - 1) * 4
      BY <1>2, <3>1
    <3> QED
      BY <1>1, <2>2, <2>3, <2>5, <3>2
  <2> QED
    BY <2>4, <2>5
<1>5. FetchPc(f, a) = from
  <2>1. CASE count = 0
    <3>1. f = <<>>
      BY <2>1, EmptySeq
    <3>2. a = from % WordMod
      BY <1>1, <1>3, <2>1
    <3>3. from % WordMod = from
      BY <1>1, WordSizes
    <3> QED
      BY <3>1, <3>2, <3>3 DEF FetchPc
  <2>2. CASE count # 0
    <3>1. f # <<>> /\ 1 \in 1..count
      BY <2>2, EmptySeq
    <3>2. f[1] = from + (1 - 1) * 4
      BY <1>2, <3>1
    <3>3. from + (1 - 1) * 4 = from
      BY <1>1
    <3> QED
      BY <3>1, <3>2, <3>3 DEF FetchPc
  <2> QED
    BY <2>1, <2>2
<1> QED
  BY <1>4, <1>5

\* The decode queue d grows to w by the first `last` of what is decoded of f, and
\* fetching goes on at n.
Decoding(d, f, a, decoded, last, n, w) ==
  /\ d \in Seq(Fetched) /\ f \in Seq(Nat)
  /\ DecodeLinks(d, FetchPc(f, a)) /\ FetchLinks(f, a)
  /\ decoded \in Seq(Fetched) /\ Len(decoded) = Len(f) /\ last \in 0..Len(f)
  /\ \A i \in 1..Len(f) : decoded[i].pc = f[i]
  /\ \A i \in 1..Len(f) : i < last => decoded[i].pred_target = ToWord(f[i] + WORD_BYTES)
  /\ last > 0 => decoded[last].pred_target = n
  /\ last = 0 => f = <<>> /\ n = a
  /\ w = d \o SubSeq(decoded, 1, last)
  /\ AllDecoded(program, d) /\ \A i \in 1..Len(f) : InProgram(program, decoded[i])

\* What is decoded goes on where the decode queue ended, up to address n.
LEMMA DecodedLinks ==
  ASSUME NEW d, NEW f, NEW a, NEW n, NEW decoded, NEW last, NEW w,
         Decoding(d, f, a, decoded, last, n, w)
  PROVE  /\ DecodeLinks(w, n) /\ AllDecoded(program, w)
         /\ (IF w # <<>> THEN w[1].pc ELSE n) = DecodePc(d, f, a)
<1> USE DEF Decoding
<1> DEFINE k == Len(d)
           m == Len(f)
           part == SubSeq(decoded, 1, last)
<1>1. /\ k \in Nat /\ DOMAIN d = 1..k /\ m \in Nat /\ DOMAIN f = 1..m /\ last \in 0..m /\ last \in Nat
      /\ (d = <<>> <=> k = 0) /\ (f = <<>> <=> m = 0)
  BY EmptySeq, LenProperties
<1>2. part \in Seq(Fetched) /\ Len(part) = last /\ \A i \in 1..last : part[i] = decoded[i]
  OBVIOUS
<1>3. /\ w \in Seq(Fetched) /\ Len(w) = k + last
      /\ \A i \in 1..(k + last) : w[i] = IF i <= k THEN d[i] ELSE part[i - k]
  <2>1. w = d \o part
    OBVIOUS
  <2>2. d \in Seq(Fetched)
    OBVIOUS
  <2> HIDE DEF part
  <2>3. /\ w \in Seq(Fetched) /\ Len(w) = Len(d) + Len(part)
        /\ \A i \in 1..(Len(d) + Len(part)) : w[i] = IF i <= Len(d) THEN d[i] ELSE part[i - Len(d)]
    BY ONLY <1>2, <2>1, <2>2, ConcatProperties
  <2> QED
    BY <1>2, <2>3
<1>4. DOMAIN w = 1..(k + last) /\ (w = <<>> <=> k + last = 0)
  BY <1>3, LenProperties, EmptySeq
<1>5. /\ \A i \in 1..k : d[i].pred_target = IF i = k THEN FetchPc(f, a) ELSE d[i+1].pc
      /\ \A i \in 1..m : ToWord(f[i] + WORD_BYTES) = IF i = m THEN a ELSE f[i+1]
      /\ \A i \in 1..k : InProgram(program, d[i])
  BY <1>1 DEF DecodeLinks, FetchLinks, AllDecoded
<1>6. /\ \A i \in 1..m : decoded[i].pc = f[i] /\ InProgram(program, decoded[i])
      /\ \A i \in 1..m : i < last => decoded[i].pred_target = ToWord(f[i] + WORD_BYTES)
  OBVIOUS
<1>7. FetchPc(f, a) = IF m # 0 THEN f[1] ELSE a
  BY <1>1 DEF FetchPc
<1>8. DecodePc(d, f, a) = IF k # 0 THEN d[1].pc ELSE FetchPc(f, a)
  BY <1>1 DEF DecodePc
<1>9. last = 0 => m = 0
  BY <1>1
<1> HIDE DEF k, m, part
<1>10. /\ \A i \in 1..k : i \in 1..(k + last) /\ w[i] = d[i]
       /\ \A i \in 1..last : k + i \in 1..(k + last) /\ w[k + i] = decoded[i] /\ i \in 1..m
  <2>1. \A i \in 1..k : i \in 1..(k + last) /\ i <= k
    BY <1>1
  <2>2. \A i \in 1..last : k + i \in 1..(k + last) /\ ~(k + i <= k) /\ (k + i) - k = i /\ i \in 1..m
    BY <1>1
  <2>3. \A i \in 1..k : w[i] = d[i]
    BY <1>3, <2>1, Zenon
  <2>4. \A i \in 1..last : w[k + i] = part[(k + i) - k]
    BY <1>3, <2>2, Zenon
  <2>5. \A i \in 1..last : w[k + i] = decoded[i]
    BY <1>2, <2>2, <2>4, Zenon
  <2> QED
    BY <2>1, <2>2, <2>3, <2>5
<1>11. \A j \in 1..(k + last) : j \in 1..k \/ (j - k \in 1..last /\ j = k + (j - k))
  BY <1>1
<1>12. AllDecoded(program, w)
  <2> SUFFICES ASSUME NEW j \in 1..(k + last) PROVE InProgram(program, w[j])
    BY <1>4 DEF AllDecoded
  <2>1. CASE j \in 1..k
    BY <1>5, <1>10, <2>1
  <2>2. CASE j - k \in 1..last /\ j = k + (j - k)
    <3> DEFINE i == j - k
    <3>1. i \in 1..last /\ j = k + i
      BY <2>2
    <3> HIDE DEF i
    <3> QED
      BY <1>6, <1>10, <3>1
  <2> QED
    BY <1>11, <2>1, <2>2
<1>13. DecodeLinks(w, n)
  <2> SUFFICES ASSUME NEW j \in 1..(k + last)
               PROVE  w[j].pred_target = IF j = k + last THEN n ELSE w[j+1].pc
    BY <1>3, <1>4 DEF DecodeLinks
  <2>1. CASE j \in 1..k /\ j # k
    <3>1. j + 1 \in 1..k /\ j # k + last
      BY <1>1, <2>1
    <3> QED
      BY <1>5, <1>10, <2>1, <3>1
  <2>2. CASE j = k
    <3>1. w[j].pred_target = FetchPc(f, a)
      BY <1>1, <1>5, <1>10, <2>2
    <3>2. CASE last = 0
      BY <1>1, <1>7, <1>9, <2>2, <3>1, <3>2
    <3>3. CASE last # 0
      <4>1. 1 \in 1..last /\ m # 0 /\ j # k + last
        BY <1>1, <2>2, <3>3
      <4>2. w[j + 1].pc = f[1]
        BY <1>6, <1>10, <2>2, <4>1
      <4> QED
        BY <1>7, <3>1, <4>1, <4>2
    <3> QED
      BY <3>2, <3>3
  <2>3. CASE j - k \in 1..last /\ j = k + (j - k)
    <3> DEFINE i == j - k
    <3>1. i \in 1..last /\ j = k + i
      BY <2>3
    <3> HIDE DEF i
    <3>2. i \in 1..m /\ w[j] = decoded[i]
      BY <1>10, <3>1
    <3>3. CASE i = last
      <4>1. last > 0 /\ j = k + last
        BY <3>1, <3>3
      <4> QED
        BY <3>2, <3>3, <4>1
    <3>4. CASE i # last
      <4>1. i < last /\ i + 1 \in 1..last /\ j # k + last /\ j + 1 = k + (i + 1) /\ i # m
        BY <1>1, <3>1, <3>4
      <4>2. decoded[i].pred_target = f[i+1]
        BY <1>5, <1>6, <3>2, <4>1
      <4>3. w[j + 1].pc = f[i+1]
        BY <1>6, <1>10, <4>1
      <4> QED
        BY <3>2, <4>1, <4>2, <4>3
    <3> QED
      BY <3>3, <3>4
  <2> QED
    BY <1>11, <2>1, <2>2, <2>3
<1>14. (IF w # <<>> THEN w[1].pc ELSE n) = DecodePc(d, f, a)
  <2>1. CASE k # 0
    <3>1. 1 \in 1..k /\ k + last # 0
      BY <1>1, <2>1
    <3> QED
      BY <1>4, <1>8, <1>10, <2>1, <3>1
  <2>2. CASE k = 0 /\ last # 0
    <3>1. 1 \in 1..last /\ k + 1 = 1 /\ m # 0 /\ k + last # 0
      BY <1>1, <2>2
    <3>2. w[1] = decoded[1] /\ 1 \in 1..m
      BY <1>10, <3>1
    <3> QED
      BY <1>4, <1>6, <1>7, <1>8, <2>2, <3>1, <3>2
  <2>3. CASE k = 0 /\ last = 0
    <3>1. k + last = 0 /\ m = 0
      BY <1>9, <2>3
    <3> QED
      BY <1>4, <1>7, <1>8, <2>3, <3>1
  <2> QED
    BY <2>1, <2>2, <2>3
<1> QED
  BY <1>12, <1>13, <1>14

\* Decoding goes on where the decode queue ended, and fetching where decoding did.
LEMMA ChainDecodeAndFetch ==
  ASSUME CpuInv, ChainOK, DecodeAndFetch
  PROVE  ChainKept
<1> DEFINE decoded == [i \in DOMAIN fetch_q |-> Decode(fetch_q[i])]
           taken   == {i \in DOMAIN fetch_q : decoded[i].pred_taken}
           last    == IF taken = {} THEN Len(fetch_q)
                      ELSE CHOOSE i \in taken : \A j \in taken : i <= j
           from    == IF taken = {} THEN pc ELSE decoded[last].pred_target
           left    == IF from > end - WORD_BYTES THEN 0 ELSE (end - from) \div WORD_BYTES
           count   == IF fetch_stopped THEN 0
                      ELSE IF left < config.width THEN left ELSE config.width
<1>2. /\ decode_q' = decode_q \o SubSeq(decoded, 1, last)
      /\ fetch_q' = [i \in 1..count |-> from + (i - 1) * WORD_BYTES]
      /\ pc' = ToWord(from + count * WORD_BYTES)
      /\ program' = program /\ rob' = rob
  BY DEF DecodeAndFetch, inputVars, renameVars
<1>3. /\ fetch_q \in Seq(Nat) /\ decode_q \in Seq(Fetched)
      /\ Len(fetch_q) \in Nat /\ DOMAIN fetch_q = 1..Len(fetch_q)
      /\ config.width \in Nat /\ pc \in Word /\ end \in Nat
      /\ \A i \in DOMAIN fetch_q : fetch_q[i] \in Nat /\ fetch_q[i] + WORD_BYTES <= end
      /\ (fetch_q = <<>> <=> Len(fetch_q) = 0)
  <2>1. /\ fetch_q \in Seq(Nat) /\ pc \in Word /\ decode_q \in Seq(Fetched)
        /\ \A i \in DOMAIN fetch_q : fetch_q[i] + WORD_BYTES <= end
    BY DEF CpuInv, FrontOK
  <2>2. config.width \in Nat /\ Len(program) \in Nat /\ end = 4 * Len(program)
    BY ConfigFacts DEF CpuInv
  <2> QED
    BY <2>1, <2>2, LenProperties, EmptySeq, ElementOfSeq
<1>4. \A i \in DOMAIN fetch_q :
        /\ decoded[i].pc = fetch_q[i] /\ InProgram(program, decoded[i]) /\ decoded[i] \in Fetched
        /\ i \notin taken => decoded[i].pred_target = ToWord(fetch_q[i] + WORD_BYTES)
  <2> SUFFICES ASSUME NEW i \in DOMAIN fetch_q
               PROVE  /\ decoded[i].pc = fetch_q[i] /\ InProgram(program, decoded[i])
                      /\ decoded[i] \in Fetched
                      /\ i \notin taken => decoded[i].pred_target = ToWord(fetch_q[i] + WORD_BYTES)
    OBVIOUS
  <2>1. decoded[i] = Decode(fetch_q[i])
    OBVIOUS
  <2>2. i \in taken <=> decoded[i].pred_taken
    OBVIOUS
  <2> HIDE DEF decoded, taken
  <2> QED
    BY <1>3, <2>1, <2>2, DecodeLeads, DecodeOK
<1>5. DOMAIN decoded = DOMAIN fetch_q
  OBVIOUS
<1>6. /\ last \in 0..Len(fetch_q) /\ (taken # {} => last \in taken)
      /\ \A i \in taken : last <= i /\ i \in DOMAIN fetch_q
      /\ taken = {} => last = Len(fetch_q)
  <2>1. CASE taken = {}
    <3>1. last = Len(fetch_q)
      BY <2>1
    <3> HIDE DEF taken, last
    <3> QED
      BY <1>3, <2>1, <3>1
  <2>2. CASE taken # {}
    <3>1. taken \subseteq Nat /\ taken \subseteq DOMAIN fetch_q
      BY <1>3
    <3>4. last = CHOOSE i \in taken : \A j \in taken : i <= j
      BY <2>2
    <3> HIDE DEF taken, last
    <3>5. DOMAIN fetch_q = 1..Len(fetch_q) /\ Len(fetch_q) \in Nat
      BY <1>3
    <3>2. \E i \in taken : \A j \in taken : i <= j
      BY <2>2, <3>1, LeastNat
    <3>3. last \in taken /\ \A j \in taken : last <= j
      BY <3>2, <3>4
    <3>6. last \in DOMAIN fetch_q /\ \A i \in taken : i \in DOMAIN fetch_q
      BY <3>1, <3>3
    <3>7. last \in 0..Len(fetch_q)
      BY <3>5, <3>6
    <3> QED
      BY <2>2, <3>3, <3>6, <3>7
  <2> HIDE DEF taken, last
  <2> QED
    BY <2>1, <2>2
<1>13. from = IF taken = {} THEN pc ELSE decoded[last].pred_target
  OBVIOUS
<1> HIDE DEF taken, last, decoded
<1>7. from \in Word
  BY <1>3, <1>4, <1>6 DEF Fetched
<1> HIDE DEF from
<1>8. left \in Nat
  BY <1>3, <1>7, WordSizes DEF Word, WORD_BYTES
<1>9. count \in Nat /\ count <= left
  <2> HIDE DEF left
  <2> QED
    BY <1>3, <1>8
<1> HIDE DEF count
<1>10. /\ fetch_q' \in Seq(Nat) /\ Len(fetch_q') = count
       /\ \A i \in DOMAIN fetch_q' : fetch_q'[i] + WORD_BYTES <= end
  BY <1>2, <1>7, <1>9, FetchOK
<1> HIDE DEF left
<1>11. FetchLinks(fetch_q', pc') /\ FetchPc(fetch_q', pc') = from
  <2> DEFINE f == fetch_q'
             a == pc'
  <2>1. /\ f = [i \in 1..count |-> from + (i - 1) * WORD_BYTES] /\ a = ToWord(from + count * WORD_BYTES)
        /\ f \in Seq(Nat) /\ Len(f) = count
        /\ \A i \in DOMAIN f : f[i] + WORD_BYTES <= end
        /\ count \in Nat
    BY <1>2, <1>9, <1>10
  <2> HIDE DEF f, a
  <2>2. FetchLinks(f, a) /\ FetchPc(f, a) = from
    BY <1>7, <2>1, FetchLeads
  <2> QED
    BY <2>2 DEF f, a
<1> DEFINE m == Len(fetch_q)
<1>12. decoded \in Seq(Fetched) /\ Len(decoded) = m
  <2>1. m \in Nat /\ DOMAIN fetch_q = 1..m
    BY <1>3
  <2> HIDE DEF m
  <2>2. decoded \in [1..m -> Fetched]
    <3>1. decoded = [i \in 1..m |-> decoded[i]]
      BY <2>1 DEF decoded
    <3> QED
      BY <1>4, <2>1, <3>1
  <2>3. decoded \in Seq(Fetched)
    BY <2>1, <2>2
  <2> QED
    BY <1>5, <2>1, <2>3, LenProperties
<1>14. /\ \A i \in 1..m : i < last => decoded[i].pred_target = ToWord(fetch_q[i] + WORD_BYTES)
       /\ last > 0 => decoded[last].pred_target = from
       /\ last = 0 => fetch_q = <<>> /\ from = pc
  <2>0. m \in Nat /\ DOMAIN fetch_q = 1..m /\ last \in 0..m /\ (fetch_q = <<>> <=> m = 0)
    BY <1>3, <1>6
  <2>1. \A i \in 1..m : i < last => i \notin taken
    <3> SUFFICES ASSUME NEW i \in 1..m, i < last, i \in taken PROVE FALSE
      OBVIOUS
    <3> HIDE DEF m
    <3>1. last <= i
      BY <1>6
    <3> QED
      BY <2>0, <3>1
  <2>2. last > 0 => decoded[last].pred_target = from
    <3>1. CASE taken = {}
      <4>1. last = m
        BY <1>6, <3>1
      <4>2. last > 0 => last \in DOMAIN fetch_q /\ last \notin taken
        BY <2>0, <3>1
      <4>3. last > 0 => ToWord(fetch_q[last] + WORD_BYTES) = pc
        BY <4>1, <4>2 DEF ChainOK, Chain, FetchLinks
      <4> QED
        BY <1>4, <1>13, <3>1, <4>2, <4>3
    <3>2. CASE taken # {}
      BY <1>13, <3>2
    <3> QED
      BY <3>1, <3>2
  <2>3. last = 0 => fetch_q = <<>> /\ from = pc
    <3>1. last = 0 => taken = {}
      BY <1>6, <2>0
    <3> QED
      BY <1>6, <1>13, <2>0, <3>1
  <2> QED
    BY <1>4, <2>0, <2>1, <2>2, <2>3
<1>15. /\ AllDecoded(program, decode_q) /\ DecodeLinks(decode_q, FetchPc(fetch_q, pc))
       /\ FetchLinks(fetch_q, pc) /\ AllIssued(program, rob)
       /\ RobLinks(rob, DecodePc(decode_q, fetch_q, pc))
  BY DEF ChainOK, Chain
<1> DEFINE w == decode_q'
<1>16. /\ DecodeLinks(w, from) /\ AllDecoded(program, w)
       /\ (IF w # <<>> THEN w[1].pc ELSE from) = DecodePc(decode_q, fetch_q, pc)
  <2>1. w = decode_q \o SubSeq(decoded, 1, last) /\ last \in 0..Len(fetch_q)
    BY <1>2, <1>6
  <2>2. /\ \A i \in 1..Len(fetch_q) : decoded[i].pc = fetch_q[i] /\ InProgram(program, decoded[i])
        /\ Len(decoded) = Len(fetch_q)
    BY <1>3, <1>4, <1>12
  <2> HIDE DEF w
  <2>3. Decoding(decode_q, fetch_q, pc, decoded, last, from, w)
    BY <1>3, <1>12, <1>14, <1>15, <2>1, <2>2 DEF Decoding
  <2> QED
    BY <2>3, DecodedLinks
<1>17. DecodePc(decode_q', fetch_q', pc') = DecodePc(decode_q, fetch_q, pc)
  BY <1>11, <1>16 DEF DecodePc
<1>18. ChainOK'
  BY <1>2, <1>11, <1>15, <1>16, <1>17 DEF ChainOK, Chain
<1>19. NextPc' = NextPc
  BY <1>2, <1>17, NextPcMeans
<1> QED
  BY <1>18, <1>19 DEF ChainKept

\* The pipeline starts empty, at address 0.
LEMMA ChainInit == CpuInit => ChainOK /\ NextPc = 0
<1> SUFFICES ASSUME CpuInit PROVE ChainOK /\ NextPc = 0
  OBVIOUS
<1>1. rob = <<>> /\ decode_q = <<>> /\ fetch_q = <<>> /\ pc = 0
  BY DEF CpuInit, R!RenameInit
<1>2. DOMAIN rob = {} /\ DOMAIN decode_q = {} /\ DOMAIN fetch_q = {}
  BY <1>1
<1>3. ChainOK
  BY <1>2 DEF ChainOK, Chain, AllIssued, AllDecoded, RobLinks, DecodeLinks, FetchLinks
<1> QED
  BY <1>1, <1>3 DEF NextPc

\* No step but a commit moves the address of the next instruction to commit.
LEMMA ChainNext ==
  ASSUME CpuInv, ChainOK, [CpuNext]_cpuVars
  PROVE  ChainOK' /\ (~CommitOne => NextPc' = NextPc)
<1>1. CASE StartStep \/ CommitThrows \/ CommitEnds \/ Execute \/ ExecuteThrows \/ Issue
           \/ DispatchStalls \/ DispatchInvalid \/ CheckHalt \/ UNCHANGED cpuVars
  <2>1. UNCHANGED <<program, rob, decode_q, fetch_q, pc>>
    <3>1. CASE StartStep
      BY <3>1 DEF StartStep, inputVars, frontVars, renameVars
    <3>2. CASE CommitThrows
      BY <3>2 DEF CommitThrows, inputVars, frontVars, renameVars
    <3>3. CASE CommitEnds
      BY <3>3 DEF CommitEnds, inputVars, frontVars, renameVars
    <3>4. CASE Execute
      BY <3>4 DEF Execute, inputVars, frontVars, renameVars
    <3>5. CASE ExecuteThrows
      BY <3>5 DEF ExecuteThrows, inputVars, frontVars, renameVars
    <3>6. CASE Issue
      BY <3>6 DEF Issue, inputVars, frontVars, renameVars
    <3>7. CASE DispatchStalls
      BY <3>7 DEF DispatchStalls, inputVars, frontVars, renameVars
    <3>8. CASE DispatchInvalid
      BY <3>8 DEF DispatchInvalid, inputVars, frontVars, renameVars
    <3>9. CASE CheckHalt
      BY <3>9 DEF CheckHalt, inputVars, frontVars, renameVars
    <3>10. CASE UNCHANGED cpuVars
      BY <3>10 DEF cpuVars, inputVars, frontVars, renameVars
    <3> QED
      BY <1>1, <3>1, <3>2, <3>3, <3>4, <3>5, <3>6, <3>7, <3>8, <3>9, <3>10
  <2> QED
    BY <2>1, ChainUnchanged DEF ChainKept
<1>2. CASE CommitOne
  BY <1>2, ChainCommitOne
<1>3. CASE WritebackOne
  BY <1>3, ChainWriteback DEF ChainKept
<1>4. CASE ResolveOne
  BY <1>4, ChainResolve DEF ChainKept
<1>5. CASE FlushMispredicted
  BY <1>5, ChainFlush DEF ChainKept
<1>6. CASE DispatchOne
  BY <1>6, ChainDispatch DEF ChainKept
<1>7. CASE DecodeAndFetch
  BY <1>7, ChainDecodeAndFetch DEF ChainKept
<1> QED
  BY <1>1, <1>2, <1>3, <1>4, <1>5, <1>6, <1>7 DEF CpuNext

-----------------------------------------------------------------------------
(* Branches are counted when they are resolved; those that have committed    *)
(* are counted apart from those still in the re-order buffer.                *)

\* The places of the branches of r that have been counted.
Counted(r) == {i \in DOMAIN r : r[i].op \in Branch /\ r[i].ctrl_handled}

\* They are finitely many.
LEMMA CountedFinite ==
  ASSUME NEW r, Tagged(r)
  PROVE  IsFiniteSet(Counted(r)) /\ Cardinality(Counted(r)) \in Nat
<1>1. DOMAIN r = 1..Len(r) /\ Len(r) \in Nat
  BY DEF Tagged
<1> DEFINE n == Len(r)
<1>2. IsFiniteSet(1..n)
  <2>1. 1 \in Int /\ n \in Int
    BY <1>1
  <2> HIDE DEF n
  <2> QED
    BY <2>1, FS_Interval
<1>3. Counted(r) \in SUBSET (1..n)
  BY <1>1 DEF Counted
<1>4. IsFiniteSet(Counted(r))
  <2> HIDE DEF n
  <2> QED
    BY <1>2, <1>3, FS_Subset
<1> QED
  BY <1>4, FS_CardinalityType

\* What is left of them when the oldest entry leaves.
LEMMA CountedTail ==
  ASSUME NEW E, NEW r \in Seq(E), Tagged(r), r # <<>>
  PROVE  Cardinality(Counted(Tail(r)))
           = Cardinality(Counted(r)) - (IF 1 \in Counted(r) THEN 1 ELSE 0)
<1> DEFINE t == Tail(r)
           S == Counted(t)
           T == Counted(r) \ {1}
<1>1. /\ 1 \in DOMAIN r /\ t \in Seq(E) /\ Len(t) = Len(r) - 1 /\ Tagged(t)
      /\ \A i \in DOMAIN t : i + 1 \in DOMAIN r /\ t[i] = r[i + 1]
  BY TailOf
<1>2. DOMAIN t = 1..Len(t) /\ DOMAIN r = 1..Len(r) /\ Len(r) \in Nat /\ Len(t) \in Nat
  BY <1>1 DEF Tagged
<1>3. IsFiniteSet(S) /\ IsFiniteSet(Counted(r)) /\ Cardinality(Counted(r)) \in Nat
  BY <1>1, CountedFinite
<1> HIDE DEF t
<1>4. \A i \in S : i \in Nat /\ i + 1 \in T
  <2> SUFFICES ASSUME NEW i \in S PROVE i \in Nat /\ i + 1 \in T
    OBVIOUS
  <2>1. i \in DOMAIN t /\ t[i].op \in Branch /\ t[i].ctrl_handled
    BY DEF Counted
  <2>2. i \in Nat /\ i + 1 # 1
    BY <1>2, <2>1
  <2>3. i + 1 \in DOMAIN r /\ t[i] = r[i + 1]
    BY <1>1, <2>1
  <2> QED
    BY <2>1, <2>2, <2>3 DEF Counted
<1>5. \A j \in T : j - 1 \in S /\ (j - 1) + 1 = j
  <2> SUFFICES ASSUME NEW j \in T PROVE j - 1 \in S /\ (j - 1) + 1 = j
    OBVIOUS
  <2>1. j \in DOMAIN r /\ j # 1 /\ r[j].op \in Branch /\ r[j].ctrl_handled
    BY DEF Counted
  <2>2. (j - 1) + 1 = j /\ j - 1 \in DOMAIN t
    BY <1>1, <1>2, <2>1
  <2>3. t[j - 1] = r[j]
    BY <1>1, <2>2
  <2> QED
    BY <2>1, <2>2, <2>3 DEF Counted
<1> DEFINE f == [i \in S |-> i + 1]
<1>6. f \in Bijection(S, T)
  <2>1. f \in [S -> T]
    BY <1>4
  <2>2. \A a, b \in S : f[a] = f[b] => a = b
    BY <1>4
  <2>3. \A j \in T : \E i \in S : f[i] = j
    BY <1>5
  <2> QED
    BY <2>1, <2>2, <2>3 DEF Bijection, Injection, Surjection, IsInjective
<1>7. ExistsBijection(S, T)
  BY <1>6 DEF ExistsBijection
<1>8. Cardinality(T) = Cardinality(S)
  <2> HIDE DEF S, T
  <2> QED
    BY <1>3, <1>7, FS_Bijection DEF S
<1>9. Cardinality(T) = IF 1 \in Counted(r) THEN Cardinality(Counted(r)) - 1 ELSE Cardinality(Counted(r))
  BY <1>3, FS_RemoveElement
<1> QED
  BY <1>3, <1>8, <1>9 DEF t

\* Count d with entries w leaves as many committed as count c with entries r.
SameCommitted(r, c, w, d) == d - Cardinality(Counted(w)) = c - Cardinality(Counted(r))

\* One more branch is counted, if it is one, and no other.
LEMMA CountedOneMore ==
  ASSUME NEW r, Tagged(r), NEW w, NEW i \in DOMAIN r, ~r[i].ctrl_handled,
         Counted(w) = Counted(r) \cup (IF r[i].op \in Branch THEN {i} ELSE {}),
         NEW c \in Nat, NEW d, d = c + (IF r[i].op \in Branch THEN 1 ELSE 0)
  PROVE  SameCommitted(r, c, w, d)
<1> USE DEF SameCommitted
<1>1. IsFiniteSet(Counted(r)) /\ Cardinality(Counted(r)) \in Nat
  BY CountedFinite
<1>2. i \notin Counted(r)
  BY DEF Counted
<1>3. Cardinality(Counted(r) \cup {i}) = Cardinality(Counted(r)) + 1
  BY <1>1, <1>2, FS_AddElement
<1>4. Counted(r) \cup {} = Counted(r)
  OBVIOUS
<1>5. CASE r[i].op \in Branch
  BY <1>1, <1>3, <1>5
<1>6. CASE r[i].op \notin Branch
  BY <1>1, <1>4, <1>6
<1> QED
  BY <1>5, <1>6

BranchesKept == CommittedBranches' = CommittedBranches

\* The count in these terms.
LEMMA BranchesMeans ==
  /\ CommittedBranches = branch_count - Cardinality(Counted(rob))
  /\ CommittedBranches' = branch_count' - Cardinality(Counted(rob'))
BY DEF CommittedBranches, Counted

\* A branch that commits is taken off the ones that are counted apart.
LEMMA BranchesCommit ==
  ASSUME CpuInv, CommitOne
  PROVE  CommittedBranches' = CommittedBranches + (IF rob[1].op \in Branch THEN 1 ELSE 0)
<1>1. /\ rob # <<>> /\ rob' = Tail(rob) /\ branch_count' = branch_count /\ stage = "commit"
      /\ Head(rob).ready
  BY DEF CommitOne, R!Retire, CanCommit, controlVars
<1>2. rob \in Seq(R!ROBEntry) /\ Tagged(rob) /\ branch_count \in Nat
  BY RobFacts DEF CpuInv, CountersOK
<1>3. 1 \in DOMAIN rob /\ Head(rob) = rob[1]
  BY <1>1, <1>2, TailOf, HeadTailProperties
<1>4. rob[1].op \in Branch => rob[1].ctrl_handled
  <2>1. ~R!Resolvable(1)
    BY <1>1, <1>3 DEF CpuInv, SettledOutside, R!Settled
  <2>2. \A j \in 1..(1-1) : FALSE
    OBVIOUS
  <2>3. rob[1].op \in Branch => rob[1].op \in R!Ctrl
    BY OperationsAgree DEF Ctrl
  <2> QED
    BY <1>1, <1>3, <2>1, <2>2, <2>3 DEF R!Resolvable
<1>5. 1 \in Counted(rob) <=> rob[1].op \in Branch
  BY <1>3, <1>4 DEF Counted
<1>6. Cardinality(Counted(rob'))
        = Cardinality(Counted(rob)) - (IF 1 \in Counted(rob) THEN 1 ELSE 0)
  BY <1>1, <1>2, CountedTail
<1>7. Cardinality(Counted(rob)) \in Nat
  BY <1>2, CountedFinite
<1>8. CASE rob[1].op \in Branch
  BY <1>1, <1>2, <1>5, <1>6, <1>7, <1>8, BranchesMeans
<1>9. CASE rob[1].op \notin Branch
  BY <1>1, <1>2, <1>5, <1>6, <1>7, <1>9, BranchesMeans
<1> QED
  BY <1>8, <1>9

\* A result says nothing of how a branch went.
LEMMA BranchesWriteback ==
  ASSUME CpuInv, WritebackOne
  PROVE  BranchesKept
<1>1. branch_count' = branch_count
  BY DEF WritebackOne, controlVars
<1> DEFINE x == CHOOSE y \in Completed : \A z \in Completed : y.tag <= z.tag
<1>2. Completed # {}
  BY DEF WritebackOne
<1>3. x \in Completed /\ ResultIn(x) /\ Pending(rob, x.tag, x.op)
  BY <1>2, ChosenResult
<1>4. PICK i \in DOMAIN rob : rob[i].tag = x.tag /\ R!Update(i, x.result)
  <2>1. \E i \in DOMAIN rob : rob[i].tag = x.tag
    BY <1>3 DEF Pending
  <2> QED
    BY <2>1 DEF WritebackOne
<1> HIDE DEF x
<1>5. rob \in Seq(R!ROBEntry) /\ rob[i] \in R!ROBEntry
  BY RobFacts DEF CpuInv
<1> DEFINE e == [rob[i] EXCEPT !.ready = TRUE, !.result = x.result]
<1>6. rob' = [rob EXCEPT ![i] = e]
  BY <1>4, <1>5 DEF R!Update
<1>7. Replaces(rob', rob, i, e)
  BY <1>5, <1>6, ReplacesExcept
<1>8. e.op = rob[i].op /\ e.ctrl_handled = rob[i].ctrl_handled
  BY <1>5 DEF R!ROBEntry
<1> HIDE DEF e
<1>9. \A j \in DOMAIN rob : rob'[j].op = rob[j].op /\ rob'[j].ctrl_handled = rob[j].ctrl_handled
  BY <1>7, <1>8 DEF Replaces
<1>10. Counted(rob') = Counted(rob)
  BY <1>7, <1>9 DEF Counted, Replaces
<1> QED
  BY <1>1, <1>10, BranchesMeans DEF BranchesKept

\* A branch that went as predicted is counted, and marked as counted.
LEMMA BranchesResolve ==
  ASSUME CpuInv, ChainOK, ResolveOne
  PROVE  BranchesKept
<1>1. PICK i \in DOMAIN rob : R!Resolve(i) /\ Train(rob[i])
  BY DEF ResolveOne
<1>2. /\ R!Resolvable(i) /\ rob' = [rob EXCEPT ![i].ctrl_handled = TRUE]
      /\ branch_count' = branch_count + (IF rob[i].op \in Branch THEN 1 ELSE 0)
  BY <1>1 DEF R!Resolve, Train
<1> DEFINE e == [rob[i] EXCEPT !.ctrl_handled = TRUE]
<1>3. ~rob[i].ctrl_handled /\ e.op = rob[i].op
  BY <1>2, ChainMarked
<1>4. rob \in Seq(R!ROBEntry) /\ rob[i] \in R!ROBEntry /\ Tagged(rob) /\ branch_count \in Nat
  BY RobFacts DEF CpuInv, CountersOK
<1>5. Replaces(rob', rob, i, e) /\ e.ctrl_handled
  <2>1. rob' = [rob EXCEPT ![i] = e]
    BY <1>2
  <2>2. e.ctrl_handled
    BY <1>4 DEF R!ROBEntry
  <2> QED
    BY <1>4, <2>1, <2>2, ReplacesExcept
<1> HIDE DEF e
<1>6. Counted(rob') = Counted(rob) \cup (IF rob[i].op \in Branch THEN {i} ELSE {})
  BY <1>3, <1>5 DEF Counted, Replaces
<1>7. SameCommitted(rob, branch_count, rob', branch_count')
  BY <1>2, <1>3, <1>4, <1>6, CountedOneMore
<1> QED
  BY <1>7, BranchesMeans DEF BranchesKept, SameCommitted

\* So is one that did not; none behind it has been counted.
LEMMA BranchesFlush ==
  ASSUME CpuInv, ChainOK, FlushMispredicted
  PROVE  BranchesKept
<1>1. PICK i \in DOMAIN rob : FlushedAt(i)
  BY FlushLeaves
<1>2. /\ R!Resolvable(i) /\ DOMAIN rob' = 1..i /\ \A j \in 1..(i-1) : rob'[j] = rob[j]
      /\ rob'[i] = [rob[i] EXCEPT !.ctrl_handled = TRUE]
      /\ i \in Nat \ {0} /\ i <= Len(rob)
      /\ branch_count' = branch_count + (IF rob[i].op \in Branch THEN 1 ELSE 0)
  BY <1>1 DEF FlushedAt, Train
<1>3. /\ rob \in Seq(R!ROBEntry) /\ rob[i] \in R!ROBEntry /\ Tagged(rob) /\ branch_count \in Nat
      /\ DOMAIN rob = 1..Len(rob) /\ Len(rob) \in Nat
  BY RobFacts DEF CpuInv, CountersOK
<1>4. ~rob[i].ctrl_handled /\ rob'[i].op = rob[i].op /\ rob'[i].ctrl_handled
  BY <1>2, <1>3 DEF R!Resolvable, R!ROBEntry
<1>5. \A j \in DOMAIN rob : rob[j].op \in Branch /\ rob[j].ctrl_handled => j \in 1..(i-1)
  <2> SUFFICES ASSUME NEW j \in DOMAIN rob, rob[j].op \in Branch, rob[j].ctrl_handled
               PROVE  j \in 1..(i-1)
    OBVIOUS
  <2>1. rob[j].op \in R!Ctrl /\ rob[i].op \in R!Ctrl
    BY <1>2, OperationsAgree DEF Ctrl, R!Resolvable
  <2>2. \A k \in 1..(j-1) : rob[k].op \in R!Ctrl => rob[k].ctrl_handled
    BY <2>1 DEF CpuInv, RenameInv, R!ResolvedInOrder
  <2>3. i \notin 1..(j-1) /\ i # j
    BY <1>4, <2>1, <2>2
  <2>4. j \in Nat \ {0}
    BY <1>3
  <2> QED
    BY <1>2, <2>3, <2>4
<1>6. \A j \in 1..(i-1) : j \in DOMAIN rob /\ j \in 1..i
  <2> DEFINE n == Len(rob)
  <2>1. n \in Nat /\ i \in Nat /\ i <= n /\ DOMAIN rob = 1..n
    BY <1>2, <1>3
  <2> HIDE DEF n
  <2> QED
    BY <2>1
<1>7. \A j \in 1..i : j = i \/ j \in 1..(i-1)
  BY <1>2
<1>8. i \in 1..i
  BY <1>2
<1>9. Counted(rob') = Counted(rob) \cup (IF rob[i].op \in Branch THEN {i} ELSE {})
  <2>1. Counted(rob) = {j \in 1..(i-1) : rob[j].op \in Branch /\ rob[j].ctrl_handled}
    BY <1>5, <1>6 DEF Counted
  <2>2. Counted(rob') = {j \in 1..i : rob'[j].op \in Branch /\ rob'[j].ctrl_handled}
    BY <1>2 DEF Counted
  <2>3. \A j \in 1..(i-1) : rob'[j].op = rob[j].op /\ rob'[j].ctrl_handled = rob[j].ctrl_handled
    BY <1>2
  <2> QED
    BY <1>4, <1>6, <1>7, <1>8, <2>1, <2>2, <2>3
<1>10. SameCommitted(rob, branch_count, rob', branch_count')
  BY <1>2, <1>3, <1>4, <1>9, CountedOneMore
<1> QED
  BY <1>10, BranchesMeans DEF BranchesKept, SameCommitted

\* What is dispatched has not been counted.
LEMMA BranchesDispatch ==
  ASSUME CpuInv, DispatchOne
  PROVE  BranchesKept
<1> DEFINE e == R!NewEntry(Head(decode_q), next_tag)
<1>1. rob' = Append(rob, e) /\ branch_count' = branch_count
  BY DEF DispatchOne, R!Allocate, controlVars
<1>2. ~e.ctrl_handled
  BY DEF R!NewEntry
<1> HIDE DEF e
<1>3. rob \in Seq(R!ROBEntry) /\ DOMAIN rob = 1..Len(rob) /\ Len(rob) \in Nat
  BY RobFacts DEF CpuInv
<1>4. /\ \A i \in 1..Len(rob) : rob'[i] = rob[i]
      /\ rob'[Len(rob) + 1] = e /\ DOMAIN rob' = 1..(Len(rob) + 1)
  <2>1. Len(rob) \in Nat /\ \A i \in 1..(Len(rob) + 1) : i \in 1..Len(rob) \/ i = Len(rob) + 1
    BY <1>3
  <2> QED
    BY <1>1, <1>3, <2>1
<1>5. \A i : i \in DOMAIN rob' <=> i \in DOMAIN rob \/ i = Len(rob) + 1
  <2> DEFINE n == Len(rob)
  <2>1. n \in Nat /\ DOMAIN rob' = 1..(n + 1) /\ DOMAIN rob = 1..n
    BY <1>3, <1>4
  <2> HIDE DEF n
  <2>2. \A i : i \in 1..(n + 1) <=> i \in 1..n \/ i = n + 1
    BY <2>1
  <2> QED
    BY <2>1, <2>2 DEF n
<1>6. Counted(rob') = Counted(rob)
  BY <1>2, <1>3, <1>4, <1>5 DEF Counted
<1> QED
  BY <1>1, <1>6, BranchesMeans DEF BranchesKept

\* No other step counts or commits a branch.
LEMMA BranchesNext ==
  ASSUME CpuInv, ChainOK, [CpuNext]_cpuVars, ~CommitOne
  PROVE  BranchesKept
<1>1. CASE StartStep \/ CommitThrows \/ CommitEnds \/ Execute \/ ExecuteThrows \/ Issue
           \/ DispatchStalls \/ DispatchInvalid \/ DecodeAndFetch \/ CheckHalt
           \/ UNCHANGED cpuVars
  <2>1. UNCHANGED <<rob, branch_count>>
    <3>1. CASE StartStep
      BY <3>1 DEF StartStep, controlVars, renameVars
    <3>2. CASE CommitThrows
      BY <3>2 DEF CommitThrows, controlVars, renameVars
    <3>3. CASE CommitEnds
      BY <3>3 DEF CommitEnds, controlVars, renameVars
    <3>4. CASE Execute
      BY <3>4 DEF Execute, controlVars, renameVars
    <3>5. CASE ExecuteThrows
      BY <3>5 DEF ExecuteThrows, controlVars, renameVars
    <3>6. CASE Issue
      BY <3>6 DEF Issue, controlVars, renameVars
    <3>7. CASE DispatchStalls
      BY <3>7 DEF DispatchStalls, controlVars, renameVars
    <3>8. CASE DispatchInvalid
      BY <3>8 DEF DispatchInvalid, controlVars, renameVars
    <3>9. CASE CheckHalt
      BY <3>9 DEF CheckHalt, controlVars, renameVars
    <3>10. CASE UNCHANGED cpuVars
      BY <3>10 DEF cpuVars, controlVars, renameVars
    <3>11. CASE DecodeAndFetch
      BY <3>11 DEF DecodeAndFetch, controlVars, renameVars
    <3> QED
      BY <1>1, <3>1, <3>2, <3>3, <3>4, <3>5, <3>6, <3>7, <3>8, <3>9, <3>10, <3>11
  <2> QED
    BY <2>1, BranchesMeans DEF BranchesKept
<1>2. CASE WritebackOne
  BY <1>2, BranchesWriteback
<1>3. CASE ResolveOne
  BY <1>3, BranchesResolve
<1>4. CASE FlushMispredicted
  BY <1>4, BranchesFlush
<1>5. CASE DispatchOne
  BY <1>5, BranchesDispatch
<1> QED
  BY <1>1, <1>2, <1>3, <1>4, <1>5 DEF CpuNext

\* Whatever is speculated and flushed, what is in flight is the program's, each
\* instruction where the one before it leads.
THEOREM FlightInOrder == CpuSpec => [](CpuInv /\ ChainOK)
<1>1. CpuInit => CpuInv /\ ChainOK
  BY CpuInitInv, ChainInit
<1>2. CpuInv /\ ChainOK /\ [CpuNext]_cpuVars => (CpuInv /\ ChainOK)'
  BY CpuNextInv, ChainNext
<1> QED
  BY <1>1, <1>2, PTL DEF CpuSpec

\* The address of the next instruction to commit and the count of the branches that
\* have committed change only when an instruction commits.
THEOREM OnlyCommitShows ==
  CpuSpec => [][CommitOne \/ (NextPc' = NextPc /\ CommittedBranches' = CommittedBranches)]_cpuVars
<1>1. CpuInv /\ ChainOK /\ [CpuNext]_cpuVars =>
        [CommitOne \/ (NextPc' = NextPc /\ CommittedBranches' = CommittedBranches)]_cpuVars
  BY ChainNext, BranchesNext DEF BranchesKept
<1> QED
  BY <1>1, FlightInOrder, PTL DEF CpuSpec

-----------------------------------------------------------------------------
(* Where the CPU halts.                                                     *)

\* Fetching, one instruction at a time, stops behind the program.
StopsAtEnd ==
  config.width = 1 /\ fetch_stopped => fetch_q = <<>> /\ pc > end - WORD_BYTES

\* A CPU that halts without a word that does not decode halts in check_halt.
WordsDecode == \A i \in DOMAIN program : program[i].op # "INVALID"
HaltedEmpty ==
  WordsDecode /\ halted =>
    stage = "idle" /\ fetch_stopped /\ rob = <<>> /\ decode_q = <<>> /\ fetch_q = <<>>

\* Where a fetch starts, and how much it brings.
LEMMA FetchFrom ==
  ASSUME CpuInv, DecodeAndFetch
  PROVE  \E from \in Word, count \in Nat :
           /\ fetch_q' = [i \in 1..count |-> from + (i - 1) * WORD_BYTES]
           /\ pc' = ToWord(from + count * WORD_BYTES)
           /\ fetch_stopped' = (fetch_stopped \/ count < config.width)
           /\ fetch_stopped => count = 0
           /\ fetch_q = <<>> => from = pc
           /\ ~fetch_stopped /\ count < config.width => 
                count = IF from > end - WORD_BYTES THEN 0 ELSE (end - from) \div WORD_BYTES
<1> DEFINE decoded == [i \in DOMAIN fetch_q |-> Decode(fetch_q[i])]
           taken   == {i \in DOMAIN fetch_q : decoded[i].pred_taken}
           last    == IF taken = {} THEN Len(fetch_q)
                      ELSE CHOOSE i \in taken : \A j \in taken : i <= j
           from    == IF taken = {} THEN pc ELSE decoded[last].pred_target
           left    == IF from > end - WORD_BYTES THEN 0 ELSE (end - from) \div WORD_BYTES
           count   == IF fetch_stopped THEN 0
                      ELSE IF left < config.width THEN left ELSE config.width
<1>1. /\ fetch_q' = [i \in 1..count |-> from + (i - 1) * WORD_BYTES]
      /\ pc' = ToWord(from + count * WORD_BYTES)
      /\ fetch_stopped' = (fetch_stopped \/ count < config.width)
  BY DEF DecodeAndFetch
<1>2. /\ fetch_q \in Seq(Nat) /\ config.width \in Nat /\ pc \in Word /\ end \in Nat
      /\ \A i \in DOMAIN fetch_q : fetch_q[i] \in Nat /\ fetch_q[i] + WORD_BYTES <= end
      /\ DOMAIN fetch_q = 1..Len(fetch_q)
  <2>1. /\ fetch_q \in Seq(Nat) /\ pc \in Word
        /\ \A i \in DOMAIN fetch_q : fetch_q[i] + WORD_BYTES <= end
    BY DEF CpuInv, FrontOK
  <2>2. config.width \in Nat /\ Len(program) \in Nat /\ end = 4 * Len(program)
    BY ConfigFacts DEF CpuInv
  <2> QED
    BY <2>1, <2>2, LenProperties, ElementOfSeq
<1>3. taken # {} => last \in DOMAIN fetch_q
  <2> HAVE taken # {}
  <2>1. taken \subseteq Nat /\ taken \subseteq DOMAIN fetch_q
    BY <1>2
  <2>2. last = CHOOSE i \in taken : \A j \in taken : i <= j
    OBVIOUS
  <2> HIDE DEF taken, last
  <2>3. \E i \in taken : \A j \in taken : i <= j
    BY <2>1, LeastNat
  <2> QED
    BY <2>1, <2>2, <2>3
<1>4. \A i \in DOMAIN fetch_q : decoded[i] \in Fetched
  <2> SUFFICES ASSUME NEW i \in DOMAIN fetch_q PROVE decoded[i] \in Fetched
    OBVIOUS
  <2>1. decoded[i] = Decode(fetch_q[i])
    OBVIOUS
  <2> HIDE DEF decoded
  <2> QED
    BY <1>2, <2>1, DecodeOK
<1>5. fetch_q = <<>> => taken = {}
  <2>1. fetch_q = <<>> => DOMAIN fetch_q = {}
    BY EmptySeq
  <2> QED
    BY <2>1
<1>6. from = IF taken = {} THEN pc ELSE decoded[last].pred_target
  OBVIOUS
<1> HIDE DEF taken, last, decoded
<1>7. from \in Word
  BY <1>2, <1>3, <1>4 DEF Fetched
<1>8. fetch_q = <<>> => from = pc
  BY <1>5
<1> HIDE DEF from
<1>9. left \in Nat /\ left = IF from > end - WORD_BYTES THEN 0 ELSE (end - from) \div WORD_BYTES
  BY <1>2, <1>7, WordSizes DEF Word, WORD_BYTES
<1> HIDE DEF left
<1>10. /\ count \in Nat /\ (fetch_stopped => count = 0)
       /\ ~fetch_stopped /\ count < config.width => count = left
  BY <1>2, <1>9
<1> HIDE DEF count
<1> QED
  BY <1>1, <1>7, <1>8, <1>9, <1>10

\* It brings nothing only at the end, and then the counter stays there.
LEMMA StopsDecodeAndFetch ==
  ASSUME CpuInv, DecodeAndFetch, StopsAtEnd
  PROVE  StopsAtEnd'
<1>1. PICK from \in Word, count \in Nat :
        /\ fetch_q' = [i \in 1..count |-> from + (i - 1) * WORD_BYTES]
        /\ pc' = ToWord(from + count * WORD_BYTES)
        /\ fetch_stopped' = (fetch_stopped \/ count < config.width)
        /\ fetch_stopped => count = 0
        /\ fetch_q = <<>> => from = pc
        /\ ~fetch_stopped /\ count < config.width => 
             count = IF from > end - WORD_BYTES THEN 0 ELSE (end - from) \div WORD_BYTES
  BY FetchFrom
<1>2. UNCHANGED <<program, config>> /\ end' = end /\ end \in Nat
  <2>1. Len(program) \in Nat /\ end = 4 * Len(program)
    BY ConfigFacts DEF CpuInv
  <2>2. end \in Nat
    BY <2>1
  <2> QED
    BY <2>2 DEF DecodeAndFetch, inputVars, end
<1> SUFFICES ASSUME config.width = 1, fetch_stopped' PROVE fetch_q' = <<>> /\ pc' > end - WORD_BYTES
  BY <1>2 DEF StopsAtEnd
<1>3. from \in Nat /\ from < WordMod /\ WordMod \in Nat
  BY WordSizes DEF Word
<1>4. count = 0 /\ from > end - 4
  <2>1. CASE fetch_stopped
    BY <1>1, <2>1 DEF StopsAtEnd, WORD_BYTES
  <2>2. CASE ~fetch_stopped
    <3>1. count < config.width
      BY <1>1, <2>2, Zenon
    <3>2. count = 0
      BY <3>1
    <3>3. ~(from > end - 4) => (end - from) \div 4 > 0
      BY <1>2, <1>3
    <3> QED
      BY <1>1, <2>2, <3>1, <3>2, <3>3 DEF WORD_BYTES
  <2> QED
    BY <2>1, <2>2
<1>5. fetch_q' = <<>>
  <2>1. fetch_q' = [i \in 1..0 |-> from + (i - 1) * WORD_BYTES]
    BY <1>1, <1>4
  <2>2. 1..0 = {}
    OBVIOUS
  <2> QED
    BY <2>1, <2>2
<1>6. pc' = from
  <2>1. pc' = (from + 0 * 4) % WordMod
    BY <1>1, <1>4 DEF ToWord, WORD_BYTES
  <2>2. from + 0 * 4 = from
    BY <1>3
  <2>3. from % WordMod = from
    BY <1>3
  <2> QED
    BY <2>1, <2>2, <2>3
<1> QED
  BY <1>4, <1>5, <1>6 DEF WORD_BYTES

\* The front stops only behind the program.
LEMMA StopsNext ==
  ASSUME CpuInv, StopsAtEnd, [CpuNext]_cpuVars
  PROVE  StopsAtEnd'
<1>1. CASE DecodeAndFetch
  BY <1>1, StopsDecodeAndFetch
<1>2. CASE FlushMispredicted
  BY <1>2 DEF FlushMispredicted, StopsAtEnd
<1>3. CASE ~DecodeAndFetch /\ ~FlushMispredicted
  <2>1. UNCHANGED <<program, config, fetch_stopped, fetch_q, pc>>
    BY <1>3 DEF CpuNext, StartStep, CommitOne, CommitThrows, CommitEnds, WritebackOne, ResolveOne,
           Execute, ExecuteThrows, Issue, DispatchOne, DispatchStalls, DispatchInvalid, CheckHalt,
           inputVars, frontVars, cpuVars
  <2> QED
    BY <2>1 DEF StopsAtEnd, end
<1> QED
  BY <1>1, <1>2, <1>3

\* The CPU halts only when nothing is left in the pipeline.
LEMMA HaltedNext ==
  ASSUME CpuInv, ChainOK, HaltedEmpty, [CpuNext]_cpuVars
  PROVE  HaltedEmpty'
<1> SUFFICES ASSUME WordsDecode PROVE HaltedEmpty'
  <2>1. program' = program
    BY DEF CpuNext, StartStep, CommitOne, CommitThrows, CommitEnds, WritebackOne, ResolveOne,
           FlushMispredicted, Execute, ExecuteThrows, Issue, DispatchOne, DispatchStalls,
           DispatchInvalid, DecodeAndFetch, CheckHalt, inputVars, cpuVars
  <2> QED
    BY <2>1 DEF HaltedEmpty, WordsDecode
<1>1. CASE DispatchInvalid
  <2>1. decode_q \in Seq(Fetched) /\ decode_q # <<>> /\ Head(decode_q).op = "INVALID"
    BY <1>1 DEF DispatchInvalid, CpuInv, FrontOK
  <2>2. 1 \in DOMAIN decode_q /\ Head(decode_q) = decode_q[1] /\ decode_q[1].pc \in Nat
    <3>1. 1 \in DOMAIN decode_q /\ Head(decode_q) = decode_q[1]
      BY <2>1, EmptySeq
    <3>2. decode_q[1] \in Fetched
      BY <2>1, <3>1, ElementOfSeq
    <3>3. decode_q[1].pc \in Word
      BY <3>2 DEF Fetched
    <3> QED
      BY <3>1, <3>3, WordSizes DEF Word
  <2>3. InProgram(program, decode_q[1])
    BY <2>2 DEF ChainOK, Chain, AllDecoded
  <2>4. Instr(program, decode_q[1].pc).op = "INVALID"
    BY <2>1, <2>2, <2>3 DEF InProgram
  <2> DEFINE k == decode_q[1].pc \div WORD_BYTES + 1
             n == Len(program)
             a == decode_q[1].pc
  <2>5. n \in Nat /\ DOMAIN program = 1..n /\ a \in Nat /\ a + 4 <= 4 * n
    BY <2>2, <2>3, ConfigFacts, LenProperties DEF CpuInv, InProgram, WORD_BYTES
  <2>6. k = a \div 4 + 1
    BY DEF WORD_BYTES
  <2> HIDE DEF n, a, k
  <2>7. k \in DOMAIN program
    BY <2>5, <2>6
  <2>8. program[k].op = "INVALID"
    BY <2>4 DEF Instr, k
  <2> QED
    BY <2>7, <2>8 DEF WordsDecode
<1>2. CASE CheckHalt
  <2>1. ~halted
    BY <1>2 DEF CheckHalt, HaltedEmpty
  <2> QED
    BY <1>2, <2>1 DEF CheckHalt, HaltedEmpty, frontVars, renameVars
<1>3. CASE UNCHANGED cpuVars
  BY <1>3 DEF HaltedEmpty, WordsDecode, cpuVars, frontVars, renameVars
<1>4. CASE CpuNext /\ ~DispatchInvalid /\ ~CheckHalt
  <2>1. ~halted
    BY <1>4 DEF HaltedEmpty, CpuNext, StartStep, CommitOne, CommitThrows, CommitEnds,
           WritebackOne, ResolveOne, FlushMispredicted, Execute, ExecuteThrows, Issue,
           DispatchOne, DispatchStalls, DecodeAndFetch
  <2>2. halted' = halted
    BY <1>4 DEF CpuNext, StartStep, CommitOne, CommitThrows, CommitEnds, WritebackOne,
           ResolveOne, FlushMispredicted, Execute, ExecuteThrows, Issue, DispatchOne,
           DispatchStalls, DecodeAndFetch
  <2> QED
    BY <2>1, <2>2 DEF HaltedEmpty
<1> QED
  BY <1>1, <1>2, <1>3, <1>4

\* One instruction at a time, a CPU that halts has executed the whole program, when all
\* of its words decode.
THEOREM NarrowHaltsAtEnd == CpuSpec => []HaltsAtEndWhenNarrow
<1>1. CpuInit => StopsAtEnd /\ HaltedEmpty
  BY DEF CpuInit, StopsAtEnd, HaltedEmpty
<1>2. CpuInv /\ ChainOK /\ StopsAtEnd /\ HaltedEmpty /\ [CpuNext]_cpuVars
        => (StopsAtEnd /\ HaltedEmpty)'
  BY StopsNext, HaltedNext
<1>3. CpuInv /\ StopsAtEnd /\ HaltedEmpty => HaltsAtEndWhenNarrow
  <2> SUFFICES ASSUME CpuInv, StopsAtEnd, HaltedEmpty, config.width = 1, WordsDecode, halted
               PROVE  rob = <<>> /\ M!AtEnd
    BY DEF HaltsAtEndWhenNarrow, HaltsAtEnd, WordsDecode
  <2>1. rob = <<>> /\ decode_q = <<>> /\ fetch_q = <<>> /\ pc > end - 4
    BY DEF HaltedEmpty, StopsAtEnd, WORD_BYTES
  <2>2. NextPc = pc
    BY <2>1 DEF NextPc
  <2>3. Len(program) \in Nat /\ end = 4 * Len(program) /\ pc \in Nat
    BY ConfigFacts, WordSizes DEF CpuInv, FrontOK, Word
  <2>4. pc > 4 * (Len(program) - 1)
    BY <2>1, <2>3
  <2> QED
    BY <2>1, <2>2, <2>4 DEF M!AtEnd, M!WORD_BYTES
<1> QED
  BY <1>1, <1>2, <1>3, FlightInOrder, PTL DEF CpuSpec

-----------------------------------------------------------------------------
(* What an execution unit looks at.                                         *)

\* The arms of Compute.
Arms(e, new_vl) ==
  LET a == e.Vj[0]
      b == IF e.op \in Upper \cup AluImm THEN ToWord(e.imm) ELSE e.Vk[0]
      base == IF e.op = "LUI" THEN 0 ELSE IF e.op = "AUIPC" THEN e.pc ELSE a
  IN  CASE exec_type(e.op) = "LOGIC"  -> scalar(alu(e.op, base, b))
        [] exec_type(e.op) = "MULDIV" -> scalar(muldiv(e.op, a, b))
        [] e.op \in Jump              -> scalar(ToWord(e.pc + WORD_BYTES))
        [] e.op \in Branch            -> scalar(0)
        [] e.op \in VSet              -> scalar(new_vl)
        [] exec_type(e.op) = "FLOAT"  ->
             scalar(ToWord(F!fpu(e.op, a, e.Vk[0], e.Vl[0], e.rm)))
        [] e.op \in Vector \ VSet     -> vector(e.op, e.imm, e.Vj, e.Vk, e.Vl, e.vl, e.sew)

\* The vl of a result.
NewVl(e, n) == IF e.op \in VSet THEN vset_vl(e.op, e.imm, e.Vj[0], e.sew, n) ELSE e.vl

\* Compute in these terms.
LEMMA ComputeMeans ==
  ASSUME NEW e, NEW n
  PROVE  LET a == e.Vj[0]
             b == IF e.op \in Upper \cup AluImm THEN ToWord(e.imm) ELSE e.Vk[0]
         IN  Compute(e, n) =
               [value |-> Arms(e, NewVl(e, n)),
                jumped |-> e.op \in Jump \/ (e.op \in Branch /\ branch_taken(e.op, a, b)),
                target |-> IF e.op \in Ctrl THEN ctrl_target(e.op, e.pc, e.imm, a) ELSE 0,
                vl  |-> IF e.op \in Vector THEN NewVl(e, n) ELSE 0,
                sew |-> IF e.op \in Vector THEN e.sew ELSE 0]
BY Zenon DEF Compute, Arms, NewVl

\* The execution path tells the kinds of operations apart.
LEMMA KindsApart ==
  ASSUME NEW op \in Op
  PROVE  /\ exec_type(op) = "LOGIC" <=> op \in Alu \cup AluImm \cup Upper
         /\ exec_type(op) = "MULDIV" <=> op \in Mul \cup Div
         /\ exec_type(op) = "CTRL" <=> op \in Jump \cup Branch
         /\ exec_type(op) = "LOADSTORE" <=> op \in Load \cup Store
         /\ exec_type(op) = "FLOAT" <=> op \in Float
         /\ exec_type(op) = "VECTOR" <=> op \in Vector
         /\ op \in Jump => op \notin Branch
         /\ VSet \subseteq Vector
<1>1. /\ op \in Alu \cup AluImm \cup Upper => exec_type(op) = "LOGIC"
      /\ op \in Mul \cup Div => exec_type(op) = "MULDIV"
      /\ op \in Ctrl => exec_type(op) = "CTRL"
      /\ op \in Load \cup Store => exec_type(op) = "LOADSTORE"
      /\ op \in Float => exec_type(op) = "FLOAT"
      /\ op \in Vector => exec_type(op) = "VECTOR"
  BY ExecTypes
<1>2. \/ op \in Alu \cup AluImm \cup Upper \/ op \in Mul \cup Div \/ op \in Ctrl
      \/ op \in Load \cup Store \/ op \in Float \/ op \in Vector
  BY Zenon DEF Op
<1>3. Ctrl = Jump \cup Branch /\ VSet \subseteq Vector /\ (op \in Jump => op \notin Branch)
  BY DEF Ctrl, Vector, Jump, Branch
<1> QED
  BY <1>1, <1>2, <1>3

\* A register of one word gets a value of one word.
LEMMA ComputedNormal ==
  ASSUME NEW e, e.op \in Op, ~IsAccess(e.op), NEW n
  PROVE  Normal(e.op, Compute(e, n).value)
<1>1. Compute(e, n).value = Arms(e, NewVl(e, n))
  <2> DEFINE v == Arms(e, NewVl(e, n))
             a == e.Vj[0]
             b == IF e.op \in Upper \cup AluImm THEN ToWord(e.imm) ELSE e.Vk[0]
             j == e.op \in Jump \/ (e.op \in Branch /\ branch_taken(e.op, a, b))
             t == IF e.op \in Ctrl THEN ctrl_target(e.op, e.pc, e.imm, a) ELSE 0
             k == IF e.op \in Vector THEN NewVl(e, n) ELSE 0
             w == IF e.op \in Vector THEN e.sew ELSE 0
  <2>1. Compute(e, n) = [value |-> v, jumped |-> j, target |-> t, vl |-> k, sew |-> w]
    BY ComputeMeans, Zenon
  <2> HIDE DEF v, a, b, j, t, k, w
  <2> QED
    BY <2>1 DEF v
<1>2. \A w : scalar(w) = scalar(scalar(w)[0])
  <2>1. \A w : scalar(w)[0] = w
    BY MemoryAssumption DEF scalar, Lane
  <2> QED
    BY <2>1, Zenon
<1> DEFINE op == e.op
           v == Arms(e, NewVl(e, n))
           a == e.Vj[0]
           b == IF e.op \in Upper \cup AluImm THEN ToWord(e.imm) ELSE e.Vk[0]
           base == IF e.op = "LUI" THEN 0 ELSE IF e.op = "AUIPC" THEN e.pc ELSE a
           v1 == scalar(alu(op, base, b))
           v2 == scalar(muldiv(op, a, b))
           v3 == scalar(ToWord(e.pc + WORD_BYTES))
           v4 == scalar(0)
           v5 == scalar(NewVl(e, n))
           v6 == scalar(ToWord(F!fpu(e.op, a, e.Vk[0], e.Vl[0], e.rm)))
           v7 == vector(e.op, e.imm, e.Vj, e.Vk, e.Vl, e.vl, e.sew)
<1>3. v = CASE exec_type(op) = "LOGIC"  -> v1
            [] exec_type(op) = "MULDIV" -> v2
            [] op \in Jump              -> v3
            [] op \in Branch            -> v4
            [] op \in VSet              -> v5
            [] exec_type(op) = "FLOAT"  -> v6
            [] op \in Vector \ VSet     -> v7
  BY Zenon DEF Arms
<1>4. v \in {v1, v2, v3, v4, v5, v6} \/ (op \in Vector \ VSet /\ v = v7)
  <2> HIDE DEF v, v1, v2, v3, v4, v5, v6, v7
  <2>1. op \in Op
    OBVIOUS
  <2>2. /\ exec_type(op) = "LOGIC" <=> op \in Alu \cup AluImm \cup Upper
        /\ exec_type(op) = "MULDIV" <=> op \in Mul \cup Div
        /\ exec_type(op) = "CTRL" <=> op \in Jump \cup Branch
        /\ exec_type(op) = "LOADSTORE" <=> op \in Load \cup Store
        /\ exec_type(op) = "FLOAT" <=> op \in Float
        /\ exec_type(op) = "VECTOR" <=> op \in Vector
        /\ op \in Jump => op \notin Branch
        /\ VSet \subseteq Vector
    BY <2>1, KindsApart
  <2>3. \/ op \in Alu \cup AluImm \cup Upper \/ op \in Mul \cup Div \/ op \in Jump \/ op \in Branch
        \/ op \in VSet \/ op \in Float \/ op \in Vector \ VSet
    BY Zenon DEF Op, IsAccess, Ctrl
  <2> HIDE DEF op
  <2>4. CASE op \in Alu \cup AluImm \cup Upper
    BY <1>3, <2>2, <2>4
  <2>5. CASE op \in Mul \cup Div
    BY <1>3, <2>2, <2>5
  <2>6. CASE op \in Jump
    BY <1>3, <2>2, <2>6
  <2>7. CASE op \in Branch
    BY <1>3, <2>2, <2>7
  <2>8. CASE op \in VSet
    BY <1>3, <2>2, <2>8
  <2>9. CASE op \in Float
    BY <1>3, <2>2, <2>9
  <2>10. CASE op \in Vector \ VSet
    BY <1>3, <2>2, <2>10
  <2> QED
    BY <2>3, <2>4, <2>5, <2>6, <2>7, <2>8, <2>9, <2>10
<1>5. v \in {v1, v2, v3, v4, v5, v6} => v = scalar(v[0])
  <2> DEFINE Word0(u) == u = scalar(u[0])
  <2>1. Word0(v1) /\ Word0(v2) /\ Word0(v3) /\ Word0(v4) /\ Word0(v5) /\ Word0(v6)
    BY <1>2
  <2> HIDE DEF v, v1, v2, v3, v4, v5, v6
  <2>2. v \in {v1, v2, v3, v4, v5, v6} => Word0(v)
    BY <2>1
  <2> QED
    BY <2>2
<1>6. op \in Vector \ VSet /\ dst_type(op) \in {"INT", "FLOAT"} => op = "VMV_X_S"
  BY DEF dst_type, Vector, VSet, VMul, VFMul, VMove, Alu, AluImm, Upper, Mul, Div, Jump, IntLoad,
         FCmp, Float, FAdd, FMul, FMac, FSgn
<1>7. op = "VMV_X_S" => v7 = scalar(sign_extend(e.Vj[0], e.sew \div 8))
  <2> SUFFICES ASSUME e.op = "VMV_X_S" PROVE v7 = scalar(sign_extend(e.Vj[0], e.sew \div 8))
    OBVIOUS
  <2>1. v7 = vector("VMV_X_S", e.imm, e.Vj, e.Vk, e.Vl, e.vl, e.sew)
    BY Zenon
  <2> HIDE DEF v7
  <2> QED
    BY <2>1 DEF vector
<1> HIDE DEF v, v1, v2, v3, v4, v5, v6, v7
<1>8. Normal(op, v)
  <2>1. CASE v \in {v1, v2, v3, v4, v5, v6}
    BY <1>5, <2>1 DEF Normal
  <2>2. CASE op \in Vector \ VSet /\ v = v7
    <3> SUFFICES ASSUME dst_type(op) \in {"INT", "FLOAT"} PROVE v = scalar(v[0])
      BY DEF Normal
    <3>1. v = scalar(sign_extend(e.Vj[0], e.sew \div 8))
      BY <1>6, <1>7, <2>2
    <3> QED
      BY <1>2, <3>1, Zenon
  <2> QED
    BY <1>4, <2>1, <2>2
<1> QED
  BY <1>1, <1>8 DEF v

\* A unit computes the same whatever else its entry holds, and whatever vl is
\* committed, unless that is what it is asked for.
LEMMA UnitLooksAt ==
  ASSUME NEW d, d.op \in Op, ~IsAccess(d.op), ~(d.op = "VSETVLI" /\ d.imm = -2),
         NEW a, NEW V, NEW c, NEW e, NEW n,
         e.op = d.op, e.pc = a, e.imm = d.imm, e.rm = d.rm,
         e.Vj = V[1], e.Vk = V[2], e.Vl = V[3],
         UsesConfig(d.op) => e.vl = c[1] /\ e.sew = c[2],
         d.op \in VSet => e.sew = d.sew
  PROVE  /\ Compute(e, n) = Compute(Operated(d, a, V, c), 0)
         /\ Unsupported(e) <=> Unsupported(Operated(d, a, V, c))
<1> DEFINE f == Operated(d, a, V, c)
<1>1. /\ f.op = e.op /\ f.pc = e.pc /\ f.imm = e.imm /\ f.rm = e.rm
      /\ f.Vj = e.Vj /\ f.Vk = e.Vk /\ f.Vl = e.Vl
      /\ UsesConfig(e.op) => f.vl = e.vl /\ f.sew = e.sew
      /\ e.op \in VSet => f.sew = e.sew
  <2>1. UsesConfig(d.op) => d.op \notin VSet
    BY DEF UsesConfig
  <2> QED
    BY <2>1 DEF Operated
<1>2. e.op \in Op /\ ~IsAccess(e.op) /\ ~(e.op = "VSETVLI" /\ e.imm = -2)
  OBVIOUS
<1> HIDE DEF f
<1>3. /\ e.op \in Vector \ VSet => UsesConfig(e.op)
      /\ e.op \in VectorFloat => UsesConfig(e.op)
  BY DEF UsesConfig, Vec, VectorFloat, Vector, VSet, VMul, VFMul, VMove
<1>4. e.op \in Vector => NewVl(e, n) = NewVl(f, 0)
  <2>1. CASE e.op \in VSet
    <3> DEFINE op == e.op
               imm == e.imm
               w == e.Vj[0]
               s == e.sew
    <3>1. vset_vl(op, imm, w, s, n) = vset_vl(op, imm, w, s, 0)
      BY <1>2, Zenon DEF vset_vl
    <3>2. NewVl(e, n) = vset_vl(op, imm, w, s, n)
      BY <2>1, Zenon DEF NewVl
    <3>3. NewVl(f, 0) = vset_vl(f.op, f.imm, f.Vj[0], f.sew, 0)
      BY <1>1, <2>1, Zenon DEF NewVl
    <3>4. f.op = op /\ f.imm = imm /\ f.Vj[0] = w /\ f.sew = s
      BY <1>1, <2>1
    <3> HIDE DEF op, imm, w, s
    <3> QED
      BY <3>1, <3>2, <3>3, <3>4, Zenon
  <2>2. CASE e.op \in Vector \ VSet
    <3>1. f.vl = e.vl
      BY <1>1, <1>3, <2>2
    <3>2. NewVl(e, n) = e.vl /\ NewVl(f, 0) = f.vl
      BY <1>1, <2>2, Zenon DEF NewVl
    <3> QED
      BY <3>1, <3>2
  <2> QED
    BY <2>1, <2>2
<1>5. Arms(e, NewVl(e, n)) = Arms(f, NewVl(f, 0))
  <2> DEFINE op == e.op
             x == e.Vj[0]
             y == e.Vk[0]
             z == e.Vl[0]
             b == IF e.op \in Upper \cup AluImm THEN ToWord(e.imm) ELSE y
             base == IF e.op = "LUI" THEN 0 ELSE IF e.op = "AUIPC" THEN e.pc ELSE x
             u1 == scalar(alu(op, base, b))
             u2 == scalar(muldiv(op, x, b))
             u3 == scalar(ToWord(e.pc + WORD_BYTES))
             u4 == scalar(0)
             u5 == scalar(NewVl(e, n))
             w5 == scalar(NewVl(f, 0))
             u6 == scalar(ToWord(F!fpu(e.op, x, y, z, e.rm)))
             u7 == vector(e.op, e.imm, e.Vj, e.Vk, e.Vl, e.vl, e.sew)
             w7 == vector(e.op, e.imm, e.Vj, e.Vk, e.Vl, f.vl, f.sew)
             g == NewVl(f, 0)
  <2>1. Arms(e, NewVl(e, n)) =
          CASE exec_type(op) = "LOGIC"  -> u1
            [] exec_type(op) = "MULDIV" -> u2
            [] op \in Jump              -> u3
            [] op \in Branch            -> u4
            [] op \in VSet              -> u5
            [] exec_type(op) = "FLOAT"  -> u6
            [] op \in Vector \ VSet     -> u7
    BY Zenon DEF Arms
  <2>2. Arms(f, g) =
          CASE exec_type(op) = "LOGIC"  -> u1
            [] exec_type(op) = "MULDIV" -> u2
            [] op \in Jump              -> u3
            [] op \in Branch            -> u4
            [] op \in VSet              -> scalar(g)
            [] exec_type(op) = "FLOAT"  -> u6
            [] op \in Vector \ VSet     -> w7
    <3> HIDE DEF g
    <3> QED
      BY <1>1, Zenon DEF Arms
  <2>3. op \in VSet => u5 = w5
    BY <1>4, Zenon DEF Vector
  <2>4. op \in Vector \ VSet => u7 = w7
    BY <1>1, <1>3, Zenon
  <2>5. w5 = scalar(g)
    OBVIOUS
  <2>6. \/ op \in Alu \cup AluImm \cup Upper \/ op \in Mul \cup Div \/ op \in Jump \/ op \in Branch
        \/ op \in VSet \/ op \in Float \/ op \in Vector \ VSet
    BY <1>2, Zenon DEF Op, IsAccess, Ctrl
  <2>7. /\ exec_type(op) = "LOGIC" <=> op \in Alu \cup AluImm \cup Upper
        /\ exec_type(op) = "MULDIV" <=> op \in Mul \cup Div
        /\ exec_type(op) = "CTRL" <=> op \in Jump \cup Branch
        /\ exec_type(op) = "LOADSTORE" <=> op \in Load \cup Store
        /\ exec_type(op) = "FLOAT" <=> op \in Float
        /\ exec_type(op) = "VECTOR" <=> op \in Vector
        /\ op \in Jump => op \notin Branch
        /\ VSet \subseteq Vector
    BY <1>2, KindsApart
  <2> DEFINE s1 == Arms(e, NewVl(e, n))
             s2 == Arms(f, g)
  <2>8. s1 = CASE exec_type(op) = "LOGIC"  -> u1
            [] exec_type(op) = "MULDIV" -> u2
            [] op \in Jump              -> u3
            [] op \in Branch            -> u4
            [] op \in VSet              -> u5
            [] exec_type(op) = "FLOAT"  -> u6
            [] op \in Vector \ VSet     -> u7
    BY <2>1
  <2>9. s2 = CASE exec_type(op) = "LOGIC"  -> u1
            [] exec_type(op) = "MULDIV" -> u2
            [] op \in Jump              -> u3
            [] op \in Branch            -> u4
            [] op \in VSet              -> w5
            [] exec_type(op) = "FLOAT"  -> u6
            [] op \in Vector \ VSet     -> w7
    BY <2>2, <2>5
  <2> HIDE DEF s1, s2, op, x, y, z, b, base, u1, u2, u3, u4, u5, w5, u6, u7, w7, g
  <2>10. s1 = s2
    <3>1. CASE op \in VSet
      <4>1. u5 = w5
        BY <2>3, <3>1
      <4>2. s1 = CASE exec_type(op) = "LOGIC"  -> u1
            [] exec_type(op) = "MULDIV" -> u2
            [] op \in Jump              -> u3
            [] op \in Branch            -> u4
            [] op \in VSet              -> w5
            [] exec_type(op) = "FLOAT"  -> u6
            [] op \in Vector \ VSet     -> u7
        BY <2>8, <4>1
      <4> QED
        BY <2>7, <2>9, <3>1, <4>2
    <3>2. CASE op \in Vector \ VSet
      <4>1. u7 = w7
        BY <2>4, <3>2
      <4> QED
        BY <2>7, <2>8, <2>9, <3>2, <4>1
    <3>3. CASE op \in Alu \cup AluImm \cup Upper
      BY <2>7, <2>8, <2>9, <3>3
    <3>4. CASE op \in Mul \cup Div
      BY <2>7, <2>8, <2>9, <3>4
    <3>5. CASE op \in Jump
      BY <2>7, <2>8, <2>9, <3>5
    <3>6. CASE op \in Branch
      BY <2>7, <2>8, <2>9, <3>6
    <3>7. CASE op \in Float
      BY <2>7, <2>8, <2>9, <3>7
    <3> QED
      BY <2>6, <3>1, <3>2, <3>3, <3>4, <3>5, <3>6, <3>7
  <2> QED
    BY <2>10 DEF s1, s2, g
<1>6. Compute(e, n) = Compute(f, 0)
  <2> DEFINE v == Arms(e, NewVl(e, n))
             x == e.Vj[0]
             b == IF e.op \in Upper \cup AluImm THEN ToWord(e.imm) ELSE e.Vk[0]
             j == e.op \in Jump \/ (e.op \in Branch /\ branch_taken(e.op, x, b))
             t == IF e.op \in Ctrl THEN ctrl_target(e.op, e.pc, e.imm, x) ELSE 0
             k == IF e.op \in Vector THEN NewVl(e, n) ELSE 0
             w == IF e.op \in Vector THEN e.sew ELSE 0
             k2 == IF e.op \in Vector THEN NewVl(f, 0) ELSE 0
             w2 == IF e.op \in Vector THEN f.sew ELSE 0
  <2>1. Compute(e, n) = [value |-> v, jumped |-> j, target |-> t, vl |-> k, sew |-> w]
    BY ComputeMeans, Zenon
  <2>2. Compute(f, 0) = [value |-> Arms(f, NewVl(f, 0)), jumped |-> j, target |-> t, vl |-> k2, sew |-> w2]
    <3> DEFINE xf == f.Vj[0]
               bf == IF f.op \in Upper \cup AluImm THEN ToWord(f.imm) ELSE f.Vk[0]
               jf == f.op \in Jump \/ (f.op \in Branch /\ branch_taken(f.op, xf, bf))
               tf == IF f.op \in Ctrl THEN ctrl_target(f.op, f.pc, f.imm, xf) ELSE 0
               kf == IF f.op \in Vector THEN NewVl(f, 0) ELSE 0
               wf == IF f.op \in Vector THEN f.sew ELSE 0
    <3>1. Compute(f, 0) = [value |-> Arms(f, NewVl(f, 0)), jumped |-> jf, target |-> tf, vl |-> kf, sew |-> wf]
      BY ComputeMeans, Zenon
    <3>2. xf = x /\ bf = b
      BY <1>1, Zenon
    <3> HIDE DEF x, b, xf, bf
    <3>3. jf = j /\ tf = t /\ kf = k2 /\ wf = w2
      BY <1>1, <3>2, Zenon
    <3> HIDE DEF jf, j, tf, t, kf, k2, wf, w2
    <3> QED
      BY <3>1, <3>3, Zenon
  <2>3. k = k2
    BY <1>4, Zenon
  <2>4. w = w2
    <3>1. e.op \in Vector => f.sew = e.sew
      BY <1>1, <1>3, Zenon
    <3> QED
      BY <3>1, Zenon
  <2> HIDE DEF v, x, b, j, t, k, w, k2, w2
  <2> QED
    BY <1>5, <2>1, <2>2, <2>3, <2>4 DEF v
<1>7. Unsupported(e) <=> Unsupported(f)
  BY <1>1, <1>3 DEF Unsupported
<1> QED
  BY <1>6, <1>7 DEF f

-----------------------------------------------------------------------------
(* What the pipeline's instructions in flight are.                          *)

DataInv == DataOK(Entries(rob), regs, vl, vsew, program, paths, lsq)

\* The entries of a queue whose tags grow are instructions in flight.
LEMMA FlightOf ==
  ASSUME NEW r, Tagged(r)
  PROVE  IsFlight(Entries(r))
<1>1. ASSUME NEW e \in Entries(r), NEW f \in Entries(r), e.tag = f.tag PROVE e = f
  BY <1>1, OneEntry DEF Entries
<1>2. \A e \in Entries(r) : e.tag \in Nat
  BY DEF Entries, Tagged
<1> QED
  BY <1>1, <1>2 DEF IsFlight

\* What has an entry is known.
LEMMA EntryKnown ==
  ASSUME NEW r, NEW tag
  PROVE  /\ \A op : Entry(r, tag, op) => Known(Entries(r), tag)
         /\ \A op : Pending(r, tag, op) => Known(Entries(r), tag)
BY DEF Entry, Pending, Known, Entries

\* Whatever the paths and the queue hold is in flight.
LEMMA KnownOf ==
  ASSUME NEW c, NEW r, NEW ps, NEW q, NEW us, Serving(c, r, ps, q, us), Tagged(r)
  PROVE  AllKnown(Entries(r), ps, q)
<1>1. ASSUME NEW t \in ExecType
      PROVE  /\ \A i \in DOMAIN ps[t].stations : /\ Known(Entries(r), ps[t].stations[i].tag)
                                                 /\ StationOK(ps[t].stations[i])
             /\ \A u \in ps[t].units : Known(Entries(r), u.rs.tag)
             /\ \A y \in ps[t].completed : Known(Entries(r), y.tag)
  <2>1. PathTyped(ps[t], c.rs_size, c.units[t]) /\ PathServes(ps[t], t, r)
    BY DEF Serving, PathOK
  <2> QED
    BY <2>1, EntryKnown DEF PathTyped, PathServes
<1>2. \A i \in DOMAIN q : Known(Entries(r), q[i].tag)
  BY InQueue, EntryKnown
<1> QED
  BY <1>1, <1>2 DEF AllKnown

\* Every instruction in flight is one of the program.
LEMMA CodedOf ==
  ASSUME CpuInv, ChainOK
  PROVE  /\ Coded(Entries(rob), program)
         /\ \A x \in Entries(rob) :
              /\ x \in R!ROBEntry /\ IssuedFrom(program, x)
              /\ Instr(program, x.pc) \in Instruction /\ VsetOK(Instr(program, x.pc))
              /\ x.op = Instr(program, x.pc).op /\ x.rd = Instr(program, x.pc).rd
              /\ x.op \in Op /\ x.rd \in Reg /\ x.pc \in Word
              /\ \E i \in 1..Len(program) : Instr(program, x.pc) = program[i]
<1> SUFFICES ASSUME NEW x \in Entries(rob)
             PROVE  /\ x \in R!ROBEntry /\ IssuedFrom(program, x)
                    /\ Instr(program, x.pc) \in Instruction /\ VsetOK(Instr(program, x.pc))
                    /\ x.op = Instr(program, x.pc).op /\ x.rd = Instr(program, x.pc).rd
                    /\ x.op \in Op /\ x.rd \in Reg /\ x.pc \in Word
                    /\ \E i \in 1..Len(program) : Instr(program, x.pc) = program[i]
  BY DEF Coded
<1>1. x \in R!ROBEntry /\ IssuedFrom(program, x)
  BY RobFacts DEF CpuInv, Entries, ChainOK, Chain, AllIssued
<1>2. x.op \in Op /\ x.rd \in Reg /\ x.pc \in Word
  BY <1>1, OperationsAgree DEF R!ROBEntry
<1> DEFINE n == Len(program)
           k == x.pc \div WORD_BYTES + 1
<1>3. n \in Nat /\ \A i \in 1..n : program[i] \in Instruction /\ VsetOK(program[i])
  BY ConfigFacts DEF CpuInv
<1>4. k \in 1..n
  <2>1. x.pc \in Nat
    BY <1>2, WordSizes DEF Word
  <2>2. x.pc + 4 <= 4 * n
    BY <1>1 DEF IssuedFrom, WORD_BYTES
  <2> DEFINE a == x.pc
  <2> HIDE DEF a, n
  <2>3. a \in Nat /\ n \in Nat /\ a + 4 <= 4 * n => a \div 4 + 1 \in 1..n
    OBVIOUS
  <2> QED
    BY <1>3, <2>1, <2>2, <2>3 DEF a, WORD_BYTES
<1>5. Instr(program, x.pc) = program[k]
  BY DEF Instr
<1> HIDE DEF k, n
<1> QED
  BY <1>1, <1>2, <1>3, <1>4, <1>5 DEF IssuedFrom, n

-----------------------------------------------------------------------------
(* The data of the pipeline, handler by handler.                            *)

\* What the lemmas on data ask of the instructions in flight.
LEMMA FlightFacts ==
  ASSUME CpuInv, ChainOK
  PROVE  /\ IsFlight(Entries(rob)) /\ AllKnown(Entries(rob), paths, lsq)
         /\ Coded(Entries(rob), program)
<1>1. Tagged(rob) /\ Serving(config, rob, paths, lsq, lsus)
  BY RobFacts DEF CpuInv, Served
<1> QED
  BY <1>1, FlightOf, KnownOf, CodedOf

\* What does not touch any of it.
LEMMA DataUnchanged ==
  ASSUME DataInv, UNCHANGED <<rob, regs, vl, vsew, program, paths, lsq>>
  PROVE  DataInv'
BY DEF DataInv, Entries

\* One entry becomes another, the others stay.
LEMMA ReplacedCorresponds ==
  ASSUME NEW r, Tagged(r), NEW w, NEW i \in DOMAIN r, NEW e, Replaces(w, r, i, e),
         NEW tag, NEW res, Becomes(r[i], e, tag, res),
         \A j \in DOMAIN r : j # i => r[j].tag # tag
  PROVE  Corresponds(Entries(r), Entries(w), tag, res)
<1>1. DOMAIN w = DOMAIN r
  BY DEF Replaces
<1>2. ASSUME NEW j \in DOMAIN r PROVE Becomes(r[j], w[j], tag, res)
  <2>1. CASE j = i
    BY <2>1 DEF Replaces
  <2>2. CASE j # i
    BY <2>2 DEF Replaces, Becomes
  <2> QED
    BY <2>1, <2>2
<1> QED
  BY <1>1, <1>2 DEF Corresponds, Entries

\* A control instruction that is marked keeps its result.
LEMMA DataResolve ==
  ASSUME CpuInv, ChainOK, DataInv, ResolveOne
  PROVE  DataInv'
<1>1. UNCHANGED <<regs, vl, vsew, program, paths, lsq>>
  BY DEF ResolveOne, inputVars, archVars, execVars
<1>2. PICK i \in DOMAIN rob : R!Resolve(i)
  BY DEF ResolveOne
<1>3. R!Resolvable(i) /\ rob' = [rob EXCEPT ![i].ctrl_handled = TRUE]
  BY <1>2 DEF R!Resolve
<1> DEFINE e == [rob[i] EXCEPT !.ctrl_handled = TRUE]
           E == Entries(rob)
           E2 == Entries(rob')
<1>4. /\ e.pc = rob[i].pc /\ e.tag = rob[i].tag /\ e.op = rob[i].op /\ e.rd = rob[i].rd
      /\ e.ready = rob[i].ready /\ e.result = rob[i].result
  BY <1>3, ChainMarked
<1>5. rob \in Seq(R!ROBEntry) /\ Tagged(rob)
  BY RobFacts DEF CpuInv
<1>6. Replaces(rob', rob, i, e)
  <2>1. rob' = [rob EXCEPT ![i] = e]
    BY <1>3
  <2> QED
    BY <1>5, <2>1, ReplacesExcept
<1>7. Tagged(rob')
  BY <1>3, Marked
<1> HIDE DEF e
<1>8. \A j \in DOMAIN rob : rob[j].tag # NoTag
  BY <1>5 DEF Tagged, NoTag
<1>9. Becomes(rob[i], e, NoTag, <<>>)
  BY <1>4, <1>8 DEF Becomes
<1>10. Corresponds(E, E2, NoTag, <<>>)
  BY <1>5, <1>6, <1>8, <1>9, ReplacedCorresponds
<1>11. IsFlight(E) /\ IsFlight(E2) /\ AllKnown(E, paths, lsq) /\ Coded(E, program)
  BY <1>7, FlightFacts, FlightOf
<1>12. ReadyBefore(E, E2)
  <2>1. \A j \in DOMAIN rob : /\ rob'[j].tag = rob[j].tag /\ rob'[j].ready = rob[j].ready
                              /\ rob'[j].op = rob[j].op /\ rob'[j].result = rob[j].result
    BY <1>4, <1>6 DEF Replaces
  <2>2. DOMAIN rob' = DOMAIN rob
    BY <1>6 DEF Replaces
  <2> QED
    BY <2>1, <2>2 DEF ReadyBefore, Entries
<1>13. HoldsNoMore(paths, paths) /\ QueuesNoMore(lsq, lsq)
  BY DEF HoldsNoMore, QueuesNoMore
<1>14. DataOK(E, regs, vl, vsew, program, paths, lsq)
  BY DEF DataInv
<1> HIDE DEF E, E2
<1>15. Stays(E, regs, vl, vsew, E2, regs, vl, vsew, NoTag, <<>>)
  BY <1>10, <1>11, CorrespondStays
<1>16. DataOK(E2, regs, vl, vsew, program, paths, lsq)
  BY <1>11, <1>12, <1>13, <1>14, <1>15, DataStays
<1> QED
  BY <1>1, <1>16 DEF DataInv, E2

\* The result of an instruction that is ready fits its destination.
LEMMA ReadyNormal ==
  ASSUME CpuInv, ChainOK, DataInv, NEW i \in DOMAIN rob, rob[i].ready
  PROVE  Normal(rob[i].op, rob[i].result.value)
<1> DEFINE x == rob[i]
<1>1. x \in Entries(rob)
  BY DEF Entries
<1>2. x.op = Instr(program, x.pc).op /\ x.op \in Op
  BY <1>1, CodedOf
<1>3. CASE ~IsAccess(x.op)
  <2>1. Computed(Entries(rob), regs, vl, vsew, program, x, x.result)
    BY <1>1, <1>3 DEF DataInv, DataOK, ReadyData
  <2>2. PICK a, b, c, n :
          Yields(Instr(program, x.pc), x.pc, <<a, b, c>>, n, x.result)
    BY <2>1 DEF Computed
  <2> DEFINE e == Operated(Instr(program, x.pc), x.pc, <<a, b, c>>, n)
  <2>3. x.result = Compute(e, 0) /\ e.op = x.op
    BY <1>2, <2>2 DEF Yields, Operated
  <2> HIDE DEF e
  <2>4. Normal(e.op, Compute(e, 0).value)
    BY <1>2, <1>3, <2>3, ComputedNormal
  <2> QED
    BY <2>3, <2>4
<1>4. CASE IsAccess(x.op)
  <2>1. /\ Serving(config, rob, paths, lsq, lsus) /\ Tagged(rob)
    BY RobFacts DEF CpuInv, Served
  <2>2. Entry(rob, x.tag, x.op)
    BY DEF Entry
  <2>3. Entry(lsq, x.tag, x.op)
    BY <1>4, <2>1, <2>2, InQueue
  <2>4. PICK j \in DOMAIN lsq : lsq[j].tag = x.tag /\ lsq[j].op = x.op
    BY <2>3 DEF Entry
  <2>5. lsq[j].done /\ x.result.value = lsq[j].V /\ Normal(lsq[j].op, lsq[j].V)
    BY <1>1, <2>4 DEF DataInv, DataOK, BroughtData
  <2> QED
    BY <2>4, <2>5
<1> QED
  BY <1>3, <1>4

\* The oldest instruction leaves; what the younger ones found in its result they find
\* in the registers.
LEMMA DataCommitOne ==
  ASSUME CpuInv, ChainOK, DataInv, CommitOne
  PROVE  DataInv'
<1> DEFINE h == rob[1]
           E == Entries(rob)
           E2 == Entries(Tail(rob))
           g2 == Written(regs, dst_type(h.op), h.rd, h.result.value)
           l2 == IF h.op \in VSet THEN h.result.vl ELSE vl
           s2 == IF h.op \in VSet THEN h.result.sew ELSE vsew
<1>1. rob \in Seq(R!ROBEntry) /\ Tagged(rob) /\ rob # <<>>
  BY RobFacts DEF CpuInv, CommitOne, CanCommit
<1>2. /\ Head(rob) = rob[1] /\ 1 \in DOMAIN rob /\ Tagged(Tail(rob))
      /\ \A i \in DOMAIN Tail(rob) : i + 1 \in DOMAIN rob /\ Tail(rob)[i] = rob[i + 1]
      /\ \A i \in DOMAIN rob : i # 1 => i - 1 \in DOMAIN Tail(rob) /\ Tail(rob)[i - 1] = rob[i]
  BY <1>1, TailOf
<1>3. /\ rob' = Tail(rob) /\ regs' = g2 /\ vl' = l2 /\ vsew' = s2 /\ h.ready
      /\ program' = program /\ paths' = paths
      /\ lsq' = IF IsAccess(h.op) THEN Tail(lsq) ELSE lsq
      /\ IsAccess(h.op) => lsq # <<>>
  BY <1>2 DEF CommitOne, CanCommit, R!Retire, inputVars, LsqAnswer
<1>4. h \in E /\ h.rd \in Reg /\ Normal(h.op, h.result.value)
  <2>1. h \in E
    BY <1>2 DEF Entries
  <2> QED
    BY <1>2, <1>3, <2>1, CodedOf, ReadyNormal
<1>5. E2 = E \ {h}
  <2>1. ASSUME NEW y \in E2 PROVE y \in E \ {h}
    <3>1. PICK i \in DOMAIN Tail(rob) : y = Tail(rob)[i]
      BY DEF Entries
    <3>2. i + 1 \in DOMAIN rob /\ y = rob[i + 1] /\ i + 1 # 1
      <4>1. i \in Nat \ {0}
        BY <1>2 DEF Tagged
      <4> QED
        BY <1>2, <3>1, <4>1
    <3>3. rob[i + 1].tag # rob[1].tag
      BY <1>1, <1>2, <3>2, OneEntry
    <3> QED
      BY <3>2, <3>3 DEF Entries
  <2>2. ASSUME NEW y \in E, y # h PROVE y \in E2
    <3>1. PICK i \in DOMAIN rob : y = rob[i]
      BY DEF Entries
    <3>2. i - 1 \in DOMAIN Tail(rob) /\ Tail(rob)[i - 1] = rob[i]
      BY <1>2, <2>2, <3>1
    <3> QED
      BY <3>1, <3>2 DEF Entries
  <2> QED
    BY <2>1, <2>2
<1>6. IsFlight(E) /\ IsFlight(E2) /\ AllKnown(E, paths, lsq) /\ Coded(E, program)
  BY <1>2, FlightFacts, FlightOf
<1>7. \A y \in E : y # h => h.tag < y.tag
  <2> SUFFICES ASSUME NEW y \in E, y # h PROVE h.tag < y.tag
    OBVIOUS
  <2>1. PICK i \in DOMAIN rob : y = rob[i]
    BY DEF Entries
  <2>2. 1 < i /\ 1 \in DOMAIN rob
    BY <1>1, <1>2, <2>1 DEF Tagged
  <2> QED
    BY <1>1, <2>1, <2>2 DEF Tagged, TagsGrow
<1>8. regs \in [RegFiles -> [Reg -> Value]]
  BY DEF CpuInv, ArchOK
<1>9. DataOK(E, regs, vl, vsew, program, paths, lsq)
  BY DEF DataInv
<1>10. HoldsNoMore(paths, paths) /\ QueuesNoMore(lsq, lsq')
  <2>1. HoldsNoMore(paths, paths)
    BY DEF HoldsNoMore
  <2>2. CASE ~IsAccess(h.op)
    BY <1>3, <2>1, <2>2 DEF QueuesNoMore
  <2>3. CASE IsAccess(h.op)
    <3>1. Tagged(lsq) /\ lsq \in Seq(L!LSQEntry)
      BY QueueTagged DEF CpuInv, Served, Serving
    <3>2. lsq # <<>> /\ lsq' = Tail(lsq)
      BY <1>3, <2>3
    <3>3. \A i \in DOMAIN Tail(lsq) : i + 1 \in DOMAIN lsq /\ Tail(lsq)[i] = lsq[i + 1]
      BY <3>1, <3>2, TailOf
    <3> QED
      BY <2>1, <3>2, <3>3 DEF QueuesNoMore
  <2> QED
    BY <2>2, <2>3
<1>11. ReadyBefore(E, E2)
  BY <1>5 DEF ReadyBefore
<1> HIDE DEF h, E
<1>12. Stays(E, regs, vl, vsew, E2, g2, l2, s2, NoTag, <<>>)
  <2> SUFFICES ASSUME NEW x \in E, NEW y \in E2, x.tag = y.tag
               PROVE  /\ y.pc = x.pc
                      /\ GivenStill(E, regs, vl, vsew, E2, g2, l2, s2, x.tag)
                      /\ AwaitedStill(E, E2, g2, l2, s2, x.tag, NoTag, <<>>)
    BY DEF Stays
  <2>1. y \in E /\ x = y /\ x # h /\ x.tag \in Nat
    BY <1>5, <1>6 DEF IsFlight
  <2>2. h.tag < x.tag
    BY <1>7, <2>1
  <2>3. h.ready
    BY <1>3
  <2> HIDE DEF E2, g2, l2, s2
  <2>4. GivenStill(E, regs, vl, vsew, E2, g2, l2, s2, x.tag)
        /\ AwaitedStill(E, E2, g2, l2, s2, x.tag, NoTag, <<>>)
    BY <1>4, <1>5, <1>6, <1>7, <1>8, <2>1, <2>2, <2>3, GivenRetires DEF g2, l2, s2
  <2> QED
    BY <2>1, <2>4
<1> HIDE DEF E2, g2, l2, s2
<1>13. DataOK(E2, g2, l2, s2, program, paths, lsq')
  BY <1>6, <1>9, <1>10, <1>11, <1>12, DataStays
<1> QED
  BY <1>3, <1>13 DEF DataInv, E2

\* What a flush leaves of the instructions, it leaves as they were.
LEMMA FlushCorresponds ==
  ASSUME CpuInv, ChainOK, NEW i \in DOMAIN rob, FlushedAt(i)
  PROVE  /\ Corresponds(Entries(rob), Entries(rob'), NoTag, <<>>)
         /\ ReadyBefore(Entries(rob), Entries(rob'))
<1>1. Tagged(rob)
  BY RobFacts DEF CpuInv
<1>2. /\ DOMAIN rob' = 1..i /\ (\A j \in 1..(i-1) : rob'[j] = rob[j])
      /\ rob'[i] = [rob[i] EXCEPT !.ctrl_handled = TRUE] /\ R!Resolvable(i)
      /\ i \in Nat \ {0} /\ i <= Len(rob) /\ DOMAIN rob = 1..Len(rob) /\ Len(rob) \in Nat
  BY <1>1 DEF FlushedAt, Tagged
<1> DEFINE e == [rob[i] EXCEPT !.ctrl_handled = TRUE]
<1>3. /\ e.pc = rob[i].pc /\ e.tag = rob[i].tag /\ e.op = rob[i].op /\ e.rd = rob[i].rd
      /\ e.ready = rob[i].ready /\ e.result = rob[i].result
  BY <1>2, ChainMarked
<1>4. rob'[i] = e
  BY <1>2
<1> HIDE DEF e
<1>5. ASSUME NEW j \in DOMAIN rob' PROVE j \in DOMAIN rob /\ Becomes(rob[j], rob'[j], NoTag, <<>>)
  <2>1. j \in DOMAIN rob
    BY <1>2
  <2>2. rob[j].tag # NoTag
    BY <1>1, <2>1 DEF Tagged, NoTag
  <2>3. CASE j = i
    BY <1>3, <1>4, <2>1, <2>2, <2>3 DEF Becomes
  <2>4. CASE j # i
    <3>1. j \in 1..(i-1)
      BY <1>2, <2>4
    <3> QED
      BY <1>2, <2>1, <2>2, <3>1 DEF Becomes
  <2> QED
    BY <2>3, <2>4
<1>6. ASSUME NEW j \in DOMAIN rob, j \notin DOMAIN rob'
      PROVE  \A k \in DOMAIN rob' : rob'[k].tag < rob[j].tag
  <2> SUFFICES ASSUME NEW k \in DOMAIN rob' PROVE rob'[k].tag < rob[j].tag
    OBVIOUS
  <2>1. k \in DOMAIN rob /\ k < j
    BY <1>2, <1>6
  <2>2. rob[k].tag < rob[j].tag
    BY <1>1, <2>1 DEF Tagged, TagsGrow
  <2>3. rob'[k].tag = rob[k].tag
    BY <1>5 DEF Becomes
  <2> QED
    BY <2>2, <2>3
<1>7. Corresponds(Entries(rob), Entries(rob'), NoTag, <<>>)
  <2>1. ASSUME NEW x \in Entries(rob)
        PROVE  \/ \E f \in Entries(rob') : Becomes(x, f, NoTag, <<>>)
               \/ \A f \in Entries(rob') : f.tag < x.tag
    <3>1. PICK j \in DOMAIN rob : x = rob[j]
      BY DEF Entries
    <3>2. CASE j \in DOMAIN rob'
      BY <1>5, <3>1, <3>2 DEF Entries
    <3>3. CASE j \notin DOMAIN rob'
      BY <1>6, <3>1, <3>3 DEF Entries
    <3> QED
      BY <3>2, <3>3
  <2>2. ASSUME NEW f \in Entries(rob') PROVE \E x \in Entries(rob) : Becomes(x, f, NoTag, <<>>)
    BY <1>5 DEF Entries
  <2> QED
    BY <2>1, <2>2 DEF Corresponds
<1>8. ReadyBefore(Entries(rob), Entries(rob'))
  <2>1. \A j \in DOMAIN rob' : /\ j \in DOMAIN rob /\ rob'[j].tag = rob[j].tag
                               /\ rob'[j].op = rob[j].op /\ rob'[j].ready = rob[j].ready
                               /\ rob'[j].result = rob[j].result
    <3> SUFFICES ASSUME NEW j \in DOMAIN rob'
                 PROVE  /\ j \in DOMAIN rob /\ rob'[j].tag = rob[j].tag
                        /\ rob'[j].op = rob[j].op /\ rob'[j].ready = rob[j].ready
                        /\ rob'[j].result = rob[j].result
      OBVIOUS
    <3>1. j = i \/ j \in 1..(i-1)
      BY <1>2
    <3> QED
      BY <1>2, <1>3, <1>4, <1>5, <3>1
  <2> QED
    BY <2>1 DEF ReadyBefore, Entries
<1> QED
  BY <1>7, <1>8

\* The paths and the queue hold no more after a flush.
LEMMA FlushHoldsNoMore ==
  ASSUME CpuInv, NEW i \in DOMAIN rob, FlushedAt(i)
  PROVE  HoldsNoMore(paths, paths') /\ QueuesNoMore(lsq, lsq')
<1> DEFINE tag == rob[i].tag
<1>1. /\ paths' = [t \in ExecType |-> P!Flushed(paths[t], tag)]
      /\ lsq' = FlushAfter(lsq, tag)
  BY FlushesAgree DEF FlushedAt, flush
<1>2. tag \in Nat /\ \A t \in ExecType : config.units[t] \in Nat
  BY RobFacts, ConfigFacts DEF CpuInv
<1> HIDE DEF tag
<1>3. Serving(config, rob, paths, lsq, lsus)
  BY DEF CpuInv, Served
<1>4. ASSUME NEW t \in ExecType
      PROVE  /\ \A j \in DOMAIN paths'[t].stations :
                  j \in DOMAIN paths[t].stations /\ paths'[t].stations[j] = paths[t].stations[j]
             /\ paths'[t].units \subseteq paths[t].units
             /\ paths'[t].completed \subseteq paths[t].completed
  <2> DEFINE p == paths[t]
  <2>1. PathOK(p, t, config.rs_size, config.units[t], rob)
    BY <1>3 DEF Serving
  <2>2. config.units[t] \in Nat
    BY <1>2
  <2>3. paths'[t] = P!Flushed(p, tag)
    BY <1>1
  <2> HIDE DEF p
  <2>4. KeepsUpTo(p, P!Flushed(p, tag), tag)
    BY <1>2, <2>1, <2>2, FlushedPath
  <2>5. P!Flushed(p, tag).units \subseteq p.units /\ P!Flushed(p, tag).completed \subseteq p.completed
    BY DEF P!Flushed
  <2> QED
    BY <2>3, <2>4, <2>5 DEF KeepsUpTo, p
<1>5. HoldsNoMore(paths, paths')
  BY <1>4 DEF HoldsNoMore
<1>6. QueuesNoMore(lsq, lsq')
  <2>1. lsq \in Seq(L!LSQEntry) /\ Tagged(lsq)
    BY <1>3, QueueTagged DEF Serving
  <2>2. \A j \in DOMAIN FlushAfter(lsq, tag) : j \in DOMAIN lsq /\ FlushAfter(lsq, tag)[j] = lsq[j]
    BY <1>2, <2>1, Kept
  <2> QED
    BY <1>1, <2>2 DEF QueuesNoMore
<1> QED
  BY <1>5, <1>6

\* A flush takes instructions away, and what waited with them.
LEMMA DataFlush ==
  ASSUME CpuInv, ChainOK, DataInv, FlushMispredicted
  PROVE  DataInv'
<1>1. UNCHANGED <<regs, vl, vsew, program>>
  BY DEF FlushMispredicted, inputVars, archVars
<1>2. PICK i \in DOMAIN rob : FlushedAt(i)
  BY FlushLeaves
<1> DEFINE E == Entries(rob)
           E2 == Entries(rob')
<1>3. Corresponds(E, E2, NoTag, <<>>) /\ ReadyBefore(E, E2)
  BY <1>2, FlushCorresponds
<1>4. HoldsNoMore(paths, paths') /\ QueuesNoMore(lsq, lsq')
  BY <1>2, FlushHoldsNoMore
<1>5. Tagged(rob')
  BY <1>2 DEF FlushedAt
<1>6. IsFlight(E) /\ IsFlight(E2) /\ AllKnown(E, paths, lsq) /\ Coded(E, program)
  BY <1>5, FlightFacts, FlightOf
<1>7. DataOK(E, regs, vl, vsew, program, paths, lsq)
  BY DEF DataInv
<1> HIDE DEF E, E2
<1>8. Stays(E, regs, vl, vsew, E2, regs, vl, vsew, NoTag, <<>>)
  BY <1>3, <1>6, CorrespondStays
<1>9. DataOK(E2, regs, vl, vsew, program, paths', lsq')
  BY <1>3, <1>4, <1>6, <1>7, <1>8, DataStays
<1> QED
  BY <1>1, <1>9 DEF DataInv, E2

-----------------------------------------------------------------------------
\* Every path sees the result that is broadcast.
LEMMA BroadcastPaths ==
  ASSUME CpuInv, NEW x \in Completed, NEW ps,
         ps = IF writes_register(x.op)
                THEN [t \in ExecType |-> P!Woken([u \in ExecType |-> P!Taken(paths[u], x)][t], x)]
                ELSE [t \in ExecType |-> P!Taken(paths[t], x)]
  PROVE  PathsWoken(paths, ps, x)
<1>1. Serving(config, rob, paths, lsq, lsus) /\ Tagged(rob)
  BY RobFacts DEF CpuInv, Served
<1>2. ResultIn(x) /\ \A t \in ExecType : x \in paths[t].completed \/ x.tag \notin Held(paths[t])
  BY <1>1, ResultServes DEF Completed
<1> SUFFICES ASSUME NEW t \in ExecType
             PROVE  /\ DOMAIN ps[t].stations = DOMAIN paths[t].stations
                    /\ \A j \in DOMAIN paths[t].stations :
                         ps[t].stations[j] = IF writes_register(x.op)
                                               THEN P!Wake(paths[t].stations[j], x)
                                               ELSE paths[t].stations[j]
                    /\ ps[t].units = paths[t].units
                    /\ ps[t].completed \subseteq paths[t].completed
  BY DEF PathsWoken
<1> DEFINE p == paths[t]
           w == P!Taken(p, x)
<1>3. ps[t] = IF writes_register(x.op) THEN P!Woken(w, x) ELSE w
  OBVIOUS
<1>4. PathOK(p, t, config.rs_size, config.units[t], rob) /\ (x \in p.completed \/ x.tag \notin Held(p))
  BY <1>1, <1>2 DEF Serving
<1> HIDE DEF p
<1>5. /\ w.stations = p.stations /\ w.units = p.units /\ w.completed \subseteq p.completed
  <2>1. p = [stations |-> p.stations, units |-> p.units, completed |-> p.completed]
    BY <1>4 DEF PathOK, PathTyped
  <2> QED
    BY <2>1 DEF P!Taken
<1>6. PathOK(w, t, config.rs_size, config.units[t], rob)
  <2>1. OthersWait(rob, rob, x.tag)
    BY DEF OthersWait
  <2> QED
    BY <1>4, <2>1, TakenPath
<1> HIDE DEF w
<1>7. /\ DOMAIN P!Woken(w, x).stations = DOMAIN w.stations
      /\ \A s \in DOMAIN w.stations : P!Woken(w, x).stations[s] = P!Wake(w.stations[s], x)
  <2>1. w = [stations |-> w.stations, units |-> w.units, completed |-> w.completed]
    BY <1>6 DEF PathOK, PathTyped
  <2>2. P!Woken(w, x) = [stations |-> [s \in DOMAIN w.stations |-> P!Wake(w.stations[s], x)],
                         units |-> w.units, completed |-> w.completed]
    BY <2>1 DEF P!Woken
  <2> QED
    BY <2>2
<1>8. P!Woken(w, x).units = w.units /\ P!Woken(w, x).completed = w.completed
  <2>1. w = [stations |-> w.stations, units |-> w.units, completed |-> w.completed]
    BY <1>6 DEF PathOK, PathTyped
  <2> QED
    BY <2>1 DEF P!Woken
<1> QED
  BY <1>3, <1>5, <1>7, <1>8 DEF p

\* A result reaches whoever waits for it.
LEMMA DataWriteback ==
  ASSUME CpuInv, ChainOK, DataInv, WritebackOne
  PROVE  DataInv'
<1>1. UNCHANGED <<regs, vl, vsew, program>>
  BY DEF WritebackOne, inputVars, archVars
<1> DEFINE x == CHOOSE y \in Completed : \A z \in Completed : y.tag <= z.tag
<1>2. Completed # {}
  BY DEF WritebackOne
<1>3. x \in Completed /\ ResultIn(x) /\ Pending(rob, x.tag, x.op)
  BY <1>2, ChosenResult
<1>4. PICK i \in DOMAIN rob : rob[i].tag = x.tag /\ R!Update(i, x.result)
  <2>1. \E i \in DOMAIN rob : rob[i].tag = x.tag
    BY <1>3 DEF Pending
  <2> QED
    BY <2>1 DEF WritebackOne
<1>5. /\ paths' = IF writes_register(x.op)
                    THEN [t \in ExecType |-> P!Woken([u \in ExecType |-> P!Taken(paths[u], x)][t], x)]
                    ELSE [t \in ExecType |-> P!Taken(paths[t], x)]
      /\ lsq' = IF writes_register(x.op) THEN L!Woken(lsq, x.tag, x.result.value) ELSE lsq
  BY DEF WritebackOne
<1> HIDE DEF x
<1>6. rob \in Seq(R!ROBEntry) /\ Tagged(rob) /\ rob[i] \in R!ROBEntry
  BY RobFacts DEF CpuInv
<1>7. rob[i].op = x.op /\ ~rob[i].ready
  BY <1>3, <1>4, <1>6, OneEntry DEF Pending
<1> DEFINE e == [rob[i] EXCEPT !.ready = TRUE, !.result = x.result]
           E == Entries(rob)
           E2 == Entries(rob')
<1>8. rob' = [rob EXCEPT ![i] = e]
  BY <1>4, <1>6 DEF R!Update
<1>9. Replaces(rob', rob, i, e)
  BY <1>6, <1>8, ReplacesExcept
<1>10. /\ e.pc = rob[i].pc /\ e.op = rob[i].op /\ e.rd = rob[i].rd /\ e.tag = rob[i].tag
       /\ e.ready /\ e.result = x.result
  BY <1>6 DEF R!ROBEntry
<1> HIDE DEF e
<1>11. Becomes(rob[i], e, x.tag, x.result)
  BY <1>4, <1>7, <1>10 DEF Becomes
<1>12. \A j \in DOMAIN rob : j # i => rob[j].tag # x.tag
  BY <1>4, <1>6, OneEntry
<1>13. Corresponds(E, E2, x.tag, x.result)
  BY <1>6, <1>9, <1>11, <1>12, ReplacedCorresponds
<1>14. Tagged(rob')
  <2>1. \A j \in DOMAIN rob : rob'[j].tag = rob[j].tag /\ rob'[j].op = rob[j].op
    BY <1>9, <1>10 DEF Replaces
  <2>2. DOMAIN rob' = DOMAIN rob /\ Len(rob') = Len(rob)
    <3>1. [rob EXCEPT ![i] = e] \in Seq(R!ROBEntry)
      BY <1>8, WritebackOneInv DEF CpuInv, RenameInv, R!RenameTypeOK
    <3>2. DOMAIN rob' = DOMAIN rob
      BY <1>9 DEF Replaces
    <3> QED
      BY <1>6, <1>8, <3>2
  <2> QED
    BY <1>6, <2>1, <2>2 DEF Tagged, TagsGrow
<1>15. IsFlight(E) /\ IsFlight(E2) /\ AllKnown(E, paths, lsq) /\ Coded(E, program)
  BY <1>14, FlightFacts, FlightOf
<1>16. ReadyWith(E, E2, x)
  <2>1. ASSUME NEW j \in DOMAIN rob', rob'[j].ready
        PROVE  \/ rob'[j].tag = x.tag /\ rob'[j].op = x.op /\ rob'[j].result = x.result
               \/ \E f \in E : f.tag = rob'[j].tag /\ f.ready /\ f.op = rob'[j].op
                               /\ f.result = rob'[j].result
    <3>1. j \in DOMAIN rob
      BY <1>9 DEF Replaces
    <3>2. CASE j = i
      BY <1>4, <1>7, <1>9, <1>10, <3>2 DEF Replaces
    <3>3. CASE j # i
      BY <1>9, <2>1, <3>1, <3>3 DEF Replaces, Entries
    <3> QED
      BY <3>2, <3>3
  <2> QED
    BY <2>1 DEF ReadyWith, Entries
<1>17. rob[i] \in E
  BY DEF Entries
<1>18. PathsWoken(paths, paths', x)
  BY <1>3, <1>5, BroadcastPaths
<1>19. QueueWoken(lsq, lsq', x)
  <2>1. CASE ~writes_register(x.op)
    BY <1>5, <2>1 DEF QueueWoken
  <2>2. CASE writes_register(x.op)
    BY <1>5, <2>2, ClassesAgree DEF QueueWoken, L!Woken
  <2> QED
    BY <2>1, <2>2
<1>20. Serving(config, rob, paths, lsq, lsus)
  BY DEF CpuInv, Served
<1>21. \A j \in DOMAIN lsq : AccessOK(lsq[j]) /\ (lsq[j].tag = x.tag => IsAccess(x.op))
  <2> SUFFICES ASSUME NEW j \in DOMAIN lsq
               PROVE  AccessOK(lsq[j]) /\ (lsq[j].tag = x.tag => IsAccess(x.op))
    OBVIOUS
  <2>1. AccessOK(lsq[j])
    BY <1>20 DEF Serving, QueueOK
  <2>2. ASSUME lsq[j].tag = x.tag PROVE IsAccess(x.op)
    <3>1. Entry(rob, lsq[j].tag, x.op)
      BY <1>3, <2>2, PendingIsEntry
    <3>2. IsAccess(lsq[j].op) /\ Entry(rob, lsq[j].tag, lsq[j].op)
      BY <1>6, <1>20, InQueue
    <3>3. x.op = lsq[j].op
      BY <1>6, <3>1, <3>2, OneOperation
    <3> QED
      BY <3>2, <3>3
  <2> QED
    BY <2>1, <2>2
<1>22. PICK tx \in ExecType : x \in paths[tx].completed
  BY <1>3 DEF Completed
<1>23. tx = "LOADSTORE" <=> IsAccess(x.op)
  <2>1. exec_type(x.op) = tx
    BY <1>20, <1>22 DEF Serving, PathOK, PathServes
  <2>2. x.op \in Op
    BY <1>3 DEF ResultIn
  <2> QED
    BY <2>1, <2>2, TypeOfOp
<1>24. DataOK(E, regs, vl, vsew, program, paths, lsq)
  BY DEF DataInv
<1> HIDE DEF E, E2
<1>25. Stays(E, regs, vl, vsew, E2, regs, vl, vsew, x.tag, x.result)
  BY <1>13, <1>15, CorrespondStays
<1>26. DataOK(E2, regs, vl, vsew, program, paths', lsq')
  <2>1. rob[i].tag = x.tag /\ rob[i].op = x.op
    BY <1>4, <1>7
  <2> QED
    BY <1>3, <1>15, <1>16, <1>17, <1>18, <1>19, <1>21, <1>22, <1>23, <1>24, <1>25, <2>1, DataWoken
<1> QED
  BY <1>1, <1>26 DEF DataInv, E2

\* The writers and the vsets before the next tag are those in flight.
LEMMA WritersBefore ==
  ASSUME NEW E2, {e \in E2 : e.tag < next_tag} = Entries(rob), NEW t, NEW r
  PROVE  /\ Writers(E2, next_tag, t, r) = {e \in Entries(rob) : R!Names(e, t, r)}
         /\ Setters(E2, next_tag) = {e \in Entries(rob) : e.op \in VSet}
<1>1. \A e : e \in E2 /\ e.tag < next_tag <=> e \in Entries(rob)
  <2> SUFFICES ASSUME NEW e PROVE e \in E2 /\ e.tag < next_tag <=> e \in Entries(rob)
    OBVIOUS
  <2>1. e \in {f \in E2 : f.tag < next_tag} <=> e \in E2 /\ e.tag < next_tag
    OBVIOUS
  <2> QED
    BY <2>1
<1> HIDE DEF Entries
<1> QED
  BY <1>1 DEF Writers, Setters

\* The entry with the highest index of a kind is the youngest of that kind.
LEMMA YoungestOf ==
  ASSUME NEW r, Tagged(r), NEW S \in SUBSET Entries(r), NEW i \in DOMAIN r, r[i] \in S,
         \A j \in DOMAIN r : r[j] \in S => j <= i
  PROVE  r[i] \in Youngest(S)
<1> SUFFICES ASSUME NEW f \in S PROVE f.tag <= r[i].tag
  BY DEF Youngest
<1>1. PICK j \in DOMAIN r : f = r[j]
  BY DEF Entries
<1>2. j <= i /\ j \in Nat /\ i \in Nat
  BY <1>1 DEF Tagged
<1>3. CASE j = i
  BY <1>1, <1>3 DEF Tagged
<1>4. CASE j # i
  <2>1. j < i
    BY <1>2, <1>4
  <2>2. r[j].tag < r[i].tag
    BY <1>1, <2>1 DEF Tagged, TagsGrow
  <2> QED
    BY <1>1, <2>2 DEF Tagged
<1> QED
  BY <1>3, <1>4

\* read_operand gives the value program order gives, or the tag that brings it.
LEMMA OperandProvides ==
  ASSUME CpuInv, NEW E2, {e \in E2 : e.tag < next_tag} = Entries(rob),
         NEW t \in RegType, NEW r \in Reg
  PROVE  Provides(E2, regs, next_tag, t, r, Operand(t, r).V, Operand(t, r).Q)
<1> DEFINE W == Writers(E2, next_tag, t, r)
<1>1. W = {e \in Entries(rob) : R!Names(e, t, r)}
  BY WritersBefore
<1>2. Tagged(rob) /\ RenameInv
  BY RobFacts DEF CpuInv
<1>3. CASE ~IsRead(t, r)
  <2>1. t = "NONE" \/ (t = "INT" /\ r = 0)
    BY <1>3 DEF IsRead
  <2>2. Operand(t, r) = [V |-> scalar(0), Q |-> NoTag]
    BY <2>1 DEF Operand
  <2> QED
    BY <1>3, <2>2 DEF Provides, Given
<1>4. CASE IsRead(t, r)
  <2>0. ~(t = "NONE" \/ (t = "INT" /\ r = 0)) /\ t \in RegFiles
    BY <1>4 DEF IsRead, RegType
  <2>1. CASE \A i \in DOMAIN rob : ~R!Names(rob[i], t, r)
    <3>1. rat[t][r] = NoTag
      BY <1>2, <2>0, <2>1, OperationsAgree DEF RenameInv, R!RatYoungest
    <3>2. Operand(t, r) = [V |-> regs[t][r], Q |-> NoTag]
      BY <2>0, <3>1 DEF Operand
    <3>3. W = {}
      BY <1>1, <2>1 DEF Entries
    <3> HIDE DEF W
    <3> QED
      BY <1>4, <3>2, <3>3 DEF Provides, Given, W
  <2>2. CASE \E i \in DOMAIN rob : R!Names(rob[i], t, r)
    <3>1. PICK i \in DOMAIN rob : /\ rat[t][r] = rob[i].tag /\ R!Names(rob[i], t, r)
                                  /\ \A j \in DOMAIN rob : R!Names(rob[j], t, r) => j <= i
      BY <1>2, <2>0, <2>2, OperationsAgree DEF RenameInv, R!RatYoungest
    <3> DEFINE e == rob[i]
    <3>2. e \in W /\ W \in SUBSET Entries(rob)
      BY <1>1, <3>1 DEF Entries
    <3>3. \A j \in DOMAIN rob : rob[j] \in W => j <= i
      BY <1>1, <3>1
    <3> HIDE DEF W
    <3>4. e \in Youngest(W)
      BY <1>2, <3>2, <3>3, YoungestOf
    <3>5. rob_get(rat[t][r]) = e /\ rat[t][r] = e.tag /\ e.tag \in Nat
      BY <1>2, <3>1, RobGet DEF Tagged
    <3>6. e.tag # NoTag
      BY <3>5 DEF NoTag
    <3> HIDE DEF e
    <3>7. W # {}
      BY <3>2
    <3>8. CASE e.ready
      <4>1. Operand(t, r) = [V |-> e.result.value, Q |-> NoTag]
        BY <2>0, <3>5, <3>6, <3>8 DEF Operand
      <4>2. e.result.value \in Given(E2, regs, next_tag, t, r)
        BY <1>4, <3>4, <3>7, <3>8 DEF Given, W
      <4> QED
        BY <4>1, <4>2 DEF Provides
    <3>9. CASE ~e.ready
      <4>1. Operand(t, r) = [V |-> scalar(0), Q |-> e.tag]
        BY <2>0, <3>5, <3>6, <3>9 DEF Operand
      <4>2. e.tag \in Awaited(E2, next_tag, t, r)
        BY <1>4, <3>4, <3>9 DEF Awaited, W
      <4> QED
        BY <3>6, <4>1, <4>2 DEF Provides
    <3> QED
      BY <3>8, <3>9
  <2> QED
    BY <2>1, <2>2
<1> QED
  BY <1>3, <1>4

\* So are vl and sew, when no vset has been forgotten.
LEMMA ConfigProvides ==
  ASSUME CpuInv, NEW E2, {e \in E2 : e.tag < next_tag} = Entries(rob),
         vec_tag = NoTag => \A i \in DOMAIN rob : rob[i].op \notin VSet,
         NEW d, UsesConfig(d.op)
  PROVE  ProvidesConfig(E2, vl, vsew, next_tag, VectorConfig(d).vl, VectorConfig(d).sew,
                        VectorConfig(d).Q)
<1> DEFINE S == Setters(E2, next_tag)
<1>1. S = {e \in Entries(rob) : e.op \in VSet}
  BY WritersBefore
<1>2. Tagged(rob) /\ RenameInv
  BY RobFacts DEF CpuInv
<1>3. d.op \in Vec \ VSet
  BY DEF UsesConfig
<1>4. CASE vec_tag = NoTag
  <2>1. VectorConfig(d) = [vl |-> vl, sew |-> vsew, Q |-> NoTag]
    BY <1>3, <1>4 DEF VectorConfig
  <2>2. S = {}
    BY <1>1, <1>4 DEF Entries
  <2> HIDE DEF S
  <2> QED
    BY <2>1, <2>2 DEF ProvidesConfig, GivenConfig, S
<1>5. CASE vec_tag # NoTag
  <2>1. PICK i \in DOMAIN rob : /\ vec_tag = rob[i].tag /\ rob[i].op \in VSet
                                /\ \A j \in DOMAIN rob : rob[j].op \in VSet => j <= i
    BY <1>2, <1>5, OperationsAgree DEF RenameInv, R!VecTagYoungest
  <2> DEFINE e == rob[i]
  <2>2. e \in S /\ S \in SUBSET Entries(rob)
    BY <1>1, <2>1 DEF Entries
  <2>3. \A j \in DOMAIN rob : rob[j] \in S => j <= i
    BY <1>1, <2>1
  <2> HIDE DEF S
  <2>4. e \in Youngest(S)
    BY <1>2, <2>2, <2>3, YoungestOf
  <2>5. rob_get(vec_tag) = e /\ vec_tag = e.tag
    BY <2>1, RobGet
  <2> HIDE DEF e
  <2>6. S # {}
    BY <2>2
  <2>7. CASE e.ready
    <3>1. VectorConfig(d) = [vl |-> e.result.vl, sew |-> e.result.sew, Q |-> NoTag]
      BY <1>3, <1>5, <2>5, <2>7 DEF VectorConfig
    <3>2. <<e.result.vl, e.result.sew>> \in GivenConfig(E2, vl, vsew, next_tag)
      BY <2>4, <2>6, <2>7 DEF GivenConfig, S
    <3> QED
      BY <3>1, <3>2 DEF ProvidesConfig
  <2>8. CASE ~e.ready
    <3>1. VectorConfig(d) = [vl |-> vl, sew |-> vsew, Q |-> e.tag]
      BY <1>3, <1>5, <2>5, <2>8 DEF VectorConfig
    <3>2. e.tag \in AwaitedConfig(E2, next_tag)
      BY <2>4, <2>8 DEF AwaitedConfig, S
    <3>3. e.tag # NoTag
      BY <1>5, <2>5
    <3> QED
      BY <3>1, <3>2, <3>3 DEF ProvidesConfig
  <2> QED
    BY <2>7, <2>8
<1> QED
  BY <1>4, <1>5

\* The station of a new instruction has what program order gives it.
LEMMA NewStation ==
  ASSUME CpuInv, NEW E2, {e \in E2 : e.tag < next_tag} = Entries(rob),
         vec_tag = NoTag => \A i \in DOMAIN rob : rob[i].op \notin VSet,
         NEW d \in Fetched, d.op \in Op, InProgram(program, d),
         NEW x, x.tag = next_tag, x.pc = d.pc
  PROVE  StationData(E2, regs, vl, vsew, program, x, RSEntry(d))
<1> DEFINE i == Instr(program, x.pc)
           j == Operand(src_type(d.op, 0), d.rs1)
           k == Operand(src_type(d.op, 1), d.rs2)
           l == Operand(src_type(d.op, 2), d.rs3)
           v == VectorConfig(d)
           e == RSEntry(d)
<1>1. e = [op |-> d.op, Vj |-> j.V, Vk |-> k.V, Vl |-> l.V, Qj |-> j.Q, Qk |-> k.Q,
           Ql |-> l.Q, Qv |-> v.Q, pc |-> d.pc, imm |-> d.imm, rm |-> d.rm, vl |-> v.vl,
           sew |-> v.sew, tag |-> next_tag]
  BY DEF RSEntry
<1>2. /\ d.op = i.op /\ d.rd = i.rd /\ d.rs1 = i.rs1 /\ d.rs2 = i.rs2 /\ d.rs3 = i.rs3
      /\ d.imm = i.imm /\ d.rm = i.rm /\ d.sew = i.sew
  BY DEF InProgram
<1>3. /\ d.rs1 \in Reg /\ d.rs2 \in Reg /\ d.rs3 \in Reg /\ d.sew \in Sew
  BY DEF Fetched
<1>4. /\ Provides(E2, regs, next_tag, src_type(d.op, 0), d.rs1, j.V, j.Q)
      /\ Provides(E2, regs, next_tag, src_type(d.op, 1), d.rs2, k.V, k.Q)
      /\ Provides(E2, regs, next_tag, src_type(d.op, 2), d.rs3, l.V, l.Q)
  BY <1>3, SourceTypes, OperandProvides
<1>5. UsesConfig(d.op) => ProvidesConfig(E2, vl, vsew, next_tag, v.vl, v.sew, v.Q)
  BY ConfigProvides
<1>6. ~UsesConfig(d.op) => v.Q = NoTag
  BY DEF UsesConfig, VectorConfig
<1>7. d.op \in VSet => v.sew = d.sew
  BY DEF VectorConfig
<1> HIDE DEF i, j, k, l, v, e
<1> QED
  BY <1>1, <1>2, <1>4, <1>5, <1>6, <1>7 DEF StationData, i, e

\* A new access waits for its address and knows its data, as its station does.
LEMMA NewAccessData ==
  ASSUME NEW E, NEW g, NEW l, NEW s, NEW p, NEW x, NEW e, StationData(E, g, l, s, p, x, e),
         NEW tag \in Nat, NEW a, a = L!NewAccess(e.op, tag, e.Vk, e.Qk, e.vl)
  PROVE  AccessData(E, g, l, s, p, x, a) /\ a.tag = tag /\ a.op = e.op /\ ~a.done
<1>1. /\ a.op = e.op /\ a.tag = tag /\ a.Qa = tag /\ ~a.done
      /\ e.op \in Store => a.V = e.Vk /\ a.Q = e.Qk
  BY ClassesAgree DEF L!NewAccess
<1>2. a.Qa # NoTag
  BY <1>1 DEF NoTag
<1>3. e.op = Instr(p, x.pc).op
      /\ Provides(E, g, x.tag, src_type(Instr(p, x.pc).op, 1), Instr(p, x.pc).rs2, e.Vk, e.Qk)
  BY DEF StationData
<1> QED
  BY <1>1, <1>2, <1>3 DEF AccessData

\* One station more, and one access more, for the youngest instruction.
AddsStation(ps, ps2, e) ==
  \A t \in ExecType :
    /\ \A j \in DOMAIN ps2[t].stations :
         \/ ps2[t].stations[j] = e
         \/ j \in DOMAIN ps[t].stations /\ ps2[t].stations[j] = ps[t].stations[j]
    /\ ps2[t].units = ps[t].units /\ ps2[t].completed = ps[t].completed
AddsAccess(q, q2, a) ==
  \A j \in DOMAIN q2 : q2[j] = a \/ (j \in DOMAIN q /\ q2[j] = q[j])

\* A new entry, its station and its access leave what the older ones are given.
LEMMA DataGrows ==
  ASSUME NEW E, NEW E2, IsFlight(E2), NEW g, NEW l, NEW s, NEW p, NEW ps, NEW q,
         DataOK(E2, g, l, s, p, ps, q), AllKnown(E, ps, q),
         NEW n, \A y \in E : y.tag # n,
         NEW x \in E2, x.tag = n, ~x.ready,
         NEW e, e.tag = n, StationData(E2, g, l, s, p, x, e), NEW ps2, AddsStation(ps, ps2, e),
         NEW a, NEW q2, AddsAccess(q, q2, a),
         a.tag = n /\ ~a.done /\ AccessData(E2, g, l, s, p, x, a)
  PROVE  DataOK(E2, g, l, s, p, ps2, q2)
<1>1. \A y \in E2 : y.tag = n => y = x
  BY DEF IsFlight
<1>2. StationsData(E2, g, l, s, p, ps2)
  BY <1>1 DEF DataOK, StationsData, AddsStation
<1>3. UnitsData(E2, g, l, s, p, ps2) /\ ResultsData(E2, g, l, s, p, ps2)
  BY DEF DataOK, UnitsData, ResultsData, AddsStation
<1>4. ReadyData(E2, g, l, s, p)
  BY DEF DataOK
<1>5. AccessesData(E2, g, l, s, p, q2)
  BY <1>1 DEF DataOK, AccessesData, AddsAccess
<1>6. BroughtData(E2, ps2, q2)
  <2>0. BroughtData(E2, ps, q)
    BY DEF DataOK
  <2>1. \A y \in ps2["LOADSTORE"].completed : y \in ps["LOADSTORE"].completed /\ y.tag # n
    <3>1. "LOADSTORE" \in ExecType
      BY DEF ExecType
    <3>2. ps2["LOADSTORE"].completed = ps["LOADSTORE"].completed
      BY <3>1 DEF AddsStation
    <3>3. \A y \in ps["LOADSTORE"].completed : Known(E, y.tag)
      BY <3>1 DEF AllKnown
    <3> QED
      BY <3>2, <3>3 DEF Known
  <2>2. ASSUME NEW y \in ps2["LOADSTORE"].completed, NEW i \in DOMAIN q2, q2[i].tag = y.tag
        PROVE  q2[i].done /\ y.result.value = q2[i].V
    <3>1. i \in DOMAIN q /\ q2[i] = q[i]
      BY <2>1, <2>2 DEF AddsAccess
    <3> QED
      BY <2>0, <2>1, <2>2, <3>1 DEF BroughtData
  <2>3. ASSUME NEW i \in DOMAIN q2, NEW y \in E2, y.tag = q2[i].tag, y.ready
        PROVE  q2[i].done /\ y.result.value = q2[i].V
    <3>1. i \in DOMAIN q /\ q2[i] = q[i]
      BY <1>1, <2>3 DEF AddsAccess
    <3> QED
      BY <2>0, <2>3, <3>1 DEF BroughtData
  <2>4. ASSUME NEW i \in DOMAIN q2, q2[i].done PROVE Normal(q2[i].op, q2[i].V)
    <3>1. i \in DOMAIN q /\ q2[i] = q[i]
      BY <2>4 DEF AddsAccess
    <3> QED
      BY <2>0, <2>4, <3>1 DEF BroughtData
  <2> QED
    BY <2>2, <2>3, <2>4 DEF BroughtData
<1> QED
  BY <1>2, <1>3, <1>4, <1>5, <1>6 DEF DataOK

\* An instruction is dispatched with the operands program order gives it.
LEMMA DataDispatch ==
  ASSUME CpuInv, ChainOK, DataInv, DispatchOne,
         vec_tag = NoTag => \A i \in DOMAIN rob : rob[i].op \notin VSet
  PROVE  DataInv'
<1> DEFINE d == Head(decode_q)
           e == RSEntry(d)
           n == R!NewEntry(d, next_tag)
           a == L!NewAccess(e.op, next_tag, e.Vk, e.Qk, e.vl)
           E == Entries(rob)
           E2 == Entries(rob')
<1>1. /\ decode_q # <<>> /\ d.op # "INVALID" /\ CanAllocate(d) /\ rob' = Append(rob, n)
      /\ paths' = [paths EXCEPT ![exec_type(d.op)] = P!Dispatched(@, config.rs_size, e)]
      /\ lsq' = IF IsAccess(d.op)
                  THEN Append(lsq, L!NewAccess(d.op, e.tag, e.Vk, e.Qk, e.vl)) ELSE lsq
      /\ UNCHANGED <<regs, vl, vsew, program>>
  BY DEF DispatchOne, R!Allocate, inputVars, archVars
<1>2. /\ rob \in Seq(R!ROBEntry) /\ Tagged(rob) /\ next_tag \in Nat
      /\ \A i \in DOMAIN rob : rob[i].tag < next_tag
  BY RobFacts DEF CpuInv
<1>3. d \in Fetched /\ VsetOK(d) /\ InProgram(program, d)
  <2>1. /\ decode_q \in Seq(Fetched) /\ \A i \in DOMAIN decode_q : VsetOK(decode_q[i])
        /\ \A i \in DOMAIN decode_q : InProgram(program, decode_q[i])
    BY DEF CpuInv, FrontOK, ChainOK, Chain, AllDecoded
  <2>2. d = decode_q[1] /\ 1 \in DOMAIN decode_q /\ d \in Fetched
    <3>1. Len(decode_q) \in Nat \ {0} /\ DOMAIN decode_q = 1..Len(decode_q)
      BY <1>1, <2>1, EmptySeq, LenProperties
    <3> QED
      BY <1>1, <2>1, <3>1, HeadTailProperties
  <2> QED
    BY <2>1, <2>2
<1>4. d.op \in Op /\ d.rd \in Reg /\ d.pc \in Word
      /\ d.pred_taken \in BOOLEAN /\ d.pred_target \in Word
  BY <1>1, <1>3 DEF Fetched
<1> HIDE DEF d
<1>5. StationOK(e) /\ e.tag = next_tag /\ e.op = d.op
  BY <1>3, <1>4, RSEntryOK
<1>6. /\ n \in R!ROBEntry /\ n.tag = next_tag /\ n.op = d.op /\ ~n.ready /\ n.pc = d.pc
  <2>1. n = [op |-> d.op, rd |-> d.rd, pc |-> d.pc, pred_taken |-> d.pred_taken,
             pred_target |-> d.pred_target, tag |-> next_tag, ready |-> FALSE,
             ctrl_handled |-> FALSE, result |-> <<>>]
    BY DEF R!NewEntry
  <2> HIDE DEF n
  <2>2. n \in R!ROBEntry
    BY <1>2, <1>4, <2>1, OperationsAgree DEF R!ROBEntry
  <2> QED
    BY <2>1, <2>2
<1> HIDE DEF n, e
<1>7. /\ Tagged(rob') /\ DOMAIN rob' = DOMAIN rob \cup {Len(rob) + 1}
      /\ \A i \in DOMAIN rob : rob'[i] = rob[i]
      /\ rob'[Len(rob) + 1] = n
  BY <1>1, <1>2, <1>4, <1>6, Appended
<1>8. E2 = E \cup {n} /\ n \in E2
  BY <1>7 DEF Entries
<1>9. \A y \in E : y.tag < next_tag /\ y.tag \in Nat
  BY <1>2 DEF Entries, Tagged
<1>10. {y \in E2 : y.tag < next_tag} = E
  BY <1>2, <1>6, <1>8, <1>9
<1>11. IsFlight(E) /\ IsFlight(E2) /\ AllKnown(E, paths, lsq) /\ Coded(E, program)
  BY <1>7, FlightFacts, FlightOf
<1>12. Corresponds(E, E2, NoTag, <<>>) /\ ReadyBefore(E, E2)
  <2>1. \A y \in E : Becomes(y, y, NoTag, <<>>)
    BY <1>9 DEF Becomes, NoTag
  <2> HIDE DEF E, E2
  <2>2. Corresponds(E, E2, NoTag, <<>>)
    BY <1>6, <1>8, <1>9, <2>1 DEF Corresponds
  <2>3. ReadyBefore(E, E2)
    BY <1>6, <1>8 DEF ReadyBefore
  <2> QED
    BY <2>2, <2>3
<1>13. StationData(E2, regs, vl, vsew, program, n, e)
  <2>1. n.tag = next_tag /\ n.pc = d.pc
    BY <1>6
  <2> HIDE DEF E2
  <2>2. {y \in E2 : y.tag < next_tag} = Entries(rob)
    BY <1>10
  <2> QED
    BY <1>3, <1>4, <2>1, <2>2, NewStation DEF e
<1>14. DataOK(E, regs, vl, vsew, program, paths, lsq)
  BY DEF DataInv
<1>15. HoldsNoMore(paths, paths) /\ QueuesNoMore(lsq, lsq)
  BY DEF HoldsNoMore, QueuesNoMore
<1> HIDE DEF E, E2
<1>16. Stays(E, regs, vl, vsew, E2, regs, vl, vsew, NoTag, <<>>)
  BY <1>11, <1>12, CorrespondStays
<1>17. DataOK(E2, regs, vl, vsew, program, paths, lsq)
  BY <1>11, <1>12, <1>14, <1>15, <1>16, DataStays
<1>18. AccessData(E2, regs, vl, vsew, program, n, a) /\ a.tag = next_tag /\ a.op = e.op /\ ~a.done
  BY <1>2, <1>13, NewAccessData
<1>19. AddsAccess(lsq, lsq', a)
  <2>1. Tagged(lsq) /\ lsq \in Seq(L!LSQEntry)
    BY QueueTagged DEF CpuInv, Served, Serving
  <2>2. lsq' = IF IsAccess(d.op) THEN Append(lsq, a) ELSE lsq
    BY <1>1, <1>5
  <2> HIDE DEF a
  <2>3. \A j \in DOMAIN Append(lsq, a) :
          Append(lsq, a)[j] = a \/ (j \in DOMAIN lsq /\ Append(lsq, a)[j] = lsq[j])
    <3>1. DOMAIN lsq = 1..Len(lsq) /\ Len(lsq) \in Nat
      BY <2>1 DEF Tagged
    <3>2. \A i \in 1..(Len(lsq) + 1) : i \in 1..Len(lsq) \/ i = Len(lsq) + 1
      BY <3>1
    <3> QED
      BY <2>1, <3>1, <3>2
  <2> QED
    BY <2>2, <2>3 DEF AddsAccess
<1>20. AddsStation(paths, paths', e)
  <2> SUFFICES ASSUME NEW t \in ExecType
               PROVE  /\ \A j \in DOMAIN paths'[t].stations :
                           \/ paths'[t].stations[j] = e
                           \/ j \in DOMAIN paths[t].stations
                              /\ paths'[t].stations[j] = paths[t].stations[j]
                      /\ paths'[t].units = paths[t].units
                      /\ paths'[t].completed = paths[t].completed
    BY DEF AddsStation
  <2>1. /\ paths = [u \in ExecType |-> paths[u]]
        /\ PathOK(paths[t], t, config.rs_size, config.units[t], rob)
    BY DEF CpuInv, Served, Serving
  <2>2. paths[t] = [stations |-> paths[t].stations, units |-> paths[t].units,
                    completed |-> paths[t].completed]
    BY <2>1 DEF PathOK, PathTyped
  <2>3. t \in DOMAIN paths
    BY <2>1
  <2>4. CASE t # exec_type(d.op)
    <3>1. paths'[t] = paths[t]
      BY <1>1, <2>3, <2>4
    <3> QED
      BY <3>1
  <2>5. CASE t = exec_type(d.op)
    <3> DEFINE p == paths[t]
    <3>1. paths'[t] = P!Dispatched(p, config.rs_size, e)
      BY <1>1, <2>3, <2>5
    <3>2. p = [stations |-> p.stations, units |-> p.units, completed |-> p.completed]
      BY <2>2
    <3> HIDE DEF p
    <3>3. PICK k : P!Dispatched(p, config.rs_size, e) =
                     [p EXCEPT !.stations = [s \in DOMAIN p.stations \cup {k} |->
                                               IF s = k THEN e ELSE p.stations[s]]]
      BY DEF P!Dispatched
    <3>4. /\ paths'[t].units = p.units /\ paths'[t].completed = p.completed
          /\ paths'[t].stations = [s \in DOMAIN p.stations \cup {k} |->
                                     IF s = k THEN e ELSE p.stations[s]]
      BY <3>1, <3>2, <3>3
    <3> QED
      BY <3>4 DEF p
  <2> QED
    BY <2>4, <2>5
<1>21. \A y \in E : y.tag # next_tag
  BY <1>2, <1>9
<1> HIDE DEF a
<1>22. DataOK(E2, regs, vl, vsew, program, paths', lsq')
  BY <1>5, <1>6, <1>8, <1>11, <1>13, <1>17, <1>18, <1>19, <1>20, <1>21, DataGrows
<1> QED
  BY <1>1, <1>22 DEF DataInv, E2

\* An instruction that can be issued has the values program order gives it.
LEMMA StationReady ==
  ASSUME NEW E, NEW g, NEW l, NEW s, NEW p, NEW x, NEW e, StationData(E, g, l, s, p, x, e),
         NEW agu, P!can_issue(e, agu), agu => IsAccess(e.op)
  PROVE  UnitData(E, g, l, s, p, x, e)
<1> DEFINE d == Instr(p, x.pc)
<1>1. /\ e.Qj = NoTag /\ e.Qv = NoTag
      /\ ~IsAccess(e.op) => e.Qk = NoTag /\ e.Ql = NoTag
  BY CopiesAgree DEF P!can_issue
<1>2. /\ e.pc = x.pc /\ e.op = d.op /\ e.imm = d.imm /\ e.rm = d.rm
      /\ Provides(E, g, x.tag, src_type(d.op, 0), d.rs1, e.Vj, e.Qj)
      /\ Provides(E, g, x.tag, src_type(d.op, 1), d.rs2, e.Vk, e.Qk)
      /\ Provides(E, g, x.tag, src_type(d.op, 2), d.rs3, e.Vl, e.Ql)
      /\ UsesConfig(d.op) => ProvidesConfig(E, l, s, x.tag, e.vl, e.sew, e.Qv)
      /\ d.op \in VSet => e.sew = d.sew
  BY DEF StationData
<1> HIDE DEF d
<1>3. e.Vj \in Given(E, g, x.tag, src_type(d.op, 0), d.rs1)
  BY <1>1, <1>2 DEF Provides
<1>4. ~IsAccess(d.op) => /\ e.Vk \in Given(E, g, x.tag, src_type(d.op, 1), d.rs2)
                         /\ e.Vl \in Given(E, g, x.tag, src_type(d.op, 2), d.rs3)
  BY <1>1, <1>2 DEF Provides
<1>5. UsesConfig(d.op) => <<e.vl, e.sew>> \in GivenConfig(E, l, s, x.tag)
  BY <1>1, <1>2 DEF ProvidesConfig
<1> QED
  BY <1>2, <1>3, <1>4, <1>5 DEF UnitData, d

\* What issue does to a path, as far as data goes.
LEMMA IssuedHolds ==
  ASSUME NEW p, NEW t, NEW n, NEW m, NEW r, PathOK(p, t, n, m, r), NEW count, NEW agu,
         NEW w, w = P!Issued(p, count, agu)
  PROVE  /\ \A s \in DOMAIN w.stations : s \in DOMAIN p.stations /\ w.stations[s] = p.stations[s]
         /\ \A u \in w.units : \/ u \in p.units
                               \/ \E s \in DOMAIN p.stations :
                                    u.rs = p.stations[s] /\ P!can_issue(p.stations[s], agu)
         /\ w.completed = p.completed
<1> DEFINE starting == P!Starting(p, count, agu)
           rest == [s \in DOMAIN p.stations \ starting |-> p.stations[s]]
           busy == p.units \cup {[rs |-> p.stations[s], left |-> P!latency(p.stations[s], agu)]
                                   : s \in starting}
<1>1. w = [p EXCEPT !.stations = rest, !.units = busy]
  BY CopiesAgree DEF P!Issued
<1>2. \A s \in starting : s \in DOMAIN p.stations /\ P!can_issue(p.stations[s], agu)
  BY DEF P!Starting
<1>3. \A u \in busy : \/ u \in p.units
                      \/ \E s \in DOMAIN p.stations :
                           u.rs = p.stations[s] /\ P!can_issue(p.stations[s], agu)
  BY <1>2
<1>4. \A s \in DOMAIN rest : s \in DOMAIN p.stations /\ rest[s] = p.stations[s]
  OBVIOUS
<1> HIDE DEF rest, busy, starting
<1>5. p = [stations |-> p.stations, units |-> p.units, completed |-> p.completed]
  BY DEF PathOK, PathTyped
<1>6. w.stations = rest /\ w.units = busy /\ w.completed = p.completed
  BY <1>1, <1>5
<1> QED
  BY <1>3, <1>4, <1>6

\* What issue does to the queue.
LEMMA IssuedAccesses ==
  ASSUME NEW q, NEW size, QueueOK(q, size), NEW chosen, NEW w, w = L!Issued(q, chosen)
  PROVE  /\ DOMAIN w = DOMAIN q
         /\ \A i \in DOMAIN q :
              /\ w[i].tag = q[i].tag /\ w[i].op = q[i].op /\ w[i].Qa = q[i].Qa
              /\ w[i].Va = q[i].Va /\ w[i].vl = q[i].vl /\ w[i].Q = q[i].Q /\ w[i].V = q[i].V
              /\ w[i].done = q[i].done
<1>1. w = [i \in DOMAIN q |-> [q[i] EXCEPT !.issued = q[i].issued \/ i \in chosen]]
  BY DEF L!Issued
<1>2. \A i \in DOMAIN q : q[i] \in AnAccess
  BY DEF QueueOK, AccessOK
<1> SUFFICES ASSUME NEW i \in DOMAIN q
             PROVE  /\ w[i].tag = q[i].tag /\ w[i].op = q[i].op /\ w[i].Qa = q[i].Qa
                    /\ w[i].Va = q[i].Va /\ w[i].vl = q[i].vl /\ w[i].Q = q[i].Q
                    /\ w[i].V = q[i].V /\ w[i].done = q[i].done
  BY <1>1
<1>3. w[i] = [q[i] EXCEPT !.issued = q[i].issued \/ i \in chosen]
  BY <1>1
<1> QED
  BY <1>2, <1>3 DEF AnAccess

\* Issue gives the units what waited in the stations.
LEMMA DataIssue ==
  ASSUME CpuInv, DataInv, Issue
  PROVE  DataInv'
<1> DEFINE E == Entries(rob)
           chosen == L!ToIssue(lsq, config.units["LOADSTORE"] - Cardinality(lsus))
<1>1. /\ paths' = [t \in ExecType |-> P!Issued(paths[t], config.units[t], t = "LOADSTORE")]
      /\ lsq' = L!Issued(lsq, chosen)
      /\ UNCHANGED <<rob, regs, vl, vsew, program>>
  BY DEF Issue, inputVars, renameVars, archVars
<1>2. Serving(config, rob, paths, lsq, lsus)
  BY DEF CpuInv, Served
<1> HIDE DEF chosen
<1>3. ASSUME NEW t \in ExecType
      PROVE  /\ \A s \in DOMAIN paths'[t].stations :
                  s \in DOMAIN paths[t].stations /\ paths'[t].stations[s] = paths[t].stations[s]
             /\ \A u \in paths'[t].units :
                  \/ u \in paths[t].units
                  \/ \E s \in DOMAIN paths[t].stations :
                       /\ u.rs = paths[t].stations[s]
                       /\ P!can_issue(paths[t].stations[s], t = "LOADSTORE")
             /\ paths'[t].completed = paths[t].completed
  <2> DEFINE p == paths[t]
             w == paths'[t]
             agu == t = "LOADSTORE"
             count == config.units[t]
  <2>1. PathOK(p, t, config.rs_size, count, rob) /\ w = P!Issued(p, count, agu)
    BY <1>1, <1>2 DEF Serving
  <2> HIDE DEF p, w, agu, count
  <2>2. /\ \A s \in DOMAIN w.stations : s \in DOMAIN p.stations /\ w.stations[s] = p.stations[s]
        /\ \A u \in w.units : \/ u \in p.units
                              \/ \E s \in DOMAIN p.stations :
                                   u.rs = p.stations[s] /\ P!can_issue(p.stations[s], agu)
        /\ w.completed = p.completed
    BY <2>1, IssuedHolds
  <2> QED
    BY <2>2 DEF p, w, agu
<1>4. /\ DOMAIN lsq' = DOMAIN lsq
      /\ \A i \in DOMAIN lsq :
           /\ lsq'[i].tag = lsq[i].tag /\ lsq'[i].op = lsq[i].op /\ lsq'[i].Qa = lsq[i].Qa
           /\ lsq'[i].Va = lsq[i].Va /\ lsq'[i].vl = lsq[i].vl /\ lsq'[i].Q = lsq[i].Q
           /\ lsq'[i].V = lsq[i].V /\ lsq'[i].done = lsq[i].done
  <2>1. QueueOK(lsq, config.lsq_size)
    BY <1>2 DEF Serving
  <2> QED
    BY <1>1, <2>1, IssuedAccesses
<1>5. DataOK(E, regs, vl, vsew, program, paths, lsq)
  BY DEF DataInv
<1> HIDE DEF E
<1>6. StationsData(E, regs, vl, vsew, program, paths')
  BY <1>3, <1>5 DEF DataOK, StationsData
<1>7. UnitsData(E, regs, vl, vsew, program, paths')
  <2> SUFFICES ASSUME NEW t \in ExecType, NEW u \in paths'[t].units, NEW x \in E,
                      x.tag = u.rs.tag
               PROVE  UnitData(E, regs, vl, vsew, program, x, u.rs)
    BY DEF UnitsData
  <2>1. CASE u \in paths[t].units
    BY <1>5, <2>1 DEF DataOK, UnitsData
  <2>2. CASE u \notin paths[t].units
    <3>1. PICK s \in DOMAIN paths[t].stations :
            u.rs = paths[t].stations[s] /\ P!can_issue(paths[t].stations[s], t = "LOADSTORE")
      BY <1>3, <2>2
    <3> DEFINE e == paths[t].stations[s]
    <3>2. StationData(E, regs, vl, vsew, program, x, e)
      BY <1>5, <3>1 DEF DataOK, StationsData
    <3>3. t = "LOADSTORE" => IsAccess(e.op)
      <4>1. PathServes(paths[t], t, rob) /\ PathTyped(paths[t], config.rs_size, config.units[t])
        BY <1>2 DEF Serving, PathOK
      <4>2. exec_type(e.op) = t /\ e.op \in Op
        BY <4>1 DEF PathServes, PathTyped, StationOK, Station
      <4> QED
        BY <4>2, TypeOfOp
    <3> DEFINE agu == t = "LOADSTORE"
    <3>4. P!can_issue(e, agu) /\ (agu => IsAccess(e.op))
      BY <3>1, <3>3
    <3> HIDE DEF e, agu
    <3>5. UnitData(E, regs, vl, vsew, program, x, e)
      BY <3>2, <3>4, StationReady
    <3> QED
      BY <3>1, <3>5 DEF e
  <2> QED
    BY <2>1, <2>2
<1>8. ResultsData(E, regs, vl, vsew, program, paths')
  BY <1>3, <1>5 DEF DataOK, ResultsData
<1>9. AccessesData(E, regs, vl, vsew, program, lsq')
  BY <1>4, <1>5 DEF DataOK, AccessesData, AccessData
<1>10. BroughtData(E, paths', lsq')
  <2>1. paths'["LOADSTORE"].completed = paths["LOADSTORE"].completed
    BY <1>3 DEF ExecType
  <2> QED
    BY <1>4, <1>5, <2>1 DEF DataOK, BroughtData
<1>11. DataOK(E, regs, vl, vsew, program, paths', lsq')
  BY <1>5, <1>6, <1>7, <1>8, <1>9, <1>10 DEF DataOK
<1> QED
  BY <1>1, <1>11 DEF DataInv, E

\* What the address generation units that finish have found.
Generated(fs) == {[tag |-> e.tag, Va |-> EffectiveAddress(e), vl |-> e.vl] : e \in fs}

\* Queue w is queue q with the addresses that entries fs have given.
NewAddresses(q, w, fs) ==
  /\ DOMAIN w = DOMAIN q
  /\ \A i \in DOMAIN q :
       /\ w[i].tag = q[i].tag /\ w[i].op = q[i].op /\ w[i].Q = q[i].Q /\ w[i].V = q[i].V
       /\ w[i].issued = q[i].issued /\ w[i].done = q[i].done
       /\ \/ w[i] = q[i] /\ \A e \in fs : e.tag # q[i].tag
          \/ \E e \in fs : /\ e.tag = q[i].tag /\ w[i].Qa = NoTag
                           /\ w[i].Va = EffectiveAddress(e)
                           /\ w[i].vl = IF q[i].op \in VLoad \cup VStore THEN e.vl ELSE q[i].vl

\* Queue w is queue q with the accesses in tags done, over memory m.
NewValues(q, w, tags, m) ==
  /\ DOMAIN w = DOMAIN q
  /\ \A i \in DOMAIN q :
       /\ w[i].tag = q[i].tag /\ w[i].op = q[i].op /\ w[i].Q = q[i].Q /\ w[i].Qa = q[i].Qa
       /\ w[i].Va = q[i].Va /\ w[i].vl = q[i].vl
       /\ w[i].done = (q[i].done \/ q[i].tag \in tags)
       /\ w[i].issued = (q[i].issued /\ q[i].tag \notin tags)
       /\ w[i].V = IF q[i].tag \in tags /\ q[i].op \in Load THEN L!Forwarded(q, i, m)
                   ELSE q[i].V

\* Addresses reach the queue.
LEMMA AddressesReach ==
  ASSUME NEW q, NEW size, QueueOK(q, size), NEW fs
  PROVE  NewAddresses(q, L!Addressed(q, Generated(fs)), fs)
<1> DEFINE results == Generated(fs)
           w == L!Addressed(q, results)
           chosen(i) == CHOOSE y \in results : y.tag = q[i].tag
           new(i) == [q[i] EXCEPT !.Va = chosen(i).Va, !.Qa = NoTag,
                        !.vl = IF q[i].op \in VLoad \cup VStore THEN chosen(i).vl ELSE q[i].vl]
<1>1. w = [i \in DOMAIN q |->
             IF \E x \in results : x.tag = q[i].tag THEN new(i) ELSE q[i]]
  BY ClassesAgree DEF L!Addressed
<1> HIDE DEF w
<1>2. \A x \in results : \E e \in fs : x.tag = e.tag /\ x.Va = EffectiveAddress(e) /\ x.vl = e.vl
  BY DEF Generated
<1>3. \A e \in fs : \E x \in results : x.tag = e.tag
  <2>1. ASSUME NEW e \in fs PROVE \E x \in results : x.tag = e.tag
    <3>1. [tag |-> e.tag, Va |-> EffectiveAddress(e), vl |-> e.vl] \in results
      BY DEF Generated
    <3> QED
      BY <3>1
  <2> QED
    BY <2>1
<1> HIDE DEF results
<1>4. ASSUME NEW i \in DOMAIN q, \E x \in results : x.tag = q[i].tag
      PROVE  /\ new(i).tag = q[i].tag /\ new(i).op = q[i].op /\ new(i).Q = q[i].Q
             /\ new(i).V = q[i].V /\ new(i).issued = q[i].issued /\ new(i).done = q[i].done
             /\ \E e \in fs : /\ e.tag = q[i].tag /\ new(i).Qa = NoTag
                              /\ new(i).Va = EffectiveAddress(e)
                              /\ new(i).vl = IF q[i].op \in VLoad \cup VStore THEN e.vl ELSE q[i].vl
  <2>1. chosen(i) \in results /\ chosen(i).tag = q[i].tag
    BY <1>4
  <2> HIDE DEF chosen
  <2>2. PICK e \in fs : e.tag = q[i].tag /\ chosen(i).Va = EffectiveAddress(e) /\ chosen(i).vl = e.vl
    BY <1>2, <2>1
  <2>3. q[i] \in AnAccess
    BY DEF QueueOK, AccessOK
  <2>4. /\ new(i).tag = q[i].tag /\ new(i).op = q[i].op /\ new(i).Q = q[i].Q
        /\ new(i).V = q[i].V /\ new(i).issued = q[i].issued /\ new(i).done = q[i].done
        /\ new(i).Qa = NoTag /\ new(i).Va = chosen(i).Va
        /\ new(i).vl = IF q[i].op \in VLoad \cup VStore THEN chosen(i).vl ELSE q[i].vl
    BY <2>3 DEF AnAccess
  <2> HIDE DEF new
  <2> QED
    BY <2>2, <2>4
<1> HIDE DEF new
<1>5. ASSUME NEW i \in DOMAIN q
      PROVE  /\ w[i].tag = q[i].tag /\ w[i].op = q[i].op /\ w[i].Q = q[i].Q /\ w[i].V = q[i].V
             /\ w[i].issued = q[i].issued /\ w[i].done = q[i].done
             /\ \/ w[i] = q[i] /\ \A e \in fs : e.tag # q[i].tag
                \/ \E e \in fs : /\ e.tag = q[i].tag /\ w[i].Qa = NoTag
                                 /\ w[i].Va = EffectiveAddress(e)
                                 /\ w[i].vl = IF q[i].op \in VLoad \cup VStore THEN e.vl
                                              ELSE q[i].vl
  <2>1. CASE \E x \in results : x.tag = q[i].tag
    <3>1. w[i] = new(i)
      BY <1>1, <2>1
    <3> QED
      BY <1>4, <2>1, <3>1
  <2>2. CASE ~\E x \in results : x.tag = q[i].tag
    <3>1. w[i] = q[i]
      BY <1>1, <2>2
    <3>2. \A e \in fs : e.tag # q[i].tag
      BY <1>3, <2>2
    <3> QED
      BY <3>1, <3>2
  <2> QED
    BY <2>1, <2>2
<1>6. DOMAIN w = DOMAIN q
  BY <1>1
<1> QED
  BY <1>5, <1>6 DEF NewAddresses, w, results

\* Accesses that a unit has finished are done.
LEMMA ValuesReach ==
  ASSUME NEW q, NEW size, QueueOK(q, size), NEW tags, NEW m
  PROVE  NewValues(q, L!Completed(q, tags, m), tags, m)
<1> DEFINE w == L!Completed(q, tags, m)
           V(i) == IF q[i].op \in Load THEN L!Forwarded(q, i, m) ELSE q[i].V
           new(i) == [q[i] EXCEPT !.issued = FALSE, !.done = TRUE, !.V = V(i)]
<1>1. w = [i \in DOMAIN q |-> IF q[i].tag \in tags THEN new(i) ELSE q[i]]
  BY ClassesAgree DEF L!Completed
<1> HIDE DEF w, V
<1>2. ASSUME NEW i \in DOMAIN q
      PROVE  /\ w[i].tag = q[i].tag /\ w[i].op = q[i].op /\ w[i].Q = q[i].Q /\ w[i].Qa = q[i].Qa
             /\ w[i].Va = q[i].Va /\ w[i].vl = q[i].vl
             /\ w[i].done = (q[i].done \/ q[i].tag \in tags)
             /\ w[i].issued = (q[i].issued /\ q[i].tag \notin tags)
             /\ w[i].V = IF q[i].tag \in tags THEN V(i) ELSE q[i].V
  <2>1. q[i] \in AnAccess
    BY DEF QueueOK, AccessOK
  <2>2. CASE q[i].tag \in tags
    <3>1. w[i] = new(i)
      BY <1>1, <2>2
    <3> QED
      BY <2>1, <2>2, <3>1 DEF AnAccess
  <2>3. CASE q[i].tag \notin tags
    <3>1. w[i] = q[i]
      BY <1>1, <2>3
    <3>2. q[i].done \in BOOLEAN /\ q[i].issued \in BOOLEAN
      BY <2>1 DEF AnAccess
    <3> QED
      BY <2>3, <3>1, <3>2
  <2> QED
    BY <2>2, <2>3
<1>3. DOMAIN w = DOMAIN q
  BY <1>1
<1> QED
  BY <1>2, <1>3 DEF NewValues, w, V

\* What a load brings back is as its register holds it.
LEMMA ForwardedNormal ==
  ASSUME NEW q, NEW i, q[i].op \in Load, NEW m
  PROVE  Normal(q[i].op, L!Forwarded(q, i, m))
<1>1. CASE q[i].op \in VLoad
  <2>1. \A op \in VLoad : dst_type(op) \notin {"INT", "FLOAT"}
    BY DEF dst_type, VLoad, Alu, AluImm, Upper, Mul, Div, Jump, IntLoad, FCmp, VSet,
           Float, FAdd, FMul, FMac, FSgn
  <2> QED
    BY <1>1, <2>1 DEF Normal
<1>2. CASE q[i].op \notin VLoad
  <2> DEFINE raw == L!format_load(q[i].op, L!load_forward(q, i, m))
  <2>1. L!Forwarded(q, i, m) = scalar(raw)
    BY <1>2, ClassesAgree, MemoryAgrees DEF L!Forwarded, L!scalar, scalar, L!Lane, Lane
  <2> HIDE DEF raw
  <2>2. 0 \in Lane
    BY MemoryAssumption DEF Lane
  <2>3. scalar(raw)[0] = raw
    BY <2>2 DEF scalar
  <2> QED
    BY <2>1, <2>3 DEF Normal
<1> QED
  BY <1>1, <1>2
\* What a unit's entry gives is what program order gives.
LEMMA UnitComputes ==
  ASSUME NEW E, NEW g, NEW l, NEW s, NEW p, NEW x, NEW e, UnitData(E, g, l, s, p, x, e),
         Instr(p, x.pc).op \in Op, ~IsAccess(Instr(p, x.pc).op),
         ~(Instr(p, x.pc).op = "VSETVLI" /\ Instr(p, x.pc).imm = -2),
         ~Unsupported(e), NEW n
  PROVE  Computed(E, g, l, s, p, x, Compute(e, n))
<1> DEFINE d == Instr(p, x.pc)
           V == <<e.Vj, e.Vk, e.Vl>>
           c == IF UsesConfig(d.op) THEN <<e.vl, e.sew>> ELSE <<0, 0>>
<1>1. /\ e.pc = x.pc /\ e.op = d.op /\ e.imm = d.imm /\ e.rm = d.rm
      /\ e.Vj \in Given(E, g, x.tag, src_type(d.op, 0), d.rs1)
      /\ e.Vk \in Given(E, g, x.tag, src_type(d.op, 1), d.rs2)
      /\ e.Vl \in Given(E, g, x.tag, src_type(d.op, 2), d.rs3)
      /\ c \in (IF UsesConfig(d.op) THEN GivenConfig(E, l, s, x.tag) ELSE {<<0, 0>>})
      /\ d.op \in VSet => e.sew = d.sew
  BY DEF UnitData
<1>2. V[1] = e.Vj /\ V[2] = e.Vk /\ V[3] = e.Vl
  OBVIOUS
<1>3. UsesConfig(d.op) => e.vl = c[1] /\ e.sew = c[2]
  OBVIOUS
<1>4. d.op \in Op /\ ~IsAccess(d.op) /\ ~(d.op = "VSETVLI" /\ d.imm = -2)
  OBVIOUS
<1>5. <<e.Vj, e.Vk, e.Vl>> = V
  OBVIOUS
<1> HIDE DEF d, V, c
<1>6. /\ Compute(e, n) = Compute(Operated(d, x.pc, V, c), 0)
      /\ Unsupported(e) <=> Unsupported(Operated(d, x.pc, V, c))
  BY <1>1, <1>2, <1>3, <1>4, UnitLooksAt
<1>7. Yields(d, x.pc, V, c, Compute(e, n))
  BY <1>6 DEF Yields
<1> QED
  BY <1>1, <1>5, <1>7 DEF Computed, d

\* The addresses an access is given are those of program order.
LEMMA AddressGiven ==
  ASSUME NEW E, NEW g, NEW l, NEW s, NEW p, NEW x, NEW e, UnitData(E, g, l, s, p, x, e),
         NEW a, AccessData(E, g, l, s, p, x, a), a.op = Instr(p, x.pc).op,
         IsAccess(a.op),
         NEW b, b.op = a.op, b.Q = a.Q, a.op \in Store => b.V = a.V,
         b.Qa = NoTag, b.Va = EffectiveAddress(e),
         b.vl = IF a.op \in VLoad \cup VStore THEN e.vl ELSE a.vl
  PROVE  AccessData(E, g, l, s, p, x, b)
<1> DEFINE d == Instr(p, x.pc)
<1>1. /\ e.imm = d.imm
      /\ e.Vj \in Given(E, g, x.tag, src_type(d.op, 0), d.rs1)
      /\ UsesConfig(d.op) => <<e.vl, e.sew>> \in GivenConfig(E, l, s, x.tag)
  BY DEF UnitData
<1>2. a.op \in Store => Provides(E, g, x.tag, src_type(d.op, 1), d.rs2, a.V, a.Q)
  BY DEF AccessData
<1>3. a.op = d.op
  OBVIOUS
<1> HIDE DEF d
<1>4. b.Va = ToWord(e.Vj[0] + d.imm)
  BY <1>1 DEF EffectiveAddress
<1>5. ASSUME a.op \in VLoad \cup VStore
      PROVE  \E c \in GivenConfig(E, l, s, x.tag) : b.vl = c[1]
  <2>1. UsesConfig(d.op)
    BY <1>3, <1>5 DEF UsesConfig, Vec, VSet, VLoad, VStore
  <2>2. <<e.vl, e.sew>>[1] = e.vl
    OBVIOUS
  <2> QED
    BY <1>1, <1>5, <2>1, <2>2
<1> QED
  BY <1>1, <1>2, <1>3, <1>4, <1>5 DEF AccessData, d

\* The queue between the addresses that arrive in a step and the accesses that end in it.
Addresses == L!Addressed(lsq, Generated(P!Finishing(paths["LOADSTORE"])))

\* What an execute step brings: results are those of path t.
Brought(t) ==
  IF t = "LOADSTORE"
    THEN {AccessResult(lsq'[i]) : i \in {j \in DOMAIN lsq' : lsq'[j].tag \in Ended}}
    ELSE {Result(e) : e \in P!Finishing(paths[t])}

\* What execute does to the queue.
LEMMA ExecuteQueue ==
  ASSUME CpuInv, Execute
  PROVE  /\ QueueOK(lsq, config.lsq_size) /\ QueueOK(Addresses, config.lsq_size)
         /\ NewAddresses(lsq, Addresses, P!Finishing(paths["LOADSTORE"]))
         /\ \E found \in IF WildLoad THEN Byte ELSE {0} :
              /\ lsq' = L!Completed(Addresses, Ended, Beyond(mem, found))
              /\ NewValues(Addresses, lsq', Ended, Beyond(mem, found))
<1>1. Serving(config, rob, paths, lsq, lsus)
  BY DEF CpuInv, Served
<1>2. QueueOK(lsq, config.lsq_size)
  BY <1>1 DEF Serving
<1> DEFINE fs == P!Finishing(paths["LOADSTORE"])
<1>3. \A x \in Generated(fs) : x.Va \in Word /\ x.vl \in VLength
  <2> SUFFICES ASSUME NEW e \in fs PROVE EffectiveAddress(e) \in Word /\ e.vl \in VLength
    BY DEF Generated
  <2>1. StationOK(e)
    <3>1. PathTyped(paths["LOADSTORE"], config.rs_size, config.units["LOADSTORE"])
      BY <1>1 DEF Serving, PathOK, ExecType
    <3> QED
      BY <3>1 DEF PathTyped, UnitOK, P!Finishing
  <2>2. e.Vj[0] \in Int /\ e.imm \in Int /\ e.vl \in VLength
    BY <2>1, ValueLanes DEF StationOK, Station, Word
  <2> QED
    BY <2>2, ToWordIsWord DEF EffectiveAddress
<1> DEFINE a == Addresses
           results == Generated(fs)
<1>4. a = L!Addressed(lsq, results)
  BY DEF Addresses
<1>5. NewAddresses(lsq, a, fs)
  BY <1>2, <1>4, AddressesReach
<1> HIDE DEF fs, a, results
<1>6. QueueOK(a, config.lsq_size)
  <2>1. \A x \in results : x.Va \in Word /\ x.vl \in VLength
    BY <1>3 DEF results
  <2> QED
    BY <1>2, <1>4, <2>1, AddressedQueue
<1>7. PICK found \in IF WildLoad THEN Byte ELSE {0} :
        lsq' = L!Completed(a, Ended, Beyond(mem, found))
  BY DEF Execute, a, Addresses, Generated
<1>8. NewValues(a, lsq', Ended, Beyond(mem, found))
  BY <1>6, <1>7, ValuesReach
<1> QED
  BY <1>2, <1>5, <1>6, <1>7, <1>8 DEF a, fs

\* What execute does to the paths.
LEMMA ExecutePaths ==
  ASSUME CpuInv, Execute, NEW t \in ExecType
  PROVE  /\ paths'[t].stations = paths[t].stations
         /\ \A u \in paths'[t].units : \E v \in paths[t].units : u.rs = v.rs
         /\ paths'[t].completed = paths[t].completed \cup Brought(t)
<1>1. Serving(config, rob, paths, lsq, lsus)
  BY DEF CpuInv, Served
<1> DEFINE generated == {[tag |-> e.tag, Va |-> EffectiveAddress(e), vl |-> e.vl] :
                           e \in P!Finishing(paths["LOADSTORE"])}
           queue(found) == L!Completed(L!Addressed(lsq, generated), Ended, Beyond(mem, found))
           results(found, k) ==
             IF k = "LOADSTORE"
               THEN {AccessResult(queue(found)[i]) :
                       i \in {j \in DOMAIN queue(found) : queue(found)[j].tag \in Ended}}
               ELSE {Result(e) : e \in P!Finishing(paths[k])}
<1>2. PICK found \in IF WildLoad THEN Byte ELSE {0} :
        /\ paths' = [k \in ExecType |-> P!Executed(paths[k], results(found, k))]
        /\ lsq' = queue(found)
  BY DEF Execute
<1>3. results(found, t) = Brought(t)
  BY <1>2 DEF Brought
<1> HIDE DEF results, queue
<1>4. paths'[t] = P!Executed(paths[t], Brought(t))
  BY <1>2, <1>3
<1> DEFINE p == paths[t]
           w == paths'[t]
           b == Brought(t)
           left == {[u EXCEPT !.left = @ - 1] : u \in {v \in p.units : v.left # 1}}
<1>5. w = [p EXCEPT !.units = left, !.completed = p.completed \cup b]
  BY <1>4 DEF P!Executed
<1>6. p = [stations |-> p.stations, units |-> p.units, completed |-> p.completed]
      /\ p.units \subseteq [rs: Station, left: Nat \ {0}]
  BY <1>1 DEF Serving, PathOK, PathTyped, UnitOK
<1>7. ASSUME NEW u \in left PROVE \E v \in p.units : u.rs = v.rs
  <2>1. PICK v \in p.units : u = [v EXCEPT !.left = @ - 1]
    BY <1>7
  <2>2. v \in [rs: Station, left: Nat \ {0}]
    BY <1>6
  <2> QED
    BY <2>1, <2>2
<1> HIDE DEF left, w, p, b
<1>8. w.stations = p.stations /\ w.units = left /\ w.completed = p.completed \cup b
  BY <1>5, <1>6
<1> QED
  BY <1>7, <1>8 DEF w, p, b

\* No instruction of the program is a vsetvli that keeps the vl it finds.
SetsVl == \A i \in 1..Len(program) : ~(program[i].op = "VSETVLI" /\ program[i].imm = -2)

\* What finishes in an address generation unit, or in a load/store unit.
LEMMA ExecuteEnds ==
  ASSUME CpuInv, NEW i \in DOMAIN lsq
  PROVE  /\ lsq[i].tag \in Ended =>
              ~lsq[i].done /\ lsq[i].issued /\ lsq[i].Qa = NoTag /\ lsq[i].Q = NoTag
         /\ \A e \in P!Finishing(paths["LOADSTORE"]) : e.tag = lsq[i].tag => lsq[i].Qa # NoTag
         /\ \A j \in DOMAIN lsq : lsq[i].tag = lsq[j].tag => i = j
<1>1. Serving(config, rob, paths, lsq, lsus)
  BY DEF CpuInv, Served
<1>2. /\ QueueOK(lsq, config.lsq_size) /\ UnitsOK(lsus, config.units["LOADSTORE"], lsq)
      /\ Homes(lsq, paths["LOADSTORE"], rob)
  BY <1>1 DEF Serving
<1>3. \A j, k \in DOMAIN lsq : lsq[j].tag = lsq[k].tag => j = k
  BY <1>2, QueueTagged, OneEntry
<1>4. ASSUME lsq[i].tag \in Ended
      PROVE  ~lsq[i].done /\ lsq[i].issued /\ lsq[i].Qa = NoTag /\ lsq[i].Q = NoTag
  <2>1. PICK u \in lsus : u.tag = lsq[i].tag
    BY <1>4 DEF Ended
  <2>2. PICK j \in DOMAIN lsq : Serves(u, lsq[j])
    BY <1>2 DEF UnitsOK
  <2>3. j = i
    BY <1>3, <2>1, <2>2 DEF Serves
  <2> QED
    BY <2>2, <2>3 DEF Serves
<1>5. ASSUME NEW e \in P!Finishing(paths["LOADSTORE"]), e.tag = lsq[i].tag
      PROVE  lsq[i].Qa # NoTag
  <2>1. e.tag \in P!Running(paths["LOADSTORE"])
    BY DEF P!Finishing, P!Running
  <2> QED
    BY <1>2, <1>5, <2>1 DEF Homes
<1> QED
  BY <1>3, <1>4, <1>5

\* The units' results are those of program order.
LEMMA ExecuteResults ==
  ASSUME CpuInv, ChainOK, DataInv, Execute, SetsVl
  PROVE  ResultsData(Entries(rob), regs, vl, vsew, program, paths')
<1> DEFINE E == Entries(rob)
<1>1. DataOK(E, regs, vl, vsew, program, paths, lsq)
  BY DEF DataInv
<1>2. Serving(config, rob, paths, lsq, lsus)
  BY DEF CpuInv, Served
<1>3. \A x \in E : \E i \in 1..Len(program) : Instr(program, x.pc) = program[i]
  BY CodedOf
<1>4. \A e \in P!Finishing(paths["VECTOR"]) : ~Unsupported(e)
  BY DEF Execute
<1> HIDE DEF E
<1> SUFFICES ASSUME NEW t \in ExecType \ {"LOADSTORE"}, NEW y \in paths'[t].completed,
                    NEW x \in E, x.tag = y.tag
             PROVE  Computed(E, regs, vl, vsew, program, x, y.result)
  BY DEF ResultsData, E
<1>5. CASE y \in paths[t].completed
  BY <1>1, <1>5 DEF DataOK, ResultsData
<1>6. CASE y \notin paths[t].completed
  <2>1. y \in Brought(t)
    BY <1>6, ExecutePaths
  <2>2. PICK e \in P!Finishing(paths[t]) : y = Result(e)
    BY <2>1 DEF Brought
  <2>3. y.tag = e.tag /\ y.result = Compute(e, vl)
    BY <2>2 DEF Result
  <2>4. PICK u \in paths[t].units : u.rs = e
    BY DEF P!Finishing
  <2>5. UnitData(E, regs, vl, vsew, program, x, e)
    BY <1>1, <2>3, <2>4 DEF DataOK, UnitsData
  <2>6. exec_type(e.op) = t /\ e.op \in Op
    BY <1>2, <2>4 DEF Serving, PathOK, PathServes, PathTyped, UnitOK, StationOK, Station
  <2>7. ~IsAccess(e.op)
    BY <2>6, TypeOfOp
  <2>8. ~Unsupported(e)
    <3>1. CASE t = "VECTOR"
      BY <1>4, <3>1
    <3>2. CASE t # "VECTOR"
      <4>1. e.op \notin Vector
        BY <2>6, <3>2, KindsApart
      <4>2. VectorFloat \subseteq Vector
        BY DEF VectorFloat, Vector, VMove
      <4> QED
        BY <4>1, <4>2 DEF Unsupported
    <3> QED
      BY <3>1, <3>2
  <2>9. e.op = Instr(program, x.pc).op
    BY <2>5 DEF UnitData
  <2>10. ~(Instr(program, x.pc).op = "VSETVLI" /\ Instr(program, x.pc).imm = -2)
    BY <1>3 DEF SetsVl
  <2> QED
    BY <2>3, <2>5, <2>6, <2>7, <2>8, <2>9, <2>10, UnitComputes
<1> QED
  BY <1>5, <1>6

\* The addresses are those of program order, and the data of stores stays.
LEMMA ExecuteAccesses ==
  ASSUME CpuInv, ChainOK, DataInv, Execute
  PROVE  AccessesData(Entries(rob), regs, vl, vsew, program, lsq')
<1> DEFINE E == Entries(rob)
           fs == P!Finishing(paths["LOADSTORE"])
           A == Addresses
<1>1. /\ AccessesData(E, regs, vl, vsew, program, lsq)
      /\ UnitsData(E, regs, vl, vsew, program, paths)
  BY DEF DataInv, DataOK
<1>2. PICK found \in IF WildLoad THEN Byte ELSE {0} :
        NewAddresses(lsq, A, fs) /\ NewValues(A, lsq', Ended, Beyond(mem, found))
  BY ExecuteQueue
<1>3. Serving(config, rob, paths, lsq, lsus) /\ Tagged(rob)
  BY RobFacts DEF CpuInv, Served
<1>4. \A x \in E : x.op = Instr(program, x.pc).op
  BY CodedOf
<1>5. \A e \in fs : \E u \in paths["LOADSTORE"].units : u.rs = e
  BY DEF P!Finishing
<1>6. \A i \in DOMAIN lsq : IsAccess(lsq[i].op) /\ Entry(rob, lsq[i].tag, lsq[i].op)
  BY <1>3, InQueue
<1>7. ASSUME NEW i \in DOMAIN lsq, NEW x \in E, x.tag = lsq[i].tag
      PROVE  lsq[i].op = Instr(program, x.pc).op
  BY <1>3, <1>4, <1>6, <1>7, OneEntry DEF Entry, E, Entries
<1> HIDE DEF E, fs, A
<1> SUFFICES ASSUME NEW i \in DOMAIN lsq', NEW x \in E, x.tag = lsq'[i].tag
             PROVE  AccessData(E, regs, vl, vsew, program, x, lsq'[i])
  BY DEF AccessesData, E
<1>8. i \in DOMAIN lsq /\ i \in DOMAIN A
  BY <1>2 DEF NewAddresses, NewValues
<1> DEFINE a == lsq[i]
           n == A[i]
           b == lsq'[i]
<1>9. /\ b.tag = n.tag /\ b.op = n.op /\ b.Q = n.Q /\ b.Qa = n.Qa /\ b.Va = n.Va /\ b.vl = n.vl
      /\ n.op \in Store => b.V = n.V
  <2>1. Load \cap Store = {}
    BY AccessOps
  <2> QED
    BY <1>2, <1>8, <2>1 DEF NewValues
<1>10. /\ n.tag = a.tag /\ n.op = a.op /\ n.Q = a.Q /\ n.V = a.V
       /\ \/ n = a
          \/ \E e \in fs : /\ e.tag = a.tag /\ n.Qa = NoTag /\ n.Va = EffectiveAddress(e)
                           /\ n.vl = IF a.op \in VLoad \cup VStore THEN e.vl ELSE a.vl
  BY <1>2, <1>8 DEF NewAddresses
<1>11. AccessData(E, regs, vl, vsew, program, x, a)
  BY <1>1, <1>8, <1>9, <1>10 DEF AccessesData
<1>12. a.op = Instr(program, x.pc).op /\ IsAccess(a.op)
  BY <1>6, <1>7, <1>8, <1>9, <1>10
<1> HIDE DEF a, b, n
<1>13. CASE n = a
  BY <1>9, <1>11, <1>13 DEF AccessData, b
<1>14. CASE n # a
  <2>1. PICK e \in fs : /\ e.tag = a.tag /\ n.Qa = NoTag /\ n.Va = EffectiveAddress(e)
                        /\ n.vl = IF a.op \in VLoad \cup VStore THEN e.vl ELSE a.vl
    BY <1>10, <1>14
  <2>2. PICK u \in paths["LOADSTORE"].units : u.rs = e
    BY <1>5
  <2>3. x.tag = e.tag
    BY <1>9, <1>10, <2>1 DEF b
  <2>4. UnitData(E, regs, vl, vsew, program, x, e)
    BY <1>1, <2>2, <2>3 DEF UnitsData, ExecType
  <2>5. /\ b.op = a.op /\ b.Q = a.Q /\ (a.op \in Store => b.V = a.V) /\ b.Qa = NoTag
        /\ b.Va = EffectiveAddress(e)
        /\ b.vl = IF a.op \in VLoad \cup VStore THEN e.vl ELSE a.vl
    BY <1>9, <1>10, <2>1
  <2>6. AccessData(E, regs, vl, vsew, program, x, b)
    BY <1>11, <1>12, <2>4, <2>5, AddressGiven
  <2> QED
    BY <2>6 DEF b
<1> QED
  BY <1>13, <1>14

\* What the queue brings back is what it holds.
LEMMA ExecuteBrings ==
  ASSUME CpuInv, DataInv, Execute
  PROVE  BroughtData(Entries(rob), paths', lsq')
<1> DEFINE E == Entries(rob)
           LS == "LOADSTORE"
           A == Addresses
<1>1. BroughtData(E, paths, lsq)
  BY DEF DataInv, DataOK
<1>2. PICK found \in IF WildLoad THEN Byte ELSE {0} :
        /\ NewAddresses(lsq, A, P!Finishing(paths[LS]))
        /\ NewValues(A, lsq', Ended, Beyond(mem, found))
  BY ExecuteQueue
<1>3. paths'[LS].completed = paths[LS].completed \cup Brought(LS)
  BY ExecutePaths DEF ExecType
<1> HIDE DEF E, A
<1>4. ASSUME NEW i \in DOMAIN lsq'
      PROVE  /\ i \in DOMAIN lsq /\ i \in DOMAIN A
             /\ lsq'[i].tag = lsq[i].tag /\ lsq'[i].op = lsq[i].op
             /\ lsq'[i].done = (lsq[i].done \/ lsq[i].tag \in Ended)
             /\ lsq[i].tag \notin Ended => lsq'[i].V = lsq[i].V
             /\ A[i].op = lsq[i].op
             /\ lsq[i].tag \in Ended /\ lsq[i].op \in Load =>
                  lsq'[i].V = L!Forwarded(A, i, Beyond(mem, found))
  <2>1. i \in DOMAIN lsq /\ i \in DOMAIN A
    BY <1>2 DEF NewAddresses, NewValues
  <2>2. A[i].tag = lsq[i].tag /\ A[i].op = lsq[i].op /\ A[i].done = lsq[i].done /\ A[i].V = lsq[i].V
    BY <1>2, <2>1 DEF NewAddresses
  <2>3. /\ lsq'[i].tag = A[i].tag /\ lsq'[i].op = A[i].op
        /\ lsq'[i].done = (A[i].done \/ A[i].tag \in Ended)
        /\ lsq'[i].V = IF A[i].tag \in Ended /\ A[i].op \in Load
                         THEN L!Forwarded(A, i, Beyond(mem, found)) ELSE A[i].V
    BY <1>2, <2>1 DEF NewValues
  <2> QED
    BY <2>1, <2>2, <2>3
<1>5. \A i \in DOMAIN lsq : /\ lsq[i].tag \in Ended => ~lsq[i].done
                            /\ \A j \in DOMAIN lsq : lsq[i].tag = lsq[j].tag => i = j
  BY ExecuteEnds
<1>6. ASSUME NEW y \in paths'[LS].completed, NEW i \in DOMAIN lsq', lsq'[i].tag = y.tag
      PROVE  lsq'[i].done /\ y.result.value = lsq'[i].V
  <2>1. CASE y \in paths[LS].completed
    <3>1. lsq[i].done /\ y.result.value = lsq[i].V
      BY <1>1, <1>4, <1>6, <2>1 DEF BroughtData
    <3> QED
      BY <1>4, <1>5, <3>1
  <2>2. CASE y \in Brought(LS)
    <3>1. PICK j \in DOMAIN lsq' : lsq'[j].tag \in Ended /\ y = AccessResult(lsq'[j])
      BY <2>2 DEF Brought
    <3>2. y.tag = lsq'[j].tag /\ y.result.value = lsq'[j].V
      BY <3>1 DEF AccessResult
    <3>3. i = j
      BY <1>4, <1>5, <1>6, <3>2
    <3> QED
      BY <1>4, <3>1, <3>2, <3>3
  <2> QED
    BY <1>3, <2>1, <2>2
<1>7. ASSUME NEW i \in DOMAIN lsq', NEW x \in E, x.tag = lsq'[i].tag, x.ready
      PROVE  lsq'[i].done /\ x.result.value = lsq'[i].V
  <2>1. lsq[i].done /\ x.result.value = lsq[i].V
    BY <1>1, <1>4, <1>7 DEF BroughtData
  <2> QED
    BY <1>4, <1>5, <2>1
<1>8. ASSUME NEW i \in DOMAIN lsq', lsq'[i].done
      PROVE  Normal(lsq'[i].op, lsq'[i].V)
  <2>1. CASE lsq[i].done
    <3>1. Normal(lsq[i].op, lsq[i].V)
      BY <1>1, <1>4, <2>1 DEF BroughtData
    <3> QED
      BY <1>4, <1>5, <2>1, <3>1
  <2>2. CASE lsq[i].tag \in Ended /\ lsq[i].op \in Load
    <3>1. Normal(A[i].op, L!Forwarded(A, i, Beyond(mem, found)))
      BY <1>4, <2>2, ForwardedNormal
    <3> QED
      BY <1>4, <2>2, <3>1
  <2>3. CASE lsq[i].op \notin Load
    <3>1. lsq[i].op \in Load \cup Store
      BY <1>4, ExecuteQueue DEF QueueOK, AccessOK, AnAccess
    <3>2. \A op \in Store : dst_type(op) = "NONE"
      BY DEF dst_type, Store, IntStore, VStore, Alu, AluImm, Upper, Mul, Div, Jump, IntLoad,
             FCmp, VSet, Float, FAdd, FMul, FMac, FSgn, Vector, VMul, VFMul, VMove, VLoad
    <3> QED
      BY <1>4, <2>3, <3>1, <3>2 DEF Normal
  <2> QED
    BY <1>4, <1>8, <2>1, <2>2, <2>3
<1> QED
  BY <1>6, <1>7, <1>8 DEF BroughtData, E

\* A step of the units keeps to the data of program order.
LEMMA DataExecute ==
  ASSUME CpuInv, ChainOK, DataInv, Execute, SetsVl
  PROVE  DataInv'
<1> DEFINE E == Entries(rob)
<1>1. UNCHANGED <<rob, regs, vl, vsew, program>>
  BY DEF Execute, inputVars, renameVars, archVars
<1>2. DataOK(E, regs, vl, vsew, program, paths, lsq)
  BY DEF DataInv
<1>3. /\ ResultsData(E, regs, vl, vsew, program, paths')
      /\ AccessesData(E, regs, vl, vsew, program, lsq')
      /\ BroughtData(E, paths', lsq')
  BY ExecuteResults, ExecuteAccesses, ExecuteBrings
<1>4. \A t \in ExecType : /\ paths'[t].stations = paths[t].stations
                          /\ \A u \in paths'[t].units : \E v \in paths[t].units : u.rs = v.rs
  BY ExecutePaths
<1> HIDE DEF E
<1>5. StationsData(E, regs, vl, vsew, program, paths')
  BY <1>2, <1>4 DEF DataOK, StationsData
<1>6. UnitsData(E, regs, vl, vsew, program, paths')
  <2> SUFFICES ASSUME NEW t \in ExecType, NEW u \in paths'[t].units, NEW x \in E,
                      x.tag = u.rs.tag
               PROVE  UnitData(E, regs, vl, vsew, program, x, u.rs)
    BY DEF UnitsData
  <2>1. PICK v \in paths[t].units : u.rs = v.rs
    BY <1>4
  <2> QED
    BY <1>2, <2>1 DEF DataOK, UnitsData
<1>7. DataOK(E, regs, vl, vsew, program, paths', lsq')
  BY <1>2, <1>3, <1>5, <1>6 DEF DataOK
<1> QED
  BY <1>1, <1>7 DEF DataInv, E

\* The vset that vector instructions run under is known to the vector state.
VsetKnown == vec_tag = NoTag => \A i \in DOMAIN rob : rob[i].op \notin VSet

\* An empty pipeline keeps to program order.
LEMMA DataInit == CpuInit => DataInv
<1> SUFFICES ASSUME CpuInit PROVE DataInv
  OBVIOUS
<1>1. rob = <<>> /\ lsq = <<>> /\ \A t \in ExecType : paths[t] = P!EmptyPath
  BY DEF CpuInit, R!RenameInit
<1>2. Entries(rob) = {} /\ DOMAIN lsq = {}
  BY <1>1, EmptySeq DEF Entries
<1>3. \A t \in ExecType : /\ DOMAIN paths[t].stations = {} /\ paths[t].units = {}
                          /\ paths[t].completed = {}
  <2>1. DOMAIN <<>> = {}
    BY EmptySeq
  <2> QED
    BY <1>1, <2>1 DEF P!EmptyPath
<1> QED
  BY <1>2, <1>3 DEF DataInv, DataOK, StationsData, UnitsData, ResultsData, ReadyData, AccessesData,
                    BroughtData, ExecType

\* What the pipeline holds stays the data of program order.
LEMMA DataNext ==
  ASSUME CpuInv, ChainOK, DataInv, [CpuNext]_cpuVars, SetsVl, VsetKnown
  PROVE  DataInv'
<1>1. CASE StartStep \/ CommitThrows \/ CommitEnds \/ ExecuteThrows
           \/ DispatchStalls \/ DispatchInvalid \/ DecodeAndFetch \/ CheckHalt \/ UNCHANGED cpuVars
  <2>1. UNCHANGED <<rob, regs, vl, vsew, program, paths, lsq>>
    <3>1. CASE StartStep
      BY <3>1 DEF StartStep, inputVars, renameVars, archVars, execVars
    <3>2. CASE CommitThrows
      BY <3>2 DEF CommitThrows, inputVars, renameVars, execVars
    <3>3. CASE CommitEnds
      BY <3>3 DEF CommitEnds, inputVars, renameVars, archVars, execVars
    <3>4. CASE DecodeAndFetch
      BY <3>4 DEF DecodeAndFetch, inputVars, renameVars, archVars, execVars
    <3>5. CASE ExecuteThrows
      BY <3>5 DEF ExecuteThrows, inputVars, renameVars, archVars, execVars
    <3>7. CASE DispatchStalls
      BY <3>7 DEF DispatchStalls, inputVars, renameVars, archVars, execVars
    <3>8. CASE DispatchInvalid
      BY <3>8 DEF DispatchInvalid, inputVars, renameVars, archVars, execVars
    <3>9. CASE CheckHalt
      BY <3>9 DEF CheckHalt, inputVars, renameVars, archVars, execVars
    <3>10. CASE UNCHANGED cpuVars
      BY <3>10 DEF cpuVars, inputVars, renameVars, archVars, execVars
    <3> QED
      BY <1>1, <3>1, <3>2, <3>3, <3>4, <3>5, <3>7, <3>8, <3>9, <3>10
  <2> QED
    BY <2>1, DataUnchanged
<1>2. CASE CommitOne
  BY <1>2, DataCommitOne
<1>3. CASE WritebackOne
  BY <1>3, DataWriteback
<1>4. CASE ResolveOne
  BY <1>4, DataResolve
<1>5. CASE FlushMispredicted
  BY <1>5, DataFlush
<1>6. CASE Execute
  BY <1>6, DataExecute
<1>7. CASE Issue
  BY <1>7, DataIssue
<1>8. CASE DispatchOne
  BY <1>8, DataDispatch DEF VsetKnown
<1> QED
  BY <1>1, <1>2, <1>3, <1>4, <1>5, <1>6, <1>7, <1>8 DEF CpuNext
=============================================================================
