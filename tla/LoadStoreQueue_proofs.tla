----------------------- MODULE LoadStoreQueue_proofs -----------------------
(***************************************************************************)
(* The invariants of LoadStoreQueue, for every size of the queue and of    *)
(* memory, every number of units and lanes, and every base of a byte; and  *)
(* that loads have the values sequential memory would have given them, if  *)
(* memory ends at least a word before the end of the address space.        *)
(***************************************************************************)
EXTENDS LoadStoreQueue, TagQueue_proofs

-----------------------------------------------------------------------------
(* Words and bytes.                                                        *)

\* The powers of the base of a byte.
LEMMA Bases ==
  /\ WordMod \in Nat /\ WordMod >= 16
  /\ \A k : Base(k) \in Nat \ {0} /\ Base(k) <= WordMod
<1> DEFINE B == ByteBase
<1>1. B \in Nat /\ B >= 2
  BY MemoryAssumption
<1> HIDE DEF B
<1>2. B * B \in Nat /\ B * B >= 2 * B
  BY <1>1
<1>3. B * B * B \in Nat /\ B * B * B >= 2 * (B * B)
  BY <1>1, <1>2
<1>4. B * B * B * B \in Nat /\ B * B * B * B >= 2 * (B * B * B)
  BY <1>1, <1>3
<1>5. \A k : Base(k) \in {1, B, B * B, B * B * B, B * B * B * B}
  BY DEF Base, B
<1>6. WordMod = B * B * B * B
  BY DEF WordMod, Base, B
<1> QED
  BY <1>1, <1>2, <1>3, <1>4, <1>5, <1>6

\* Whatever its index, a byte of a word is a byte.
LEMMA ByteOfIsByte ==
  ASSUME NEW w \in Nat, NEW k
  PROVE  ByteOf(w, k) \in Byte
<1>1. Base(k) \in Nat \ {0} /\ ByteBase \in Nat /\ ByteBase >= 2
  BY Bases, MemoryAssumption
<1>2. w \div Base(k) \in Nat
  BY <1>1
<1>3. (w \div Base(k)) % ByteBase \in 0..(ByteBase - 1)
  BY <1>1, <1>2
<1> QED
  BY <1>3 DEF ByteOf, Byte

\* Bytes joined are a number of that many bytes.
LEMMA JoinBelow ==
  ASSUME NEW n \in {1, 2, 4}, NEW bytes, \A k \in 0..(n-1) : bytes[k] \in Byte
  PROVE  Join(bytes, n) \in 0..(Base(n) - 1)
<1> DEFINE B == ByteBase
           C == B * B
           D == B * B * B
<1>1. B \in Nat /\ B >= 2
  BY MemoryAssumption
<1>2. C \in Nat /\ D \in Nat
  BY <1>1
<1>3. \A k \in 0..(n-1) : bytes[k] \in 0..(B - 1)
  BY DEF Byte
<1>4. Base(0) = 1 /\ Base(1) = B /\ Base(2) = C /\ Base(3) = D /\ Base(4) = D * B
  BY DEF Base
<1>5. D = C * B
  OBVIOUS
<1> HIDE DEF B, C, D
<1>6. ASSUME NEW x \in 0..(B - 1), NEW y \in Nat
      PROVE  x * y \in Nat /\ x * y <= B * y - y
  <2>1. x * y \in Nat
    OBVIOUS
  <2>2. B * y - y = (B - 1) * y
    BY <1>1
  <2>3. (B - 1) - x \in Nat
    BY <1>1
  <2>4. ((B - 1) - x) * y \in Nat
    BY <2>3
  <2>5. ((B - 1) - x) * y = (B - 1) * y - x * y
    BY <1>1
  <2> QED
    BY <1>1, <2>1, <2>2, <2>4, <2>5
<1>7. CASE n = 1
  <2>1. bytes[0] \in 0..(B - 1)
    BY <1>3, <1>7
  <2>2. Join(bytes, n) = bytes[0] * 1
    BY <1>4, <1>7, <2>1 DEF Join
  <2> QED
    BY <1>1, <1>4, <1>7, <2>1, <2>2
<1>8. CASE n = 2
  <2>1. bytes[0] \in 0..(B - 1) /\ bytes[1] \in 0..(B - 1)
    BY <1>3, <1>8
  <2>2. bytes[1] * B \in Nat /\ bytes[1] * B <= B * B - B
    BY <1>1, <1>6, <2>1
  <2>3. Join(bytes, n) = bytes[0] * 1 + bytes[1] * B
    BY <1>4, <1>8, <2>1, <2>2 DEF Join
  <2>4. C = B * B
    BY DEF C
  <2> QED
    BY <1>1, <1>2, <1>4, <1>8, <2>1, <2>2, <2>3, <2>4
<1>9. CASE n = 4
  <2>1. /\ bytes[0] \in 0..(B - 1) /\ bytes[1] \in 0..(B - 1)
        /\ bytes[2] \in 0..(B - 1) /\ bytes[3] \in 0..(B - 1)
    BY <1>3, <1>9
  <2>2. bytes[1] * B \in Nat /\ bytes[1] * B <= B * B - B
    BY <1>1, <1>6, <2>1
  <2>3. bytes[2] * C \in Nat /\ bytes[2] * C <= B * C - C
    BY <1>2, <1>6, <2>1
  <2>4. bytes[3] * D \in Nat /\ bytes[3] * D <= B * D - D
    BY <1>2, <1>6, <2>1
  <2>5. Join(bytes, n) = bytes[0] * 1 + bytes[1] * B + bytes[2] * C + bytes[3] * D
    BY <1>4, <1>9 DEF Join
  <2>6. C = B * B /\ D = B * C /\ D * B = B * D /\ B * D \in Nat
    BY <1>1, <1>2, <1>5 DEF C
  <2> HIDE DEF Join
  <2>7. Join(bytes, n) \in 0..(B * D - 1)
    BY <1>1, <1>2, <2>1, <2>2, <2>3, <2>4, <2>5, <2>6
  <2> QED
    BY <1>4, <1>9, <2>6, <2>7
<1> QED
  BY <1>7, <1>8, <1>9

\* A load that does not wrap reads a word.
LEMMA LoadIsWord ==
  ASSUME NEW m \in MemState, NEW n \in {1, 2, 4}, NEW addr \in Nat,
         addr + n - 1 < WordMod
  PROVE  load(m, addr, n) \in 0..(Base(n) - 1)
<1>1. WordMod \in Nat /\ MemSize \in Nat /\ Base(n) \in Nat \ {0}
  BY Bases, MemoryAssumption
<1>2. CASE Checked(addr, n)
  <2>1. addr + n - 1 < MemSize
    BY <1>1, <1>2 DEF Checked
  <2>2. ASSUME NEW k \in 0..(n-1) PROVE m[(addr + k) % WordMod] \in Byte
    <3>1. (addr + k) % WordMod = addr + k /\ addr + k \in 0..(MemSize - 1)
      BY <1>1, <2>1
    <3> QED
      BY <3>1 DEF MemState
  <2> DEFINE bytes == [k \in 0..(n-1) |-> m[(addr + k) % WordMod]]
  <2>3. \A k \in 0..(n-1) : bytes[k] \in Byte
    BY <2>2
  <2>4. load(m, addr, n) = Join(bytes, n)
    BY <1>2 DEF load
  <2> HIDE DEF bytes
  <2> QED
    BY <2>3, <2>4, JoinBelow
<1>3. CASE ~Checked(addr, n)
  BY <1>1, <1>3 DEF load
<1> QED
  BY <1>2, <1>3

-----------------------------------------------------------------------------
(* Single entries: their width is that of their operation, and a scalar    *)
(* access does not wrap.                                                   *)

EntryTyped(e) == e \in LSQEntry /\ e.sew = op_sew(e.op)
EntryOK(e)    == EntryTyped(e) /\ e.Va + 3 < WordMod

\* A queue of accesses whose addresses do not wrap.
IsQueue(q) == q \in Seq(LSQEntry) /\ \A k \in DOMAIN q : EntryOK(q[k])

\* An element is one, two or four bytes wide.
LEMMA ElementSize ==
  ASSUME NEW e, EntryTyped(e)
  PROVE  element_size(e) \in {1, 2, 4}
<1>1. e.op \in Load \cup Store /\ e.sew = op_sew(e.op)
  BY DEF EntryTyped, LSQEntry
<1>2. CASE e.op \in VLoad \cup VStore
  <2>1. e.sew \in {8, 16, 32}
    BY <1>1, <1>2 DEF op_sew, VLoad, VStore
  <2>2. element_size(e) = e.sew \div 8
    BY <1>2 DEF element_size, VLoad, VStore
  <2> QED
    BY <2>1, <2>2
<1>3. CASE e.op \notin VLoad \cup VStore
  BY <1>1, <1>3 DEF element_size, Load, Store, IntLoad, IntStore, VLoad, VStore
<1> QED
  BY <1>2, <1>3

\* The byte a store has for an address it covers is a byte.
LEMMA ByteFromIsByte ==
  ASSUME NEW e, EntryTyped(e), NEW addr \in Nat, covers_byte(e, addr)
  PROVE  byte_from(e, addr) \in Byte
<1>1. /\ e.Va \in Nat /\ e.vl \in 0..Lanes /\ e.V \in [Lane -> Word]
      /\ Lanes \in Nat \ {0}
  BY MemoryAssumption DEF EntryTyped, LSQEntry, Value
<1> DEFINE offset == addr - e.Va
           lane == IF e.op \in VStore THEN offset \div element_size(e) ELSE 0
<1>2. element_size(e) \in {1, 2, 4}
  BY ElementSize
<1>3. lane \in Lane
  <2>1. CASE e.op \in VStore
    <3>1. access_size(e) = e.vl * element_size(e)
      BY <2>1 DEF access_size
    <3>2. offset \in 0..(e.vl * element_size(e) - 1)
      BY <1>1, <1>2, <3>1 DEF covers_byte
    <3>3. lane = offset \div element_size(e)
      BY <2>1
    <3> HIDE DEF lane, offset
    <3>4. lane \in 0..(e.vl - 1)
      BY <1>1, <1>2, <3>2, <3>3
    <3> QED
      BY <1>1, <3>4 DEF Lane
  <2>2. CASE e.op \notin VStore
    BY <1>1, <2>2 DEF Lane
  <2> QED
    BY <2>1, <2>2
<1> HIDE DEF lane
<1>4. e.V[lane] \in Nat
  BY <1>1, <1>3, Bases DEF Word
<1>5. byte_from(e, addr) = ByteOf(e.V[lane], offset - lane * element_size(e))
  BY DEF byte_from, lane
<1> QED
  BY <1>4, <1>5, ByteOfIsByte

\* What a load finds at an address, in the queue or in memory, is a byte.
LEMMA ForwardedByte ==
  ASSUME NEW q \in Seq(LSQEntry), \A k \in DOMAIN q : EntryTyped(q[k]),
         NEW i \in DOMAIN q, NEW addr \in Nat, NEW byte \in Byte
  PROVE  byte_forward(q, i, addr, byte) \in Byte
<1> DEFINE older == {j \in 1..(i-1) : q[j].op \in Store /\ covers_byte(q[j], addr)}
<1>1. Len(q) \in Nat /\ DOMAIN q = 1..Len(q) /\ i \in 1..Len(q)
  BY LenProperties
<1>2. CASE older = {}
  BY <1>2 DEF byte_forward
<1>3. CASE older # {}
  <2>1. Max(older) \in older
    <3>1. i - 1 \in Nat /\ older \in SUBSET (1..(i-1))
      BY <1>1
    <3> HIDE DEF older
    <3> QED
      BY <1>3, <3>1, MaxOfIndices
  <2>2. Max(older) \in DOMAIN q /\ covers_byte(q[Max(older)], addr)
    BY <1>1, <2>1
  <2>3. byte_from(q[Max(older)], addr) \in Byte
    BY <2>2, ByteFromIsByte
  <2> QED
    BY <1>3, <2>3 DEF byte_forward
<1> QED
  BY <1>2, <1>3

\* A scalar, and what format_load makes of a word.
LEMMA ScalarIsValue ==
  ASSUME NEW w \in Word
  PROVE  scalar(w) \in Value
BY Bases DEF scalar, Value, Word

LEMMA FormattedIsWord ==
  ASSUME NEW op \in Load \ VLoad, NEW raw \in Word
  PROVE  format_load(op, raw) \in Word
<1>1. /\ WordMod \in Nat /\ WordMod >= 16 /\ raw \in 0..(WordMod - 1)
      /\ \A k : Base(k) \in Nat \ {0} /\ Base(k) <= WordMod
  BY Bases DEF Word
<1>2. ASSUME NEW n PROVE sign_extend(raw, n) \in 0..(WordMod - 1)
  <2> DEFINE low == raw % Base(n)
  <2>1. low \in 0..(Base(n) - 1)
    BY <1>1
  <2> HIDE DEF low
  <2>2. sign_extend(raw, n) = IF 2 * low >= Base(n) THEN WordMod - Base(n) + low ELSE low
    BY DEF sign_extend, low
  <2> QED
    BY <1>1, <2>1, <2>2
<1>3. format_load(op, raw) \in {sign_extend(raw, 1), sign_extend(raw, 2), raw}
  BY DEF format_load, Load, VLoad, IntLoad
<1> QED
  BY <1>1, <1>2, <1>3 DEF Word

\* A load brings back a value, from any memory that answers with bytes and words.
LEMMA ForwardedIsValue ==
  ASSUME NEW q \in Seq(LSQEntry), \A k \in DOMAIN q : EntryTyped(q[k]),
         NEW i \in DOMAIN q, q[i].op \in Load, NEW m,
         \A a \in Word : load(m, a, 1) \in Byte,
         q[i].op \notin VLoad => load(m, q[i].Va, element_size(q[i])) \in Nat
  PROVE  Forwarded(q, i, m) \in Value
<1> DEFINE e == q[i]
           n == element_size(e)
<1>1. /\ EntryTyped(e) /\ e.Va \in Nat
      /\ n \in {1, 2, 4} /\ e.vl \in 0..Lanes /\ Lanes \in Nat
  BY ElementSize, MemoryAssumption DEF EntryTyped, LSQEntry
<1>2. WordMod \in Nat /\ WordMod >= 16 /\ Base(n) \in Nat \ {0} /\ Base(n) <= WordMod
      /\ Base(1) = ByteBase /\ ByteBase \in Nat
  BY Bases, MemoryAssumption DEF Base
<1>3. CASE e.op \in VLoad
  <2> DEFINE byte(a) == byte_forward(q, i, a, load(m, a % WordMod, 1))
             join(l) == Join([k \in 0..(n-1) |-> byte(e.Va + l * n + k)], n)
  <2>1. ASSUME NEW a \in Nat PROVE byte(a) \in Byte
    <3>1. a % WordMod \in Word
      BY <1>2 DEF Word
    <3>2. load(m, a % WordMod, 1) \in Byte
      BY <3>1
    <3> QED
      BY <3>2, ForwardedByte
  <2>2. ASSUME NEW l \in Lane PROVE join(l) \in Word
    <3> DEFINE bytes == [k \in 0..(n-1) |-> byte(e.Va + l * n + k)]
    <3>1. ASSUME NEW k \in 0..(n-1) PROVE e.Va + l * n + k \in Nat
      BY <1>1, SMTT(30) DEF Lane
    <3>2. \A k \in 0..(n-1) : bytes[k] \in Byte
      BY <2>1, <3>1
    <3> HIDE DEF bytes, byte
    <3>3. Join(bytes, n) \in 0..(Base(n) - 1)
      BY <1>1, <3>2, JoinBelow
    <3> QED
      BY <1>2, <3>3 DEF Word, bytes
  <2> HIDE DEF byte
  <2>3. Forwarded(q, i, m) = [l \in Lane |-> IF l < e.vl THEN join(l) ELSE 0]
    BY <1>3 DEF Forwarded, vload_forward, byte
  <2> HIDE DEF join
  <2>4. 0 \in Word
    BY <1>2 DEF Word
  <2> QED
    BY <2>2, <2>3, <2>4 DEF Value
<1>4. CASE e.op \notin VLoad
  <2> DEFINE raw == load(m, e.Va, n)
             bytes == [k \in 0..(n-1) |-> byte_forward(q, i, e.Va + k, ByteOf(raw, k))]
  <2>1. access_size(e) = n
    <3>1. e.op \notin VLoad \cup VStore
      BY <1>4 DEF Load, VLoad, VStore, IntLoad
    <3> QED
      BY <3>1 DEF access_size
  <2>2. raw \in Nat
    BY <1>4
  <2>3. \A k \in 0..(n-1) : bytes[k] \in Byte
    <3> SUFFICES ASSUME NEW k \in 0..(n-1)
                 PROVE  byte_forward(q, i, e.Va + k, ByteOf(raw, k)) \in Byte
      OBVIOUS
    <3>1. e.Va + k \in Nat
      BY <1>1
    <3> QED
      BY <2>2, <3>1, ByteOfIsByte, ForwardedByte
  <2> HIDE DEF raw
  <2>4. load_forward(q, i, m) = Join(bytes, n)
    BY <2>1 DEF load_forward, raw
  <2> HIDE DEF bytes
  <2>5. load_forward(q, i, m) \in Word
    BY <1>1, <1>2, <2>3, <2>4, JoinBelow, SMTT(30) DEF Word
  <2>6. Forwarded(q, i, m) = scalar(format_load(e.op, load_forward(q, i, m)))
    BY <1>4 DEF Forwarded
  <2> QED
    BY <1>4, <2>5, <2>6, FormattedIsWord, ScalarIsValue
<1> QED
  BY <1>3, <1>4

-----------------------------------------------------------------------------
(* The inductive invariant.                                                *)

LsqTagsOrdered == TagsGrow(lsq) /\ \A i \in DOMAIN lsq : lsq[i].tag < lsq_next

LsqInv ==
  /\ LsqTypeOK
  /\ IsFiniteSet(lsus)
  /\ \A i \in DOMAIN lsq : EntryOK(lsq[i])
  /\ LsqTagsOrdered
  /\ UnitsServeQueue
  /\ NoLoadPassesUnknown

\* What the invariant says of the queue as a sequence.
LEMMA QueueFacts ==
  ASSUME LsqInv
  PROVE  /\ lsq \in Seq(LSQEntry)
         /\ Len(lsq) \in Nat /\ DOMAIN lsq = 1..Len(lsq)
         /\ \A i \in DOMAIN lsq : EntryOK(lsq[i]) /\ lsq[i].tag \in Nat
         /\ \A i, j \in DOMAIN lsq : lsq[i].tag = lsq[j].tag => i = j
<1>1. lsq \in Seq(LSQEntry) /\ Len(lsq) \in Nat /\ DOMAIN lsq = 1..Len(lsq)
  BY LenProperties DEF LsqInv, LsqTypeOK
<1>2. \A i \in DOMAIN lsq : EntryOK(lsq[i]) /\ lsq[i].tag \in Nat
  BY DEF LsqInv, EntryOK, EntryTyped, LSQEntry
<1>3. ASSUME NEW i \in DOMAIN lsq, NEW j \in DOMAIN lsq, lsq[i].tag = lsq[j].tag
      PROVE  i = j
  <2>1. ~(i < j) /\ ~(j < i)
    BY <1>2, <1>3 DEF LsqInv, LsqTagsOrdered, TagsGrow
  <2> QED
    BY <1>1, <2>1
<1> QED
  BY <1>1, <1>2, <1>3

\* Whether two accesses overlap depends on these fields only.
LEMMA OverlapsSame ==
  ASSUME NEW a, NEW b, NEW c, NEW d,
         a.op = c.op, a.sew = c.sew, a.Va = c.Va, a.vl = c.vl,
         b.op = d.op, b.sew = d.sew, b.Va = d.Va, b.vl = d.vl
  PROVE  overlaps(a, b) <=> overlaps(c, d)
<1>1. access_size(a) = access_size(c) /\ access_size(b) = access_size(d)
  BY DEF access_size, element_size
<1> QED
  BY <1>1 DEF overlaps

\* There is an access for a unit to work for, ready and not done.
Served(q, tag) ==
  \E i \in DOMAIN q :
    /\ q[i].tag = tag /\ q[i].issued /\ ~q[i].done
    /\ q[i].Qa = NoTag
    /\ q[i].op \in Store => q[i].Q = NoTag

\* What becomes of the entries while none enters or leaves: tags and operations stay,
\* an address, a length and the data of a store are there for good, only a load that
\* may be started is started, and a load gets its value when it is done.
Evolved(q, r, m) ==
  /\ r \in Seq(LSQEntry)
  /\ Len(r) = Len(q)
  /\ \A i \in DOMAIN q :
       /\ EntryOK(r[i])
       /\ r[i].tag = q[i].tag /\ r[i].op = q[i].op
       /\ q[i].Qa = NoTag => r[i].Qa = NoTag /\ r[i].Va = q[i].Va /\ r[i].vl = q[i].vl
       /\ q[i].Q = NoTag => r[i].Q = NoTag
       /\ r[i].op \in Load /\ (r[i].issued \/ r[i].done) =>
            q[i].Qa = NoTag /\ can_issue_load(q, i)
       /\ q[i].op \in Store /\ q[i].Q = NoTag => r[i].V = q[i].V
       /\ q[i].op \in Load /\ r[i].done =>
            r[i].V = IF q[i].done THEN q[i].V ELSE Forwarded(q, i, m)

LEMMA LoadOrStore == \A op : op \in Store => op \notin Load
BY DEF Load, Store, IntLoad, IntStore, VLoad, VStore

\* A load of q that is in its unit, or done, may be there.
NoLoadAhead(q) ==
  \A i \in DOMAIN q :
    q[i].op \in Load /\ (q[i].issued \/ q[i].done) => q[i].Qa = NoTag /\ can_issue_load(q, i)

\* While the entries evolve, no load gets ahead of a store it depends on.
LEMMA EvolvedAhead ==
  ASSUME NEW q, IsQueue(q), NEW m, NEW r, Evolved(q, r, m)
  PROVE  NoLoadAhead(r)
<1>1. /\ DOMAIN q = 1..Len(q) /\ Len(q) \in Nat /\ DOMAIN r = DOMAIN q
      /\ \A k \in DOMAIN q : EntryOK(q[k]) /\ EntryOK(r[k])
  <2>1. r \in Seq(LSQEntry) /\ q \in Seq(LSQEntry) /\ Len(r) = Len(q)
    BY DEF IsQueue, Evolved
  <2>2. DOMAIN q = 1..Len(q) /\ Len(q) \in Nat /\ DOMAIN r = DOMAIN q
    BY <2>1, LenProperties
  <2> QED
    BY <2>2 DEF IsQueue, Evolved
<1> SUFFICES ASSUME NEW i \in DOMAIN q, r[i].op \in Load, r[i].issued \/ r[i].done
             PROVE  r[i].Qa = NoTag /\ can_issue_load(r, i)
  BY <1>1 DEF NoLoadAhead
<1>2. /\ q[i].Qa = NoTag /\ can_issue_load(q, i)
      /\ r[i].Qa = NoTag /\ r[i].Va = q[i].Va /\ r[i].vl = q[i].vl
      /\ r[i].op = q[i].op
  BY DEF Evolved
<1>3. ASSUME NEW j \in 1..(i-1), r[j].op \in Store
      PROVE  /\ r[j].Qa = NoTag
             /\ overlaps(r[j], r[i]) => r[j].Q = NoTag
  <2>1. j \in DOMAIN q
    BY <1>1
  <2>2. q[j].Qa = NoTag /\ (overlaps(q[j], q[i]) => q[j].Q = NoTag)
    BY <1>2, <1>3, <2>1 DEF Evolved, can_issue_load
  <2>3. /\ r[j].Qa = NoTag /\ r[j].Va = q[j].Va /\ r[j].vl = q[j].vl
        /\ r[j].op = q[j].op
        /\ q[j].Q = NoTag => r[j].Q = NoTag
    BY <2>1, <2>2 DEF Evolved
  <2>4. /\ r[j].sew = op_sew(r[j].op) /\ q[j].sew = op_sew(q[j].op)
        /\ r[i].sew = op_sew(r[i].op) /\ q[i].sew = op_sew(q[i].op)
    BY <1>1, <2>1 DEF EntryOK, EntryTyped
  <2>5. overlaps(r[j], r[i]) <=> overlaps(q[j], q[i])
    BY <1>2, <2>3, <2>4, OverlapsSame
  <2> QED
    BY <2>2, <2>3, <2>5
<1> QED
  BY <1>2, <1>3 DEF can_issue_load

LEMMA EvolvedInv ==
  ASSUME LsqInv, Evolved(lsq, lsq', mem), lsq_next' = lsq_next,
         lsus' \subseteq Nat, IsFiniteSet(lsus'), Cardinality(lsus') <= LsuCount,
         mem' \in MemState, UnitsServeQueue'
  PROVE  LsqInv'
<1>1. /\ lsq' \in Seq(LSQEntry) /\ Len(lsq') = Len(lsq) /\ DOMAIN lsq' = 1..Len(lsq)
      /\ DOMAIN lsq = 1..Len(lsq) /\ Len(lsq) \in Nat
  BY QueueFacts, LenProperties DEF Evolved
<1>2. \A i \in DOMAIN lsq' : EntryOK(lsq'[i])
  BY <1>1 DEF Evolved
<1>3. LsqTypeOK'
  BY <1>1 DEF LsqInv, LsqTypeOK
<1>4. LsqTagsOrdered'
  <2>1. \A i \in DOMAIN lsq : lsq'[i].tag = lsq[i].tag
    BY DEF Evolved
  <2> QED
    BY <1>1, <2>1 DEF LsqInv, LsqTagsOrdered, TagsGrow
<1>5. NoLoadPassesUnknown'
  <2>1. IsQueue(lsq)
    BY QueueFacts DEF IsQueue
  <2>2. NoLoadAhead(lsq')
    BY <2>1, EvolvedAhead
  <2> QED
    BY <2>2 DEF NoLoadAhead, NoLoadPassesUnknown, can_issue_load
<1> QED
  BY <1>2, <1>3, <1>4, <1>5 DEF LsqInv

\* In an unchanged load nothing is started that was not before.
LEMMA StartedBefore ==
  ASSUME LsqInv, NEW i \in DOMAIN lsq, lsq[i].op \in Load,
         lsq[i].issued \/ lsq[i].done
  PROVE  lsq[i].Qa = NoTag /\ can_issue_load(lsq, i)
BY DEF LsqInv, NoLoadPassesUnknown, can_issue_load

-----------------------------------------------------------------------------
(* One lemma for each action.                                              *)

LEMMA LsqInitInv == LsqInit => LsqInv
<1> SUFFICES ASSUME LsqInit PROVE LsqInv
  OBVIOUS
<1>1. lsq = <<>> /\ lsus = {} /\ lsq_next = 0 /\ mem \in [0..(MemSize - 1) -> {0}]
  BY DEF LsqInit
<1>2. lsq \in Seq(LSQEntry) /\ Len(lsq) = 0 /\ DOMAIN lsq = {}
  BY <1>1
<1>3. Cardinality(lsus) = 0 /\ IsFiniteSet(lsus)
  BY <1>1, FS_EmptySet
<1>4. mem \in MemState
  BY <1>1, MemoryAssumption DEF MemState, Byte
<1> QED
  BY <1>1, <1>2, <1>3, <1>4, LsqAssumption
     DEF LsqInv, LsqTypeOK, LsqTagsOrdered, TagsGrow, UnitsServeQueue, NoLoadPassesUnknown

\* An access enters behind all others, with the youngest tag, and not started.
LEMMA DispatchInv ==
  ASSUME LsqInv, NEW op \in Access, NEW v \in Datum, NEW t \in Producer \cup {NoTag},
         NEW l \in Length, Dispatch(op, v, t, l)
  PROVE  LsqInv'
<1> DEFINE n == Len(lsq)
           e == NewAccess(op, lsq_next, v, t, l)
<1>1. /\ lsq \in Seq(LSQEntry) /\ n \in Nat /\ DOMAIN lsq = 1..n
      /\ \A i \in 1..n : EntryOK(lsq[i]) /\ lsq[i].tag \in Nat
  BY QueueFacts
<1>2. /\ lsq_next \in Nat /\ lsq_next < TagLimit /\ n < LsqSize
      /\ lsq_next' = lsq_next + 1 /\ lsq_next' \in 0..TagLimit
      /\ lsus' = lsus /\ mem' = mem
  BY LsqAssumption, <1>1 DEF LsqInv, LsqTypeOK, Dispatch, can_allocate
<1>3. /\ EntryOK(e) /\ e.tag = lsq_next /\ e.issued = FALSE /\ e.done = FALSE
  <2>1. op_sew(op) \in {0, 8, 16, 32}
    BY DEF op_sew
  <2>2. v \in Value /\ scalar(0) \in Value
    <3>1. 0 \in Word
      BY Bases DEF Word
    <3> QED
      BY <3>1, LsqAssumption, ScalarIsValue
  <2>3. op \in Load \cup Store /\ l \in 0..Lanes /\ 0 \in 0..Lanes /\ t \in Nat \cup {NoTag}
    BY LsqAssumption, MemoryAssumption
  <2>4. e \in LSQEntry
    BY <1>2, <2>1, <2>2, <2>3 DEF NewAccess, LSQEntry
  <2>5. e.sew = op_sew(e.op) /\ e.Va + 3 < WordMod
    BY Bases DEF NewAccess
  <2> QED
    BY <2>4, <2>5 DEF EntryOK, EntryTyped, NewAccess
<1>4. /\ lsq' \in Seq(LSQEntry) /\ Len(lsq') = n + 1 /\ DOMAIN lsq' = 1..(n+1)
      /\ lsq'[n+1] = e /\ \A i \in 1..n : lsq'[i] = lsq[i]
  <2>1. lsq' = Append(lsq, e) /\ e \in LSQEntry
    BY <1>3 DEF Dispatch, EntryOK, EntryTyped
  <2> HIDE DEF e
  <2> QED
    BY <1>1, <2>1, AppendProperties, LenProperties
<1> HIDE DEF e
<1>5. LsqTypeOK'
  BY <1>1, <1>2, <1>4, LsqAssumption DEF LsqInv, LsqTypeOK
<1>6. \A i \in DOMAIN lsq' : EntryOK(lsq'[i])
  BY <1>1, <1>3, <1>4
<1>7. LsqTagsOrdered'
  BY <1>1, <1>2, <1>3, <1>4, SMTT(30) DEF LsqInv, LsqTagsOrdered, TagsGrow
<1>8. UnitsServeQueue'
  <2> SUFFICES ASSUME NEW tag \in lsus
               PROVE  \E i \in DOMAIN lsq' :
                        /\ lsq'[i].tag = tag /\ lsq'[i].issued /\ ~lsq'[i].done
                        /\ lsq'[i].Qa = NoTag
                        /\ lsq'[i].op \in Store => lsq'[i].Q = NoTag
    BY <1>2 DEF UnitsServeQueue
  <2>1. PICK i \in DOMAIN lsq :
          /\ lsq[i].tag = tag /\ lsq[i].issued /\ ~lsq[i].done
          /\ lsq[i].Qa = NoTag
          /\ lsq[i].op \in Store => lsq[i].Q = NoTag
    BY DEF LsqInv, UnitsServeQueue
  <2>2. i \in DOMAIN lsq' /\ lsq'[i] = lsq[i]
    BY <1>1, <1>4
  <2> QED
    BY <2>1, <2>2
<1>9. NoLoadPassesUnknown'
  <2> SUFFICES ASSUME NEW i \in 1..(n+1), lsq'[i].op \in Load,
                      lsq'[i].issued \/ lsq'[i].done
               PROVE  /\ lsq'[i].Qa = NoTag
                      /\ \A j \in 1..(i-1) : lsq'[j].op \in Store =>
                           /\ lsq'[j].Qa = NoTag
                           /\ overlaps(lsq'[j], lsq'[i]) => lsq'[j].Q = NoTag
    BY <1>4 DEF NoLoadPassesUnknown
  <2>1. i \in DOMAIN lsq /\ lsq'[i] = lsq[i]
    BY <1>1, <1>3, <1>4
  <2>2. \A j \in 1..(i-1) : lsq'[j] = lsq[j]
    BY <1>1, <1>4, <2>1
  <2> QED
    BY <2>1, <2>2 DEF LsqInv, NoLoadPassesUnknown
<1> QED
  BY <1>2, <1>5, <1>6, <1>7, <1>8, <1>9 DEF LsqInv

\* A unit that serves an access goes on serving it, if the access keeps these fields.
LEMMA StillServed ==
  ASSUME NEW lsqs, NEW tag, NEW i \in DOMAIN lsqs,
         lsqs[i].tag = tag, lsqs[i].issued, ~lsqs[i].done, lsqs[i].Qa = NoTag,
         lsqs[i].op \in Store => lsqs[i].Q = NoTag
  PROVE  Served(lsqs, tag)
BY DEF Served

\* Entries replaced one by one make a queue of the same length.
LEMMA SameLength ==
  ASSUME NEW q \in Seq(LSQEntry), NEW r, r = [k \in DOMAIN q |-> r[k]],
         \A k \in DOMAIN q : r[k] \in LSQEntry
  PROVE  r \in Seq(LSQEntry) /\ Len(r) = Len(q)
<1>1. Len(q) \in Nat /\ DOMAIN q = 1..Len(q)
  BY LenProperties
<1>2. r \in [1..Len(q) -> LSQEntry]
  BY <1>1
<1>3. r \in Seq(LSQEntry)
  BY <1>1, <1>2, SeqDef
<1>4. Len(r) \in Nat /\ DOMAIN r = 1..Len(r) /\ DOMAIN r = 1..Len(q)
  BY <1>2, <1>3, LenProperties
<1> QED
  BY <1>1, <1>3, <1>4

\* An address arrives at an access that has none: it is not in a unit, and no load
\* that was started waited for it.
LEMMA GenerateAddressInv ==
  ASSUME LsqInv, NEW i \in DOMAIN lsq, NEW a \in Address, NEW l \in Length,
         GenerateAddress(i, a, l)
  PROVE  LsqInv' /\ Evolved(lsq, lsq', mem)
<1> DEFINE x == [tag |-> lsq[i].tag, Va |-> a, vl |-> l]
           e == [lsq[i] EXCEPT !.Va = a, !.Qa = NoTag,
                               !.vl = IF lsq[i].op \in VLoad \cup VStore THEN l ELSE @]
<1>1. /\ lsq \in Seq(LSQEntry)
      /\ \A k \in DOMAIN lsq : EntryOK(lsq[k]) /\ lsq[k].tag \in Nat
      /\ \A k \in DOMAIN lsq : lsq[k].tag = lsq[i].tag <=> k = i
  BY QueueFacts
<1>2. /\ lsq[i].Qa # NoTag /\ lsq' = Addressed(lsq, {x})
      /\ lsus' = lsus /\ mem' = mem /\ lsq_next' = lsq_next
  BY DEF GenerateAddress
<1>3. lsq' = [k \in DOMAIN lsq |-> IF k = i THEN e ELSE lsq[k]]
  <2>1. x.tag = lsq[i].tag /\ x.Va = a /\ x.vl = l
    OBVIOUS
  <2>2. \A k \in DOMAIN lsq : (\E y \in {x} : y.tag = lsq[k].tag) <=> k = i
    BY <1>1, <2>1
  <2>3. (CHOOSE y \in {x} : y.tag = lsq[i].tag) = x
    BY <2>1
  <2> HIDE DEF x
  <2>4. lsq' = [k \in DOMAIN lsq |->
                  IF k = i
                    THEN LET z == CHOOSE y \in {x} : y.tag = lsq[k].tag
                         IN  [lsq[k] EXCEPT !.Va = z.Va, !.Qa = NoTag,
                               !.vl = IF lsq[k].op \in VLoad \cup VStore THEN z.vl ELSE @]
                    ELSE lsq[k]]
    BY <1>2, <2>2 DEF Addressed
  <2> QED
    BY <2>1, <2>3, <2>4
<1>4. /\ EntryOK(e) /\ e.tag = lsq[i].tag /\ e.op = lsq[i].op /\ e.Q = lsq[i].Q
      /\ e.issued = lsq[i].issued /\ e.done = lsq[i].done /\ e.V = lsq[i].V
  <2>1. a \in Nat /\ a + 3 < WordMod /\ l \in 0..Lanes
    BY LsqAssumption
  <2>2. lsq[i] \in LSQEntry /\ lsq[i].sew = op_sew(lsq[i].op)
    BY <1>1 DEF EntryOK, EntryTyped
  <2>3. e \in LSQEntry
    BY <2>1, <2>2 DEF LSQEntry
  <2>4. e.sew = op_sew(e.op) /\ e.Va = a
    BY <2>2 DEF LSQEntry
  <2>5. /\ e.tag = lsq[i].tag /\ e.op = lsq[i].op /\ e.Q = lsq[i].Q
        /\ e.issued = lsq[i].issued /\ e.done = lsq[i].done /\ e.V = lsq[i].V
    BY <2>2 DEF LSQEntry
  <2> HIDE DEF e
  <2> QED
    BY <2>1, <2>3, <2>4, <2>5 DEF EntryOK, EntryTyped
<1> HIDE DEF e
<1>5. Evolved(lsq, lsq', mem)
  <2>1. \A k \in DOMAIN lsq : EntryOK(lsq'[k])
    BY <1>1, <1>3, <1>4
  <2>2. lsq' \in Seq(LSQEntry) /\ Len(lsq') = Len(lsq)
    BY <1>1, <1>3, <2>1, SameLength DEF EntryOK, EntryTyped
  <2>3. ASSUME NEW k \in DOMAIN lsq
        PROVE  /\ lsq'[k].tag = lsq[k].tag /\ lsq'[k].op = lsq[k].op
               /\ lsq[k].Qa = NoTag =>
                    lsq'[k].Qa = NoTag /\ lsq'[k].Va = lsq[k].Va /\ lsq'[k].vl = lsq[k].vl
               /\ lsq[k].Q = NoTag => lsq'[k].Q = NoTag
               /\ lsq'[k].V = lsq[k].V /\ lsq'[k].done = lsq[k].done
               /\ lsq'[k].op \in Load /\ (lsq'[k].issued \/ lsq'[k].done) =>
                    lsq[k].Qa = NoTag /\ can_issue_load(lsq, k)
    <3>1. CASE k = i
      BY <1>2, <1>3, <1>4, <3>1, StartedBefore
    <3>2. CASE k # i
      BY <1>3, <3>2, StartedBefore
    <3> QED
      BY <3>1, <3>2
  <2> QED
    BY <2>1, <2>2, <2>3 DEF Evolved
<1>6. ASSUME NEW tag \in lsus PROVE Served(lsq', tag)
  <2>1. PICK k \in DOMAIN lsq :
          /\ lsq[k].tag = tag /\ lsq[k].issued /\ ~lsq[k].done
          /\ lsq[k].Qa = NoTag
          /\ lsq[k].op \in Store => lsq[k].Q = NoTag
    BY DEF LsqInv, UnitsServeQueue
  <2>2. k \in DOMAIN lsq' /\ lsq'[k] = lsq[k]
    BY <1>2, <1>3, <2>1
  <2> QED
    BY <2>1, <2>2, StillServed
<1> QED
  BY <1>2, <1>5, <1>6, EvolvedInv DEF LsqInv, LsqTypeOK, UnitsServeQueue, Served

\* A result reaches stores that waited for it, none of them in a unit.
LEMMA WakeInv ==
  ASSUME LsqInv, NEW t \in Producer, NEW v \in Datum, Wake(t, v)
  PROVE  LsqInv' /\ Evolved(lsq, lsq', mem)
<1> DEFINE waits(k) == ~lsq[k].done /\ lsq[k].op \in Store /\ lsq[k].Q = t
<1>1. /\ lsq \in Seq(LSQEntry)
      /\ \A k \in DOMAIN lsq : EntryOK(lsq[k])
  BY QueueFacts
<1>2. /\ lsq' = [k \in DOMAIN lsq |->
                   IF waits(k) THEN [lsq[k] EXCEPT !.Q = NoTag, !.V = v] ELSE lsq[k]]
      /\ lsus' = lsus /\ mem' = mem /\ lsq_next' = lsq_next
  BY DEF Wake, Woken
<1>3. t # NoTag /\ v \in Value
  BY LsqAssumption DEF NoTag
<1>4. ASSUME NEW k \in DOMAIN lsq
      PROVE  /\ EntryOK(lsq'[k])
             /\ lsq'[k].tag = lsq[k].tag /\ lsq'[k].op = lsq[k].op
             /\ lsq'[k].Qa = lsq[k].Qa /\ lsq'[k].Va = lsq[k].Va /\ lsq'[k].vl = lsq[k].vl
             /\ lsq'[k].issued = lsq[k].issued /\ lsq'[k].done = lsq[k].done
             /\ lsq[k].Q = NoTag => lsq'[k].Q = NoTag
             /\ lsq[k].op \in Load \/ lsq[k].Q = NoTag => lsq'[k].V = lsq[k].V
  <2>1. CASE waits(k)
    <3>1. lsq'[k] = [lsq[k] EXCEPT !.Q = NoTag, !.V = v]
      BY <1>2, <2>1
    <3>2. lsq[k] \in LSQEntry /\ lsq[k].sew = op_sew(lsq[k].op) /\ lsq[k].Va + 3 < WordMod
      BY <1>1 DEF EntryOK, EntryTyped
    <3>3. /\ lsq'[k] \in LSQEntry /\ lsq'[k].sew = lsq[k].sew
          /\ lsq'[k].tag = lsq[k].tag /\ lsq'[k].op = lsq[k].op
          /\ lsq'[k].Qa = lsq[k].Qa /\ lsq'[k].Va = lsq[k].Va /\ lsq'[k].vl = lsq[k].vl
          /\ lsq'[k].issued = lsq[k].issued /\ lsq'[k].done = lsq[k].done
          /\ lsq'[k].Q = NoTag
      BY <1>3, <3>1, <3>2 DEF LSQEntry
    <3>4. lsq[k].op \notin Load /\ lsq[k].Q # NoTag
      BY <1>3, <2>1, LoadOrStore
    <3> QED
      BY <3>2, <3>3, <3>4 DEF EntryOK, EntryTyped
  <2>2. CASE ~waits(k)
    BY <1>1, <1>2, <2>2
  <2> QED
    BY <2>1, <2>2
<1>5. Evolved(lsq, lsq', mem)
  <2>1. lsq' \in Seq(LSQEntry) /\ Len(lsq') = Len(lsq)
    BY <1>1, <1>2, <1>4, SameLength DEF EntryOK, EntryTyped
  <2>2. ASSUME NEW k \in DOMAIN lsq, lsq'[k].op \in Load, lsq'[k].issued \/ lsq'[k].done
        PROVE  lsq[k].Qa = NoTag /\ can_issue_load(lsq, k)
    BY <1>4, <2>2, StartedBefore
  <2> QED
    BY <1>4, <2>1, <2>2 DEF Evolved
<1>6. ASSUME NEW tag \in lsus PROVE Served(lsq', tag)
  <2>1. PICK k \in DOMAIN lsq :
          /\ lsq[k].tag = tag /\ lsq[k].issued /\ ~lsq[k].done
          /\ lsq[k].Qa = NoTag
          /\ lsq[k].op \in Store => lsq[k].Q = NoTag
    BY DEF LsqInv, UnitsServeQueue
  <2>2. k \in DOMAIN lsq'
    BY <1>2
  <2> QED
    BY <1>4, <2>1, <2>2, StillServed
<1> QED
  BY <1>2, <1>5, <1>6, EvolvedInv DEF LsqInv, LsqTypeOK, UnitsServeQueue, Served

\* No more accesses are chosen than there are units idle.
LEMMA ToIssueFits ==
  ASSUME NEW q \in Seq(LSQEntry), NEW idle \in Int, ToIssue(q, idle) # {}
  PROVE  /\ ToIssue(q, idle) \subseteq DOMAIN q
         /\ IsFiniteSet(ToIssue(q, idle))
         /\ Cardinality(ToIssue(q, idle)) <= idle
<1> DEFINE able == {i \in DOMAIN q : can_issue(q, i)}
           chosen == ToIssue(q, idle)
<1>1. Len(q) \in Nat /\ able \in SUBSET (1..Len(q)) /\ chosen \subseteq DOMAIN q
      /\ chosen = {i \in able : Cardinality({j \in able : j < i}) < idle}
  BY LenProperties DEF ToIssue
<1> HIDE DEF able, chosen
<1> QED
  BY <1>1, FirstFit DEF chosen

\* Accesses are started: each has what it needs, and each a unit that was idle.
LEMMA IssueInv ==
  ASSUME LsqInv, Issue
  PROVE  LsqInv' /\ Evolved(lsq, lsq', mem)
<1> DEFINE idle == LsuCount - Cardinality(lsus)
           chosen == ToIssue(lsq, idle)
           tags == {lsq[k].tag : k \in chosen}
<1>1. /\ lsq \in Seq(LSQEntry)
      /\ \A k \in DOMAIN lsq : EntryOK(lsq[k]) /\ lsq[k].tag \in Nat
  BY QueueFacts
<1>2. /\ chosen # {} /\ lsus' = lsus \cup tags /\ lsq' = Issued(lsq, chosen)
      /\ mem' = mem /\ lsq_next' = lsq_next
  BY DEF Issue
<1>3. /\ IsFiniteSet(lsus) /\ lsus \subseteq Nat /\ Cardinality(lsus) \in Nat
      /\ LsuCount \in Nat /\ idle \in Int
  BY LsqAssumption, FS_CardinalityType DEF LsqInv, LsqTypeOK
<1>4. /\ chosen \subseteq DOMAIN lsq /\ IsFiniteSet(chosen) /\ Cardinality(chosen) <= idle
      /\ \A k \in chosen : can_issue(lsq, k)
  <2>1. \A k \in chosen : can_issue(lsq, k)
    BY DEF ToIssue
  <2> QED
    BY <1>1, <1>2, <1>3, <2>1, ToIssueFits
<1> HIDE DEF chosen
<1>5. IsFiniteSet(tags) /\ Cardinality(tags) <= Cardinality(chosen) /\ tags \subseteq Nat
  <2> DEFINE f == [k \in chosen |-> lsq[k].tag]
  <2>1. f \in Surjection(chosen, tags)
    BY DEF Surjection
  <2> HIDE DEF f
  <2>2. IsFiniteSet(tags) /\ Cardinality(tags) <= Cardinality(chosen)
    BY <1>4, <2>1, FS_Surjection
  <2>3. tags \subseteq Nat
    BY <1>1, <1>4
  <2> QED
    BY <2>2, <2>3
<1> HIDE DEF tags
<1>6. IsFiniteSet(lsus') /\ lsus' \subseteq Nat /\ Cardinality(lsus') <= LsuCount
  <2>1. /\ IsFiniteSet(lsus \cup tags)
        /\ Cardinality(lsus \cup tags)
             = Cardinality(lsus) + Cardinality(tags) - Cardinality(lsus \cap tags)
    BY <1>3, <1>5, FS_Union
  <2>2. IsFiniteSet(lsus \cap tags)
    BY <1>3, FS_Subset
  <2>3. /\ Cardinality(lsus \cap tags) \in Nat /\ Cardinality(tags) \in Nat
        /\ Cardinality(chosen) \in Nat
    BY <1>4, <1>5, <2>2, FS_CardinalityType
  <2> QED
    BY <1>2, <1>3, <1>4, <1>5, <2>1, <2>3
<1>7. lsq' = [k \in DOMAIN lsq |-> [lsq[k] EXCEPT !.issued = @ \/ k \in chosen]]
  BY <1>2 DEF Issued
<1>8. ASSUME NEW k \in DOMAIN lsq
      PROVE  /\ EntryOK(lsq'[k])
             /\ lsq'[k].tag = lsq[k].tag /\ lsq'[k].op = lsq[k].op
             /\ lsq'[k].Qa = lsq[k].Qa /\ lsq'[k].Va = lsq[k].Va /\ lsq'[k].vl = lsq[k].vl
             /\ lsq'[k].Q = lsq[k].Q /\ lsq'[k].done = lsq[k].done
             /\ lsq'[k].V = lsq[k].V
             /\ lsq'[k].issued <=> lsq[k].issued \/ k \in chosen
  <2>1. lsq'[k] = [lsq[k] EXCEPT !.issued = lsq[k].issued \/ k \in chosen]
    BY <1>7
  <2>2. lsq[k] \in LSQEntry /\ lsq[k].sew = op_sew(lsq[k].op) /\ lsq[k].Va + 3 < WordMod
    BY <1>1 DEF EntryOK, EntryTyped
  <2>3. PICK b \in BOOLEAN : b = (lsq[k].issued \/ k \in chosen)
    OBVIOUS
  <2>4. lsq'[k] = [lsq[k] EXCEPT !.issued = b]
    BY <2>1, <2>3
  <2>5. /\ lsq'[k] \in LSQEntry /\ lsq'[k].sew = lsq[k].sew
        /\ lsq'[k].tag = lsq[k].tag /\ lsq'[k].op = lsq[k].op
        /\ lsq'[k].Qa = lsq[k].Qa /\ lsq'[k].Va = lsq[k].Va /\ lsq'[k].vl = lsq[k].vl
        /\ lsq'[k].Q = lsq[k].Q /\ lsq'[k].done = lsq[k].done
        /\ lsq'[k].V = lsq[k].V /\ lsq'[k].issued = b
    BY <2>2, <2>4 DEF LSQEntry
  <2>6. EntryOK(lsq'[k])
    BY <2>2, <2>5 DEF EntryOK, EntryTyped
  <2> QED
    BY <2>3, <2>5, <2>6, ZenonT(40)
<1>9. Evolved(lsq, lsq', mem)
  <2>1. lsq' \in Seq(LSQEntry) /\ Len(lsq') = Len(lsq)
    BY <1>1, <1>7, <1>8, SameLength DEF EntryOK, EntryTyped
  <2>2. ASSUME NEW k \in DOMAIN lsq, lsq'[k].op \in Load, lsq'[k].issued \/ lsq'[k].done
        PROVE  lsq[k].Qa = NoTag /\ can_issue_load(lsq, k)
    <3>1. CASE k \in chosen
      BY <1>4, <1>8, <2>2, <3>1 DEF can_issue
    <3>2. CASE k \notin chosen
      BY <1>8, <2>2, <3>2, StartedBefore
    <3> QED
      BY <3>1, <3>2
  <2> QED
    BY <1>8, <2>1, <2>2 DEF Evolved
<1>10. ASSUME NEW tag \in lsus' PROVE Served(lsq', tag)
  <2>0. DOMAIN lsq' = DOMAIN lsq
    BY <1>7
  <2>1. CASE tag \in lsus
    <3>1. PICK k \in DOMAIN lsq :
            /\ lsq[k].tag = tag /\ lsq[k].issued /\ ~lsq[k].done
            /\ lsq[k].Qa = NoTag
            /\ lsq[k].op \in Store => lsq[k].Q = NoTag
      BY <2>1 DEF LsqInv, UnitsServeQueue
    <3> QED
      BY <1>8, <2>0, <3>1, StillServed
  <2>2. CASE tag \in tags
    <3>1. PICK k \in chosen : lsq[k].tag = tag
      BY <2>2 DEF tags
    <3>2. /\ k \in DOMAIN lsq /\ ~lsq[k].done /\ lsq[k].Qa = NoTag
          /\ lsq[k].op \in Store => lsq[k].Q = NoTag
      BY <1>4, <3>1 DEF can_issue
    <3> QED
      BY <1>8, <2>0, <3>1, <3>2, StillServed
  <2> QED
    BY <1>2, <2>1, <2>2
<1> QED
  BY <1>2, <1>6, <1>9, <1>10, EvolvedInv DEF LsqInv, LsqTypeOK, UnitsServeQueue, Served

\* A unit has finished: its access, which the queue still holds, is done, a load
\* with a value.
LEMMA CompleteInv ==
  ASSUME LsqInv, NEW tag \in lsus, Complete(tag)
  PROVE  LsqInv' /\ Evolved(lsq, lsq', mem)
<1>1. /\ lsq \in Seq(LSQEntry)
      /\ \A k \in DOMAIN lsq : EntryOK(lsq[k]) /\ lsq[k].tag \in Nat
      /\ \A j, k \in DOMAIN lsq : lsq[j].tag = lsq[k].tag => j = k
  BY QueueFacts
<1>2. PICK i \in DOMAIN lsq : lsq[i].tag = tag /\ lsq[i].issued /\ ~lsq[i].done
  BY DEF LsqInv, UnitsServeQueue
<1>3. /\ lsus' = lsus \ {tag} /\ mem' = mem /\ lsq_next' = lsq_next
      /\ lsq' = Completed(lsq, {tag}, mem)
  BY DEF Complete
<1> DEFINE V == IF lsq[i].op \in Load THEN Forwarded(lsq, i, mem) ELSE lsq[i].V
           e == [lsq[i] EXCEPT !.issued = FALSE, !.done = TRUE, !.V = V]
<1>4. lsq' = [k \in DOMAIN lsq |-> IF k = i THEN e ELSE lsq[k]]
  <2> DEFINE W(k) == IF lsq[k].op \in Load THEN Forwarded(lsq, k, mem) ELSE lsq[k].V
  <2>1. lsq' = [k \in DOMAIN lsq |->
                  IF lsq[k].tag = tag
                    THEN [lsq[k] EXCEPT !.issued = FALSE, !.done = TRUE, !.V = W(k)]
                    ELSE lsq[k]]
    BY <1>3 DEF Completed
  <2>2. \A k \in DOMAIN lsq : lsq[k].tag = tag <=> k = i
    BY <1>1, <1>2
  <2>3. V = W(i)
    OBVIOUS
  <2> HIDE DEF W, V
  <2> QED
    BY <2>1, <2>2, <2>3
<1>5. /\ V \in Value
      /\ V = IF lsq[i].op \in Load THEN Forwarded(lsq, i, mem) ELSE lsq[i].V
  <2>1. lsq[i].V \in Value
    BY <1>1 DEF EntryOK, EntryTyped, LSQEntry
  <2>2. mem \in MemState
    BY DEF LsqInv, LsqTypeOK
  <2>3. lsq[i].op \in Load => Forwarded(lsq, i, mem) \in Value
    <3>1. \A k \in DOMAIN lsq : EntryTyped(lsq[k])
      BY <1>1 DEF EntryOK
    <3>2. ASSUME NEW a \in Word PROVE load(mem, a, 1) \in Byte
      <4>1. a \in Nat /\ a + 1 - 1 < WordMod /\ Base(1) = ByteBase
        BY Bases DEF Word, Base
      <4> QED
        BY <2>2, <4>1, LoadIsWord DEF Byte
    <3>3. load(mem, lsq[i].Va, element_size(lsq[i])) \in Nat
      <4>1. /\ element_size(lsq[i]) \in {1, 2, 4} /\ lsq[i].Va \in Nat
            /\ lsq[i].Va + 3 < WordMod /\ WordMod \in Nat
        BY <1>1, <3>1, ElementSize, Bases DEF EntryOK, EntryTyped, LSQEntry
      <4>2. load(mem, lsq[i].Va, element_size(lsq[i]))
              \in 0..(Base(element_size(lsq[i])) - 1)
        BY <2>2, <4>1, LoadIsWord
      <4> QED
        BY <4>2
    <3> QED
      BY <1>1, <3>1, <3>2, <3>3, ForwardedIsValue
  <2> QED
    BY <2>1, <2>3
<1> HIDE DEF V
<1>6. /\ EntryOK(e) /\ e.tag = lsq[i].tag /\ e.op = lsq[i].op /\ e.Q = lsq[i].Q
      /\ e.Qa = lsq[i].Qa /\ e.Va = lsq[i].Va /\ e.vl = lsq[i].vl
      /\ e.V = V
  <2>1. lsq[i] \in LSQEntry /\ lsq[i].sew = op_sew(lsq[i].op) /\ lsq[i].Va + 3 < WordMod
    BY <1>1 DEF EntryOK, EntryTyped
  <2>2. /\ e \in LSQEntry /\ e.sew = lsq[i].sew
        /\ e.tag = lsq[i].tag /\ e.op = lsq[i].op /\ e.Q = lsq[i].Q
        /\ e.Qa = lsq[i].Qa /\ e.Va = lsq[i].Va /\ e.vl = lsq[i].vl
        /\ e.V = V
    BY <1>5, <2>1 DEF LSQEntry
  <2> HIDE DEF e
  <2> QED
    BY <2>1, <2>2 DEF EntryOK, EntryTyped
<1> HIDE DEF e
<1>7. Evolved(lsq, lsq', mem)
  <2>1. \A k \in DOMAIN lsq : EntryOK(lsq'[k])
    BY <1>1, <1>4, <1>6
  <2>2. lsq' \in Seq(LSQEntry) /\ Len(lsq') = Len(lsq)
    BY <1>1, <1>4, <2>1, SameLength DEF EntryOK, EntryTyped
  <2>3. ASSUME NEW k \in DOMAIN lsq
        PROVE  /\ lsq'[k].tag = lsq[k].tag /\ lsq'[k].op = lsq[k].op
               /\ lsq'[k].Qa = lsq[k].Qa /\ lsq'[k].Va = lsq[k].Va
               /\ lsq'[k].vl = lsq[k].vl /\ lsq'[k].Q = lsq[k].Q
               /\ lsq'[k].op \in Load /\ (lsq'[k].issued \/ lsq'[k].done) =>
                    lsq[k].Qa = NoTag /\ can_issue_load(lsq, k)
               /\ lsq[k].op \in Store => lsq'[k].V = lsq[k].V
               /\ lsq[k].op \in Load /\ lsq'[k].done =>
                    lsq'[k].V = IF lsq[k].done THEN lsq[k].V ELSE Forwarded(lsq, k, mem)
    <3>1. CASE k = i
      <4>1. lsq'[k] = e /\ (lsq[k].op \in Store => lsq[k].op \notin Load)
        BY <1>4, <3>1, LoadOrStore
      <4> QED
        BY <1>2, <1>5, <1>6, <3>1, <4>1, StartedBefore
    <3>2. CASE k # i
      BY <1>4, <3>2, StartedBefore
    <3> QED
      BY <3>1, <3>2
  <2> QED
    BY <2>1, <2>2, <2>3 DEF Evolved
<1>8. IsFiniteSet(lsus') /\ lsus' \subseteq Nat /\ Cardinality(lsus') <= LsuCount
  <2>1. /\ IsFiniteSet(lsus) /\ lsus \subseteq Nat /\ Cardinality(lsus) <= LsuCount
        /\ LsuCount \in Nat
    BY LsqAssumption DEF LsqInv, LsqTypeOK
  <2>2. /\ IsFiniteSet(lsus \ {tag}) /\ Cardinality(lsus \ {tag}) <= Cardinality(lsus)
        /\ Cardinality(lsus \ {tag}) \in Nat /\ Cardinality(lsus) \in Nat
    BY <2>1, FS_Subset, FS_CardinalityType
  <2> QED
    BY <1>3, <2>1, <2>2
<1>9. ASSUME NEW t \in lsus' PROVE Served(lsq', t)
  <2>1. t \in lsus /\ t # tag
    BY <1>3
  <2>2. PICK k \in DOMAIN lsq :
          /\ lsq[k].tag = t /\ lsq[k].issued /\ ~lsq[k].done
          /\ lsq[k].Qa = NoTag
          /\ lsq[k].op \in Store => lsq[k].Q = NoTag
    BY <2>1 DEF LsqInv, UnitsServeQueue
  <2>3. k \in DOMAIN lsq' /\ lsq'[k] = lsq[k]
    BY <1>2, <1>4, <2>1, <2>2
  <2> QED
    BY <2>2, <2>3, StillServed
<1> QED
  BY <1>3, <1>7, <1>8, <1>9, EvolvedInv DEF LsqInv, LsqTypeOK, UnitsServeQueue, Served

\* What a store leaves of memory is memory: every byte it writes comes from a lane.
LEMMA StoredIsMemory ==
  ASSUME NEW e, EntryTyped(e), NEW m \in MemState
  PROVE  Stored(e, m) \in MemState
<1> DEFINE n == element_size(e)
           k(a) == (a - e.Va) % WordMod
<1>1. /\ n \in {1, 2, 4} /\ e.Va \in Nat /\ e.vl \in 0..Lanes /\ e.V \in [Lane -> Word]
      /\ Lanes \in Nat \ {0} /\ MemSize \in Nat /\ WordMod \in Nat /\ WordMod >= 16
  BY ElementSize, MemoryAssumption, Bases DEF EntryTyped, LSQEntry, Value
<1>2. DOMAIN m = 0..(MemSize - 1) /\ \A a \in DOMAIN m : m[a] \in Byte
  BY DEF MemState
<1>3. ASSUME NEW a \in DOMAIN m, k(a) < access_size(e)
      PROVE  ByteOf(e.V[k(a) \div n], k(a) % n) \in Byte
  <2>1. k(a) \in Nat
    BY <1>1, <1>2
  <2> HIDE DEF k
  <2>2. k(a) \div n \in Lane
    <3>1. CASE e.op \in VLoad \cup VStore
      <4>1. access_size(e) = e.vl * n
        BY <3>1 DEF access_size
      <4> HIDE DEF n
      <4>2. k(a) \div n \in 0..(e.vl - 1)
        BY <1>1, <1>3, <2>1, <4>1
      <4> QED
        BY <1>1, <4>2 DEF Lane
    <3>2. CASE e.op \notin VLoad \cup VStore
      <4>1. access_size(e) = n
        BY <3>2 DEF access_size
      <4> HIDE DEF n
      <4>2. k(a) \div n = 0
        BY <1>1, <1>3, <2>1, <4>1
      <4> QED
        BY <1>1, <4>2 DEF Lane
    <3> QED
      BY <3>1, <3>2
  <2> HIDE DEF n
  <2>3. e.V[k(a) \div n] \in Nat
    BY <1>1, <2>2 DEF Word
  <2> QED
    BY <2>3, ByteOfIsByte
<1>4. Stored(e, m) = [a \in DOMAIN m |->
        IF /\ k(a) < access_size(e)
           /\ \A l \in 0..(k(a) \div n) : Checked(element_address(e, l), n)
          THEN ByteOf(e.V[k(a) \div n], k(a) % n) ELSE m[a]]
  BY DEF Stored
<1> HIDE DEF k, n
<1> QED
  BY <1>2, <1>3, <1>4 DEF MemState

\* The head leaves, which is done, so that no unit works for it; the others move up.
LEMMA CommitInv ==
  ASSUME LsqInv, Commit
  PROVE  LsqInv'
<1> DEFINE n == Len(lsq)
<1>1. /\ lsq \in Seq(LSQEntry) /\ n \in Nat /\ DOMAIN lsq = 1..n
      /\ \A k \in DOMAIN lsq : EntryOK(lsq[k]) /\ lsq[k].tag \in Nat
  BY QueueFacts
<1>2. /\ lsq # <<>> /\ Head(lsq).done /\ lsq' = Tail(lsq)
      /\ lsus' = lsus /\ lsq_next' = lsq_next
      /\ mem' = IF Head(lsq).op \in Store THEN Stored(Head(lsq), mem) ELSE mem
  BY DEF Commit
<1>3. n >= 1 /\ Head(lsq) = lsq[1]
  BY <1>1, <1>2, EmptySeq
<1>4. /\ lsq' \in Seq(LSQEntry) /\ Len(lsq') = n - 1 /\ DOMAIN lsq' = 1..(n-1)
      /\ \A k \in 1..(n-1) : lsq'[k] = lsq[k+1]
  BY <1>1, <1>2, HeadTailProperties, LenProperties
<1>5. mem' \in MemState
  <2>1. EntryTyped(lsq[1]) /\ mem \in MemState
    BY <1>1, <1>3 DEF EntryOK, LsqInv, LsqTypeOK
  <2> QED
    BY <1>2, <1>3, <2>1, StoredIsMemory
<1>6. LsqTypeOK'
  BY <1>1, <1>2, <1>4, <1>5, LsqAssumption DEF LsqInv, LsqTypeOK
<1>7. \A k \in DOMAIN lsq' : EntryOK(lsq'[k])
  BY <1>1, <1>4
<1>8. LsqTagsOrdered'
  BY <1>1, <1>2, <1>4 DEF LsqInv, LsqTagsOrdered, TagsGrow
<1>9. UnitsServeQueue'
  <2> SUFFICES ASSUME NEW tag \in lsus PROVE Served(lsq', tag)
    BY <1>2 DEF UnitsServeQueue, Served
  <2>1. PICK i \in DOMAIN lsq :
          /\ lsq[i].tag = tag /\ lsq[i].issued /\ ~lsq[i].done
          /\ lsq[i].Qa = NoTag
          /\ lsq[i].op \in Store => lsq[i].Q = NoTag
    BY DEF LsqInv, UnitsServeQueue
  <2>2. i # 1
    BY <1>2, <1>3, <2>1
  <2>3. i - 1 \in DOMAIN lsq' /\ lsq'[i-1] = lsq[i]
    BY <1>1, <1>4, <2>1, <2>2
  <2> QED
    BY <2>1, <2>3, StillServed
<1>10. NoLoadPassesUnknown'
  <2> SUFFICES ASSUME NEW i \in 1..(n-1), lsq'[i].op \in Load,
                      lsq'[i].issued \/ lsq'[i].done
               PROVE  /\ lsq'[i].Qa = NoTag
                      /\ \A j \in 1..(i-1) : lsq'[j].op \in Store =>
                           /\ lsq'[j].Qa = NoTag
                           /\ overlaps(lsq'[j], lsq'[i]) => lsq'[j].Q = NoTag
    BY <1>4 DEF NoLoadPassesUnknown
  <2>1. i + 1 \in DOMAIN lsq /\ lsq'[i] = lsq[i+1]
    BY <1>1, <1>4
  <2>2. \A j \in 1..(i-1) : j + 1 \in 1..((i+1)-1) /\ lsq'[j] = lsq[j+1]
    BY <1>1, <1>4
  <2> QED
    BY <2>1, <2>2 DEF LsqInv, NoLoadPassesUnknown
<1> QED
  BY <1>2, <1>6, <1>7, <1>8, <1>9, <1>10 DEF LsqInv

\* A flush takes the younger accesses from the queue and their tags from the units.
LEMMA FlushInv ==
  ASSUME LsqInv, NEW tag \in 0..(lsq_next - 1), Flush(tag)
  PROVE  LsqInv'
<1>1. /\ lsq \in Seq(LSQEntry) /\ Len(lsq) \in Nat /\ DOMAIN lsq = 1..Len(lsq)
      /\ \A k \in DOMAIN lsq : EntryOK(lsq[k]) /\ lsq[k].tag \in Nat
  BY QueueFacts
<1>2. /\ lsq' = FlushAfter(lsq, tag) /\ lsus' = {t \in lsus : t <= tag}
      /\ mem' = mem /\ lsq_next' = lsq_next
  BY DEF Flush
<1>3. TagsGrow(lsq) /\ tag \in Int /\ \A k \in DOMAIN lsq : lsq[k].tag \in Int
  <2>1. lsq_next \in Nat
    BY LsqAssumption DEF LsqInv, LsqTypeOK
  <2> QED
    BY <1>1, <2>1 DEF LsqInv, LsqTagsOrdered
<1>4. PICK m \in 0..Len(lsq) :
        /\ lsq' \in Seq(LSQEntry) /\ Len(lsq') = m /\ DOMAIN lsq' = 1..m
        /\ \A k \in 1..m : lsq'[k] = lsq[k]
        /\ \A k \in DOMAIN lsq : lsq[k].tag <= tag <=> k <= m
  <2>1. \E m \in 0..Len(lsq) :
          /\ FlushAfter(lsq, tag) \in Seq(LSQEntry)
          /\ Len(FlushAfter(lsq, tag)) = m
          /\ DOMAIN FlushAfter(lsq, tag) = 1..m
          /\ \A k \in 1..m : FlushAfter(lsq, tag)[k] = lsq[k]
          /\ \A k \in DOMAIN lsq : lsq[k].tag <= tag <=> k <= m
    BY <1>1, <1>3, FlushAfterKeeps, Zenon
  <2> QED
    BY <1>2, <2>1
<1>5. 1..m \subseteq DOMAIN lsq
  BY <1>1
<1>6. IsFiniteSet(lsus') /\ lsus' \subseteq Nat /\ Cardinality(lsus') <= LsuCount
  <2>1. /\ IsFiniteSet(lsus) /\ lsus \subseteq Nat /\ Cardinality(lsus) <= LsuCount
        /\ LsuCount \in Nat /\ lsus' \subseteq lsus
    BY <1>2, LsqAssumption DEF LsqInv, LsqTypeOK
  <2>2. /\ IsFiniteSet(lsus') /\ Cardinality(lsus') <= Cardinality(lsus)
        /\ Cardinality(lsus') \in Nat /\ Cardinality(lsus) \in Nat
    BY <2>1, FS_Subset, FS_CardinalityType
  <2> QED
    BY <2>1, <2>2
<1>7. LsqTypeOK'
  <2>1. Len(lsq') <= LsqSize
    BY <1>1, <1>4, LsqAssumption DEF LsqInv, LsqTypeOK
  <2> QED
    BY <1>2, <1>4, <1>6, <2>1 DEF LsqInv, LsqTypeOK
<1>8. \A k \in DOMAIN lsq' : EntryOK(lsq'[k])
  BY <1>1, <1>4, <1>5
<1>9. LsqTagsOrdered'
  BY <1>2, <1>4, <1>5 DEF LsqInv, LsqTagsOrdered, TagsGrow
<1>10. UnitsServeQueue'
  <2> SUFFICES ASSUME NEW t \in lsus, t <= tag PROVE Served(lsq', t)
    BY <1>2 DEF UnitsServeQueue, Served
  <2>1. PICK i \in DOMAIN lsq :
          /\ lsq[i].tag = t /\ lsq[i].issued /\ ~lsq[i].done
          /\ lsq[i].Qa = NoTag
          /\ lsq[i].op \in Store => lsq[i].Q = NoTag
    BY DEF LsqInv, UnitsServeQueue
  <2>2. i \in DOMAIN lsq' /\ lsq'[i] = lsq[i]
    BY <1>1, <1>4, <2>1
  <2> QED
    BY <2>1, <2>2, StillServed
<1>11. NoLoadPassesUnknown'
  <2> SUFFICES ASSUME NEW i \in 1..m, lsq'[i].op \in Load,
                      lsq'[i].issued \/ lsq'[i].done
               PROVE  /\ lsq'[i].Qa = NoTag
                      /\ \A j \in 1..(i-1) : lsq'[j].op \in Store =>
                           /\ lsq'[j].Qa = NoTag
                           /\ overlaps(lsq'[j], lsq'[i]) => lsq'[j].Q = NoTag
    BY <1>4 DEF NoLoadPassesUnknown
  <2>1. i \in DOMAIN lsq /\ lsq'[i] = lsq[i]
    BY <1>4, <1>5
  <2>2. \A j \in 1..(i-1) : lsq'[j] = lsq[j]
    BY <1>1, <1>4
  <2> QED
    BY <2>1, <2>2 DEF LsqInv, NoLoadPassesUnknown
<1> QED
  BY <1>2, <1>6, <1>7, <1>8, <1>9, <1>10, <1>11 DEF LsqInv

-----------------------------------------------------------------------------
\* Every step, and every stutter, preserves the invariant.
LEMMA LsqNextInv == LsqInv /\ [LsqNext]_lsqVars => LsqInv'
<1> SUFFICES ASSUME LsqInv, [LsqNext]_lsqVars PROVE LsqInv'
  OBVIOUS
<1>1. ASSUME NEW op \in Access, NEW v \in Datum, NEW q \in Producer \cup {NoTag},
             NEW n \in Length, Dispatch(op, v, q, n)
      PROVE  LsqInv'
  BY <1>1, DispatchInv
<1>2. ASSUME NEW i \in DOMAIN lsq, NEW a \in Address, NEW n \in Length,
             GenerateAddress(i, a, n)
      PROVE  LsqInv'
  BY <1>2, GenerateAddressInv
<1>3. ASSUME NEW tag \in Producer, NEW v \in Datum, Wake(tag, v) PROVE LsqInv'
  BY <1>3, WakeInv
<1>4. ASSUME Issue PROVE LsqInv'
  BY <1>4, IssueInv
<1>5. ASSUME NEW tag \in lsus, Complete(tag) PROVE LsqInv'
  BY <1>5, CompleteInv
<1>6. ASSUME Commit PROVE LsqInv'
  BY <1>6, CommitInv
<1>7. ASSUME NEW tag \in 0..(lsq_next - 1), Flush(tag) PROVE LsqInv'
  BY <1>7, FlushInv
<1>8. ASSUME UNCHANGED lsqVars PROVE LsqInv'
  BY <1>8 DEF LsqInv, LsqTypeOK, LsqTagsOrdered, UnitsServeQueue,
              NoLoadPassesUnknown, lsqVars
<1> QED
  BY <1>1, <1>2, <1>3, <1>4, <1>5, <1>6, <1>7, <1>8 DEF LsqNext

THEOREM LsqInvariant == LsqSpec => []LsqInv
BY LsqInitInv, LsqNextInv, PTL DEF LsqSpec

\* The queue and the units stay within their sizes, and everything in its range: the
\* values loads bring back from the queue and from memory are words, and stores
\* leave bytes, whatever their widths, lengths and addresses.
THEOREM LsqTypes == LsqSpec => []LsqTypeOK
<1>1. LsqInv => LsqTypeOK
  BY DEF LsqInv
<1> QED
  BY <1>1, LsqInvariant, PTL

\* Whatever finishes, is flushed or committed in between, a unit never works for an
\* access that has left the queue: complete never throws "LSQ tag not found".
THEOREM UnitsServe == LsqSpec => []UnitsServeQueue
<1>1. LsqInv => UnitsServeQueue
  BY DEF LsqInv
<1> QED
  BY <1>1, LsqInvariant, PTL

\* No load that has been started is behind a store without an address, or one that it
\* overlaps and that has no data yet: can_issue is checked once, and it stays true.
THEOREM NoLoadPasses == LsqSpec => []NoLoadPassesUnknown
<1>1. LsqInv => NoLoadPassesUnknown
  BY DEF LsqInv
<1> QED
  BY <1>1, LsqInvariant, PTL

-----------------------------------------------------------------------------
(* Bytes of words.                                                         *)

\* Division of a number written with quotient and remainder.
LEMMA Division ==
  ASSUME NEW d \in Nat \ {0}, NEW x \in 0..(d - 1), NEW y \in Nat
  PROVE  /\ x + y * d \in Nat
         /\ (x + y * d) \div d = y
         /\ (x + y * d) % d = x
<1> DEFINE z == x + y * d
           q == z \div d
           r == z % d
<1>1. y * d \in Nat /\ z \in Nat
  OBVIOUS
<1>2. q \in Int /\ r \in 0..(d - 1) /\ z = d * q + r
  BY <1>1
<1> HIDE DEF q, r
<1>3. d * q + r = x + y * d
  BY <1>2
<1>4. d * (q - y) = x - r
  BY <1>1, <1>2, <1>3
<1>5. CASE q >= y + 1
  <2>1. q - y - 1 \in Nat
    BY <1>2, <1>5
  <2>2. d * (q - y - 1) \in Nat
    BY <2>1
  <2>3. d * (q - y) = d * (q - y - 1) + d
    BY <1>2
  <2> QED
    BY <1>2, <1>4, <2>2, <2>3
<1>6. CASE q <= y - 1
  <2>1. y - 1 - q \in Nat
    BY <1>2, <1>6
  <2>2. d * (y - 1 - q) \in Nat
    BY <2>1
  <2>3. d * (q - y) = -(d * (y - 1 - q)) - d
    BY <1>2
  <2> QED
    BY <1>2, <1>4, <2>2, <2>3
<1>7. q = y
  BY <1>2, <1>5, <1>6
<1>8. r = x
  BY <1>2, <1>3, <1>7
<1> QED
  BY <1>1, <1>7, <1>8 DEF q, r

\* Joining bytes loses none of them.
LEMMA JoinBytes ==
  ASSUME NEW n \in {1, 2, 4}, NEW bytes, \A k \in 0..(n-1) : bytes[k] \in Byte,
         NEW k \in 0..(n-1)
  PROVE  ByteOf(Join(bytes, n), k) = bytes[k]
<1> DEFINE B == ByteBase
           C == B * B
           D == B * B * B
           at(j) == IF j < n THEN bytes[j] ELSE 0
<1>1. B \in Nat \ {0} /\ B >= 2
  BY MemoryAssumption
<1>2. C \in Nat \ {0} /\ D \in Nat \ {0} /\ C = B * B /\ D = C * B
  BY <1>1
<1>3. Base(0) = 1 /\ Base(1) = B /\ Base(2) = C /\ Base(3) = D
  BY DEF Base
<1>4. \A j \in 0..3 : at(j) \in 0..(B - 1)
  BY <1>1 DEF Byte
<1>5. Join(bytes, n) = at(0) + at(1) * B + at(2) * C + at(3) * D
  <2>1. \A j \in 0..3 : (IF j < n THEN bytes[j] * Base(j) ELSE 0) = at(j) * Base(j)
    BY <1>1, <1>2, <1>3
  <2>2. Join(bytes, n) = at(0) * Base(0) + at(1) * Base(1) + at(2) * Base(2)
                           + at(3) * Base(3)
    BY <2>1 DEF Join
  <2> HIDE DEF at, B, C, D
  <2> QED
    BY <1>3, <1>4, <2>2
<1>6. bytes[k] = at(k) /\ k \in 0..3
  OBVIOUS
<1> HIDE DEF at, B, C, D
<1> DEFINE y3 == at(3)
           y2 == at(2) + y3 * B
           y1 == at(1) + y2 * B
           y0 == at(0) + y1 * B
<1>7. /\ y3 \in Nat /\ y3 \div 1 = y3 /\ y3 % B = at(3)
  BY <1>1, <1>4
<1> HIDE DEF y3
<1>8. y2 \in Nat /\ y2 \div B = y3 /\ y2 % B = at(2)
  <2>1. at(2) \in 0..(B - 1)
    BY <1>4
  <2> QED
    BY <1>1, <1>7, <2>1, Division, Zenon
<1> HIDE DEF y2
<1>9. y1 \in Nat /\ y1 \div B = y2 /\ y1 % B = at(1)
  <2>1. at(1) \in 0..(B - 1)
    BY <1>4
  <2> QED
    BY <1>1, <1>8, <2>1, Division, Zenon
<1> HIDE DEF y1
<1>10. y0 \in Nat /\ y0 \div B = y1 /\ y0 % B = at(0)
  <2>1. at(0) \in 0..(B - 1)
    BY <1>4
  <2> QED
    BY <1>1, <1>9, <2>1, Division, Zenon
<1>11. at(1) * B \in Nat /\ at(2) * B \in Nat /\ at(2) * C \in Nat /\ at(3) * D \in Nat
       /\ at(3) * B \in Nat /\ at(3) * C \in Nat
  BY <1>1, <1>2, <1>4
<1>12. y1 * B = at(1) * B + at(2) * C + at(3) * D
  <2>1. y1 = at(1) + at(2) * B + at(3) * C
    BY <1>1, <1>2, <1>4 DEF y1, y2, y3
  <2>2. at(2) * B * B = at(2) * C /\ at(3) * C * B = at(3) * D
    BY <1>1, <1>2, <1>4
  <2> QED
    BY <1>1, <1>4, <1>11, <2>1, <2>2
<1>13. Join(bytes, n) = y0
  BY <1>4, <1>5, <1>11, <1>12 DEF y0
<1> HIDE DEF y0
<1>14. y0 \div C = y2
  <2>1. y0 = (at(0) + at(1) * B) + y2 * C
    BY <1>1, <1>2, <1>4, <1>8, <1>11 DEF y0, y1
  <2>2. at(0) + at(1) * B \in 0..(C - 1)
    <3>1. (B - 1 - at(1)) * B \in Nat
      BY <1>1, <1>4
    <3>2. (B - 1 - at(1)) * B = C - B - at(1) * B
      BY <1>1, <1>2, <1>4
    <3> QED
      BY <1>1, <1>2, <1>4, <1>11, <3>1, <3>2
  <2> QED
    BY <1>2, <1>8, <2>1, <2>2, Division
<1>15. y0 \div D = y3
  <2>1. y0 = (at(0) + at(1) * B + at(2) * C) + y3 * D
    BY <1>4, <1>5, <1>11, <1>13 DEF y3
  <2>2. at(0) + at(1) * B + at(2) * C \in 0..(D - 1)
    <3>1. (B - 1 - at(1)) * B \in Nat /\ (B - 1 - at(2)) * C \in Nat
      BY <1>1, <1>2, <1>4
    <3>2. (B - 1 - at(1)) * B = C - B - at(1) * B
      BY <1>1, <1>2, <1>4
    <3>3. (B - 1 - at(2)) * C = D - C - at(2) * C
      BY <1>1, <1>2, <1>4
    <3> QED
      BY <1>1, <1>2, <1>4, <1>11, <3>1, <3>2, <3>3
  <2> QED
    BY <1>2, <1>7, <2>1, <2>2, Division
<1>16. y0 \div 1 = y0
  BY <1>10
<1>17. ByteOf(y0, k) = at(k)
  <2>1. k \in {0, 1, 2, 3}
    BY <1>6
  <2> QED
    BY <2>1, <1>3, <1>7, <1>8, <1>9, <1>10, <1>14, <1>15, <1>16 DEF ByteOf, B
<1> QED
  BY <1>6, <1>13, <1>17

-----------------------------------------------------------------------------
(* What a load finds in memory and in the queue.                           *)

\* Memory as entry i of the queue sees it: with the stores before it.
Seen(q, i, m) == [a \in DOMAIN m |-> byte_forward(q, i, a, m[a])]

LEMMA SeenIsMemory ==
  ASSUME NEW q \in Seq(LSQEntry), \A k \in DOMAIN q : EntryOK(q[k]),
         NEW i \in DOMAIN q, NEW m \in MemState
  PROVE  Seen(q, i, m) \in MemState
<1>1. DOMAIN m = 0..(MemSize - 1) /\ \A a \in DOMAIN m : a \in Nat /\ m[a] \in Byte
  BY MemoryAssumption DEF MemState
<1>2. \A a \in DOMAIN m : byte_forward(q, i, a, m[a]) \in Byte
  BY <1>1, ForwardedByte DEF EntryOK
<1> QED
  BY <1>1, <1>2 DEF Seen, MemState

\* One byte that exists.
LEMMA ByteLoad ==
  ASSUME MemSize <= WordMod, NEW m \in MemState, NEW a \in 0..(MemSize - 1)
  PROVE  load(m, a % WordMod, 1) = m[a]
<1>1. /\ WordMod \in Nat /\ WordMod >= 16 /\ MemSize \in Nat /\ ByteBase \in Nat
      /\ m[a] \in 0..(ByteBase - 1)
  BY Bases, MemoryAssumption DEF MemState, Byte
<1>2. a % WordMod = a /\ (a + 0) % WordMod = a /\ (a + 1 - 1) % WordMod = a
  BY <1>1
<1>3. Checked(a, 1)
  BY <1>1, <1>2 DEF Checked
<1> DEFINE bytes == [k \in 0..(1-1) |-> m[(a + k) % WordMod]]
<1>4. load(m, a, 1) = Join(bytes, 1)
  BY <1>3 DEF load
<1>5. bytes[0] = m[a]
  BY <1>2
<1> HIDE DEF bytes
<1>6. Join(bytes, 1) = m[a] * 1 + 0 + 0 + 0
  BY <1>1, <1>5 DEF Join, Base
<1> QED
  BY <1>1, <1>2, <1>4, <1>6

\* A word, halfword or byte that exists.
LEMMA WordLoad ==
  ASSUME MemSize <= WordMod, NEW m \in MemState, NEW n \in {1, 2, 4}, NEW addr \in Nat,
         addr + n - 1 < MemSize
  PROVE  load(m, addr, n) = Join([k \in 0..(n-1) |-> m[addr + k]], n)
<1>1. WordMod \in Nat /\ MemSize \in Nat
  BY Bases, MemoryAssumption
<1>2. \A k \in 0..(n-1) : (addr + k) % WordMod = addr + k
  BY <1>1
<1>3. Checked(addr, n)
  BY <1>1 DEF Checked
<1>4. [k \in 0..(n-1) |-> m[(addr + k) % WordMod]] = [k \in 0..(n-1) |-> m[addr + k]]
  BY <1>2, Zenon
<1> QED
  BY <1>3, <1>4 DEF load

\* The size of a scalar load, and of a vector load.
LEMMA LoadSize ==
  ASSUME NEW e, EntryOK(e), e.op \in Load
  PROVE  access_size(e) = IF e.op \in VLoad THEN e.vl * element_size(e) ELSE element_size(e)
<1>1. e.op \in VLoad \cup VStore <=> e.op \in VLoad
  BY DEF Load, VLoad, VStore, IntLoad
<1> QED
  BY <1>1 DEF access_size

\* An element of a vector load in range lies in memory.
LEMMA ElementInRange ==
  ASSUME NEW e, EntryOK(e), e.op \in VLoad \cup VStore, InRange(e), MemSize <= WordMod,
         NEW l \in 0..(e.vl - 1), NEW k \in 0..(element_size(e) - 1)
  PROVE  /\ e.Va + l * element_size(e) + k \in e.Va..(e.Va + access_size(e) - 1)
         /\ e.Va + access_size(e) - 1 < MemSize
<1> DEFINE n == element_size(e)
<1>1. n \in {1, 2, 4} /\ e.Va \in Nat /\ e.vl \in Nat /\ access_size(e) = e.vl * n
      /\ MemSize \in Nat
  BY ElementSize, MemoryAssumption DEF EntryOK, EntryTyped, LSQEntry, access_size
<1> HIDE DEF n
<1>2. e.vl >= 1 /\ access_size(e) # 0 /\ access_size(e) \in Nat
  BY <1>1
<1>3. e.Va + access_size(e) - 1 < MemSize
  BY <1>2 DEF InRange, InMemory
<1>4. k \in 0..(n - 1) /\ l * n + k < e.vl * n /\ l * n + k \in Nat
  <2>1. k \in 0..(n - 1)
    BY DEF n
  <2> QED
    BY <1>1, <2>1
<1>5. e.Va + l * n + k \in e.Va..(e.Va + access_size(e) - 1)
  BY <1>1, <1>2, <1>4
<1> QED
  BY <1>3, <1>5 DEF n

\* What a load reads depends on its fields and on the bytes it covers.
LEMMA LoadedSame ==
  ASSUME MemSize <= WordMod, NEW e, EntryOK(e), e.op \in Load, InRange(e),
         NEW f, f.op = e.op, f.sew = e.sew, f.Va = e.Va, f.vl = e.vl,
         NEW m1 \in MemState, NEW m2 \in MemState,
         \A a \in 0..(MemSize - 1) : covers_byte(e, a) => m1[a] = m2[a]
  PROVE  Loaded(e, m1) = Loaded(f, m2)
<1> DEFINE n == element_size(e)
<1>1. /\ n \in {1, 2, 4} /\ e.Va \in Nat /\ e.vl \in 0..Lanes /\ Lanes \in Nat
      /\ MemSize \in Nat
  BY ElementSize, MemoryAssumption DEF EntryOK, EntryTyped, LSQEntry
<1>2. element_size(f) = n /\ access_size(f) = access_size(e)
  BY DEF element_size, access_size
<1>3. CASE e.op \in VLoad
  <2> DEFINE at(l, k) == e.Va + l * n + k
  <2>1. ASSUME NEW l \in Lane, l < e.vl, NEW k \in 0..(n-1)
        PROVE  load(m1, at(l, k) % WordMod, 1) = load(m2, at(l, k) % WordMod, 1)
    <3>1. l \in 0..(e.vl - 1)
      BY <1>1, <2>1 DEF Lane
    <3>2. /\ at(l, k) \in e.Va..(e.Va + access_size(e) - 1)
          /\ e.Va + access_size(e) - 1 < MemSize
      BY <1>3, <3>1, ElementInRange
    <3>3. access_size(e) \in Nat
      BY <1>1, <1>3 DEF access_size
    <3> HIDE DEF at
    <3>4. at(l, k) \in 0..(MemSize - 1) /\ covers_byte(e, at(l, k))
      BY <1>1, <3>2, <3>3 DEF covers_byte
    <3>5. m1[at(l, k)] = m2[at(l, k)]
      BY <3>4
    <3> QED
      BY <3>4, <3>5, ByteLoad
  <2> DEFINE read(m) == [l \in Lane |->
               IF l < e.vl
                 THEN Join([k \in 0..(n-1) |-> load(m, at(l, k) % WordMod, 1)], n)
                 ELSE 0]
  <2>2. Loaded(e, m1) = read(m1)
    BY <1>3 DEF Loaded
  <2>3. Loaded(f, m2) = read(m2)
    BY <1>2, <1>3 DEF Loaded
  <2> HIDE DEF at, n
  <2>4. ASSUME NEW l \in Lane, l < e.vl
        PROVE  [k \in 0..(n-1) |-> load(m1, at(l, k) % WordMod, 1)]
                 = [k \in 0..(n-1) |-> load(m2, at(l, k) % WordMod, 1)]
    BY <2>1, <2>4
  <2>5. read(m1) = read(m2)
    BY <2>4, Zenon
  <2> QED
    BY <2>2, <2>3, <2>5
<1>4. CASE e.op \notin VLoad
  <2>1. access_size(e) = n
    BY <1>4, LoadSize
  <2>2. e.Va + n - 1 < MemSize
    BY <1>1, <2>1 DEF InRange, InMemory
  <2>3. \A k \in 0..(n-1) : m1[e.Va + k] = m2[e.Va + k]
    <3> SUFFICES ASSUME NEW k \in 0..(n-1) PROVE m1[e.Va + k] = m2[e.Va + k]
      OBVIOUS
    <3>1. e.Va + k \in 0..(MemSize - 1) /\ e.Va + k \in e.Va..(e.Va + n - 1)
      BY <1>1, <2>2
    <3> QED
      BY <2>1, <3>1 DEF covers_byte
  <2> HIDE DEF n
  <2>4. [k \in 0..(n-1) |-> m1[e.Va + k]] = [k \in 0..(n-1) |-> m2[e.Va + k]]
    BY <2>3
  <2>5. load(m1, e.Va, n) = load(m2, e.Va, n)
    <3>1. load(m1, e.Va, n) = Join([k \in 0..(n-1) |-> m1[e.Va + k]], n)
      BY <1>1, <2>2, WordLoad
    <3>2. load(m2, e.Va, n) = Join([k \in 0..(n-1) |-> m2[e.Va + k]], n)
      BY <1>1, <2>2, WordLoad
    <3> QED
      BY <2>4, <3>1, <3>2
  <2> QED
    BY <1>2, <1>4, <2>1, <2>5 DEF Loaded
<1> QED
  BY <1>3, <1>4

\* What a load that completes brings back is what it would read from the memory
\* it sees: forwarding byte by byte is reading after the stores.
LEMMA ForwardedIsLoaded ==
  ASSUME MemSize <= WordMod,
         NEW q \in Seq(LSQEntry), \A k \in DOMAIN q : EntryOK(q[k]),
         NEW i \in DOMAIN q, q[i].op \in Load, InRange(q[i]), NEW m \in MemState
  PROVE  Forwarded(q, i, m) = Loaded(q[i], Seen(q, i, m))
<1> DEFINE e == q[i]
           n == element_size(e)
           s == Seen(q, i, m)
<1>1. /\ EntryOK(e) /\ n \in {1, 2, 4} /\ e.Va \in Nat /\ e.vl \in 0..Lanes
      /\ Lanes \in Nat /\ MemSize \in Nat
  BY ElementSize, MemoryAssumption DEF EntryOK, EntryTyped, LSQEntry
<1>2. s \in MemState /\ \A a \in 0..(MemSize - 1) : s[a] = byte_forward(q, i, a, m[a])
  <2>1. DOMAIN m = 0..(MemSize - 1)
    BY DEF MemState
  <2>2. s \in MemState
    BY SeenIsMemory
  <2> QED
    BY <2>1, <2>2 DEF Seen
<1> HIDE DEF s
<1>3. CASE e.op \in VLoad
  <2> DEFINE at(l, k) == e.Va + l * n + k
             found(a) == byte_forward(q, i, a, load(m, a % WordMod, 1))
  <2>1. ASSUME NEW l \in Lane, l < e.vl, NEW k \in 0..(n-1)
        PROVE  found(at(l, k)) = load(s, at(l, k) % WordMod, 1)
    <3>1. l \in 0..(e.vl - 1)
      BY <1>1, <2>1 DEF Lane
    <3>2. /\ at(l, k) \in e.Va..(e.Va + access_size(e) - 1)
          /\ e.Va + access_size(e) - 1 < MemSize
      BY <1>1, <1>3, <3>1, ElementInRange
    <3>3. access_size(e) \in Nat
      BY <1>1, <1>3 DEF access_size
    <3> HIDE DEF at
    <3>4. at(l, k) \in 0..(MemSize - 1)
      BY <1>1, <3>2, <3>3
    <3>5. load(m, at(l, k) % WordMod, 1) = m[at(l, k)]
      BY <3>4, ByteLoad
    <3>6. load(s, at(l, k) % WordMod, 1) = s[at(l, k)]
      BY <1>2, <3>4, ByteLoad
    <3> QED
      BY <1>2, <3>4, <3>5, <3>6
  <2>2. Forwarded(q, i, m) = [l \in Lane |->
          IF l < e.vl THEN Join([k \in 0..(n-1) |-> found(at(l, k))], n) ELSE 0]
    BY <1>3 DEF Forwarded, vload_forward
  <2>3. Loaded(e, s) = [l \in Lane |->
          IF l < e.vl THEN Join([k \in 0..(n-1) |-> load(s, at(l, k) % WordMod, 1)], n)
                      ELSE 0]
    BY <1>3 DEF Loaded
  <2> HIDE DEF at, found, n, e
  <2>4. ASSUME NEW l \in Lane, l < e.vl
        PROVE  [k \in 0..(n-1) |-> found(at(l, k))]
                 = [k \in 0..(n-1) |-> load(s, at(l, k) % WordMod, 1)]
    BY <2>1, <2>4
  <2> QED
    BY <2>2, <2>3, <2>4 DEF e, s
<1>4. CASE e.op \notin VLoad
  <2> DEFINE raw == load(m, e.Va, n)
             bytes == [k \in 0..(n-1) |-> m[e.Va + k]]
             found == [k \in 0..(n-1) |-> byte_forward(q, i, e.Va + k, ByteOf(raw, k))]
  <2>1. access_size(e) = n
    BY <1>1, <1>4, LoadSize
  <2>2. e.Va + n - 1 < MemSize
    BY <1>1, <2>1 DEF InRange, InMemory
  <2>3. \A k \in 0..(n-1) : bytes[k] \in Byte
    <3> SUFFICES ASSUME NEW k \in 0..(n-1) PROVE m[e.Va + k] \in Byte
      OBVIOUS
    <3>1. e.Va + k \in 0..(MemSize - 1)
      BY <1>1, <2>2
    <3> QED
      BY <3>1 DEF MemState
  <2>4. raw = Join(bytes, n)
    BY <1>1, <2>2, WordLoad
  <2>5. \A k \in 0..(n-1) : found[k] = s[e.Va + k]
    <3> SUFFICES ASSUME NEW k \in 0..(n-1) PROVE found[k] = s[e.Va + k]
      OBVIOUS
    <3>1. e.Va + k \in 0..(MemSize - 1)
      BY <1>1, <2>2
    <3>2. ByteOf(raw, k) = bytes[k]
      <4> HIDE DEF n, e, bytes, raw
      <4> QED
        BY <1>1, <2>3, <2>4, JoinBytes
    <3>3. bytes[k] = m[e.Va + k]
      OBVIOUS
    <3> QED
      BY <1>2, <3>1, <3>2, <3>3
  <2>6. found = [k \in 0..(n-1) |-> s[e.Va + k]]
    BY <2>5
  <2>7. load_forward(q, i, m) = Join(found, n)
    BY <2>1 DEF load_forward
  <2>8. load(s, e.Va, n) = Join([k \in 0..(n-1) |-> s[e.Va + k]], n)
    BY <1>1, <1>2, <2>2, WordLoad
  <2>9. load_forward(q, i, m) = load(s, e.Va, access_size(e))
    BY <2>1, <2>6, <2>7, <2>8
  <2> QED
    BY <1>4, <2>9 DEF Forwarded, Loaded, s
<1> QED
  BY <1>3, <1>4

-----------------------------------------------------------------------------
(* What a store leaves, and the memory after all the older stores.         *)

\* A store in range puts at the addresses it covers the bytes that loads forward
\* from it, and leaves the others.
LEMMA StoredByte ==
  ASSUME MemSize <= WordMod, NEW e, EntryOK(e), e.op \in Store, InRange(e),
         NEW m \in MemState, NEW a \in 0..(MemSize - 1)
  PROVE  Stored(e, m)[a] = IF covers_byte(e, a) THEN byte_from(e, a) ELSE m[a]
<1> DEFINE n == element_size(e)
           size == access_size(e)
           k == (a - e.Va) % WordMod
<1>1. /\ n \in {1, 2, 4} /\ e.Va \in Nat /\ e.vl \in Nat /\ MemSize \in Nat
      /\ WordMod \in Nat /\ WordMod >= 16 /\ a \in Nat /\ a < MemSize
  BY ElementSize, MemoryAssumption, Bases DEF EntryOK, EntryTyped, LSQEntry
<1>2. size = IF e.op \in VStore THEN e.vl * n ELSE n
  BY DEF access_size, Store, VLoad, VStore, IntStore
<1>3. size \in Nat
  BY <1>1, <1>2
<1>4. size # 0 => e.Va + size - 1 < MemSize
  BY DEF InRange, InMemory
<1>5. Stored(e, m)[a] =
        IF k < size /\ \A l \in 0..(k \div n) : Checked(element_address(e, l), n)
          THEN ByteOf(e.V[k \div n], k % n) ELSE m[a]
  BY DEF Stored, MemState
<1> HIDE DEF n, size
<1>6. covers_byte(e, a) <=> e.Va <= a /\ a < e.Va + size
  BY <1>1, <1>3 DEF covers_byte, size
<1>7. CASE covers_byte(e, a)
  <2>1. k = a - e.Va /\ k \in Nat /\ k < size
    BY <1>1, <1>3, <1>6, <1>7
  <2> HIDE DEF k
  <2> DEFINE lane == IF e.op \in VStore THEN k \div n ELSE 0
  <2>2. k \div n \in Nat /\ k % n = k - (k \div n) * n /\ (k \div n) * n <= k
    BY <1>1, <2>1
  <2>3. ASSUME NEW l \in 0..(k \div n) PROVE Checked(element_address(e, l), n)
    <3>1. l * n \in Nat /\ l * n + n - 1 < size
      <4>1. l * n <= (k \div n) * n
        BY <1>1, <2>2
      <4>2. CASE e.op \in VStore
        <5>1. size = e.vl * n
          BY <1>2, <4>2
        <5>2. l + 1 <= e.vl
          BY <1>1, <2>1, <2>2, <5>1
        <5>3. (l + 1) * n <= e.vl * n
          BY <1>1, <5>2
        <5> QED
          BY <1>1, <5>1, <5>3
      <4>3. CASE e.op \notin VStore
        <5>1. size = n /\ l = 0
          BY <1>1, <1>2, <2>1, <2>2, <4>3
        <5> QED
          BY <1>1, <5>1
      <4> QED
        BY <4>2, <4>3
    <3>2. e.Va + l * n < MemSize /\ e.Va + l * n + n - 1 < MemSize
      BY <1>1, <1>3, <1>4, <3>1
    <3>3. element_address(e, l) = e.Va + l * n
      <4>1. element_address(e, l) = (e.Va + l * n) % WordMod
        BY DEF element_address, n
      <4> QED
        BY <1>1, <3>1, <3>2, <4>1
    <3>4. (e.Va + l * n + n - 1) % WordMod = e.Va + l * n + n - 1
      BY <1>1, <3>1, <3>2
    <3> QED
      BY <3>2, <3>3, <3>4 DEF Checked
  <2>4. Stored(e, m)[a] = ByteOf(e.V[k \div n], k % n)
    BY <1>5, <2>1, <2>3
  <2>5. lane = k \div n
    <3>1. CASE e.op \notin VStore
      BY <1>1, <1>2, <2>1, <3>1
    <3> QED
      BY <3>1
  <2>6. byte_from(e, a) = ByteOf(e.V[lane], k - lane * n)
    BY <2>1 DEF byte_from, n
  <2> HIDE DEF lane
  <2> QED
    BY <1>7, <2>2, <2>4, <2>5, <2>6
<1>8. CASE ~covers_byte(e, a)
  <2>1. CASE size = 0
    <3>1. k \in Nat
      BY <1>1
    <3> QED
      BY <1>5, <1>8, <2>1, <3>1
  <2>2. CASE size # 0 /\ a < e.Va
    <3>1. k = a - e.Va + WordMod
      BY <1>1, <1>3, <1>4, <2>2
    <3>2. k >= size
      BY <1>1, <1>3, <1>4, <2>2, <3>1
    <3> QED
      BY <1>1, <1>3, <1>5, <1>8, <3>1, <3>2
  <2>3. CASE a >= e.Va + size
    <3>1. k = a - e.Va
      <4>1. a - e.Va \in 0..(WordMod - 1)
        BY <1>1, <1>3, <2>3
      <4> QED
        BY <1>1, <4>1
    <3>2. ~(k < size)
      BY <1>1, <1>3, <2>3, <3>1
    <3> HIDE DEF k
    <3> QED
      BY <1>5, <1>8, <3>2
  <2> QED
    BY <1>1, <1>3, <1>6, <1>8, <2>1, <2>2, <2>3
<1> QED
  BY <1>7, <1>8

\* One entry more: its byte if it is a store that covers the address, or else what
\* was found without it.
LEMMA ForwardStep ==
  ASSUME NEW q, NEW i \in Nat \ {0}, NEW a, NEW byte
  PROVE  byte_forward(q, i + 1, a, byte)
           = IF q[i].op \in Store /\ covers_byte(q[i], a)
               THEN byte_from(q[i], a) ELSE byte_forward(q, i, a, byte)
<1> DEFINE older(x) == {j \in 1..(x-1) : q[j].op \in Store /\ covers_byte(q[j], a)}
<1>1. older(i + 1) = IF q[i].op \in Store /\ covers_byte(q[i], a)
                       THEN older(i) \cup {i} ELSE older(i)
  <2>1. (i + 1) - 1 = i /\ 1..i = (1..(i-1)) \cup {i}
    OBVIOUS
  <2> QED
    BY <2>1
<1>2. \A x : byte_forward(q, x, a, byte) =
               IF older(x) = {} THEN byte ELSE byte_from(q[Max(older(x))], a)
  BY DEF byte_forward
<1>3. older(i) \in SUBSET (1..i) /\ i \in 1..i
  OBVIOUS
<1> HIDE DEF older
<1>4. CASE q[i].op \in Store /\ covers_byte(q[i], a)
  <2>1. older(i + 1) = older(i) \cup {i}
    BY <1>1, <1>4
  <2>2. /\ Max(older(i + 1)) \in older(i + 1)
        /\ \A j \in older(i + 1) : j <= Max(older(i + 1))
    <3>1. older(i + 1) \in SUBSET (1..i) /\ older(i + 1) # {}
      BY <1>3, <2>1
    <3> QED
      BY <3>1, MaxOfIndices
  <2>3. Max(older(i + 1)) = i
    <3> DEFINE x == Max(older(i + 1))
    <3>1. x \in 1..i /\ i <= x
      BY <1>3, <2>1, <2>2
    <3> HIDE DEF x
    <3>2. x = i
      BY <3>1
    <3> QED
      BY <3>2 DEF x
  <2> QED
    BY <1>2, <1>4, <2>1, <2>3
<1>5. CASE ~(q[i].op \in Store /\ covers_byte(q[i], a))
  BY <1>1, <1>2, <1>5
<1> QED
  BY <1>4, <1>5

\* Behind an entry one sees memory as this entry leaves it.
LEMMA SeenStep ==
  ASSUME MemSize <= WordMod,
         NEW q \in Seq(LSQEntry), \A k \in DOMAIN q : EntryOK(q[k]),
         NEW i \in DOMAIN q, q[i].op \in Store => InRange(q[i]), NEW m \in MemState
  PROVE  Seen(q, i + 1, m) = IF q[i].op \in Store THEN Stored(q[i], Seen(q, i, m))
                                                  ELSE Seen(q, i, m)
<1>1. DOMAIN m = 0..(MemSize - 1) /\ i \in Nat \ {0}
  BY LenProperties DEF MemState
<1>2. \A a \in DOMAIN m : Seen(q, i + 1, m)[a] =
        IF q[i].op \in Store /\ covers_byte(q[i], a)
          THEN byte_from(q[i], a) ELSE Seen(q, i, m)[a]
  BY <1>1, ForwardStep DEF Seen
<1>3. /\ Seen(q, i, m) \in MemState /\ DOMAIN Seen(q, i, m) = DOMAIN m
      /\ Seen(q, i + 1, m) = [a \in DOMAIN m |-> Seen(q, i + 1, m)[a]]
      /\ Seen(q, i, m) = [a \in DOMAIN m |-> Seen(q, i, m)[a]]
  BY SeenIsMemory DEF Seen
<1>4. CASE q[i].op \in Store
  <2> DEFINE s == Stored(q[i], Seen(q, i, m))
  <2>1. \A a \in DOMAIN m : s[a] =
          IF covers_byte(q[i], a) THEN byte_from(q[i], a) ELSE Seen(q, i, m)[a]
    <3>1. EntryOK(q[i]) /\ InRange(q[i])
      BY <1>4
    <3>2. ASSUME NEW a \in 0..(MemSize - 1)
          PROVE  s[a] = IF covers_byte(q[i], a) THEN byte_from(q[i], a)
                                                ELSE Seen(q, i, m)[a]
      BY <1>3, <1>4, <3>1, StoredByte
    <3> QED
      BY <1>1, <3>2
  <2>2. s = [a \in DOMAIN m |-> s[a]]
    BY <1>3 DEF Stored
  <2> HIDE DEF s
  <2>3. Seen(q, i + 1, m) = s
    BY <1>2, <1>3, <1>4, <2>1, <2>2
  <2> QED
    BY <1>4, <2>3 DEF s
<1>5. CASE q[i].op \notin Store
  BY <1>2, <1>3, <1>5
<1> QED
  BY <1>4, <1>5

\* Memory after all the older stores is memory as the entry sees it.
LEMMA AfterOlderSeen ==
  ASSUME MemSize <= WordMod, LsqInv, NEW i \in DOMAIN lsq,
         \A j \in 1..(i-1) : lsq[j].op \in Store => InRange(lsq[j])
  PROVE  AfterOlder(i - 1) = Seen(lsq, i, mem)
<1> DEFINE n == i - 1
           next(x, k) == IF lsq[k].op \in Store THEN Stored(lsq[k], x) ELSE x
           step(f) == [k \in 0..n |-> IF k = 0 THEN mem ELSE next(f[k-1], k)]
           w == [k \in 0..n |-> Seen(lsq, k + 1, mem)]
           after == CHOOSE f : f = step(f)
<1>1. /\ lsq \in Seq(LSQEntry) /\ Len(lsq) \in Nat /\ DOMAIN lsq = 1..Len(lsq)
      /\ \A k \in DOMAIN lsq : EntryOK(lsq[k])
      /\ mem \in MemState /\ n \in Nat
  BY QueueFacts DEF LsqInv, LsqTypeOK
<1>2. AfterOlder(n) = after[n]
  BY DEF AfterOlder
<1>3. Seen(lsq, 1, mem) = mem
  <2>1. \A a \in DOMAIN mem : byte_forward(lsq, 1, a, mem[a]) = mem[a]
    BY DEF byte_forward
  <2>2. mem = [a \in DOMAIN mem |-> mem[a]]
    BY <1>1 DEF MemState
  <2> QED
    BY <2>1, <2>2 DEF Seen
<1>4. ASSUME NEW k \in 1..n
      PROVE  Seen(lsq, k + 1, mem) = next(Seen(lsq, k, mem), k)
  <2>1. k \in DOMAIN lsq /\ (lsq[k].op \in Store => InRange(lsq[k]))
    BY <1>1
  <2> QED
    BY <1>1, <2>1, SeenStep
<1> HIDE DEF next
<1>5. w = step(w)
  <2>1. ASSUME NEW k \in 0..n
        PROVE  Seen(lsq, k + 1, mem) = IF k = 0 THEN mem ELSE next(w[k-1], k)
    <3>1. CASE k = 0
      BY <1>3, <3>1
    <3>2. CASE k # 0
      <4>1. k \in 1..n /\ k - 1 \in 0..n /\ (k - 1) + 1 = k
        BY <1>1, <3>2
      <4>2. w[k-1] = Seen(lsq, k, mem)
        BY <4>1
      <4> QED
        BY <1>4, <3>2, <4>1, <4>2
    <3> QED
      BY <3>1, <3>2
  <2> QED
    BY <2>1
<1>6. after = step(after)
  <2> HIDE DEF w, step
  <2>1. \E f : f = step(f)
    BY <1>5
  <2> QED
    BY <2>1
<1> HIDE DEF after
<1>7. \A k \in 0..n : after[k] = w[k]
  <2> DEFINE bad == {k \in 0..n : after[k] # w[k]}
             flipped == {n + 1 - k : k \in bad}
  <2> SUFFICES ASSUME bad # {} PROVE FALSE
    OBVIOUS
  <2>0. \A k \in bad : k \in 0..n
    OBVIOUS
  <2> HIDE DEF bad, n
  <2>1. flipped \in SUBSET (1..(n + 1)) /\ flipped # {} /\ n + 1 \in Nat
    BY <1>1, <2>0
  <2>2. PICK x \in flipped : \A y \in flipped : y <= x
    BY <2>1, MaxOfIndices
  <2>3. PICK k \in bad : x = n + 1 - k
    BY <2>2
  <2>4. \A j \in bad : j \in 0..n /\ k <= j
    <3> SUFFICES ASSUME NEW j \in bad PROVE j \in 0..n /\ k <= j
      OBVIOUS
    <3>1. j \in 0..n /\ k \in 0..n /\ n + 1 - j <= x
      BY <2>2, <2>3 DEF bad
    <3> QED
      BY <1>1, <2>3, <3>1
  <2>5. k \in 0..n /\ after[k] # w[k]
    BY <2>3 DEF bad
  <2>6. after[k] = IF k = 0 THEN mem ELSE next(after[k-1], k)
    BY <1>6, <2>5
  <2>7. w[k] = IF k = 0 THEN mem ELSE next(w[k-1], k)
    BY <1>5, <2>5
  <2>8. k # 0
    BY <2>5, <2>6, <2>7
  <2>9. k - 1 \in 0..n /\ k - 1 \notin bad
    BY <1>1, <2>4, <2>5, <2>8
  <2>10. after[k-1] = w[k-1]
    BY <2>9 DEF bad
  <2> QED
    BY <2>5, <2>6, <2>7, <2>10
<1>8. n \in 0..n /\ n + 1 = i
  BY <1>1
<1>9. w[n] = Seen(lsq, i, mem)
  BY <1>8
<1> QED
  BY <1>2, <1>7, <1>8, <1>9

\* A store that commits without an exception is in range: the bounds check can wrap
\* only at an element behind one that was out of range already.
LEMMA PassesInRange ==
  ASSUME MemSize + 4 <= WordMod, NEW e, EntryOK(e), e.op \in Store, Passes(e)
  PROVE  InRange(e)
<1> DEFINE n == element_size(e)
           end(l) == e.Va + l * n + n - 1
<1>1. /\ n \in {1, 2, 4} /\ e.Va \in Nat /\ e.vl \in Nat /\ MemSize \in Nat
      /\ WordMod \in Nat /\ WordMod >= 16 /\ e.Va + 3 < WordMod
  BY ElementSize, MemoryAssumption, Bases DEF EntryOK, EntryTyped, LSQEntry
<1>2. /\ elements(e) \in Nat /\ access_size(e) = elements(e) * n
      /\ elements(e) \in {e.vl, 1}
  BY <1>1 DEF access_size, elements
<1>3. \A l \in 0..(elements(e) - 1) : Checked((e.Va + l * n) % WordMod, n)
  BY DEF Passes, element_address
<1> HIDE DEF n
<1>4. ASSUME NEW l \in 0..(elements(e) - 1), e.Va + l * n + n - 1 < WordMod
      PROVE  end(l) < MemSize
  <2>1. l * n \in Nat
    BY <1>1
  <2>2. (e.Va + l * n) % WordMod = e.Va + l * n
    BY <1>1, <1>4, <2>1
  <2>3. Checked(e.Va + l * n, n)
    BY <1>3, <2>2
  <2>4. (e.Va + l * n + n - 1) % WordMod = e.Va + l * n + n - 1
    BY <1>1, <1>4, <2>1
  <2> QED
    BY <2>3, <2>4 DEF Checked
<1>5. \A l \in 0..(elements(e) - 1) : end(l) < MemSize
  <2> DEFINE bad == {l \in 1..elements(e) : ~(end(l - 1) < MemSize)}
             flipped == {elements(e) + 1 - l : l \in bad}
  <2> SUFFICES ASSUME bad # {} PROVE FALSE
    <3>1. \A l \in 0..(elements(e) - 1) : l + 1 \in 1..elements(e) /\ (l + 1) - 1 = l
      BY <1>2
    <3> HIDE DEF end
    <3> QED
      BY <3>1
  <2>1. flipped \in SUBSET (1..elements(e)) /\ flipped # {}
    BY <1>2
  <2> HIDE DEF bad
  <2>2. PICK x \in flipped : \A y \in flipped : y <= x
    BY <1>2, <2>1, MaxOfIndices
  <2>3. PICK l \in bad : x = elements(e) + 1 - l
    BY <2>2
  <2>4. \A j \in bad : j \in 1..elements(e) /\ l <= j
    <3> SUFFICES ASSUME NEW j \in bad PROVE j \in 1..elements(e) /\ l <= j
      OBVIOUS
    <3>1. j \in 1..elements(e) /\ l \in 1..elements(e) /\ elements(e) + 1 - j <= x
      BY <2>2, <2>3 DEF bad
    <3> QED
      BY <1>2, <2>3, <3>1
  <2>5. l \in 1..elements(e) /\ ~(end(l - 1) < MemSize)
    BY <2>3 DEF bad
  <2>6. CASE l = 1
    <3>1. e.Va + (l - 1) * n + n - 1 < WordMod /\ l - 1 \in 0..(elements(e) - 1)
      BY <1>1, <1>2, <2>5, <2>6
    <3> QED
      BY <1>4, <2>5, <3>1
  <2>7. CASE l # 1
    <3>1. l - 1 \in 1..elements(e) /\ l - 1 \notin bad /\ l - 1 \in 0..(elements(e) - 1)
      BY <1>2, <2>4, <2>5, <2>7
    <3>2. end((l - 1) - 1) < MemSize
      BY <3>1 DEF bad
    <3>3. (l - 1) * n = (l - 1 - 1) * n + n /\ (l - 1 - 1) * n \in Nat
      BY <1>1, <1>2, <3>1
    <3>4. e.Va + (l - 1) * n + n - 1 < WordMod
      BY <1>1, <3>2, <3>3
    <3> QED
      BY <1>4, <2>5, <3>1, <3>4
  <2> QED
    BY <2>6, <2>7
<1>6. CASE elements(e) = 0
  BY <1>1, <1>2, <1>6 DEF InRange
<1>7. CASE elements(e) # 0
  <2> DEFINE l == elements(e) - 1
  <2>1. l \in 0..(elements(e) - 1) /\ l * n + n = elements(e) * n
    <3>1. elements(e) \in Nat /\ l \in 0..(elements(e) - 1)
      BY <1>2, <1>7
    <3>2. \A x \in Nat : (x - 1) * n + n = x * n
      BY <1>1
    <3> QED
      BY <3>1, <3>2
  <2>2. end(l) < MemSize
    BY <1>5, <2>1
  <2>3. e.Va + access_size(e) - 1 < MemSize
    BY <1>1, <1>2, <2>1, <2>2
  <2> QED
    BY <2>3 DEF InRange, InMemory
<1> QED
  BY <1>6, <1>7

-----------------------------------------------------------------------------
(* What a load would find now: how it changes while the queue moves on.    *)

\* The byte forwarded depends on the older stores that cover it and on what they put
\* there.
LEMMA ForwardSame ==
  ASSUME NEW q, NEW r, NEW i \in Nat, NEW a, NEW byte,
         \A j \in 1..(i-1) :
           /\ r[j].op \in Store /\ covers_byte(r[j], a)
                <=> q[j].op \in Store /\ covers_byte(q[j], a)
           /\ q[j].op \in Store /\ covers_byte(q[j], a)
                => byte_from(r[j], a) = byte_from(q[j], a)
  PROVE  byte_forward(r, i, a, byte) = byte_forward(q, i, a, byte)
<1> DEFINE older(x) == {j \in 1..(i-1) : x[j].op \in Store /\ covers_byte(x[j], a)}
<1>1. older(r) = older(q)
  OBVIOUS
<1>2. \A x : byte_forward(x, i, a, byte) =
               IF older(x) = {} THEN byte ELSE byte_from(x[Max(older(x))], a)
  BY DEF byte_forward
<1>3. \A j \in older(q) : byte_from(r[j], a) = byte_from(q[j], a)
  OBVIOUS
<1>4. CASE i = 0
  <2>1. older(q) = {}
    BY <1>4
  <2> HIDE DEF older
  <2> QED
    BY <1>1, <1>2, <2>1
<1>5. CASE i # 0
  <2>1. i - 1 \in Nat /\ older(q) \in SUBSET (1..(i-1))
    BY <1>5
  <2> HIDE DEF older
  <2>2. older(q) # {} => Max(older(q)) \in older(q)
    BY <2>1, MaxOfIndices
  <2> QED
    BY <1>1, <1>2, <1>3, <2>2
<1> QED
  BY <1>4, <1>5

\* What is at an address when entry e has been written over byte.
Below(e, a, byte) ==
  IF e.op \in Store /\ covers_byte(e, a) THEN byte_from(e, a) ELSE byte

\* The entries before i of r are those of q without its head.
MovedUp(q, r, i) == \A j \in 1..(i-1) : r[j] = q[j+1]

\* When the head leaves, what it put at an address counts as the memory below.
LEMMA ForwardShift ==
  ASSUME NEW q, NEW r, NEW i \in Nat \ {0}, MovedUp(q, r, i),
         NEW a, NEW byte
  PROVE  byte_forward(r, i, a, Below(q[1], a, byte)) = byte_forward(q, i + 1, a, byte)
<1> DEFINE below == Below(q[1], a, byte)
           S == {j \in 1..(i-1) : r[j].op \in Store /\ covers_byte(r[j], a)}
           T == {j \in 1..i : q[j].op \in Store /\ covers_byte(q[j], a)}
<1> SUFFICES byte_forward(r, i, a, below) = byte_forward(q, i + 1, a, byte)
  OBVIOUS
<1>1. byte_forward(r, i, a, below) = IF S = {} THEN below ELSE byte_from(r[Max(S)], a)
  BY DEF byte_forward
<1>2. byte_forward(q, i + 1, a, byte) = IF T = {} THEN byte ELSE byte_from(q[Max(T)], a)
  <2>1. (i + 1) - 1 = i
    OBVIOUS
  <2> QED
    BY <2>1 DEF byte_forward
<1>3. /\ S \in SUBSET (1..(i-1)) /\ T \in SUBSET (1..i) /\ i - 1 \in Nat
      /\ \A j \in 1..(i-1) : j \in S <=> j + 1 \in T
      /\ below = IF 1 \in T THEN byte_from(q[1], a) ELSE byte
  BY DEF Below, MovedUp
<1> HIDE DEF S, T, below
<1>4. CASE S = {}
  <2>1. \A j \in T : j = 1
    <3> SUFFICES ASSUME NEW j \in T, j # 1 PROVE FALSE
      OBVIOUS
    <3>1. j - 1 \in 1..(i-1) /\ (j - 1) + 1 = j
      BY <1>3
    <3> QED
      BY <1>3, <1>4, <3>1
  <2>2. CASE 1 \in T
    <3>1. Max(T) \in T
      BY <1>3, <2>2, MaxOfIndices
    <3> QED
      BY <1>1, <1>2, <1>3, <1>4, <2>1, <2>2, <3>1
  <2>3. CASE 1 \notin T
    BY <1>1, <1>2, <1>3, <1>4, <2>1, <2>3
  <2> QED
    BY <2>2, <2>3
<1>5. CASE S # {}
  <2>1. Max(S) \in S /\ \A j \in S : j <= Max(S)
    BY <1>3, <1>5, MaxOfIndices
  <2>2. Max(S) + 1 \in T /\ r[Max(S)] = q[Max(S)+1]
    BY <1>3, <2>1 DEF MovedUp
  <2>3. Max(T) \in T /\ \A j \in T : j <= Max(T)
    BY <1>3, <2>2, MaxOfIndices
  <2> DEFINE x == Max(S)
             y == Max(T)
  <2>4. x \in S /\ x \in 1..(i-1) /\ x + 1 \in T /\ y \in T /\ y \in 1..i
    BY <1>3, <2>1, <2>2, <2>3
  <2>5. x + 1 <= y
    BY <2>2, <2>3
  <2> HIDE DEF x, y
  <2>6. y - 1 \in 1..(i-1) /\ (y - 1) + 1 = y
    BY <2>4, <2>5
  <2>7. y - 1 \in S
    BY <1>3, <2>4, <2>6
  <2>8. y - 1 <= x
    BY <2>1, <2>7 DEF x
  <2>9. y = x + 1
    BY <2>4, <2>5, <2>8
  <2>10. T # {} /\ q[y] = r[x]
    BY <2>2, <2>4, <2>9 DEF x
  <2> QED
    BY <1>1, <1>2, <1>5, <2>10 DEF x, y
<1> QED
  BY <1>4, <1>5

LEMMA SeenShift ==
  ASSUME NEW q, NEW r, NEW i \in Nat \ {0}, MovedUp(q, r, i),
         NEW m, NEW written, DOMAIN written = DOMAIN m,
         \A a \in DOMAIN m : written[a] = Below(q[1], a, m[a])
  PROVE  Seen(r, i, written) = Seen(q, i + 1, m)
<1>1. ASSUME NEW a \in DOMAIN m
      PROVE  byte_forward(r, i, a, written[a]) = byte_forward(q, i + 1, a, m[a])
  <2>1. byte_forward(r, i, a, Below(q[1], a, m[a])) = byte_forward(q, i + 1, a, m[a])
    BY ForwardShift
  <2> QED
    BY <2>1
<1> QED
  BY <1>1 DEF Seen

\* Two accesses that cover the same byte overlap.
LEMMA CoveredByBoth ==
  ASSUME NEW d, EntryOK(d), NEW e, EntryOK(e), NEW a \in Nat,
         covers_byte(d, a), covers_byte(e, a)
  PROVE  overlaps(d, e)
<1>1. ASSUME NEW x, EntryOK(x) PROVE x.Va \in Nat /\ access_size(x) \in Nat
  <2>1. x.vl \in Nat /\ x.Va \in Nat /\ element_size(x) \in Nat
    BY <1>1, ElementSize, MemoryAssumption DEF EntryOK, EntryTyped, LSQEntry
  <2> QED
    BY <2>1 DEF access_size
<1>2. d.Va \in Nat /\ access_size(d) \in Nat /\ e.Va \in Nat /\ access_size(e) \in Nat
  BY <1>1
<1> QED
  BY <1>2 DEF overlaps, covers_byte

\* While the entries evolve, what a load that may be started finds at its own bytes
\* stays the same: the older stores that cover them have their data.
LEMMA ForwardKept ==
  ASSUME NEW q, IsQueue(q), NEW m, NEW r, Evolved(q, r, m), NEW i \in DOMAIN q,
         r[i].op \in Load, r[i].done,
         NEW a \in Nat, covers_byte(q[i], a), NEW byte
  PROVE  byte_forward(r, i, a, byte) = byte_forward(q, i, a, byte)
<1>1. /\ Len(q) \in Nat /\ DOMAIN q = 1..Len(q) /\ i \in Nat
      /\ \A k \in DOMAIN q : EntryOK(q[k])
  BY LenProperties DEF IsQueue
<1>2. can_issue_load(q, i)
  BY DEF Evolved
<1>3. ASSUME NEW j \in 1..(i-1)
      PROVE  /\ r[j].op \in Store /\ covers_byte(r[j], a)
                  <=> q[j].op \in Store /\ covers_byte(q[j], a)
             /\ q[j].op \in Store /\ covers_byte(q[j], a)
                  => byte_from(r[j], a) = byte_from(q[j], a)
  <2>1. j \in DOMAIN q
    BY <1>1
  <2>2. /\ EntryOK(r[j]) /\ EntryOK(q[j]) /\ r[j].op = q[j].op
        /\ r[j].sew = q[j].sew
    BY <1>1, <2>1 DEF Evolved, EntryOK, EntryTyped
  <2>3. CASE q[j].op \in Store
    <3>1. q[j].Qa = NoTag /\ (overlaps(q[j], q[i]) => q[j].Q = NoTag)
      BY <1>2, <2>3 DEF can_issue_load
    <3>2. r[j].Va = q[j].Va /\ r[j].vl = q[j].vl
      BY <2>1, <3>1 DEF Evolved
    <3>3. element_size(r[j]) = element_size(q[j]) /\ access_size(r[j]) = access_size(q[j])
      BY <2>2, <3>2 DEF access_size, element_size
    <3>4. covers_byte(r[j], a) <=> covers_byte(q[j], a)
      BY <3>2, <3>3 DEF covers_byte
    <3>5. ASSUME covers_byte(q[j], a) PROVE byte_from(r[j], a) = byte_from(q[j], a)
      <4>1. overlaps(q[j], q[i])
        BY <1>1, <2>2, <3>5, CoveredByBoth
      <4>2. r[j].V = q[j].V
        BY <2>1, <2>3, <3>1, <4>1 DEF Evolved
      <4> QED
        BY <2>2, <3>2, <3>3, <4>2 DEF byte_from
    <3> QED
      BY <2>2, <3>4, <3>5
  <2>4. CASE q[j].op \notin Store
    BY <2>2, <2>4
  <2> QED
    BY <2>3, <2>4
<1> QED
  BY <1>1, <1>3, ForwardSame

-----------------------------------------------------------------------------
(* Loads that are done have what they would read now.                      *)

\* Every load that is done and in range has what it would read now, from memory m
\* with the stores before it.
LoadsSee(q, m) ==
  \A i \in DOMAIN q :
    q[i].op \in Load /\ q[i].done /\ InRange(q[i])
      => q[i].V = Loaded(q[i], Seen(q, i, m))

\* Addresses, data, units that start and units that finish: a load gets the value it
\* would read, and nothing that arrives later changes what that is.
LEMMA EvolvedSees ==
  ASSUME MemSize <= WordMod, NEW q, IsQueue(q), NEW m \in MemState, LoadsSee(q, m),
         NEW r, Evolved(q, r, m)
  PROVE  LoadsSee(r, m)
<1>1. /\ q \in Seq(LSQEntry) /\ Len(q) \in Nat /\ DOMAIN q = 1..Len(q)
      /\ \A k \in DOMAIN q : EntryOK(q[k])
      /\ m \in MemState
  BY LenProperties DEF IsQueue
<1>2. r \in Seq(LSQEntry) /\ DOMAIN r = DOMAIN q /\ \A k \in DOMAIN r : EntryOK(r[k])
  <2>1. r \in Seq(LSQEntry) /\ DOMAIN r = 1..Len(r) /\ Len(r) = Len(q)
    BY LenProperties DEF Evolved
  <2> QED
    BY <1>1, <2>1 DEF Evolved
<1> SUFFICES ASSUME NEW i \in DOMAIN q, r[i].op \in Load, r[i].done, InRange(r[i])
             PROVE  r[i].V = Loaded(r[i], Seen(r, i, m))
  BY <1>2 DEF LoadsSee
<1> DEFINE e == q[i]
           f == r[i]
<1>3. /\ f.op = e.op /\ f.Va = e.Va /\ f.vl = e.vl
      /\ f.V = IF e.done THEN e.V ELSE Forwarded(q, i, m)
  BY DEF Evolved
<1>4. EntryOK(e) /\ EntryOK(f) /\ f.sew = e.sew /\ e.op \in Load
  BY <1>1, <1>2, <1>3 DEF EntryOK, EntryTyped
<1>5. InRange(e)
  BY <1>3, <1>4 DEF InRange, access_size, element_size
<1>6. f.V = Loaded(e, Seen(q, i, m))
  BY <1>1, <1>3, <1>4, <1>5, ForwardedIsLoaded DEF LoadsSee
<1>7. Seen(q, i, m) \in MemState /\ Seen(r, i, m) \in MemState
  BY <1>1, <1>2, SeenIsMemory
<1>8. ASSUME NEW a \in 0..(MemSize - 1), covers_byte(e, a)
      PROVE  Seen(q, i, m)[a] = Seen(r, i, m)[a]
  <2>1. a \in Nat /\ a \in DOMAIN m
    BY <1>1, MemoryAssumption DEF MemState
  <2>2. byte_forward(r, i, a, m[a]) = byte_forward(q, i, a, m[a])
    BY <1>8, <2>1, ForwardKept
  <2> QED
    BY <2>1, <2>2 DEF Seen
<1>9. Loaded(e, Seen(q, i, m)) = Loaded(f, Seen(r, i, m))
  <2> HIDE DEF e, f
  <2> QED
    BY <1>3, <1>4, <1>5, <1>7, <1>8, LoadedSame
<1> QED
  BY <1>6, <1>9

\* Entries that stay at their places, with all the older ones, see the same.
LEMMA PrefixSees ==
  ASSUME NEW q, NEW n \in Nat, DOMAIN q = 1..n, NEW m, LoadsSee(q, m), NEW r,
         \A i \in DOMAIN r : r[i].done =>
           i \in DOMAIN q /\ \A k \in 1..i : r[k] = q[k]
  PROVE  LoadsSee(r, m)
<1> SUFFICES ASSUME NEW i \in DOMAIN r, r[i].op \in Load, r[i].done, InRange(r[i])
             PROVE  r[i].V = Loaded(r[i], Seen(r, i, m))
  BY DEF LoadsSee
<1>1. i \in DOMAIN q /\ i \in Nat \ {0} /\ \A k \in 1..i : r[k] = q[k]
  OBVIOUS
<1>2. r[i] = q[i] /\ \A k \in 1..(i-1) : r[k] = q[k]
  BY <1>1
<1>3. \A a \in DOMAIN m : byte_forward(r, i, a, m[a]) = byte_forward(q, i, a, m[a])
  BY <1>1, <1>2, ForwardSame
<1>4. Seen(r, i, m) = Seen(q, i, m)
  BY <1>3 DEF Seen
<1> QED
  BY <1>1, <1>2, <1>4 DEF LoadsSee

\* The head is written to memory and leaves: for the loads behind it nothing changes.
LEMMA CommitSees ==
  ASSUME MemSize + 4 <= WordMod, NEW q, IsQueue(q), q # <<>>, NEW m \in MemState,
         LoadsSee(q, m), Head(q).op \in Store => Passes(Head(q)),
         NEW w, w = IF Head(q).op \in Store THEN Stored(Head(q), m) ELSE m
  PROVE  LoadsSee(Tail(q), w)
<1> DEFINE n == Len(q)
           h == q[1]
<1>1. /\ q \in Seq(LSQEntry) /\ n \in Nat /\ DOMAIN q = 1..n
      /\ \A k \in DOMAIN q : EntryOK(q[k])
      /\ m \in MemState /\ DOMAIN m = 0..(MemSize - 1)
      /\ MemSize \in Nat /\ WordMod \in Nat /\ MemSize <= WordMod
  BY LenProperties, MemoryAssumption, Bases DEF IsQueue, MemState
<1>2. /\ q # <<>>
      /\ Head(q).op \in Store => Passes(Head(q))
      /\ w = IF Head(q).op \in Store THEN Stored(Head(q), m) ELSE m
  OBVIOUS
<1>3. n >= 1 /\ Head(q) = h /\ EntryOK(h)
  BY <1>1, <1>2, EmptySeq
<1>4. DOMAIN Tail(q) = 1..(n-1) /\ \A k \in 1..(n-1) : Tail(q)[k] = q[k+1]
  BY <1>1, <1>2, HeadTailProperties, LenProperties
<1>5. /\ DOMAIN w = DOMAIN m
      /\ \A a \in DOMAIN m :
           w[a] = IF h.op \in Store /\ covers_byte(h, a) THEN byte_from(h, a) ELSE m[a]
  <2>1. CASE h.op \in Store
    <3>1. InRange(h)
      BY <1>2, <1>3, <2>1, PassesInRange
    <3>2. w = Stored(h, m)
      BY <1>2, <1>3, <2>1
    <3>3. DOMAIN w = DOMAIN m
      BY <3>2 DEF Stored
    <3> HIDE DEF h
    <3>4. \A a \in 0..(MemSize - 1) :
            Stored(h, m)[a] = IF covers_byte(h, a) THEN byte_from(h, a) ELSE m[a]
      BY <1>1, <1>3, <2>1, <3>1, StoredByte
    <3> QED
      BY <1>1, <2>1, <3>2, <3>3, <3>4
  <2>2. CASE h.op \notin Store
    BY <1>2, <1>3, <2>2
  <2> QED
    BY <2>1, <2>2
<1> SUFFICES ASSUME NEW i \in 1..(n-1), Tail(q)[i].op \in Load, Tail(q)[i].done, InRange(Tail(q)[i])
             PROVE  Tail(q)[i].V = Loaded(Tail(q)[i], Seen(Tail(q), i, w))
  BY <1>4 DEF LoadsSee
<1>6. i + 1 \in DOMAIN q /\ Tail(q)[i] = q[i+1] /\ i \in Nat \ {0}
  BY <1>1, <1>4
<1>7. MovedUp(q, Tail(q), i)
  BY <1>1, <1>4 DEF MovedUp
<1>8. \A a \in DOMAIN m : w[a] = Below(q[1], a, m[a])
  BY <1>5 DEF Below
<1>9. Seen(Tail(q), i, w) = Seen(q, i + 1, m)
  BY <1>5, <1>6, <1>7, <1>8, SeenShift
<1> QED
  BY <1>6, <1>9 DEF LoadsSee

\* Loads that are done go on having what they would read, whatever happens.
LEMMA NextSees ==
  ASSUME MemSize + 4 <= WordMod, LsqInv, LoadsSee(lsq, mem), [LsqNext]_lsqVars
  PROVE  LoadsSee(lsq', mem')
<1>1. /\ MemSize <= WordMod /\ mem \in MemState /\ IsQueue(lsq)
      /\ DOMAIN lsq = 1..Len(lsq) /\ Len(lsq) \in Nat
  BY MemoryAssumption, Bases, QueueFacts DEF IsQueue, LsqInv, LsqTypeOK
<1>2. ASSUME NEW op \in Access, NEW v \in Datum, NEW q \in Producer \cup {NoTag},
             NEW n \in Length, Dispatch(op, v, q, n)
      PROVE  LoadsSee(lsq', mem')
  <2> DEFINE e == NewAccess(op, lsq_next, v, q, n)
  <2>1. lsq' = Append(lsq, e) /\ mem' = mem /\ e.done = FALSE
    BY <1>2 DEF Dispatch, NewAccess
  <2>2. /\ DOMAIN lsq = 1..Len(lsq) /\ Len(lsq) \in Nat
    BY QueueFacts
  <2>3. /\ DOMAIN lsq' = 1..(Len(lsq) + 1) /\ lsq'[Len(lsq) + 1] = e
        /\ \A k \in 1..Len(lsq) : lsq'[k] = lsq[k]
    <3> HIDE DEF e
    <3> QED
      BY <2>1, <2>2, QueueFacts
  <2>4. \A i \in DOMAIN lsq' : lsq'[i].done =>
          i \in DOMAIN lsq /\ \A k \in 1..i : lsq'[k] = lsq[k]
    <3> HIDE DEF e
    <3> QED
      BY <2>1, <2>2, <2>3
  <2> QED
    BY <1>1, <2>1, <2>4, PrefixSees
<1>3. ASSUME NEW i \in DOMAIN lsq, NEW a \in Address, NEW n \in Length,
             GenerateAddress(i, a, n)
      PROVE  LoadsSee(lsq', mem')
  <2>1. Evolved(lsq, lsq', mem) /\ mem' = mem
    BY <1>3, GenerateAddressInv DEF GenerateAddress
  <2> QED
    BY <1>1, <2>1, EvolvedSees
<1>4. ASSUME NEW tag \in Producer, NEW v \in Datum, Wake(tag, v)
      PROVE  LoadsSee(lsq', mem')
  <2>1. Evolved(lsq, lsq', mem) /\ mem' = mem
    BY <1>4, WakeInv DEF Wake
  <2> QED
    BY <1>1, <2>1, EvolvedSees
<1>5. ASSUME Issue PROVE LoadsSee(lsq', mem')
  <2>1. Evolved(lsq, lsq', mem) /\ mem' = mem
    BY <1>5, IssueInv DEF Issue
  <2> QED
    BY <1>1, <2>1, EvolvedSees
<1>6. ASSUME NEW tag \in lsus, Complete(tag) PROVE LoadsSee(lsq', mem')
  <2>1. Evolved(lsq, lsq', mem) /\ mem' = mem
    BY <1>6, CompleteInv DEF Complete
  <2> QED
    BY <1>1, <2>1, EvolvedSees
<1>7. ASSUME Commit PROVE LoadsSee(lsq', mem')
  <2>1. LoadsSee(Tail(lsq), mem')
    BY <1>1, <1>7, CommitSees DEF Commit
  <2> QED
    BY <1>7, <2>1 DEF Commit
<1>8. ASSUME NEW tag \in 0..(lsq_next - 1), Flush(tag) PROVE LoadsSee(lsq', mem')
  <2>1. lsq' = FlushAfter(lsq, tag) /\ mem' = mem
    BY <1>8 DEF Flush
  <2>2. /\ lsq \in Seq(LSQEntry) /\ DOMAIN lsq = 1..Len(lsq) /\ Len(lsq) \in Nat
        /\ \A k \in DOMAIN lsq : lsq[k].tag \in Int
        /\ TagsGrow(lsq) /\ tag \in Int
    <3>1. lsq_next \in Nat
      BY LsqAssumption DEF LsqInv, LsqTypeOK
    <3> QED
      BY <3>1, QueueFacts DEF LsqInv, LsqTagsOrdered
  <2>3. PICK m \in 0..Len(lsq) :
          DOMAIN FlushAfter(lsq, tag) = 1..m /\ \A k \in 1..m : FlushAfter(lsq, tag)[k] = lsq[k]
    BY <2>2, FlushAfterKeeps, Zenon
  <2>4. \A i \in DOMAIN lsq' : i \in DOMAIN lsq /\ \A k \in 1..i : lsq'[k] = lsq[k]
    BY <2>1, <2>2, <2>3
  <2> QED
    BY <1>1, <2>1, <2>4, PrefixSees
<1>9. ASSUME UNCHANGED lsqVars PROVE LoadsSee(lsq', mem')
  BY <1>9 DEF lsqVars
<1> QED
  BY <1>2, <1>3, <1>4, <1>5, <1>6, <1>7, <1>8, <1>9 DEF LsqNext

\* A load that is done has the value it would read if the older stores in the queue had
\* been written first, from the moment a unit brings it back until it commits: whatever
\* stores commit, get their data or are flushed in between, whichever bytes overlap.
\* The program's memory ends far below the end of the address space.
THEOREM LoadsSeeStores ==
  ASSUME MemSize + 4 <= WordMod
  PROVE  LsqSpec => []LoadsSeeOlderStores
<1> DEFINE Inv == LsqInv /\ LoadsSee(lsq, mem)
<1>1. LsqInit => Inv
  <2>1. LsqInit => LoadsSee(lsq, mem)
    BY DEF LsqInit, LoadsSee
  <2> QED
    BY <2>1, LsqInitInv
<1>2. Inv /\ [LsqNext]_lsqVars => Inv'
  <2> SUFFICES ASSUME Inv, [LsqNext]_lsqVars PROVE Inv'
    OBVIOUS
  <2>1. LsqInv'
    BY LsqNextInv
  <2>2. LoadsSee(lsq', mem')
    BY NextSees
  <2> QED
    BY <2>1, <2>2 DEF LoadsSee
<1>3. Inv => LoadsSeeOlderStores
  <2> SUFFICES ASSUME Inv, NEW i \in DOMAIN lsq,
                      lsq[i].op \in Load, lsq[i].done, InRange(lsq[i]),
                      \A j \in 1..(i-1) : lsq[j].op \in Store => InRange(lsq[j])
               PROVE  lsq[i].V = Loaded(lsq[i], AfterOlder(i-1))
    BY DEF LoadsSeeOlderStores
  <2>1. MemSize <= WordMod
    BY MemoryAssumption, Bases
  <2>2. AfterOlder(i - 1) = Seen(lsq, i, mem)
    BY <2>1, AfterOlderSeen
  <2> QED
    BY <2>2 DEF LoadsSee
<1> QED
  BY <1>1, <1>2, <1>3, PTL DEF LsqSpec
=============================================================================
