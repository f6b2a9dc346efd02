--------------------------- MODULE LoadStoreQueue ---------------------------
(***************************************************************************)
(* The load/store queue (cpu/lsq.hpp), the load/store units that take from *)
(* it (cpu/lsu.hpp) and the memory behind them.                            *)
(*                                                                         *)
(* Its clients are left open: addresses come from the address generation   *)
(* units in any order, store data from any producer at any time, units     *)
(* finish in any order, and a misprediction may flush the queue behind any *)
(* tag at any moment.                                                      *)
(***************************************************************************)
EXTENDS MemAccess, TagQueue

CONSTANTS
  LsqSize,    \* max_size of the queue
  LsuCount,   \* load/store units
  Access,     \* the loads and stores that may be dispatched
  Address,    \* the addresses they may turn out to have; Cpu has those that wrap
  Datum,      \* the values they may store
  Length,     \* the vector lengths they may run under
  Producer,   \* tags of the instructions that produce store data
  TagLimit    \* bound: the tags one behaviour allocates

ASSUME LsqAssumption ==
  /\ LsqSize \in Nat /\ LsuCount \in Nat /\ TagLimit \in Nat
  /\ Access \subseteq Load \cup Store
  /\ \A a \in Address : a \in Nat /\ a + 3 < WordMod
  /\ Datum \subseteq Value
  /\ Length \subseteq 0..Lanes
  /\ Producer \subseteq Nat

VARIABLES
  lsq,        \* LoadStoreQueue::entries, oldest first
  lsus,       \* tags held by the busy load/store units
  mem,        \* Memory::data
  lsq_next    \* the next tag the re-order buffer will hand out

lsqVars == <<lsq, lsus, mem, lsq_next>>

LSQEntry == [op: Load \cup Store, tag: Nat, V: Value, Va: Nat,
             Q: Nat \cup {NoTag}, Qa: Nat \cup {NoTag}, vl: 0..Lanes,
             sew: {0, 8, 16, 32}, issued: BOOLEAN, done: BOOLEAN]

-----------------------------------------------------------------------------
overlaps(a, b) ==
  /\ a.Va < b.Va + access_size(b)
  /\ b.Va < a.Va + access_size(a)

covers_byte(e, addr) == addr \in e.Va..(e.Va + access_size(e) - 1)

\* The byte that store e will put at an address it covers.
byte_from(e, addr) ==
  LET offset == addr - e.Va
      lane   == IF e.op \in VStore THEN offset \div element_size(e) ELSE 0
  IN  ByteOf(e.V[lane], offset - lane * element_size(e))

\* Mutant of byte_forward: the oldest store that covers the byte wins.
byte_forward_oldest(q, i, addr, byte) ==
  LET older == {j \in 1..(i-1) : q[j].op \in Store /\ covers_byte(q[j], addr)}
  IN  IF older = {} THEN byte ELSE byte_from(q[Min(older)], addr)

\* The byte entry i of q finds at addr: from the youngest older store in the
\* queue that covers it, or else the one in memory.
byte_forward(q, i, addr, byte) ==
  LET older == {j \in 1..(i-1) : q[j].op \in Store /\ covers_byte(q[j], addr)}
  IN  IF older = {} THEN byte ELSE byte_from(q[Max(older)], addr)

load_forward(q, i, m) ==
  LET e   == q[i]
      n   == access_size(e)
      raw == load(m, e.Va, n)
  IN  Join([k \in 0..(n-1) |-> byte_forward(q, i, e.Va + k, ByteOf(raw, k))], n)

vload_forward(q, i, m) ==
  LET e       == q[i]
      n       == element_size(e)
      byte(a) == byte_forward(q, i, a, load(m, a % WordMod, 1))
  IN  [l \in Lane |->
         IF l < e.vl THEN Join([k \in 0..(n-1) |-> byte(e.Va + l * n + k)], n) ELSE 0]

\* The value a load that completes now brings back.
Forwarded(q, i, m) ==
  IF q[i].op \in VLoad THEN vload_forward(q, i, m)
  ELSE scalar(format_load(q[i].op, load_forward(q, i, m)))

-----------------------------------------------------------------------------
\* allocate: a store brings its data or the tag of its producer.
NewAccess(op, tag, Vk, Qk, vl) ==
  [op |-> op, tag |-> tag, V |-> IF op \in Store THEN Vk ELSE scalar(0),
   Va |-> 0, Q |-> IF op \in Store THEN Qk ELSE NoTag, Qa |-> tag,
   vl |-> IF op \in VLoad \cup VStore THEN vl ELSE 0, sew |-> op_sew(op),
   issued |-> FALSE, done |-> FALSE]

can_allocate == Len(lsq) < LsqSize

\* update: address generation units have computed these addresses, each with the
\* vl of its reservation station.
Addressed(q, results) ==
  [i \in DOMAIN q |->
     IF \E x \in results : x.tag = q[i].tag
       THEN LET x == CHOOSE y \in results : y.tag = q[i].tag
            IN  [q[i] EXCEPT !.Va = x.Va, !.Qa = NoTag,
                             !.vl = IF q[i].op \in VLoad \cup VStore THEN x.vl ELSE @]
       ELSE q[i]]

\* Mutant of can_issue_load: a store without an address is taken not to overlap.
can_issue_load_unknown(q, i) ==
  \A j \in 1..(i-1) :
    q[j].op \in Store /\ q[j].Qa = NoTag => (overlaps(q[j], q[i]) => q[j].Q = NoTag)

\* can_issue: an address, the data of a store, and for a load no older store
\* that might still turn out to overlap or whose overlapping data is missing.
can_issue_load(q, i) ==
  \A j \in 1..(i-1) : q[j].op \in Store =>
    /\ q[j].Qa = NoTag
    /\ overlaps(q[j], q[i]) => q[j].Q = NoTag

can_issue(q, i) ==
  /\ ~q[i].issued /\ ~q[i].done /\ q[i].Qa = NoTag
  /\ q[i].op \in Store => q[i].Q = NoTag
  /\ q[i].op \in Load => can_issue_load(q, i)

\* Mutant of ToIssue: an access is started whether or not a unit is idle.
ToIssueAll(q, idle) == {i \in DOMAIN q : can_issue(q, i)}

\* The oldest accesses that can issue, one for each idle unit.
ToIssue(q, idle) ==
  LET able == {i \in DOMAIN q : can_issue(q, i)}
  IN  {i \in able : Cardinality({j \in able : j < i}) < idle}

\* Issued: the accesses at these indices now belong to a unit.
Issued(q, chosen) ==
  [i \in DOMAIN q |-> [q[i] EXCEPT !.issued = @ \/ i \in chosen]]

\* Mutant of Completed: the access is not marked as done.
CompletedNotDone(q, tags, m) ==
  [i \in DOMAIN q |->
     IF q[i].tag \in tags THEN [q[i] EXCEPT !.issued = FALSE] ELSE q[i]]

\* complete: loads read memory and the older stores now.
Completed(q, tags, m) ==
  [i \in DOMAIN q |->
     IF q[i].tag \in tags
       THEN [q[i] EXCEPT !.issued = FALSE, !.done = TRUE,
                         !.V = IF q[i].op \in Load THEN Forwarded(q, i, m) ELSE @]
       ELSE q[i]]

\* wake: a result reaches the stores that wait for it.
Woken(q, tag, value) ==
  [i \in DOMAIN q |->
     IF ~q[i].done /\ q[i].op \in Store /\ q[i].Q = tag
       THEN [q[i] EXCEPT !.Q = NoTag, !.V = value]
       ELSE q[i]]

-----------------------------------------------------------------------------
LsqInit ==
  /\ lsq = <<>>
  /\ lsus = {}
  /\ mem \in [0..(MemSize - 1) -> {0}]
  /\ lsq_next = 0

Dispatch(op, Vk, Qk, vl) ==
  /\ can_allocate
  /\ lsq_next < TagLimit
  /\ lsq' = Append(lsq, NewAccess(op, lsq_next, Vk, Qk, vl))
  /\ lsq_next' = lsq_next + 1
  /\ UNCHANGED <<lsus, mem>>

GenerateAddress(i, addr, vl) ==
  /\ lsq[i].Qa # NoTag
  /\ lsq' = Addressed(lsq, {[tag |-> lsq[i].tag, Va |-> addr, vl |-> vl]})
  /\ UNCHANGED <<lsus, mem, lsq_next>>

Wake(tag, value) ==
  /\ \E i \in DOMAIN lsq : lsq[i].Q = tag
  /\ lsq' = Woken(lsq, tag, value)
  /\ UNCHANGED <<lsus, mem, lsq_next>>

Issue ==
  LET chosen == ToIssue(lsq, LsuCount - Cardinality(lsus))
  IN  /\ chosen # {}
      /\ lsus' = lsus \cup {lsq[i].tag : i \in chosen}
      /\ lsq' = Issued(lsq, chosen)
      /\ UNCHANGED <<mem, lsq_next>>

Complete(tag) ==
  /\ lsus' = lsus \ {tag}
  /\ lsq' = Completed(lsq, {tag}, mem)
  /\ UNCHANGED <<mem, lsq_next>>

Commit ==
  /\ lsq # <<>> /\ Head(lsq).done
  /\ Head(lsq).op \in Store => Passes(Head(lsq))
  /\ mem' = IF Head(lsq).op \in Store THEN Stored(Head(lsq), mem) ELSE mem
  /\ lsq' = Tail(lsq)
  /\ UNCHANGED <<lsus, lsq_next>>

\* Mutant of Flush: the load/store units go on.
FlushQueueOnly(tag) ==
  /\ lsq' = FlushAfter(lsq, tag)
  /\ UNCHANGED <<lsus, mem, lsq_next>>

Flush(tag) ==
  /\ lsq' = FlushAfter(lsq, tag)
  /\ lsus' = {t \in lsus : t <= tag}
  /\ UNCHANGED <<mem, lsq_next>>

LsqNext ==
  \/ \E op \in Access, v \in Datum, q \in Producer \cup {NoTag}, n \in Length :
       Dispatch(op, v, q, n)
  \/ \E i \in DOMAIN lsq, a \in Address, n \in Length : GenerateAddress(i, a, n)
  \/ \E tag \in Producer, v \in Datum : Wake(tag, v)
  \/ Issue
  \/ \E tag \in lsus : Complete(tag)
  \/ Commit
  \/ \E tag \in 0..(lsq_next - 1) : Flush(tag)

LsqSpec == LsqInit /\ [][LsqNext]_lsqVars

-----------------------------------------------------------------------------
LsqTypeOK ==
  /\ lsq \in Seq(LSQEntry)
  /\ Len(lsq) <= LsqSize
  /\ lsus \subseteq Nat
  /\ Cardinality(lsus) <= LsuCount
  /\ mem \in MemState
  /\ lsq_next \in 0..TagLimit

\* Every unit works for an access that is still queued, has its operands and is
\* not yet done: complete never throws "LSQ tag not found" after a flush, and no
\* access is started twice.
UnitsServeQueue ==
  \A tag \in lsus : \E i \in DOMAIN lsq :
    /\ lsq[i].tag = tag /\ lsq[i].issued /\ ~lsq[i].done
    /\ lsq[i].Qa = NoTag
    /\ lsq[i].op \in Store => lsq[i].Q = NoTag

\* No load is ahead of a store it depends on: while a load is in its unit, and as long
\* as it stays in the queue with its value, every older store in the queue has an
\* address, and its data if it overlaps, so the store can not move under the load,
\* or change what it should have forwarded, afterwards.
NoLoadPassesUnknown ==
  \A i \in DOMAIN lsq :
    lsq[i].op \in Load /\ (lsq[i].issued \/ lsq[i].done) =>
      /\ lsq[i].Qa = NoTag
      /\ \A j \in 1..(i-1) : lsq[j].op \in Store =>
           lsq[j].Qa = NoTag /\ (overlaps(lsq[j], lsq[i]) => lsq[j].Q = NoTag)

\* What memory will be when the first n accesses of the queue have committed.
AfterOlder(n) ==
  LET after[k \in 0..n] ==
        IF k = 0 THEN mem
        ELSE IF lsq[k].op \in Store THEN Stored(lsq[k], after[k-1]) ELSE after[k-1]
  IN  after[n]

\* A load that ran ahead of older stores has, from the moment it is done until it
\* commits, the value it would read if every older store in the queue had been
\* written to memory first: no store it bypassed overlapped it, every byte it
\* forwarded came from the youngest older store, and stores that committed while
\* it was in its unit were seen.  (Accesses in range; past the end, see README.)
LoadsSeeOlderStores ==
  \A i \in DOMAIN lsq :
    lsq[i].op \in Load /\ lsq[i].done /\ InRange(lsq[i])
      /\ (\A j \in 1..(i-1) : lsq[j].op \in Store => InRange(lsq[j]))
      => lsq[i].V = Loaded(lsq[i], AfterOlder(i-1))

\* What step() does of its own accord as long as there is something to do: units
\* are started and stepped, results broadcast and heads committed every cycle.
Progress ==
  \/ \E i \in DOMAIN lsq, a \in Address, n \in Length : GenerateAddress(i, a, n)
  \/ \E tag \in Producer, v \in Datum : Wake(tag, v)
  \/ Issue
  \/ \E tag \in lsus : Complete(tag)
  \/ Commit

LsqFairSpec == LsqSpec /\ WF_lsqVars(Progress)

\* No access waits for ever: loads wait for older stores only, and stores for
\* nothing in the queue, so no two accesses ever wait for each other.  When dispatch
\* has come to its end, at TagLimit or before, all of them leave.
AccessesLeave == <>[](lsq = <<>>)
=============================================================================
