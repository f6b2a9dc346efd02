--------------------------- MODULE Rename_proofs ---------------------------
(***************************************************************************)
(* The invariants of Rename, for every value of its constants.  RenameInv  *)
(* is inductive as it stands: that a flush keeps a prefix needs the order  *)
(* of the tags, that the alias tables survive a flush or a retirement needs*)
(* both the order and the fact that no two entries share a tag.            *)
(***************************************************************************)
EXTENDS Rename, TagQueue_proofs

\* The conjunction of the invariants that TLC checks on MCRename.
RenameInv ==
  /\ RenameTypeOK
  /\ TagsOrdered
  /\ RatYoungest
  /\ VecTagYoungest
  /\ ResolvedInOrder

-----------------------------------------------------------------------------
\* What the type invariant says of single entries of the queue.
LEMMA TypeFacts ==
  ASSUME RenameTypeOK
  PROVE  /\ Len(rob) \in Nat
         /\ DOMAIN rob = 1..Len(rob)
         /\ \A i \in DOMAIN rob : rob[i] \in ROBEntry
         /\ \A i \in DOMAIN rob : rob[i].tag \in Nat /\ rob[i].tag # NoTag
<1>1. rob \in Seq(ROBEntry)
  BY DEF RenameTypeOK
<1>2. Len(rob) \in Nat /\ DOMAIN rob = 1..Len(rob)
  BY <1>1, LenProperties
<1>3. \A i \in DOMAIN rob : rob[i] \in ROBEntry
  BY <1>1, <1>2, ElementOfSeq
<1> QED
  BY <1>2, <1>3 DEF ROBEntry, NoTag

\* The empty re-order buffer and the empty tables are consistent.
LEMMA RenameInitInv == RenameInit => RenameInv
<1> SUFFICES ASSUME RenameInit PROVE RenameInv
  OBVIOUS
<1> USE DEF RenameInit
<1>1. rob \in Seq(ROBEntry) /\ Len(rob) = 0 /\ DOMAIN rob = {}
  OBVIOUS
<1>2. RenameTypeOK
  BY <1>1, RenameAssumption DEF RenameTypeOK
<1>3. TagsOrdered
  BY <1>1 DEF TagsOrdered, TagsGrow
<1>4. RatYoungest
  BY <1>1 DEF RatYoungest
<1>5. VecTagYoungest /\ ResolvedInOrder
  BY <1>1 DEF VecTagYoungest, ResolvedInOrder
<1> QED
  BY <1>2, <1>3, <1>4, <1>5 DEF RenameInv

-----------------------------------------------------------------------------
\* The fields of a decoded instruction that allocate looks at.
IsDecoded(d) ==
  /\ d.op \in Op /\ d.rd \in Reg /\ d.pc \in Addr
  /\ d.pred_taken \in BOOLEAN /\ d.pred_target \in Addr

\* Dispatching an instruction: its tag is younger than all others, and it becomes
\* the youngest writer of its destination.
LEMMA AllocateInv ==
  ASSUME RenameInv, NEW d, IsDecoded(d), Allocate(d)
  PROVE  RenameInv'
<1> DEFINE n == Len(rob)
           e == NewEntry(d, next_tag)
<1>1. /\ RenameTypeOK /\ n \in Nat /\ DOMAIN rob = 1..n
      /\ \A i \in 1..n : rob[i] \in ROBEntry /\ rob[i].tag \in Nat
  BY TypeFacts DEF RenameInv
<1>2. next_tag \in Nat /\ next_tag' = next_tag + 1 /\ next_tag < TagLimit /\ n < RobSize
  <2>1. next_tag \in 0..TagLimit /\ Len(rob) <= RobSize /\ rob \in Seq(ROBEntry)
    BY <1>1 DEF RenameTypeOK
  <2>2. next_tag' = next_tag + 1 /\ next_tag < TagLimit /\ Len(rob) # RobSize
    BY DEF Allocate
  <2>3. RobSize \in Nat /\ TagLimit \in Nat /\ Len(rob) \in Nat
    BY <1>1, RenameAssumption
  <2>4. next_tag \in Nat
    BY <2>1, <2>3
  <2>5. Len(rob) < RobSize
    BY <2>1, <2>2, <2>3
  <2> QED
    BY <2>2, <2>3, <2>4, <2>5
<1>3. e \in ROBEntry /\ e.op = d.op /\ e.rd = d.rd /\ e.tag = next_tag
      /\ e.ctrl_handled = FALSE
  BY <1>2 DEF NewEntry, ROBEntry, IsDecoded
<1>4. /\ rob' \in Seq(ROBEntry) /\ Len(rob') = n + 1 /\ DOMAIN rob' = 1..(n+1)
      /\ rob'[n+1] = e /\ \A i \in 1..n : rob'[i] = rob[i]
  <2>1. rob' = Append(rob, e) /\ rob \in Seq(ROBEntry)
    BY <1>1 DEF Allocate, RenameTypeOK
  <2> HIDE DEF e
  <2> QED
    BY <2>1, <1>3, AppendProperties, LenProperties
<1> HIDE DEF e
<1>5. RenameTypeOK'
  <2>1. rat' \in [RegFiles -> [Reg -> Nat \cup {NoTag}]]
    BY <1>1, <1>2 DEF RenameTypeOK, Allocate
  <2>2. vec_tag' \in Nat \cup {NoTag}
    BY <1>1, <1>2 DEF RenameTypeOK, Allocate
  <2>3. Len(rob') <= RobSize /\ next_tag' \in 0..TagLimit
    BY <1>1, <1>2, <1>4, RenameAssumption
  <2> QED
    BY <1>4, <2>1, <2>2, <2>3 DEF RenameTypeOK
<1>6. TagsOrdered'
  BY <1>1, <1>2, <1>3, <1>4, SMTT(30) DEF TagsOrdered, TagsGrow, RenameInv
<1>7. RatYoungest'
  <2> SUFFICES ASSUME NEW t \in RegFiles, NEW r \in Reg
               PROVE  IF \E i \in 1..(n+1) : Names(rob'[i], t, r)
                        THEN \E i \in 1..(n+1) :
                               /\ rat'[t][r] = rob'[i].tag
                               /\ Names(rob'[i], t, r)
                               /\ \A j \in 1..(n+1) : Names(rob'[j], t, r) => j <= i
                        ELSE rat'[t][r] = NoTag
    BY <1>4, Zenon DEF RatYoungest
  <2>1. rat'[t][r] = IF Names(e, t, r) THEN next_tag ELSE rat[t][r]
    BY <1>3 DEF Allocate, Names
  <2>2. CASE Names(e, t, r)
    BY <1>1, <1>3, <1>4, <2>1, <2>2
  <2>3. CASE ~Names(e, t, r)
    <3>1. \A i \in 1..(n+1) : Names(rob'[i], t, r) => i \in 1..n /\ Names(rob[i], t, r)
      BY <1>1, <1>4, <2>3
    <3>2. \A i \in 1..n : Names(rob[i], t, r) => i \in 1..(n+1) /\ Names(rob'[i], t, r)
      BY <1>1, <1>4
    <3>3. IF \E i \in 1..n : Names(rob[i], t, r)
            THEN \E i \in 1..n :
                   /\ rat[t][r] = rob[i].tag
                   /\ Names(rob[i], t, r)
                   /\ \A j \in 1..n : Names(rob[j], t, r) => j <= i
            ELSE rat[t][r] = NoTag
      BY <1>1 DEF RenameInv, RatYoungest
    <3> QED
      BY <1>4, <2>1, <2>3, <3>1, <3>2, <3>3
  <2> QED
    BY <2>2, <2>3
<1>8. VecTagYoungest'
  <2> SUFFICES ASSUME vec_tag' # NoTag
               PROVE  \E i \in 1..(n+1) :
                        /\ vec_tag' = rob'[i].tag
                        /\ rob'[i].op \in VSet
                        /\ \A j \in 1..(n+1) : rob'[j].op \in VSet => j <= i
    BY <1>4, Zenon DEF VecTagYoungest
  <2>1. CASE d.op \in VSet
    <3>1. vec_tag' = next_tag
      BY <2>1 DEF Allocate
    <3> QED
      BY <1>1, <1>3, <1>4, <2>1, <3>1
  <2>2. CASE d.op \notin VSet
    <3>1. vec_tag' = vec_tag
      BY <2>2 DEF Allocate
    <3>2. PICK i \in 1..n : /\ vec_tag = rob[i].tag
                            /\ rob[i].op \in VSet
                            /\ \A j \in 1..n : rob[j].op \in VSet => j <= i
      BY <1>1, <3>1 DEF RenameInv, VecTagYoungest
    <3>3. ASSUME NEW j \in 1..(n+1), rob'[j].op \in VSet
          PROVE  j \in 1..n /\ rob[j].op \in VSet
      <4>1. j # n + 1
        BY <1>3, <1>4, <2>2, <3>3
      <4>2. j \in 1..n
        BY <1>1, <4>1
      <4> QED
        BY <1>4, <3>3, <4>2
    <3> QED
      BY <1>1, <1>4, <3>1, <3>2, <3>3
  <2> QED
    BY <2>1, <2>2
<1>9. ResolvedInOrder'
  BY <1>1, <1>3, <1>4 DEF ResolvedInOrder, RenameInv
<1> QED
  BY <1>5, <1>6, <1>7, <1>8, <1>9 DEF RenameInv

-----------------------------------------------------------------------------
\* A step that leaves the tags, operations and destinations in the queue alone
\* disturbs only what is said of results and of handled control instructions.
LEMMA SameShapeInv ==
  ASSUME RenameInv, UNCHANGED <<next_tag, rat, vec_tag>>,
         rob' \in Seq(ROBEntry), Len(rob') = Len(rob),
         \A i \in DOMAIN rob : /\ rob'[i].tag = rob[i].tag
                               /\ rob'[i].op = rob[i].op
                               /\ rob'[i].rd = rob[i].rd
  PROVE  RenameTypeOK' /\ TagsOrdered' /\ RatYoungest' /\ VecTagYoungest'
<1>1. DOMAIN rob' = DOMAIN rob
  BY TypeFacts, LenProperties DEF RenameInv
<1>2. \A i \in DOMAIN rob, t \in RegFiles, r \in Reg :
         Names(rob'[i], t, r) <=> Names(rob[i], t, r)
  BY DEF Names
<1>3. RenameTypeOK'
  BY DEF RenameInv, RenameTypeOK
<1>4. TagsOrdered'
  BY <1>1 DEF RenameInv, TagsOrdered, TagsGrow
<1>5. RatYoungest'
  BY <1>1, <1>2, Zenon DEF RenameInv, RatYoungest
<1>6. VecTagYoungest'
  BY <1>1, Zenon DEF RenameInv, VecTagYoungest
<1> QED
  BY <1>3, <1>4, <1>5, <1>6

\* Writing a result back to an instruction that had none.
LEMMA UpdateInv ==
  ASSUME RenameInv, NEW i \in DOMAIN rob, NEW res \in Result, Update(i, res)
  PROVE  RenameInv'
<1>1. /\ rob \in Seq(ROBEntry)
      /\ \A j \in DOMAIN rob : rob[j] \in ROBEntry
      /\ Len(rob) \in Nat /\ DOMAIN rob = 1..Len(rob)
  BY TypeFacts DEF RenameInv, RenameTypeOK
<1> DEFINE e == [rob[i] EXCEPT !.ready = TRUE, !.result = res]
<1>2. e \in ROBEntry
  BY <1>1 DEF ROBEntry
<1>3. rob' = [rob EXCEPT ![i] = e]
  BY DEF Update
<1>4. /\ rob' \in Seq(ROBEntry) /\ Len(rob') = Len(rob) /\ DOMAIN rob' = DOMAIN rob
      /\ rob'[i] = e /\ \A j \in DOMAIN rob : j # i => rob'[j] = rob[j]
  BY <1>1, <1>2, <1>3, ExceptSeq, LenProperties
<1>5. /\ e.tag = rob[i].tag /\ e.op = rob[i].op /\ e.rd = rob[i].rd
      /\ e.ctrl_handled = rob[i].ctrl_handled /\ e.ready = TRUE
  BY <1>1 DEF ROBEntry
<1> HIDE DEF e
<1>6. UNCHANGED <<next_tag, rat, vec_tag>>
  BY DEF Update
<1>7. RenameTypeOK' /\ TagsOrdered' /\ RatYoungest' /\ VecTagYoungest'
  BY <1>4, <1>5, <1>6, SameShapeInv
<1>8. ResolvedInOrder'
  BY <1>1, <1>4, <1>5 DEF RenameInv, ResolvedInOrder
<1> QED
  BY <1>7, <1>8 DEF RenameInv

\* Marking a correctly predicted control instruction as handled.
LEMMA ResolveInv ==
  ASSUME RenameInv, NEW i \in DOMAIN rob, Resolve(i)
  PROVE  RenameInv'
<1>1. /\ rob \in Seq(ROBEntry)
      /\ \A j \in DOMAIN rob : rob[j] \in ROBEntry
      /\ Len(rob) \in Nat /\ DOMAIN rob = 1..Len(rob)
  BY TypeFacts DEF RenameInv, RenameTypeOK
<1> DEFINE e == [rob[i] EXCEPT !.ctrl_handled = TRUE]
<1>2. e \in ROBEntry
  BY <1>1 DEF ROBEntry
<1>3. rob' = [rob EXCEPT ![i] = e]
  BY DEF Resolve
<1>4. /\ rob' \in Seq(ROBEntry) /\ Len(rob') = Len(rob) /\ DOMAIN rob' = DOMAIN rob
      /\ rob'[i] = e /\ \A j \in DOMAIN rob : j # i => rob'[j] = rob[j]
  BY <1>1, <1>2, <1>3, ExceptSeq, LenProperties
<1>5. /\ e.tag = rob[i].tag /\ e.op = rob[i].op /\ e.rd = rob[i].rd
      /\ e.ctrl_handled = TRUE /\ e.ready = rob[i].ready
  BY <1>1 DEF ROBEntry
<1> HIDE DEF e
<1>6. UNCHANGED <<next_tag, rat, vec_tag>>
  BY DEF Resolve
<1>7. RenameTypeOK' /\ TagsOrdered' /\ RatYoungest' /\ VecTagYoungest'
  BY <1>4, <1>5, <1>6, SameShapeInv
<1>8. /\ rob[i].ready
      /\ \A j \in 1..(i-1) : rob[j].op \in Ctrl => rob[j].ctrl_handled
  BY DEF Resolve, Resolvable
<1>9. ResolvedInOrder'
  <2> SUFFICES ASSUME NEW k \in DOMAIN rob, rob'[k].op \in Ctrl, rob'[k].ctrl_handled
               PROVE  /\ rob'[k].ready
                      /\ \A j \in 1..(k-1) : rob'[j].op \in Ctrl => rob'[j].ctrl_handled
    BY <1>4, Zenon DEF ResolvedInOrder
  <2>1. CASE k = i
    <3>1. rob'[k].ready
      BY <1>4, <1>5, <1>8, <2>1, Zenon
    <3>2. \A j \in 1..(k-1) : j \in DOMAIN rob /\ j # i
      BY <1>1, <2>1
    <3> QED
      BY <1>4, <1>8, <2>1, <3>1, <3>2, Zenon
  <2>2. CASE k # i
    <3>1. /\ rob[k].ready
          /\ \A j \in 1..(k-1) : rob[j].op \in Ctrl => rob[j].ctrl_handled
      BY <1>4, <2>2 DEF RenameInv, ResolvedInOrder
    <3> QED
      BY <1>1, <1>4, <1>5, <2>2, <3>1, SMTT(30)
  <2> QED
    BY <2>1, <2>2
<1> QED
  BY <1>7, <1>9 DEF RenameInv

-----------------------------------------------------------------------------
\* Rebuilding the alias tables from a queue makes them name the youngest writers.
LEMMA RebuiltIsYoungest ==
  ASSUME NEW q, NEW n \in Nat, DOMAIN q = 1..n, NEW t \in RegFiles, NEW r \in Reg
  PROVE  IF \E i \in DOMAIN q : Names(q[i], t, r)
           THEN \E i \in DOMAIN q :
                  /\ Rebuilt(q)[t][r] = q[i].tag
                  /\ Names(q[i], t, r)
                  /\ \A j \in DOMAIN q : Names(q[j], t, r) => j <= i
           ELSE Rebuilt(q)[t][r] = NoTag
<1> DEFINE writers == {i \in DOMAIN q : Names(q[i], t, r)}
<1>1. Rebuilt(q)[t][r] = IF writers = {} THEN NoTag ELSE q[Max(writers)].tag
  BY DEF Rebuilt
<1>2. writers # {} => /\ Max(writers) \in writers
                      /\ \A i \in writers : i <= Max(writers)
  BY MaxOfIndices
<1> QED
  BY <1>1, <1>2

\* A misprediction: what is left of the queue, the rebuilt tables and the vset tag
\* agree again.
LEMMA MispredictInv ==
  ASSUME RenameInv, NEW i \in DOMAIN rob, Mispredict(i)
  PROVE  RenameInv'
<1>1. /\ rob \in Seq(ROBEntry)
      /\ \A j \in DOMAIN rob : rob[j] \in ROBEntry /\ rob[j].tag \in Nat
      /\ Len(rob) \in Nat /\ DOMAIN rob = 1..Len(rob)
  BY TypeFacts DEF RenameInv, RenameTypeOK
<1> DEFINE e == [rob[i] EXCEPT !.ctrl_handled = TRUE]
           q == [rob EXCEPT ![i] = e]
<1>2. e \in ROBEntry
  BY <1>1 DEF ROBEntry
<1>3. /\ q \in Seq(ROBEntry) /\ Len(q) = Len(rob) /\ DOMAIN q = DOMAIN rob
      /\ q[i] = e /\ \A j \in DOMAIN rob : j # i => q[j] = rob[j]
  BY <1>1, <1>2, ExceptSeq, LenProperties
<1>4. /\ e.tag = rob[i].tag /\ e.op = rob[i].op /\ e.rd = rob[i].rd
      /\ e.ctrl_handled = TRUE /\ e.ready = rob[i].ready
  BY <1>1 DEF ROBEntry
<1>5. /\ rob' = FlushAfter(q, q[i].tag)
      /\ rat' = Rebuilt(rob')
      /\ vec_tag' = IF vec_tag > rob[i].tag THEN NoTag ELSE vec_tag
      /\ next_tag' = next_tag
  BY <1>3, <1>4 DEF Mispredict
<1>6. Resolvable(i)
  BY DEF Mispredict
<1> HIDE DEF e, q
<1>7. \A j \in DOMAIN rob : /\ q[j].tag = rob[j].tag /\ q[j].op = rob[j].op
                            /\ q[j].rd = rob[j].rd /\ q[j].ready = rob[j].ready
                            /\ j # i => q[j].ctrl_handled = rob[j].ctrl_handled
  BY <1>3, <1>4
<1>8. TagsGrow(q)
  BY <1>3, <1>7 DEF TagsGrow, TagsOrdered, RenameInv
<1>9. /\ rob' \in Seq(ROBEntry) /\ Len(rob') = i /\ DOMAIN rob' = 1..i
      /\ \A k \in 1..i : rob'[k] = q[k]
  <2>1. \A k \in DOMAIN q : q[k].tag \in Int
    BY <1>1, <1>3, <1>7
  <2>2. /\ FlushAfter(q, q[i].tag) = SubSeq(q, 1, i)
        /\ SubSeq(q, 1, i) \in Seq(ROBEntry)
        /\ Len(SubSeq(q, 1, i)) = i
        /\ DOMAIN SubSeq(q, 1, i) = 1..i
        /\ \A k \in 1..i : SubSeq(q, 1, i)[k] = q[k]
    BY <1>3, <1>8, <2>1, FlushAfterEntry, Zenon
  <2>3. rob' = SubSeq(q, 1, i)
    BY <1>5, <2>2
  <2> QED
    BY <2>2, <2>3, Zenon
<1>10. i \in Nat /\ i <= Len(rob) /\ 1..i \subseteq DOMAIN rob
  BY <1>1
<1>11. RenameTypeOK'
  <2>1. rat' \in [RegFiles -> [Reg -> Nat \cup {NoTag}]]
    <3> SUFFICES ASSUME NEW t \in RegFiles, NEW r \in Reg
                 PROVE  Rebuilt(rob')[t][r] \in Nat \cup {NoTag}
      BY <1>5 DEF Rebuilt
    <3>1. \A k \in DOMAIN rob' : rob'[k].tag \in Nat
      BY <1>1, <1>7, <1>9, <1>10
    <3> QED
      BY <1>9, <1>10, <3>1, RebuiltIsYoungest
  <2>2. vec_tag' \in Nat \cup {NoTag}
    BY <1>5 DEF RenameInv, RenameTypeOK
  <2>3. Len(rob') <= RobSize
    BY <1>1, <1>9, <1>10, RenameAssumption DEF RenameInv, RenameTypeOK
  <2> QED
    BY <1>5, <1>9, <2>1, <2>2, <2>3 DEF RenameInv, RenameTypeOK
<1>12. TagsOrdered'
  BY <1>5, <1>7, <1>9, <1>10 DEF RenameInv, TagsOrdered, TagsGrow
<1>13. RatYoungest'
  <2> SUFFICES ASSUME NEW t \in RegFiles, NEW r \in Reg
               PROVE  IF \E k \in DOMAIN rob' : Names(rob'[k], t, r)
                        THEN \E k \in DOMAIN rob' :
                               /\ rat'[t][r] = rob'[k].tag
                               /\ Names(rob'[k], t, r)
                               /\ \A j \in DOMAIN rob' : Names(rob'[j], t, r) => j <= k
                        ELSE rat'[t][r] = NoTag
    BY Zenon DEF RatYoungest
  <2> QED
    BY <1>5, <1>9, <1>10, RebuiltIsYoungest
<1>14. VecTagYoungest'
  <2> SUFFICES ASSUME vec_tag' # NoTag
               PROVE  \E k \in 1..i :
                        /\ vec_tag' = rob'[k].tag
                        /\ rob'[k].op \in VSet
                        /\ \A j \in 1..i : rob'[j].op \in VSet => j <= k
    BY <1>9, Zenon DEF VecTagYoungest
  <2>1. vec_tag' = vec_tag /\ ~(vec_tag > rob[i].tag)
    BY <1>5
  <2>2. PICK k \in DOMAIN rob : /\ vec_tag = rob[k].tag
                                /\ rob[k].op \in VSet
                                /\ \A j \in DOMAIN rob : rob[j].op \in VSet => j <= k
    BY <2>1 DEF RenameInv, VecTagYoungest
  <2>3. k <= i
    BY <1>1, <2>1, <2>2 DEF RenameInv, TagsOrdered, TagsGrow
  <2>4. k \in 1..i
    BY <1>1, <2>3
  <2> QED
    BY <1>7, <1>9, <1>10, <2>1, <2>2, <2>4
<1>15. ResolvedInOrder'
  <2> SUFFICES ASSUME NEW k \in 1..i, rob'[k].op \in Ctrl, rob'[k].ctrl_handled
               PROVE  /\ rob'[k].ready
                      /\ \A j \in 1..(k-1) : rob'[j].op \in Ctrl => rob'[j].ctrl_handled
    BY <1>9, Zenon DEF ResolvedInOrder
  <2>1. \A j \in 1..(k-1) : j \in 1..i /\ j \in DOMAIN rob /\ j # i /\ j \in 1..(i-1)
    BY <1>1, <1>10
  <2>2. \A j \in 1..(k-1) : rob'[j].op \in Ctrl => rob'[j].ctrl_handled
    <3>1. \A j \in 1..(i-1) : rob[j].op \in Ctrl => rob[j].ctrl_handled
      BY <1>6 DEF Resolvable
    <3> QED
      BY <1>7, <1>9, <2>1, <3>1, Zenon
  <2>3. rob'[k].ready
    <3>1. CASE k = i
      <4>1. rob[i].ready
        BY <1>6 DEF Resolvable
      <4> QED
        BY <1>7, <1>9, <3>1, <4>1, Zenon
    <3>2. CASE k # i
      <4>1. k \in DOMAIN rob /\ rob[k].op \in Ctrl /\ rob[k].ctrl_handled
        BY <1>7, <1>9, <1>10, <3>2
      <4>2. rob[k].ready
        BY <4>1 DEF RenameInv, ResolvedInOrder
      <4> QED
        BY <1>7, <1>9, <4>1, <4>2, Zenon
    <3> QED
      BY <3>1, <3>2
  <2> QED
    BY <2>2, <2>3
<1> QED
  BY <1>11, <1>12, <1>13, <1>14, <1>15 DEF RenameInv

\* Committing the head: a table that names it loses its entry, and no other.
LEMMA RetireInv ==
  ASSUME RenameInv, Retire
  PROVE  RenameInv'
<1> DEFINE n == Len(rob)
           e == rob[1]
<1>1. /\ rob \in Seq(ROBEntry)
      /\ \A j \in DOMAIN rob : rob[j] \in ROBEntry /\ rob[j].tag \in Nat
      /\ n \in Nat /\ DOMAIN rob = 1..n
  BY TypeFacts DEF RenameInv, RenameTypeOK
<1>2. n >= 1 /\ Head(rob) = e
  BY <1>1 DEF Retire
<1>3. /\ rob' \in Seq(ROBEntry) /\ Len(rob') = n - 1 /\ DOMAIN rob' = 1..(n-1)
      /\ \A k \in 1..(n-1) : rob'[k] = rob[k+1]
  <2>1. rob' = Tail(rob) /\ rob # <<>>
    BY DEF Retire
  <2> QED
    BY <1>1, <1>2, <2>1, HeadTailProperties, LenProperties
<1>4. /\ next_tag' = next_tag
      /\ rat' = [t \in RegFiles |-> [r \in Reg |->
                   IF Names(e, t, r) /\ rat[t][r] = e.tag THEN NoTag ELSE rat[t][r]]]
      /\ vec_tag' = IF e.op \in VSet /\ vec_tag = e.tag THEN NoTag ELSE vec_tag
  BY <1>2 DEF Retire
<1> HIDE DEF e, n
<1>5. \A j \in 2..n : /\ j \in DOMAIN rob /\ e.tag < rob[j].tag
                      /\ j - 1 \in 1..(n-1) /\ rob'[j-1] = rob[j]
  <2> SUFFICES ASSUME NEW j \in 2..n
               PROVE  /\ j \in DOMAIN rob /\ e.tag < rob[j].tag
                      /\ j - 1 \in 1..(n-1) /\ rob'[j-1] = rob[j]
    OBVIOUS
  <2>1. j \in DOMAIN rob /\ 1 \in DOMAIN rob /\ j - 1 \in 1..(n-1) /\ (j - 1) + 1 = j
    BY <1>1, <1>2
  <2>2. rob[1].tag < rob[j].tag
    BY <2>1 DEF RenameInv, TagsOrdered, TagsGrow
  <2>3. rob'[j-1] = rob[(j-1)+1]
    BY <1>3, <2>1
  <2> QED
    BY <2>1, <2>2, <2>3 DEF e
<1>6. \A k \in 1..(n-1) : k + 1 \in 2..n /\ rob'[k] = rob[k+1]
  BY <1>1, <1>2, <1>3
<1>7. DOMAIN rob = {1} \cup 2..n /\ 1 \in DOMAIN rob
  BY <1>1, <1>2
<1>8. RenameTypeOK'
  <2>1. rat' \in [RegFiles -> [Reg -> Nat \cup {NoTag}]]
    BY <1>4 DEF RenameInv, RenameTypeOK
  <2>2. vec_tag' \in Nat \cup {NoTag}
    BY <1>4 DEF RenameInv, RenameTypeOK
  <2>3. Len(rob') <= RobSize
    BY <1>1, <1>3, RenameAssumption DEF RenameInv, RenameTypeOK, n
  <2> QED
    BY <1>3, <1>4, <2>1, <2>2, <2>3 DEF RenameInv, RenameTypeOK
<1>9. TagsOrdered'
  <2>1. TagsGrow(rob')
    <3> SUFFICES ASSUME NEW i \in 1..(n-1), NEW j \in 1..(n-1), i < j
                 PROVE  rob'[i].tag < rob'[j].tag
      BY <1>3 DEF TagsGrow
    <3>1. i + 1 \in DOMAIN rob /\ j + 1 \in DOMAIN rob /\ i + 1 < j + 1
      BY <1>1, <1>2
    <3>2. rob[i+1].tag < rob[j+1].tag
      BY <3>1 DEF RenameInv, TagsOrdered, TagsGrow
    <3> QED
      BY <1>6, <3>2
  <2>2. \A k \in 1..(n-1) : rob'[k].tag < next_tag
    BY <1>5, <1>6 DEF RenameInv, TagsOrdered
  <2> QED
    BY <1>3, <1>4, <2>1, <2>2 DEF TagsOrdered
<1>10. RatYoungest'
  <2> SUFFICES ASSUME NEW t \in RegFiles, NEW r \in Reg
               PROVE  IF \E k \in 1..(n-1) : Names(rob'[k], t, r)
                        THEN \E k \in 1..(n-1) :
                               /\ rat'[t][r] = rob'[k].tag
                               /\ Names(rob'[k], t, r)
                               /\ \A j \in 1..(n-1) : Names(rob'[j], t, r) => j <= k
                        ELSE rat'[t][r] = NoTag
    BY <1>3, Zenon DEF RatYoungest
  <2>1. rat'[t][r] = IF Names(e, t, r) /\ rat[t][r] = e.tag THEN NoTag ELSE rat[t][r]
    BY <1>4
  <2>2. CASE \E k \in 2..n : Names(rob[k], t, r)
    <3>1. PICK i \in DOMAIN rob : /\ rat[t][r] = rob[i].tag
                                  /\ Names(rob[i], t, r)
                                  /\ \A j \in DOMAIN rob : Names(rob[j], t, r) => j <= i
      BY <1>7, <2>2 DEF RenameInv, RatYoungest
    <3>2. i \in 2..n
      BY <1>1, <1>7, <2>2, <3>1
    <3>3. rat'[t][r] = rob'[i-1].tag /\ Names(rob'[i-1], t, r) /\ i - 1 \in 1..(n-1)
      BY <1>1, <1>5, <1>7, <2>1, <3>1, <3>2
    <3>4. \A j \in 1..(n-1) : Names(rob'[j], t, r) => j <= i - 1
      BY <1>1, <1>6, <1>7, <3>1, <3>2, SMTT(30)
    <3> QED
      BY <3>3, <3>4
  <2>3. CASE ~ \E k \in 2..n : Names(rob[k], t, r)
    <3>1. \A k \in 1..(n-1) : ~Names(rob'[k], t, r)
      BY <1>6, <2>3
    <3>2. rat'[t][r] = NoTag
      <4>1. CASE Names(e, t, r)
        <5>1. PICK i \in DOMAIN rob : rat[t][r] = rob[i].tag /\ Names(rob[i], t, r)
          BY <1>7, <4>1 DEF RenameInv, RatYoungest, e
        <5>2. i = 1
          BY <1>7, <2>3, <5>1
        <5> QED
          BY <2>1, <4>1, <5>1, <5>2 DEF e
      <4>2. CASE ~Names(e, t, r)
        <5>1. ~ \E k \in DOMAIN rob : Names(rob[k], t, r)
          BY <1>7, <2>3, <4>2 DEF e
        <5>2. rat[t][r] = NoTag
          BY <5>1 DEF RenameInv, RatYoungest
        <5> QED
          BY <2>1, <4>2, <5>2
      <4> QED
        BY <4>1, <4>2
    <3> QED
      BY <3>1, <3>2
  <2> QED
    BY <2>2, <2>3
<1>11. VecTagYoungest'
  <2> SUFFICES ASSUME vec_tag' # NoTag
               PROVE  \E k \in 1..(n-1) :
                        /\ vec_tag' = rob'[k].tag
                        /\ rob'[k].op \in VSet
                        /\ \A j \in 1..(n-1) : rob'[j].op \in VSet => j <= k
    BY <1>3, Zenon DEF VecTagYoungest
  <2>1. vec_tag' = vec_tag /\ ~(e.op \in VSet /\ vec_tag = e.tag)
    BY <1>4
  <2>2. PICK i \in DOMAIN rob : /\ vec_tag = rob[i].tag
                                /\ rob[i].op \in VSet
                                /\ \A j \in DOMAIN rob : rob[j].op \in VSet => j <= i
    BY <2>1 DEF RenameInv, VecTagYoungest
  <2>3. i \in 2..n
    BY <1>7, <2>1, <2>2 DEF e
  <2>4. vec_tag' = rob'[i-1].tag /\ rob'[i-1].op \in VSet /\ i - 1 \in 1..(n-1)
    BY <1>5, <2>1, <2>2, <2>3
  <2>5. \A j \in 1..(n-1) : rob'[j].op \in VSet => j <= i - 1
    BY <1>1, <1>6, <1>7, <2>2, <2>3, SMTT(30)
  <2> QED
    BY <2>4, <2>5
<1>12. ResolvedInOrder'
  <2> SUFFICES ASSUME NEW k \in 1..(n-1), rob'[k].op \in Ctrl, rob'[k].ctrl_handled
               PROVE  /\ rob'[k].ready
                      /\ \A j \in 1..(k-1) : rob'[j].op \in Ctrl => rob'[j].ctrl_handled
    BY <1>3, Zenon DEF ResolvedInOrder
  <2>1. /\ rob[k+1].ready
        /\ \A j \in 1..k : rob[j].op \in Ctrl => rob[j].ctrl_handled
    <3>1. k + 1 \in DOMAIN rob /\ (k + 1) - 1 = k /\ rob'[k] = rob[k+1]
      BY <1>6, <1>7
    <3> QED
      BY <3>1 DEF RenameInv, ResolvedInOrder
  <2>2. \A j \in 1..(k-1) : j + 1 \in 1..k /\ rob'[j] = rob[j+1]
    BY <1>1, <1>6
  <2> QED
    BY <1>6, <2>1, <2>2
<1> QED
  BY <1>8, <1>9, <1>10, <1>11, <1>12 DEF RenameInv

-----------------------------------------------------------------------------
\* Every step of the re-order buffer and alias tables preserves the invariant.
LEMMA RenameNextInv == RenameInv /\ [RenameNext]_renameVars => RenameInv'
<1> SUFFICES ASSUME RenameInv, [RenameNext]_renameVars PROVE RenameInv'
  OBVIOUS
<1>1. ASSUME NEW d \in Decoded, Dispatch(d) PROVE RenameInv'
  <2>1. IsDecoded(d)
    BY RenameAssumption DEF IsDecoded, DecodeEntry
  <2> QED
    BY <1>1, <2>1, AllocateInv DEF Dispatch
<1>2. ASSUME NEW i \in DOMAIN rob, NEW res \in Outcome, Writeback(i, res)
      PROVE  RenameInv'
  BY <1>2, UpdateInv, RenameAssumption DEF Writeback
<1>3. ASSUME NEW i \in DOMAIN rob, Resolve(i) PROVE RenameInv'
  BY <1>3, ResolveInv
<1>4. ASSUME NEW i \in DOMAIN rob, Mispredict(i) PROVE RenameInv'
  BY <1>4, MispredictInv
<1>5. CASE Commit
  BY <1>5, RetireInv DEF Commit
<1>6. CASE UNCHANGED renameVars
  <2>1. UNCHANGED <<rob, next_tag, rat, vec_tag>>
    BY <1>6 DEF renameVars
  <2> QED
    BY <2>1 DEF RenameInv, RenameTypeOK, TagsOrdered, TagsGrow, RatYoungest, Names,
                VecTagYoungest, ResolvedInOrder
<1> QED
  BY <1>1, <1>2, <1>3, <1>4, <1>5, <1>6 DEF RenameNext

\* The re-order buffer, the alias tables and the vset tag stay consistent for
\* every program, every order of results and every sequence of mispredictions.
THEOREM RenameInvariant == RenameSpec => []RenameInv
<1>1. RenameInit => RenameInv
  BY RenameInitInv
<1>2. RenameInv /\ [RenameNext]_renameVars => RenameInv'
  BY RenameNextInv
<1> QED
  BY <1>1, <1>2, PTL DEF RenameSpec

\* Types: the queue never outgrows max_size, tables hold tags or NoTag.
THEOREM RenameTypes == RenameSpec => []RenameTypeOK
<1>1. RenameInv => RenameTypeOK
  BY DEF RenameInv
<1> QED
  BY <1>1, RenameInvariant, PTL

\* Tags grow along the re-order buffer, and the next one is younger than all.
THEOREM RenameTagsOrdered == RenameSpec => []TagsOrdered
<1>1. RenameInv => TagsOrdered
  BY DEF RenameInv
<1> QED
  BY <1>1, RenameInvariant, PTL

\* Every alias table names exactly the youngest writers in flight, so an operand
\* is always read from, or waits for, the right producer.
THEOREM AliasTablesNameYoungest == RenameSpec => []RatYoungest
<1>1. RenameInv => RatYoungest
  BY DEF RenameInv
<1> QED
  BY <1>1, RenameInvariant, PTL

\* The vset tag, when set, is the youngest vset in flight.
THEOREM VecTagIsYoungest == RenameSpec => []VecTagYoungest
<1>1. RenameInv => VecTagYoungest
  BY DEF RenameInv
<1> QED
  BY <1>1, RenameInvariant, PTL

\* Control instructions are resolved in program order.
THEOREM ControlInOrder == RenameSpec => []ResolvedInOrder
<1>1. RenameInv => ResolvedInOrder
  BY DEF RenameInv
<1> QED
  BY <1>1, RenameInvariant, PTL

\* A misprediction leaves the entries up to the branch, with their instructions.
LEMMA MispredictLeaves ==
  ASSUME RenameInv, NEW i \in DOMAIN rob, Mispredict(i)
  PROVE  DOMAIN rob' = 1..i /\ \A k \in 1..i : rob'[k].op = rob[k].op
<1>1. /\ rob \in Seq(ROBEntry)
      /\ \A j \in DOMAIN rob : rob[j] \in ROBEntry /\ rob[j].tag \in Nat
      /\ Len(rob) \in Nat /\ DOMAIN rob = 1..Len(rob)
  BY TypeFacts DEF RenameInv, RenameTypeOK
<1> DEFINE e == [rob[i] EXCEPT !.ctrl_handled = TRUE]
           q == [rob EXCEPT ![i] = e]
<1>2. e \in ROBEntry /\ e.tag = rob[i].tag /\ e.op = rob[i].op
  BY <1>1 DEF ROBEntry
<1>3. /\ q \in Seq(ROBEntry) /\ Len(q) = Len(rob) /\ DOMAIN q = DOMAIN rob
      /\ q[i] = e /\ \A j \in DOMAIN rob : j # i => q[j] = rob[j]
  BY <1>1, <1>2, ExceptSeq, LenProperties
<1>4. rob' = FlushAfter(q, q[i].tag)
  BY <1>2, <1>3 DEF Mispredict
<1> HIDE DEF e, q
<1>5. \A j \in DOMAIN q : q[j].tag = rob[j].tag /\ q[j].tag \in Int /\ q[j].op = rob[j].op
  BY <1>1, <1>2, <1>3
<1>6. TagsGrow(q)
  BY <1>3, <1>5 DEF TagsGrow, TagsOrdered, RenameInv
<1>7. /\ FlushAfter(q, q[i].tag) = SubSeq(q, 1, i)
      /\ DOMAIN SubSeq(q, 1, i) = 1..i
      /\ \A k \in 1..i : SubSeq(q, 1, i)[k] = q[k]
  BY <1>3, <1>5, <1>6, FlushAfterEntry, Zenon
<1>8. 1..i \subseteq DOMAIN q
  BY <1>1, <1>3
<1> QED
  BY <1>4, <1>5, <1>7, <1>8

\* A vset in flight is forgotten by the flush of a younger one, and in no other way:
\* whatever results come back and however many older vsets commit, a vset tag that
\* is not set means that the committed vl and sew are the newest.
THEOREM VsetsAreForgottenByFlush == RenameSpec => VsetsForgottenByFlush
<1> DEFINE Drops == \E i, j \in DOMAIN rob : i < j /\ Mispredict(i) /\ rob[j].op \in VSet
<1>1. RenameInv /\ [RenameNext]_renameVars => [VsetKnown /\ ~VsetKnown' => Drops]_renameVars
  <2> SUFFICES ASSUME RenameInv, RenameNext, VsetKnown, vec_tag' = NoTag, ~Drops
               PROVE  \A k \in DOMAIN rob' : rob'[k].op \notin VSet
    BY DEF VsetKnown
  <2> HIDE DEF Drops
  <2>1. /\ rob \in Seq(ROBEntry) /\ Len(rob) \in Nat /\ DOMAIN rob = 1..Len(rob)
        /\ \A i \in DOMAIN rob : rob[i] \in ROBEntry /\ rob[i].tag \in Nat
    BY TypeFacts DEF RenameInv, RenameTypeOK
  <2>2. vec_tag = NoTag => \A k \in DOMAIN rob : rob[k].op \notin VSet
    BY DEF VsetKnown
  <2>3. vec_tag # NoTag =>
          \E k \in DOMAIN rob : /\ vec_tag = rob[k].tag
                                /\ rob[k].op \in VSet
                                /\ \A j \in DOMAIN rob : rob[j].op \in VSet => j <= k
    BY DEF RenameInv, VecTagYoungest
  <2>4. ASSUME NEW d \in Decoded, Dispatch(d)
        PROVE  \A k \in DOMAIN rob' : rob'[k].op \notin VSet
    <3>1. /\ rob' = Append(rob, NewEntry(d, next_tag))
          /\ vec_tag' = IF d.op \in VSet THEN next_tag ELSE vec_tag
      BY <2>4 DEF Dispatch, Allocate
    <3>2. next_tag \in Nat
      BY RenameAssumption DEF RenameInv, RenameTypeOK
    <3>3. d.op \notin VSet /\ vec_tag = NoTag
      BY <3>1, <3>2 DEF NoTag
    <3>4. NewEntry(d, next_tag).op \notin VSet
      BY <3>3 DEF NewEntry
    <3>5. \A k \in DOMAIN rob' :
            (k \in DOMAIN rob /\ rob'[k] = rob[k]) \/ rob'[k] = NewEntry(d, next_tag)
      BY <2>1, <3>1
    <3> QED
      BY <2>2, <3>3, <3>4, <3>5
  <2>5. ASSUME NEW i \in DOMAIN rob, NEW res \in Outcome, Writeback(i, res)
        PROVE  \A k \in DOMAIN rob' : rob'[k].op \notin VSet
    <3>1. vec_tag = NoTag /\ rob' = [rob EXCEPT ![i].ready = TRUE, ![i].result = res]
      BY <2>5 DEF Writeback, Update
    <3>2. DOMAIN rob' = DOMAIN rob /\ \A k \in DOMAIN rob : rob'[k].op = rob[k].op
      BY <2>1, <3>1 DEF ROBEntry
    <3> QED
      BY <2>2, <3>1, <3>2
  <2>6. ASSUME NEW i \in DOMAIN rob, Resolve(i)
        PROVE  \A k \in DOMAIN rob' : rob'[k].op \notin VSet
    <3>1. vec_tag = NoTag /\ rob' = [rob EXCEPT ![i].ctrl_handled = TRUE]
      BY <2>6 DEF Resolve
    <3>2. DOMAIN rob' = DOMAIN rob /\ \A k \in DOMAIN rob : rob'[k].op = rob[k].op
      BY <2>1, <3>1 DEF ROBEntry
    <3> QED
      BY <2>2, <3>1, <3>2
  <2>7. ASSUME NEW i \in DOMAIN rob, Mispredict(i)
        PROVE  \A k \in DOMAIN rob' : rob'[k].op \notin VSet
    <3>1. DOMAIN rob' = 1..i /\ \A k \in 1..i : rob'[k].op = rob[k].op
      BY <2>7, MispredictLeaves
    <3>2. 1..i \subseteq DOMAIN rob
      BY <2>1
    <3>3. vec_tag = NoTag
      <4> SUFFICES ASSUME vec_tag # NoTag PROVE FALSE
        OBVIOUS
      <4>1. PICK j \in DOMAIN rob : vec_tag = rob[j].tag /\ rob[j].op \in VSet
        BY <2>3
      <4>2. vec_tag > rob[i].tag
        BY <2>7 DEF Mispredict
      <4>3. i < j
        BY <2>1, <4>1, <4>2 DEF RenameInv, TagsOrdered, TagsGrow
      <4> QED
        BY <2>7, <4>1, <4>3 DEF Drops
    <3> QED
      BY <2>2, <3>1, <3>2, <3>3
  <2>8. ASSUME Commit
        PROVE  \A k \in DOMAIN rob' : rob'[k].op \notin VSet
    <3>1. /\ rob # <<>> /\ rob' = Tail(rob)
          /\ vec_tag' = IF Head(rob).op \in VSet /\ vec_tag = Head(rob).tag
                        THEN NoTag ELSE vec_tag
      BY <2>8 DEF Commit, Retire
    <3>2. /\ Head(rob) = rob[1] /\ 1 \in DOMAIN rob
          /\ \A k \in DOMAIN rob' : /\ k \in Nat /\ k > 0 /\ k + 1 \in DOMAIN rob
                                    /\ rob'[k] = rob[k + 1]
      BY <2>1, <3>1
    <3>3. \A k \in DOMAIN rob : k > 1 => rob[k].op \notin VSet
      <4>1. CASE vec_tag = NoTag
        BY <2>2, <4>1
      <4>2. CASE vec_tag # NoTag
        <5>1. vec_tag = rob[1].tag
          BY <3>1, <3>2, <4>2
        <5>2. PICK n \in DOMAIN rob : /\ vec_tag = rob[n].tag
                                      /\ \A j \in DOMAIN rob : rob[j].op \in VSet => j <= n
          BY <2>3, <4>2
        <5>3. n = 1
          <6>1. 1 < n => rob[1].tag < rob[n].tag
            BY <3>2 DEF RenameInv, TagsOrdered, TagsGrow
          <6>2. rob[1].tag = rob[n].tag /\ rob[1].tag \in Nat
            BY <2>1, <3>2, <5>1, <5>2
          <6>3. n \in Nat /\ 1 <= n
            BY <2>1
          <6> QED
            BY <6>1, <6>2, <6>3
        <5> QED
          BY <2>1, <5>2, <5>3
      <4> QED
        BY <4>1, <4>2
    <3> QED
      BY <3>2, <3>3
  <2> QED
    BY <2>4, <2>5, <2>6, <2>7, <2>8 DEF RenameNext
<1> QED
  BY <1>1, RenameInvariant, PTL DEF VsetsForgottenByFlush, RenameSpec
=============================================================================
