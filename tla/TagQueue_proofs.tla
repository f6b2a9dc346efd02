-------------------------- MODULE TagQueue_proofs --------------------------
(***************************************************************************)
(* Facts about queues whose tags grow, used in the proofs about the        *)
(* re-order buffer and the load/store queue.                               *)
(***************************************************************************)
EXTENDS TagQueue, SequenceTheorems, FiniteSetTheorems, WellFoundedInduction, TLAPS

LessThan == {p \in Nat \X Nat : p[1] < p[2]}

\* A non-empty set of indices has a greatest one, and Max returns it.
LEMMA MaxOfIndices ==
  ASSUME NEW n \in Nat, NEW S \in SUBSET (1..n), S # {}
  PROVE  /\ Max(S) \in S
         /\ \A i \in S : i <= Max(S)
<1> DEFINE T == {n - i : i \in S}
<1>0. IsWellFoundedOn(LessThan, Nat)
  BY NatLessThanWellFounded DEF OpToRel, LessThan
<1>1. T \subseteq Nat
  <2> SUFFICES ASSUME NEW i \in S PROVE n - i \in Nat
    OBVIOUS
  <2>1. i \in 1..n
    OBVIOUS
  <2> QED
    BY <2>1
<1>2. T # {}
  OBVIOUS
<1>3. \E x \in T : \A y \in T : x <= y
  <2> HIDE DEF T
  <2>1. PICK x \in T : \A y \in T : <<y, x>> \notin LessThan
    BY <1>0, <1>1, <1>2, WFMin, Zenon
  <2>2. \A y \in T : ~(y < x)
    BY <1>1, <2>1 DEF LessThan
  <2> QED
    BY <1>1, <2>2
<1>4. PICK x \in T : \A y \in T : x <= y
  BY <1>3
<1>5. PICK m \in S : x = n - m
  OBVIOUS
<1>6. \A i \in S : m >= i
  <2> SUFFICES ASSUME NEW i \in S PROVE m >= i
    OBVIOUS
  <2>1. n - i \in T
    OBVIOUS
  <2>2. x <= n - i
    BY <1>4, <2>1
  <2> QED
    BY <1>5, <2>2
<1>7. Max(S) \in S /\ \A y \in S : Max(S) >= y
  BY <1>5, <1>6 DEF Max
<1> QED
  BY <1>7

\* Flushing behind the entry at position i keeps exactly the first i entries.
LEMMA FlushAfterEntry ==
  ASSUME NEW E, NEW q \in Seq(E), \A k \in DOMAIN q : q[k].tag \in Int,
         TagsGrow(q), NEW i \in DOMAIN q
  PROVE  /\ FlushAfter(q, q[i].tag) = SubSeq(q, 1, i)
         /\ SubSeq(q, 1, i) \in Seq(E)
         /\ Len(SubSeq(q, 1, i)) = i
         /\ DOMAIN SubSeq(q, 1, i) = 1..i
         /\ \A k \in 1..i : SubSeq(q, 1, i)[k] = q[k]
<1>1. DOMAIN q = 1..Len(q) /\ Len(q) \in Nat /\ i \in 1..Len(q)
  BY LenProperties
<1>2. {k \in DOMAIN q : q[k].tag <= q[i].tag} = 1..i
  <2>1. ASSUME NEW k \in DOMAIN q, k <= i PROVE q[k].tag <= q[i].tag
    BY <1>1, <2>1 DEF TagsGrow
  <2>2. ASSUME NEW k \in DOMAIN q, q[k].tag <= q[i].tag PROVE k <= i
    BY <1>1, <2>2 DEF TagsGrow
  <2> QED
    BY <1>1, <2>1, <2>2
<1>3. Cardinality(1..i) = i
  BY <1>1, FS_Interval
<1>4. \A k \in 1..i : q[k] \in E
  BY <1>1, ElementOfSeq
<1>5. /\ SubSeq(q, 1, i) \in Seq(E)
      /\ Len(SubSeq(q, 1, i)) = i
      /\ \A k \in 1..i : SubSeq(q, 1, i)[k] = q[k]
  BY <1>1, <1>4, SubSeqProperties
<1>6. DOMAIN SubSeq(q, 1, i) = 1..i
  BY <1>5, LenProperties
<1> QED
  BY <1>2, <1>3, <1>5, <1>6 DEF FlushAfter

\* Flushing behind any tag keeps, in place, the entries whose tags are not greater,
\* and no others: the prefix is what remove_if leaves.
LEMMA FlushAfterKeeps ==
  ASSUME NEW E, NEW q \in Seq(E), \A k \in DOMAIN q : q[k].tag \in Int,
         TagsGrow(q), NEW tag \in Int
  PROVE  \E i \in 0..Len(q) :
           /\ FlushAfter(q, tag) \in Seq(E)
           /\ Len(FlushAfter(q, tag)) = i
           /\ DOMAIN FlushAfter(q, tag) = 1..i
           /\ \A k \in 1..i : FlushAfter(q, tag)[k] = q[k]
           /\ \A k \in DOMAIN q : q[k].tag <= tag <=> k <= i
<1> DEFINE kept == {k \in DOMAIN q : q[k].tag <= tag}
<1>1. DOMAIN q = 1..Len(q) /\ Len(q) \in Nat
  BY LenProperties
<1>2. CASE kept = {}
  <2>1. Cardinality(kept) = 0
    BY <1>2, FS_EmptySet
  <2>2. FlushAfter(q, tag) = SubSeq(q, 1, 0)
    BY <2>1 DEF FlushAfter
  <2>3. SubSeq(q, 1, 0) = <<>>
    BY <1>1, SubSeqProperties, EmptySeq
  <2> QED
    BY <1>1, <1>2, <2>2, <2>3
<1>3. CASE kept # {}
  <2>1. PICK i \in kept : \A k \in kept : k <= i
    BY <1>1, <1>3, MaxOfIndices
  <2>2. kept = {k \in DOMAIN q : q[k].tag <= q[i].tag}
    <3>1. ASSUME NEW k \in DOMAIN q, q[k].tag <= q[i].tag PROVE q[k].tag <= tag
      BY <2>1, <3>1
    <3>2. ASSUME NEW k \in DOMAIN q, q[k].tag <= tag PROVE q[k].tag <= q[i].tag
      BY <1>1, <2>1, <3>2 DEF TagsGrow
    <3> QED
      BY <3>1, <3>2
  <2>3. FlushAfter(q, tag) = FlushAfter(q, q[i].tag)
    BY <2>2 DEF FlushAfter
  <2>4. \A k \in DOMAIN q : q[k].tag <= tag <=> k <= i
    BY <1>1, <2>1, <2>2 DEF TagsGrow
  <2>5. /\ FlushAfter(q, q[i].tag) = SubSeq(q, 1, i)
        /\ SubSeq(q, 1, i) \in Seq(E)
        /\ Len(SubSeq(q, 1, i)) = i
        /\ DOMAIN SubSeq(q, 1, i) = 1..i
        /\ \A k \in 1..i : SubSeq(q, 1, i)[k] = q[k]
    BY <2>1, FlushAfterEntry
  <2>6. i \in 0..Len(q)
    BY <1>1, <2>1
  <2> HIDE DEF kept
  <2> QED
    BY <2>3, <2>4, <2>5, <2>6
<1> QED
  BY <1>2, <1>3
\* Of some indices, the first ones, up to a count, are no more than that.
LEMMA FirstFit ==
  ASSUME NEW n \in Nat, NEW able \in SUBSET (1..n), NEW idle \in Int, NEW chosen,
         chosen = {i \in able : Cardinality({j \in able : j < i}) < idle}, chosen # {}
  PROVE  /\ IsFiniteSet(chosen)
         /\ Cardinality(chosen) <= idle
<1> DEFINE before(i) == {j \in able : j < i}
<1>1. IsFiniteSet(1..n)
  BY FS_Interval
<1>2. chosen \in SUBSET (1..n) /\ IsFiniteSet(able) /\ IsFiniteSet(chosen)
  BY <1>1, FS_Subset
<1>3. PICK m \in chosen : \A i \in chosen : i <= m
  BY <1>2, MaxOfIndices
<1>4. Cardinality(before(m)) < idle /\ IsFiniteSet(before(m)) /\ m \notin before(m)
      /\ Cardinality(before(m)) \in Nat
  <2>1. before(m) \in SUBSET able /\ m \notin before(m)
    BY <1>2
  <2>2. Cardinality(before(m)) < idle
    BY <1>3
  <2> HIDE DEF before
  <2>3. IsFiniteSet(before(m))
    BY <1>2, <2>1, FS_Subset
  <2> QED
    BY <2>1, <2>2, <2>3, FS_CardinalityType
<1>5. /\ IsFiniteSet(before(m) \cup {m})
      /\ Cardinality(before(m) \cup {m}) = Cardinality(before(m)) + 1
  BY <1>4, FS_AddElement
<1>6. chosen \subseteq before(m) \cup {m}
  <2> SUFFICES ASSUME NEW i \in chosen, i # m PROVE i \in able /\ i < m
    OBVIOUS
  <2>1. i \in 1..n /\ m \in 1..n /\ i <= m
    BY <1>2, <1>3
  <2> QED
    BY <2>1
<1>7. Cardinality(chosen) <= Cardinality(before(m) \cup {m})
  BY <1>5, <1>6, FS_Subset
<1>8. Cardinality(chosen) \in Nat
  BY <1>2, FS_CardinalityType
<1> QED
  BY <1>2, <1>4, <1>5, <1>7, <1>8
=============================================================================
