------------------------------ MODULE TagQueue ------------------------------
(***************************************************************************)
(* Queues of in-flight instructions, each with a `tag`, oldest first: the  *)
(* deque<ROBEntry> of cpu/rob.hpp and the deque<LSQEntry> of cpu/lsq.hpp.  *)
(***************************************************************************)
EXTENDS Integers, Sequences, FiniteSetsExt

\* Tags grow from the oldest entry to the youngest.
TagsGrow(q) == \A i, j \in DOMAIN q : i < j => q[i].tag < q[j].tag

\* flush(tag): remove_if drops the entries with a younger tag.  Because tags
\* grow along the queue, what is left is the prefix of this many entries.
FlushAfter(q, tag) ==
  SubSeq(q, 1, Cardinality({i \in DOMAIN q : q[i].tag <= tag}))
=============================================================================
