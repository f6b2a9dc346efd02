------------------------------- MODULE Rename -------------------------------
(***************************************************************************)
(* Register renaming: the re-order buffer (cpu/rob.hpp), the three register*)
(* alias tables (cpu/rat.hpp) and the tag of the youngest in-flight vset   *)
(* (VectorState::tag), with the parts of CPU::dispatch, CPU::writeback,    *)
(* CPU::flush and CPU::commit that touch them.                             *)
(*                                                                         *)
(* What surrounds renaming is left open here: any decoded instruction may  *)
(* arrive, any result may come back in any order, and a cycle may do as    *)
(* many of these steps as it likes.  The one ordering of CPU::step kept is *)
(* that the loop of writeback that resolves control instructions has run   *)
(* to its end before the next commit or dispatch (guard Settled).          *)
(***************************************************************************)
EXTENDS Isa, TagQueue

CONSTANTS
  Reg,        \* register numbers, the same for the three files; 0 is x0
  Addr,       \* instruction addresses
  Value,      \* register values
  VLen,       \* vector lengths and element widths
  RobSize,    \* max_size of the re-order buffer
  Decoded,    \* the decoded instructions that may be dispatched
  Outcome,    \* the results that may be written back
  TagLimit    \* bound: the tags one behaviour allocates

DecodeEntry == [op: Op, rd: Reg, pc: Addr, pred_taken: BOOLEAN, pred_target: Addr]
Result      == [value: Value, target: Addr, jumped: BOOLEAN, vl: VLen, sew: VLen]

ASSUME RenameAssumption ==
  /\ Reg \subseteq Nat
  /\ Addr \subseteq Nat
  /\ RobSize \in Nat
  /\ TagLimit \in Nat
  /\ Decoded \subseteq DecodeEntry
  /\ Outcome \subseteq Result

VARIABLES
  rob,        \* ReOrderBuffer::entries, oldest first
  next_tag,   \* ReOrderBuffer::next_tag
  rat,        \* rat["INT"], rat["FLOAT"], rat["VECTOR"]: rat, frat, vrat
  vec_tag     \* vec_state.tag

renameVars == <<rob, next_tag, rat, vec_tag>>

-----------------------------------------------------------------------------
\* Instruction d names register r of file t as its destination (x0 is none).
Names(d, t, r) == dst_type(d.op) = t /\ d.rd = r /\ ~(t = "INT" /\ r = 0)

\* A ROBEntry as allocate leaves it: the fields of the result are unset.
NewEntry(d, tag) ==
  [op |-> d.op, rd |-> d.rd, pc |-> d.pc, pred_taken |-> d.pred_taken,
   pred_target |-> d.pred_target, tag |-> tag, ready |-> FALSE,
   ctrl_handled |-> FALSE, result |-> <<>>]

ROBEntry == [op: Op, rd: Reg, pc: Addr, pred_taken: BOOLEAN, pred_target: Addr,
             tag: Nat, ready: BOOLEAN, ctrl_handled: BOOLEAN,
             result: Result \cup {<<>>}]

\* RegisterAliasTable::rebuild: the last writer in queue order wins.
Rebuilt(q) ==
  [t \in RegFiles |-> [r \in Reg |->
     LET writers == {i \in DOMAIN q : Names(q[i], t, r)}
     IN  IF writers = {} THEN NoTag ELSE q[Max(writers)].tag]]

\* Mutant of Resolvable: the loop skips an instruction that is still executing.
ResolvableOutOfOrder(i) ==
  /\ i \in DOMAIN rob
  /\ rob[i].op \in Ctrl /\ ~rob[i].ctrl_handled /\ rob[i].ready

\* The loop at the end of writeback goes past handled control instructions
\* and stops at the first one still executing: entry i is next to resolve.
Resolvable(i) ==
  /\ i \in DOMAIN rob
  /\ rob[i].op \in Ctrl /\ ~rob[i].ctrl_handled /\ rob[i].ready
  /\ \A j \in 1..(i-1) : rob[j].op \in Ctrl => rob[j].ctrl_handled

Settled == \A i \in DOMAIN rob : ~Resolvable(i)

Target(e) == IF e.result.jumped THEN e.result.target ELSE e.pc + WORD_BYTES

\* Mutant of Mispredicted: a jump to the wrong place is not noticed.
MispredictedDirection(e) == e.result.jumped # e.pred_taken

Mispredicted(e) == e.result.jumped # e.pred_taken \/ Target(e) # e.pred_target

-----------------------------------------------------------------------------
RenameInit ==
  /\ rob = <<>>
  /\ next_tag = 0
  /\ rat = [t \in RegFiles |-> [r \in Reg |-> NoTag]]
  /\ vec_tag = NoTag

\* Mutant of Allocate: the ROB is not bounded.
AllocateUnbounded(d) ==
  /\ next_tag < TagLimit
  /\ rob' = Append(rob, NewEntry(d, next_tag))
  /\ next_tag' = next_tag + 1
  /\ UNCHANGED <<rat, vec_tag>>

\* dispatch, for one instruction: allocate a ROB entry, then make its tag the
\* producer of the destination register and, for a vset, of vl and sew.
Allocate(d) ==
  /\ Len(rob) # RobSize
  /\ next_tag < TagLimit
  /\ rob' = Append(rob, NewEntry(d, next_tag))
  /\ next_tag' = next_tag + 1
  /\ rat' = [t \in RegFiles |-> [r \in Reg |->
               IF Names(d, t, r) THEN next_tag ELSE rat[t][r]]]
  /\ vec_tag' = IF d.op \in VSet THEN next_tag ELSE vec_tag

\* ReOrderBuffer::update: the result of the entry with this tag.
Update(i, res) ==
  /\ rob' = [rob EXCEPT ![i].ready = TRUE, ![i].result = res]
  /\ UNCHANGED <<next_tag, rat, vec_tag>>

\* A control instruction that went where it was predicted to go.
Resolve(i) ==
  /\ Resolvable(i)
  /\ ~Mispredicted(rob[i])
  /\ rob' = [rob EXCEPT ![i].ctrl_handled = TRUE]
  /\ UNCHANGED <<next_tag, rat, vec_tag>>

\* Mutant of Mispredict: flushed tags are handed out again, from the branch's on.
MispredictReusesTags(i) ==
  /\ Resolvable(i)
  /\ Mispredicted(rob[i])
  /\ LET left == FlushAfter([rob EXCEPT ![i].ctrl_handled = TRUE], rob[i].tag)
     IN  /\ rob' = left
         /\ rat' = Rebuilt(left)
         /\ vec_tag' = IF vec_tag > rob[i].tag THEN NoTag ELSE vec_tag
         /\ next_tag' = rob[i].tag

\* Mutant of Mispredict: a flushed vset keeps its tag in vec_state.
MispredictKeepsVset(i) ==
  /\ Resolvable(i)
  /\ Mispredicted(rob[i])
  /\ LET left == FlushAfter([rob EXCEPT ![i].ctrl_handled = TRUE], rob[i].tag)
     IN  rob' = left /\ rat' = Rebuilt(left)
  /\ UNCHANGED <<next_tag, vec_tag>>

\* A mispredicted one: flush(entry.tag) empties the ROB behind it, rebuilds the
\* alias tables from what is left, and forgets a younger vset.
Mispredict(i) ==
  /\ Resolvable(i)
  /\ Mispredicted(rob[i])
  /\ LET tag  == rob[i].tag
         left == FlushAfter([rob EXCEPT ![i].ctrl_handled = TRUE], tag)
     IN  /\ rob' = left
         /\ rat' = Rebuilt(left)
         /\ vec_tag' = IF vec_tag > tag THEN NoTag ELSE vec_tag
  /\ UNCHANGED next_tag

\* Mutant of Retire: the register is freed even if a younger producer renamed it.
RetireFreesRegister ==
  /\ rob # <<>> /\ Head(rob).ready
  /\ rat' = [t \in RegFiles |-> [r \in Reg |->
               IF Names(Head(rob), t, r) THEN NoTag ELSE rat[t][r]]]
  /\ rob' = Tail(rob)
  /\ UNCHANGED <<next_tag, vec_tag>>

\* Mutant of Retire: a vset that commits is taken for the youngest one.
RetireForgetsVset ==
  /\ rob # <<>> /\ Head(rob).ready
  /\ LET e == Head(rob)
     IN  /\ rat' = [t \in RegFiles |-> [r \in Reg |->
                      IF Names(e, t, r) /\ rat[t][r] = e.tag THEN NoTag
                                                             ELSE rat[t][r]]]
         /\ vec_tag' = IF e.op \in VSet THEN NoTag ELSE vec_tag
  /\ rob' = Tail(rob)
  /\ UNCHANGED next_tag

\* One round of commit: the head leaves, and is no longer the producer of its
\* register, nor, for a vset, of vl and sew.
Retire ==
  /\ rob # <<>> /\ Head(rob).ready
  /\ LET e == Head(rob)
     IN  /\ rat' = [t \in RegFiles |-> [r \in Reg |->
                      IF Names(e, t, r) /\ rat[t][r] = e.tag THEN NoTag
                                                             ELSE rat[t][r]]]
         /\ vec_tag' = IF e.op \in VSet /\ vec_tag = e.tag THEN NoTag ELSE vec_tag
  /\ rob' = Tail(rob)
  /\ UNCHANGED next_tag

-----------------------------------------------------------------------------
\* Only the control unit sets `jumped`, and it always does for a jump.
CanYield(op, res) == /\ res.jumped => op \in Ctrl
                     /\ op \in Jump => res.jumped

Dispatch(d)       == Settled /\ Allocate(d)
Writeback(i, res) == ~rob[i].ready /\ CanYield(rob[i].op, res) /\ Update(i, res)
Commit            == Settled /\ Retire

RenameNext ==
  \/ \E d \in Decoded : Dispatch(d)
  \/ \E i \in DOMAIN rob, res \in Outcome : Writeback(i, res)
  \/ \E i \in DOMAIN rob : Resolve(i)
  \/ \E i \in DOMAIN rob : Mispredict(i)
  \/ Commit

RenameSpec == RenameInit /\ [][RenameNext]_renameVars

-----------------------------------------------------------------------------
\* Types of the four structures.
RenameTypeOK ==
  /\ rob \in Seq(ROBEntry)
  /\ Len(rob) <= RobSize
  /\ next_tag \in 0..TagLimit
  /\ rat \in [RegFiles -> [Reg -> Nat \cup {NoTag}]]
  /\ vec_tag \in Nat \cup {NoTag}

\* Tags grow from the oldest entry to the youngest and none is ahead of
\* next_tag: what makes `entry.tag > tag` mean "younger" in every flush, and
\* ReOrderBuffer::get and update find the one entry meant.
TagsOrdered ==
  /\ TagsGrow(rob)
  /\ \A i \in DOMAIN rob : rob[i].tag < next_tag

\* The alias tables name, for every register, exactly the youngest writer in
\* flight, and no tag when there is none: whatever was flushed, rebuilt or
\* retired in between, read_operand waits for the right producer and
\* rob.get(tag) never throws "ROB tag not found".
RatYoungest ==
  \A t \in RegFiles, r \in Reg :
    IF \E i \in DOMAIN rob : Names(rob[i], t, r)
      THEN \E i \in DOMAIN rob :
             /\ rat[t][r] = rob[i].tag
             /\ Names(rob[i], t, r)
             /\ \A j \in DOMAIN rob : Names(rob[j], t, r) => j <= i
      ELSE rat[t][r] = NoTag

\* vec_state.tag, when set, is the youngest vset in flight: the rob.get of
\* dispatch finds it and reads the vl and sew the newest vset will leave.
VecTagYoungest ==
  vec_tag # NoTag =>
    \E i \in DOMAIN rob :
      /\ vec_tag = rob[i].tag
      /\ rob[i].op \in VSet
      /\ \A j \in DOMAIN rob : rob[j].op \in VSet => j <= i

\* Control instructions act on the machine in program order: a handled one has
\* its result and has no unhandled one before it, so the predictor is trained,
\* and the counters moved, on the right path only.
ResolvedInOrder ==
  \A i \in DOMAIN rob : rob[i].op \in Ctrl /\ rob[i].ctrl_handled =>
    /\ rob[i].ready
    /\ \A j \in 1..(i-1) : rob[j].op \in Ctrl => rob[j].ctrl_handled

\* vec_state.tag, when not set, leaves no vset in flight unnoticed: a vector
\* instruction dispatched now may take the committed vl and sew.
VsetKnown == vec_tag = NoTag => \A i \in DOMAIN rob : rob[i].op \notin VSet

\* That can be lost in one way only: a misprediction that drops a younger vset
\* (cpu.cpp:137).  The commit of an older vset, a result or a dispatch never makes
\* the CPU forget one in flight, and after a misprediction that drops no vset the
\* older ones are known.
VsetsForgottenByFlush ==
  [][VsetKnown /\ ~VsetKnown' =>
       \E i, j \in DOMAIN rob : i < j /\ Mispredict(i) /\ rob[j].op \in VSet]_renameVars
=============================================================================
