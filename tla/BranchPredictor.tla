-------------------------- MODULE BranchPredictor --------------------------
(***************************************************************************)
(* Branch prediction (cpu/branch.hpp): the branch target buffer and the    *)
(* five ways of guessing the direction of a conditional branch.            *)
(*                                                                         *)
(* A predictor is a record of its kind, its target buffer and its history; *)
(* both tables have TableSize entries (256 in the code), indexed by the    *)
(* word address of the instruction.                                        *)
(***************************************************************************)
EXTENDS Isa

CONSTANTS
  TableSize,
  PcMod       \* instruction addresses wrap around here

PredictorKind == {"static_taken", "static_not_taken", "btfnt", "one_bit", "two_bit"}

index(pc) == (pc \div WORD_BYTES) % TableSize

\* An entry whose pc is -1U predicts nothing; one_bit starts with "not taken",
\* two_bit with the weak "not taken".
NewPredictor(kind) ==
  [kind |-> kind,
   btb |-> [i \in 0..(TableSize - 1) |-> [pc |-> -1, target |-> 0]],
   history |-> [i \in 0..(TableSize - 1) |-> IF kind = "two_bit" THEN 1 ELSE 0]]

predict_direction(bp, pc, imm) ==
  CASE bp.kind = "static_taken"     -> TRUE
    [] bp.kind = "static_not_taken" -> FALSE
    [] bp.kind = "btfnt"            -> imm < 0
    [] bp.kind = "one_bit"          -> bp.history[index(pc)] = 1
    [] bp.kind = "two_bit"          -> bp.history[index(pc)] >= 2

\* predict: JAL is always taken; a branch guessed taken, and a JALR, go where the
\* buffer says; without an entry a branch goes to its target and a JALR falls
\* through.
predict(bp, pc, op, imm) ==
  LET entry == bp.btb[index(pc)]
      to(i) == (pc + i) % PcMod
      fallthrough == [taken |-> FALSE, target |-> to(WORD_BYTES)]
      direct      == [taken |-> TRUE, target |-> to(imm)]
  IN  IF op = "JAL" THEN direct
      ELSE IF op \in Branch /\ ~predict_direction(bp, pc, imm) THEN fallthrough
      ELSE IF entry.pc = pc THEN [taken |-> TRUE, target |-> entry.target]
      ELSE IF op \in Branch THEN direct
      ELSE fallthrough

\* update_direction: one_bit remembers the last outcome, two_bit saturates.
TrainedDirection(bp, pc, taken) ==
  LET state == bp.history[index(pc)]
  IN  CASE bp.kind = "one_bit" -> IF taken THEN 1 ELSE 0
        [] bp.kind = "two_bit" -> IF taken THEN (IF state < 3 THEN state + 1 ELSE state)
                                  ELSE (IF state > 0 THEN state - 1 ELSE state)
        [] OTHER -> state

\* update: after a control instruction has been resolved.
Updated(bp, pc, op, taken, target) ==
  [bp EXCEPT
     !.history[index(pc)] = IF op \in Branch THEN TrainedDirection(bp, pc, taken) ELSE @,
     !.btb[index(pc)] = IF taken THEN [pc |-> pc, target |-> target] ELSE @]
=============================================================================
