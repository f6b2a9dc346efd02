------------------------------ MODULE MCRename ------------------------------
(***************************************************************************)
(* A small instance of Rename for TLC: two registers (one of them x0), one *)
(* instruction of every kind renaming tells apart, and branch outcomes that*)
(* agree and disagree with the prediction.                                 *)
(***************************************************************************)
EXTENDS Rename

Decode(op, rd, taken) ==
  [op |-> op, rd |-> rd, pc |-> 0, pred_taken |-> taken,
   pred_target |-> IF taken THEN 8 ELSE 4]

MCDecoded ==
  { Decode("ADDI", 1, FALSE),       \* writes x1
    Decode("LW", 0, FALSE),         \* writes x0: no destination
    Decode("FLW", 0, FALSE),        \* writes f0, which is a register
    Decode("VSETVLI", 1, FALSE),    \* writes x1, vl and sew
    Decode("BEQ", 0, FALSE),
    Decode("JALR", 1, TRUE) }

MCOutcome ==
  { [value |-> 0, target |-> t, jumped |-> j, vl |-> 0, sew |-> 0] :
      t \in {8}, j \in BOOLEAN }
=============================================================================
