----------------------------- MODULE Registers -----------------------------
(***************************************************************************)
(* The three register files (cpu/regfile.hpp), indexed by register file    *)
(* and then by register number.                                            *)
(***************************************************************************)
EXTENDS Isa, Memory

CONSTANT Reg    \* register numbers of each of the three files; 0 is x0

\* write: x0 discards it, integer and float registers hold one word.
Written(regs, t, r, v) ==
  IF t = "NONE" \/ (t = "INT" /\ r = 0) THEN regs
  ELSE [regs EXCEPT ![t][r] = IF t = "VECTOR" THEN v ELSE scalar(v[0])]

\* All zero, but for the stack pointer x2 and the return address x1, which
\* points just past the program so that the final return ends it.
InitialRegs(end) ==
  [t \in RegFiles |-> [r \in Reg |->
     IF t = "INT" /\ r = 1 THEN scalar(end)
     ELSE IF t = "INT" /\ r = 2 THEN scalar(MemSize - WORD_BYTES)
     ELSE scalar(0)]]
=============================================================================
