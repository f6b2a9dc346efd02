------------------------------ MODULE Machine ------------------------------
(***************************************************************************)
(* What the simulator is a simulator of: a machine that executes one       *)
(* instruction at a time, in program order, with the operations the        *)
(* execution units provide.  No queue, no renaming, no speculation: the    *)
(* specification that the pipeline of Cpu must implement.                  *)
(***************************************************************************)
EXTENDS ExecUnits, MemAccess, Registers, Sequences

VARIABLES
  program,    \* the instructions, the first at address 0
  apc,        \* address of the next instruction
  aregs,      \* aregs["INT"], aregs["FLOAT"], aregs["VECTOR"]
  avl, avsew, \* vector length and element width
  amem,       \* data memory
  instret,    \* instructions executed
  branches,   \* conditional branches executed
  fault       \* an instruction could not be executed: the machine has stopped

machineVars == <<program, apc, aregs, avl, avsew, amem, instret, branches, fault>>

\* Execution ends when it runs off the end of the program or meets a word that
\* does not decode.
AtEnd == apc > WORD_BYTES * (Len(program) - 1)
Instr == program[apc \div WORD_BYTES + 1]

\* Source operand i of instruction d, whose register is rs.
Operand(d, i, rs) ==
  LET t == src_type(d.op, i)
  IN  IF t = "NONE" \/ (t = "INT" /\ rs = 0) THEN scalar(0) ELSE aregs[t][rs]

\* The instruction with its operands, as its execution unit would see it.
Ready(d) ==
  [op |-> d.op, pc |-> apc, imm |-> d.imm, rm |-> d.rm, vl |-> avl,
   sew |-> IF d.op \in VSet THEN d.sew ELSE avsew,
   Vj |-> Operand(d, 0, d.rs1), Vk |-> Operand(d, 1, d.rs2), Vl |-> Operand(d, 2, d.rs3)]

\* A load or store as the memory sees it.
MemoryAccess(e) ==
  [op |-> e.op, Va |-> EffectiveAddress(e), V |-> e.Vk, vl |-> e.vl, sew |-> op_sew(e.op)]

MachineInit ==
  /\ apc = 0
  /\ avsew = 32
  /\ avl = vlmax(32)
  /\ instret = 0
  /\ branches = 0
  /\ fault = FALSE

ExecuteOther(d) ==
  LET res == Compute(Ready(d), avl)
  IN  /\ ~Unsupported(Ready(d))
      /\ aregs' = Written(aregs, dst_type(d.op), d.rd, res.value)
      /\ apc' = IF res.jumped THEN res.target ELSE ToWord(apc + WORD_BYTES)
      /\ IF d.op \in VSet THEN avl' = res.vl /\ avsew' = res.sew
                          ELSE UNCHANGED <<avl, avsew>>
      /\ UNCHANGED amem

\* A load whose last address wraps finds anything behind the end of memory.
ExecuteLoad(d) ==
  /\ LET e == MemoryAccess(Ready(d))
     IN  \E found \in IF IsWild(e) THEN Byte ELSE {0} :
           aregs' = Written(aregs, dst_type(d.op), d.rd, Loaded(e, Beyond(amem, found)))
  /\ apc' = ToWord(apc + WORD_BYTES)
  /\ UNCHANGED <<avl, avsew, amem>>

ExecuteStore(d) ==
  /\ Passes(MemoryAccess(Ready(d)))
  /\ amem' = Stored(MemoryAccess(Ready(d)), amem)
  /\ apc' = ToWord(apc + WORD_BYTES)
  /\ UNCHANGED <<aregs, avl, avsew>>

\* Or the process does not survive it.
FaultingLoad(d) ==
  /\ IsWild(MemoryAccess(Ready(d)))
  /\ fault' = TRUE
  /\ UNCHANGED <<program, apc, aregs, avl, avsew, amem, instret, branches>>

\* A store that goes out of memory writes what it can and ends the execution.
FaultingStore(d) ==
  /\ ~InRange(MemoryAccess(Ready(d)))
  /\ amem' = Stored(MemoryAccess(Ready(d)), amem)
  /\ fault' = TRUE
  /\ UNCHANGED <<program, apc, aregs, avl, avsew, instret, branches>>

\* A floating-point vector operation on elements that are not floats.
FaultingVector(d) ==
  /\ Unsupported(Ready(d))
  /\ fault' = TRUE
  /\ UNCHANGED <<program, apc, aregs, avl, avsew, amem, instret, branches>>

ExecuteOne(d) ==
  /\ \/ d.op \in Load  /\ ExecuteLoad(d)
     \/ d.op \in Store /\ ExecuteStore(d)
     \/ d.op \in Op \ (Load \cup Store) /\ ExecuteOther(d)
  /\ instret' = instret + 1
  /\ branches' = branches + (IF d.op \in Branch THEN 1 ELSE 0)
  /\ UNCHANGED <<program, fault>>

MachineNext ==
  /\ ~AtEnd /\ ~fault
  /\ \/ ExecuteOne(Instr)
     \/ Instr.op \in Load /\ FaultingLoad(Instr)
     \/ Instr.op \in Store /\ FaultingStore(Instr)
     \/ Instr.op \in VectorFloat /\ FaultingVector(Instr)

MachineSpec == MachineInit /\ [][MachineNext]_machineVars
=============================================================================
