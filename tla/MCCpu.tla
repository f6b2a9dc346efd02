------------------------------- MODULE MCCpu -------------------------------
(***************************************************************************)
(* Small instances of Cpu: programs over a few instructions chosen to get  *)
(* in each other's way, under small configurations.  A byte has four       *)
(* values, so that words and addresses are below 256; memory is 8 bytes.   *)
(***************************************************************************)
EXTENDS Cpu

D == INSTANCE Decoder

\* An instruction without, and one with, a third source or an element width.
I(op, rd, rs1, rs2, imm) ==
  [op |-> op, rd |-> rd, rs1 |-> rs1, rs2 |-> rs2, rs3 |-> 0, imm |-> imm,
   rm |-> 0, sew |-> 0]
V(op, rd, rs1, rs2, rs3) == [I(op, rd, rs1, rs2, 0) EXCEPT !.rs3 = rs3]
Vset(op, rd, rs1, imm, sew) == [I(op, rd, rs1, 0, imm) EXCEPT !.sew = sew]

Invalid == I("INVALID", 0, 0, 0, 0)

Zeros   == {[a \in 0..(MemSize - 1) |-> 0]}
Counted == {[a \in 0..(MemSize - 1) |-> (a + 1) % ByteBase]}

Config(width, rs, queue, units, predictor) ==
  [width |-> width, rs_size |-> rs, lsq_size |-> queue,
   units |-> [t \in ExecType |-> units], branch_pred |-> predictor]

-----------------------------------------------------------------------------
\* Every program of four instructions over a pool with a slow producer, a branch
\* that skips one instruction, a jump to the last one, accesses of different
\* sizes that overlap (x2 points at the second word) or leave memory (when x2 has
\* been multiplied), and a word that does not decode.
ScalarPool ==
  { I("ADDI", 3, 3, 0, 1), I("MUL", 2, 3, 2, 0), I("BNE", 0, 3, 0, 8),
    I("JALR", 3, 1, 0, -4), I("SW", 0, 2, 3, 0), I("LBU", 3, 2, 0, 0), Invalid }
ScalarPrograms == [1..4 -> ScalarPool]
ScalarConfigs  == {Config(2, 2, 2, 2, "static_taken"), Config(3, 2, 1, 1, "two_bit")}

\* The same programs, all words decoding, one instruction at a time.
ValidPrograms == [1..4 -> ScalarPool \ {Invalid}]
OneWide == {Config(1, 2, 2, 2, "one_bit")}

-----------------------------------------------------------------------------
\* Vector programs without branches: vector instructions in between and around
\* instructions that change vl and the element width.
VectorPool ==
  { Vset("VSETIVLI", 1, 0, 1, 16), Vset("VSETVLI", 3, 2, 0, 8),
    V("VMV_V_X", 1, 2, 0, 1), V("VMACC_VV", 1, 1, 1, 1),
    V("VSE8_V", 0, 0, 1, 0), V("VLE16_V", 1, 0, 0, 0) }
VectorPrograms == [1..4 -> VectorPool]
VectorConfigs  == {Config(2, 2, 2, 2, "btfnt")}

-----------------------------------------------------------------------------
\* Programs that loop, call and return.  Countdown: three rounds of a loop that
\* stores a byte, loads it and multiplies.  Calls: a subroutine behind the main
\* program, called twice, each time returning by JALR to another place.
Countdown ==
  << I("ADDI", 1, 0, 0, 3),
     I("SB", 0, 2, 1, 0),
     I("LBU", 3, 2, 0, 0),
     I("MUL", 3, 1, 3, 0),
     I("ADDI", 1, 1, 0, -1),
     I("BNE", 0, 1, 0, -16),
     I("DIVU", 3, 3, 2, 0) >>
Calls ==
  << I("JAL", 3, 0, 0, 16),
     I("JAL", 3, 0, 0, 12),
     I("ADD", 2, 2, 2, 0),
     I("JALR", 0, 1, 0, 0),
     I("ADDI", 2, 2, 0, 1),
     I("JALR", 0, 3, 0, 0),
     I("SUB", 2, 2, 2, 0) >>
LoopPrograms == {Countdown, Calls}
AllConfigs == {Config(w, rs, 2, units, p) :
                 w \in 1..3, rs \in {1, 2}, units \in {1, 2}, p \in B!PredictorKind}

-----------------------------------------------------------------------------
\* A loop that ends with the branch: when two instructions are fetched at a time,
\* the fetch that reads the branch also runs into the end of the program.
EndsInBranch ==
  { << I("ADDI", 1, 0, 0, 3),
       I("ADDI", 3, 3, 0, 1),
       I("ADDI", 1, 1, 0, -1),
       I("BNE", 0, 1, 0, -8) >> }
DefaultPredictor == {Config(2, 2, 2, 2, "two_bit")}

\* A branch, taken, over a word that does not decode.
SkipsInvalid == { << I("BEQ", 0, 0, 0, 8), Invalid, I("ADDI", 3, 0, 0, 1) >> }
NotTaken == {Config(1, 2, 2, 2, "static_not_taken")}

\* A vset that is still in flight when a branch behind it turns out to have been
\* mispredicted, with another vset on the wrong path.
VsetThenBranch ==
  { << I("DIVU", 3, 2, 2, 0),
       Vset("VSETIVLI", 0, 0, 2, 16),
       I("BEQ", 0, 0, 0, 8),
       Vset("VSETIVLI", 0, 0, 1, 8),
       V("VMV_V_X", 1, 2, 0, 1) >> }

-----------------------------------------------------------------------------
\* Words, as fetch reads them, decoded to the instructions of a program.
Bits(f7, rs2, rs1, f3, rd, opcode) ==
  [f7 |-> f7, rs2 |-> rs2, rs1 |-> rs1, f3 |-> f3, rd |-> rd, opcode |-> opcode]
Assembled(words) == [i \in DOMAIN words |-> D!decode(words[i])]

\* Floating-point programs that read their operands from memory, with long and
\* short operations writing one register, a fused one, a comparison that decides a
\* branch, and a value that moves through the integer registers.
FloatPool ==
  { Bits(0, 0, 0, 2, 1, \h07),     \* flw f1, 0(x0)
    Bits(0, 2, 1, 7, 2, \h53),     \* fadd.s f2, f1, f2
    Bits(12, 1, 2, 0, 2, \h53),    \* fdiv.s f2, f2, f1
    Bits(8, 2, 1, 3, 1, \h43),     \* fmadd.s f1, f1, f2, f2, rup
    Bits(80, 2, 1, 1, 3, \h53),    \* flt.s x3, f1, f2
    Bits(0, 0, 3, 1, 8, \h63),     \* bne x3, x0, 8
    Bits(0, 2, 0, 2, 4, \h27),     \* fsw f2, 4(x0)
    Bits(96, 0, 1, 1, 3, \h53) }   \* fcvt.w.s x3, f1, rtz
FloatPrograms == {Assembled(words) : words \in [1..4 -> FloatPool]}
FloatConfigs  == {Config(2, 2, 2, 1, "static_taken")}

\* Floats in vectors: under a width of 32 bits, for no lane or one, in any order; or
\* under another width, which the first of them does not survive.
VectorFloatPool ==
  { V("VFMV_V_F", 1, 1, 0, 1), V("VFMACC_VV", 1, 1, 2, 1), V("VFMACC_VF", 1, 1, 1, 2),
    V("VMV_V_X", 2, 2, 0, 2), V("VLE32_V", 2, 0, 0, 0), I("FLW", 1, 0, 0, 0) }
VectorFloatPrograms ==
  {<<Vset("VSETIVLI", 0, 0, n, 32)>> \o p : n \in {0, 1}, p \in [1..4 -> VectorFloatPool]}
  \cup {<<Vset("VSETIVLI", 0, 0, 2, 16), v, w>> :
          v \in {w \in VectorFloatPool : w.op \in VectorFloat}, w \in VectorFloatPool}

\* Accesses at the end of the address space, where the check of the bounds wraps, as
\* the first instruction (see README for the wrong path).
WildPrograms ==
  {<<access, I("ADD", 2, 3, 3, 0)>> :
     access \in {I("LW", 3, 0, 0, -1), I("LH", 3, 0, 0, -1), I("SW", 0, 0, 2, -2),
                 I("SH", 0, 0, 2, -1), I("SB", 0, 0, 2, -1), I("LBU", 3, 0, 0, -1)}}

-----------------------------------------------------------------------------
\* The workloads of the run `cpu`: which programs run under which configurations,
\* with which contents of memory.
Workloads ==
  { [programs |-> ScalarPrograms, configs |-> ScalarConfigs, images |-> Zeros],
    [programs |-> WildPrograms, configs |-> ScalarConfigs, images |-> Counted],
    [programs |-> VectorPrograms, configs |-> VectorConfigs, images |-> Counted],
    [programs |-> FloatPrograms, configs |-> FloatConfigs, images |-> Counted],
    [programs |-> VectorFloatPrograms, configs |-> VectorConfigs, images |-> Counted] }

AllPrograms == UNION {w.programs : w \in Workloads}
EveryConfig == UNION {w.configs : w \in Workloads}
AllImages   == Zeros \cup Counted

WorkloadInit ==
  /\ \E w \in Workloads :
       program \in w.programs /\ config \in w.configs /\ mem \in w.images
  /\ CpuInit

WorkloadSpec == WorkloadInit /\ [][CpuNext]_cpuVars

\* Those of the run `cpu_live`: loops under all configurations, and all short programs
\* under the one that takes one instruction at a time.
LivePrograms == LoopPrograms \cup ValidPrograms
LiveConfigs  == AllConfigs \cup OneWide

LiveInit ==
  /\ \/ program \in LoopPrograms  /\ config \in AllConfigs
     \/ program \in ValidPrograms /\ config \in OneWide
  /\ CpuInit

LiveSpec == LiveInit /\ [][CpuNext]_cpuVars /\ WF_cpuVars(CpuNext)

\* The pipeline is never stuck: whatever waits for whatever, it stops, or goes on
\* dispatching up to the bound; and the loops, which end, are seen to end.
NeverStuck ==
  <>(halted \/ stage = "crashed" \/ (next_tag = TagLimit /\ program \notin LoopPrograms))

-----------------------------------------------------------------------------
\* A vset that keeps the vl of the vset before it.
VsetKeepsVl ==
  { << Vset("VSETIVLI", 0, 0, 2, 8),
       Vset("VSETVLI", 0, 0, -2, 8) >> }
=============================================================================
