----------------------------- MODULE MCDecoder -----------------------------
(***************************************************************************)
(* The decoder against an encoder: words whose fields take every value the *)
(* decoder looks for and some it does not, and instructions that an        *)
(* assembler may emit.  A behaviour takes one word or one instruction and  *)
(* decodes it, as CPU::decode does with the word it has fetched.           *)
(***************************************************************************)
EXTENDS Decoder

VARIABLES
  word,     \* the fetched word
  instr,    \* what it was decoded to; Invalid before
  emitted,  \* the instruction the assembler encoded, if it is a word of its
  decoded   \* the word has been decoded

decoderVars == <<word, instr, emitted, decoded>>

-----------------------------------------------------------------------------
\* The assembler: opcode, f3 and f7 of every operation; its formats below.
Coded(opcode, f7, names) ==
  [op \in {names[i] : i \in DOMAIN names} \ {""} |->
     [opcode |-> opcode, f7 |-> f7, f3 |-> (CHOOSE i \in DOMAIN names : names[i] = op) - 1]]
\* A vector operation: f6, no mask.
VCoded(op, f6, f3) == op :> [opcode |-> 87, f7 |-> 2 * f6 + 1, f3 |-> f3]

Code ==
  Coded(51, 0, <<"ADD", "SLL", "SLT", "SLTU", "XOR", "SRL", "OR", "AND">>)
  @@ Coded(51, 32, <<"SUB", "", "", "", "", "SRA">>)
  @@ Coded(51, 1, <<"MUL", "MULH", "MULHSU", "MULHU", "DIV", "DIVU", "REM", "REMU">>)
  @@ Coded(19, 0, <<"ADDI", "SLLI", "SLTI", "SLTIU", "XORI", "SRLI", "ORI", "ANDI">>)
  @@ Coded(19, 32, <<"", "", "", "", "", "SRAI">>)
  @@ Coded(3, 0, <<"LB", "LH", "LW", "", "LBU", "LHU">>)
  @@ Coded(35, 0, <<"SB", "SH", "SW">>)
  @@ Coded(7, 1, <<"VLE8_V", "", "FLW", "", "", "VLE16_V", "VLE32_V">>)
  @@ Coded(39, 1, <<"VSE8_V", "", "FSW", "", "", "VSE16_V", "VSE32_V">>)
  @@ Coded(99, 0, <<"BEQ", "BNE", "", "", "BLT", "BGE", "BLTU", "BGEU">>)
  @@ Coded(111, 0, <<"JAL">>) @@ Coded(103, 0, <<"JALR">>)
  @@ Coded(55, 0, <<"LUI">>) @@ Coded(23, 0, <<"AUIPC">>)
  @@ Coded(67, 0, <<"FMADD_S">>) @@ Coded(71, 0, <<"FMSUB_S">>)
  @@ Coded(75, 0, <<"FNMSUB_S">>) @@ Coded(79, 0, <<"FNMADD_S">>)
  @@ Coded(83, 0, <<"FADD_S">>) @@ Coded(83, 4, <<"FSUB_S">>)
  @@ Coded(83, 8, <<"FMUL_S">>) @@ Coded(83, 12, <<"FDIV_S">>)
  @@ Coded(83, 44, <<"FSQRT_S">>)
  @@ Coded(83, 16, <<"FSGNJ_S", "FSGNJN_S", "FSGNJX_S">>)
  @@ Coded(83, 20, <<"FMIN_S", "FMAX_S">>)
  @@ Coded(83, 80, <<"FLE_S", "FLT_S", "FEQ_S">>)
  @@ Coded(83, 96, <<"FCVT_W_S">>) @@ Coded(83, 96, <<"FCVT_WU_S">>)
  @@ Coded(83, 104, <<"FCVT_S_W">>) @@ Coded(83, 104, <<"FCVT_S_WU">>)
  @@ Coded(83, 112, <<"FMV_X_W", "FCLASS_S">>) @@ Coded(83, 120, <<"FMV_W_X">>)
  @@ VCoded("VREDSUM_VS", 0, 2) @@ VCoded("VMV_X_S", 16, 2) @@ VCoded("VMV_S_X", 16, 6)
  @@ VCoded("VMV_V_I", 23, 3) @@ VCoded("VMV_V_X", 23, 4) @@ VCoded("VFMV_V_F", 23, 5)
  @@ VCoded("VMUL_VV", 37, 2) @@ VCoded("VMV1R_V", 39, 3)
  @@ VCoded("VFMACC_VV", 44, 1) @@ VCoded("VFMACC_VF", 44, 5)
  @@ VCoded("VMACC_VV", 45, 2) @@ VCoded("VMACC_VX", 45, 6)
  @@ Coded(87, 0, <<"", "", "", "", "", "", "", "VSETVLI">>)
  @@ Coded(87, 96, <<"", "", "", "", "", "", "", "VSETIVLI">>)

\* Bits first to last of a number in two's complement.
BitsOf(n, last, first) == (n \div 2^first) % 2^(last - first + 1)

\* The registers an assembler puts where the format has its fields.
WithRegisters(i) ==
  CASE i.op \in VStore \cup {"VMV_V_X", "VMV_S_X", "VFMV_V_F"} ->
         [rd |-> IF i.op \in VStore THEN i.rs2 ELSE i.rd, rs1 |-> i.rs1, rs2 |-> 0]
    [] i.op = "VMV_V_I" -> [rd |-> i.rd, rs1 |-> i.imm % 32, rs2 |-> 0]
    [] i.op \in {"VMV_X_S", "VMV1R_V", "VMUL_VV", "VREDSUM_VS"} ->
         [rd |-> i.rd, rs1 |-> i.rs2, rs2 |-> i.rs1]
    [] i.op \in {"VMACC_VV", "VMACC_VX", "VFMACC_VV", "VFMACC_VF"} ->
         [rd |-> i.rd, rs1 |-> i.rs2, rs2 |-> i.rs3]
    [] i.op \in {"FCVT_WU_S", "FCVT_S_WU"} -> [rd |-> i.rd, rs1 |-> i.rs1, rs2 |-> 1]
    [] OTHER -> [rd |-> i.rd, rs1 |-> i.rs1, rs2 |-> i.rs2]

Encode(i) ==
  LET base == WithRegisters(i) @@ Code[i.op]
      Upper20(n) == [base EXCEPT !.f7 = BitsOf(n, 19, 13), !.rs2 = BitsOf(n, 12, 8),
                                 !.rs1 = BitsOf(n, 7, 3), !.f3 = BitsOf(n, 2, 0)]
      Upper12(n) == [base EXCEPT !.f7 = BitsOf(n, 11, 5), !.rs2 = BitsOf(n, 4, 0)]
      Split(n)   == [base EXCEPT !.f7 = BitsOf(n, 11, 5), !.rd = BitsOf(n, 4, 0)]
      width      == CASE i.sew = 8 -> 0 [] i.sew = 16 -> 8 [] i.sew = 32 -> 16 [] OTHER -> 0
  IN CASE i.op \in Alu \cup Mul \cup Div \cup VLoad \cup VStore -> base
       [] i.op \in {"SLLI", "SRLI", "SRAI"} -> [base EXCEPT !.rs2 = i.imm]
       [] i.op \in (AluImm \ {"SLLI", "SRLI", "SRAI"}) \cup IntLoad \cup {"FLW", "JALR"} ->
            Upper12(i.imm)
       [] i.op \in IntStore \cup {"FSW"} -> Split(i.imm)
       [] i.op \in Branch ->
            Split(2048 * BitsOf(i.imm, 12, 12) + 32 * BitsOf(i.imm, 10, 5)
                  + 2 * BitsOf(i.imm, 4, 1) + BitsOf(i.imm, 11, 11))
       [] i.op = "JAL" ->
            Upper20(2^19 * BitsOf(i.imm, 20, 20) + 2^9 * BitsOf(i.imm, 10, 1)
                    + 2^8 * BitsOf(i.imm, 11, 11) + BitsOf(i.imm, 19, 12))
       [] i.op \in {"LUI", "AUIPC"} -> Upper20(i.imm \div 4096)
       [] i.op \in FMac     -> [base EXCEPT !.f7 = 4 * i.rs3, !.f3 = i.rm]
       [] i.op \in Rounded \ FMac -> [base EXCEPT !.f3 = i.rm]
       [] i.op = "VSETVLI"  -> [base EXCEPT !.f7 = width \div 32, !.rs2 = width % 32]
       [] i.op = "VSETIVLI" -> [base EXCEPT !.f7 = 96 + width \div 32, !.rs2 = width % 32,
                                            !.rs1 = i.imm]
       [] OTHER -> base

\* The tail and mask policies of a vset, bits 26 and 27, are ignored.
Canonical(w, op) ==
  IF op \in VSet THEN [w EXCEPT !.f7 = @ - 2 * ((@ \div 2) % 4)] ELSE w

-----------------------------------------------------------------------------
\* Every opcode the decoder knows, one it names but rejects, and one it does not.
Opcodes == {\h33, \h13, \h03, \h07, \h23, \h27, \h43, \h47, \h4B, \h4F, \h53, \h57,
            \h63, \h6F, \h67, \h37, \h17, \h73, \h0F}
\* Every f7 of an operation, its neighbours, and vtypes with reserved bits.
Funct7 == {0, 1, 2, 3, 4, 8, 12, 16, 20, 32, 33, 44, 47, 64, 75, 79, 80, 89, 91, 96, 97,
           102, 104, 112, 120, 127}
Registers == {0, 1, 16, 31}
Words == [f7: Funct7, rs2: Registers \cup {8}, rs1: Registers, f3: 0..7,
          rd: {0, 1, 31}, opcode: Opcodes]

\* Immediates of every format, at both ends and with single bits set.
Regs3 == {0, 9, 31}
Ins(ops, imms) == [op: ops, rd: Regs3, rs1: Regs3, rs2: {0}, rs3: {0}, imm: imms, rm: {0}, sew: {0}]
Ins3(ops, rds, imms) ==
  [op: ops, rd: rds, rs1: Regs3, rs2: Regs3, rs3: {0}, imm: imms, rm: {0}, sew: {0}]
Emittable ==
  Ins3(Alu \cup Mul \cup Div \cup FSgn \cup FCmp \cup {"FMIN_S", "FMAX_S"}, Regs3, {0})
  \cup Ins({"FMV_X_W", "FCLASS_S", "FMV_W_X", "VMV_X_S", "VMV1R_V"}, {0})
  \cup Ins((AluImm \ {"SLLI", "SRLI", "SRAI"}) \cup IntLoad \cup {"FLW", "JALR"},
           {-2048, -1, 0, 1, 31, 32, 2047})
  \cup Ins({"SLLI", "SRLI", "SRAI"}, {0, 1, 31})
  \cup Ins3(IntStore \cup {"FSW"}, {0}, {-2048, -33, 0, 31, 32, 2047})
  \cup Ins3(Branch, {0}, {-4096, -2, 0, 2, 16, 32, 1024, 2048, 4094})
  \cup [op: {"JAL"}, rd: Regs3, rs1: {0}, rs2: {0}, rs3: {0}, rm: {0}, sew: {0},
        imm: {-1048576, -2, 0, 2, 1024, 2048, 4096, 524288, 1048574}]
  \cup [op: Upper, rd: Regs3, rs1: {0}, rs2: {0}, rs3: {0}, rm: {0}, sew: {0},
        imm: {n * 4096 : n \in {-524288, -1, 0, 1, 8, 256, 8192, 524287}}]
  \cup [op: FMac, rd: Regs3, rs1: Regs3, rs2: Regs3, rs3: Regs3, rm: {0, 4, 7}, imm: {0}, sew: {0}]
  \cup [op: Rounded \ (FMac \cup FUnary), rd: Regs3, rs1: Regs3, rs2: Regs3, rs3: {0},
        rm: {0, 1, 2, 3, 4, 7}, imm: {0}, sew: {0}]
  \cup [op: Rounded \cap FUnary, rd: Regs3, rs1: Regs3, rs2: {0}, rs3: {0},
        rm: {0, 1, 2, 3, 4, 7}, imm: {0}, sew: {0}]
  \cup {i \in [op: {"VMUL_VV", "VREDSUM_VS"}, rd: Regs3, rs1: Regs3, rs2: Regs3, rs3: Regs3,
               rm: {0}, imm: {0}, sew: {0}] : i.rs3 = i.rd}
  \cup {i \in [op: VFMul \cup {"VMACC_VV", "VMACC_VX"}, rd: Regs3, rs1: Regs3, rs2: Regs3,
               rs3: Regs3, rm: {0}, imm: {0}, sew: {0}] : i.rs1 = i.rd}
  \cup {i \in [op: {"VMV_V_X", "VMV_S_X", "VFMV_V_F"}, rd: Regs3, rs1: Regs3, rs2: {0},
               rs3: Regs3, rm: {0}, imm: {0}, sew: {0}] : i.rs3 = i.rd}
  \cup {i \in [op: {"VMV_V_I"}, rd: Regs3, rs1: {0}, rs2: {0}, rs3: Regs3, rm: {0},
               imm: {-16, -1, 0, 15}, sew: {0}] : i.rs3 = i.rd}
  \cup {i \in [op: VLoad \cup VStore, rd: Regs3, rs1: Regs3, rs2: Regs3, rs3: {0}, rm: {0},
               imm: {0}, sew: {8, 16, 32}] :
          i.sew = op_sew(i.op) /\ (IF i.op \in VLoad THEN i.rs2 = 0 ELSE i.rd = 0)}
  \cup [op: {"VSETIVLI"}, rd: Regs3, rs1: {0}, rs2: {0}, rs3: {0}, rm: {0}, imm: {0, 1, 31},
        sew: {8, 16, 32}]
  \cup {i \in [op: {"VSETVLI"}, rd: Regs3, rs1: Regs3, rs2: {0}, rs3: {0}, rm: {0},
               imm: {-2, -1, 0}, sew: {8, 16, 32}] :
          i.imm = IF i.rs1 # 0 THEN 0 ELSE IF i.rd # 0 THEN -1 ELSE -2}

-----------------------------------------------------------------------------
Init ==
  /\ \/ word \in Words /\ emitted = Invalid
     \/ \E i \in Emittable : emitted = i /\ word = Encode(i)
  /\ instr = Invalid /\ decoded = FALSE

\* CPU::decode hands the fetched word to the decoder.
DecodeWord ==
  /\ ~decoded
  /\ instr' = decode(word) /\ decoded' = TRUE
  /\ UNCHANGED <<word, emitted>>

Spec == Init /\ [][DecodeWord]_decoderVars

\* What an assembler emits is decoded to the instruction it meant.
DecodesEncodings == decoded /\ emitted # Invalid => instr = emitted

\* What is decoded is the encoding of the instruction it is decoded to: no bit of
\* an accepted word is overlooked, and none is read into two fields.
AcceptsOnlyEncodings ==
  decoded /\ instr # Invalid => Encode(instr) = Canonical(word, instr.op)

\* The decoder and the operand tables of isa.hpp, which dispatch consults, agree:
\* a register field no table reads is left zero, so nobody waits for it; a stored
\* vector has the width its operation says; a rounding mode is one the floating
\* point unit knows; and a jump never leaves the halfword grid.
DecodedMatchesTables ==
  decoded /\ instr # Invalid =>
    /\ instr.op \in Op
    /\ src_type(instr.op, 0) = "NONE" => instr.rs1 = 0
    /\ src_type(instr.op, 1) = "NONE" => instr.rs2 = 0
    /\ src_type(instr.op, 2) = "NONE" => instr.rs3 = 0
    /\ dst_type(instr.op) = "NONE" => instr.rd = 0
    /\ IF instr.op \in VSet THEN instr.sew \in {8, 16, 32} ELSE instr.sew = op_sew(instr.op)
    /\ instr.rm \in {0, 1, 2, 3, 4, 7}
    /\ instr.op \in Branch \cup {"JAL"} => instr.imm % 2 = 0
=============================================================================
