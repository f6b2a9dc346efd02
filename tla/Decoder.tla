------------------------------ MODULE Decoder ------------------------------
(***************************************************************************)
(* Decoder::decode (cpu/decode.hpp): from a 32-bit word to an Instruction. *)
(* A word is the record of its R-format fields, high to low f7, rs2, rs1,  *)
(* f3, rd, opcode, 7+5+5+3+5+7 bits; every other format is a regrouping of *)
(* these bits.  The code names an operation and picks its operands in one  *)
(* return statement; here `operation` names it and `Operands` picks them.  *)
(***************************************************************************)
EXTENDS Isa, TLC

Bits7 == 0..127
Word == [f7: Bits7, rs2: 0..31, rs1: 0..31, f3: 0..7, rd: 0..31, opcode: Bits7]

\* sign_extend(value, bits), for a value of that many bits.
SignExtended(value, bits) == IF 2 * value >= 2^bits THEN value - 2^bits ELSE value

\* instruction >> 20, the immediates of the formats, and the vtype of a vset.
immu(w) == 32 * w.f7 + w.rs2
ImmI(w) == SignExtended(immu(w), 12)
ImmS(w) == SignExtended(32 * w.f7 + w.rd, 12)
ImmB(w) == SignExtended(2 * (w.rd \div 2) + (w.f7 % 64) * 32
                          + (w.rd % 2) * 2048 + (w.f7 \div 64) * 4096, 13)
Middle(w) == 8 * w.rs1 + w.f3
\* Mutant of ImmJ: the sign is taken from bit 30.
ImmJFrom30(w) == SignExtended(2 * ((immu(w) \div 2) % 1024) + (immu(w) % 2) * 2048
                                + Middle(w) * 4096 + ((immu(w) \div 1024) % 2) * 2^20, 21)
ImmJ(w) == SignExtended(2 * ((immu(w) \div 2) % 1024) + (immu(w) % 2) * 2048
                          + Middle(w) * 4096 + (immu(w) \div 2048) * 2^20, 21)
ImmU(w) == SignExtended(256 * immu(w) + Middle(w), 20) * 4096
Vtype(w) == IF w.f7 \div 32 = 3 THEN immu(w) % 1024 ELSE immu(w) % 2048

valid_rm(rm) == rm <= 4 \/ rm = 7

\* Mutant of sew_from_vtype: the length multiplier is not looked at.
sew_ignoring_lmul(zimm) ==
  LET sew == (zimm \div 8) % 8
  IN  IF zimm >= 256 \/ sew > 2 THEN 0 ELSE 8 * 2^sew
\* 0 for reserved bits, a length multiplier other than 1 or an unknown width.
sew_from_vtype(zimm) ==
  LET sew == (zimm \div 8) % 8
  IN  IF zimm >= 256 \/ zimm % 8 # 0 \/ sew > 2 THEN 0 ELSE 8 * 2^sew

\* lumop = 0, mop = 0, mew = 0, nf = 0 and no mask.
is_unit_stride_vector_mem(w) == w.rs2 = 0 /\ w.f7 = 1

-----------------------------------------------------------------------------
\* Operations by f3, from 0; "" is a code that no operation has.
Table(w, names) == names[w.f3 + 1]

ArithmeticNames ==
  (0  :> <<"ADD", "SLL", "SLT", "SLTU", "XOR", "SRL", "OR", "AND">>) @@
  (1  :> <<"MUL", "MULH", "MULHSU", "MULHU", "DIV", "DIVU", "REM", "REMU">>) @@
  (32 :> <<"SUB", "", "", "", "", "SRA", "", "">>)
ImmediateNames == <<"ADDI", "", "SLTI", "SLTIU", "XORI", "", "ORI", "ANDI">>
ShiftNames ==
  (0 :> <<"", "SLLI", "", "", "", "SRLI", "", "">>) @@
  (32 :> <<"", "", "", "", "", "SRAI", "", "">>)
LoadNames   == <<"LB", "LH", "LW", "", "LBU", "LHU", "", "">>
StoreNames  == <<"SB", "SH", "SW", "", "", "", "", "">>
VLoadNames  == <<"VLE8_V", "", "", "", "", "VLE16_V", "VLE32_V", "">>
VStoreNames == <<"VSE8_V", "", "", "", "", "VSE16_V", "VSE32_V", "">>
BranchNames == <<"BEQ", "BNE", "", "", "BLT", "BGE", "BLTU", "BGEU">>
FmaNames == (\h43 :> "FMADD_S") @@ (\h47 :> "FMSUB_S") @@ (\h4B :> "FNMSUB_S") @@ (\h4F :> "FNMADD_S")

\* Operations of opcode 0x53 by f7: those whose f3 is a rounding mode, with one or
\* two operands (rs2 then selects the operation), and those that f3 selects.
RoundedNames == (0 :> "FADD_S") @@ (4 :> "FSUB_S") @@ (8 :> "FMUL_S") @@ (12 :> "FDIV_S")
UnaryNames == (44 :> <<"FSQRT_S">>) @@ (96 :> <<"FCVT_W_S", "FCVT_WU_S">>)
                @@ (104 :> <<"FCVT_S_W", "FCVT_S_WU">>)
BinaryNames == (16 :> <<"FSGNJ_S", "FSGNJN_S", "FSGNJX_S">>) @@ (20 :> <<"FMIN_S", "FMAX_S">>)
                @@ (80 :> <<"FLE_S", "FLT_S", "FEQ_S">>)
MoveNames == (112 :> <<"FMV_X_W", "FCLASS_S">>) @@ (120 :> <<"FMV_W_X">>)

float_operation(w) ==
  IF w.f7 \in DOMAIN RoundedNames
    THEN IF valid_rm(w.f3) THEN RoundedNames[w.f7] ELSE ""
  ELSE IF w.f7 \in DOMAIN UnaryNames
    THEN IF valid_rm(w.f3) /\ w.rs2 + 1 \in DOMAIN UnaryNames[w.f7]
           THEN UnaryNames[w.f7][w.rs2 + 1] ELSE ""
  ELSE IF w.f7 \in DOMAIN BinaryNames
    THEN IF w.f3 + 1 \in DOMAIN BinaryNames[w.f7] THEN BinaryNames[w.f7][w.f3 + 1] ELSE ""
  ELSE IF w.f7 \in DOMAIN MoveNames /\ w.rs2 = 0
    THEN IF w.f3 + 1 \in DOMAIN MoveNames[w.f7] THEN MoveNames[w.f7][w.f3 + 1] ELSE ""
  ELSE ""

\* Unmasked vector operations by f6 and f3; three of them need a zero rs1, three a
\* zero rs2.
VectorNames ==
  (<<0, 2>> :> "VREDSUM_VS") @@ (<<16, 2>> :> "VMV_X_S") @@ (<<16, 6>> :> "VMV_S_X")
  @@ (<<23, 3>> :> "VMV_V_I") @@ (<<23, 4>> :> "VMV_V_X") @@ (<<23, 5>> :> "VFMV_V_F")
  @@ (<<37, 2>> :> "VMUL_VV") @@ (<<39, 3>> :> "VMV1R_V")
  @@ (<<44, 1>> :> "VFMACC_VV") @@ (<<44, 5>> :> "VFMACC_VF")
  @@ (<<45, 2>> :> "VMACC_VV") @@ (<<45, 6>> :> "VMACC_VX")

vector_operation(w) ==
  LET code == <<w.f7 \div 2, w.f3>>
      name == IF w.f7 % 2 = 1 /\ code \in DOMAIN VectorNames THEN VectorNames[code] ELSE ""
  IN  IF \/ name \in {"VMV_X_S", "VMV1R_V"} /\ w.rs1 # 0
         \/ name \in {"VMV_S_X", "VMV_V_I", "VMV_V_X", "VFMV_V_F"} /\ w.rs2 # 0
        THEN "" ELSE name

vset_operation(w) ==
  IF sew_from_vtype(Vtype(w)) = 0 THEN ""
  ELSE CASE w.f7 \div 32 = 3 -> "VSETIVLI" [] w.f7 \div 32 = 0 -> "VSETVLI" [] OTHER -> ""

operation(w) ==
  CASE w.opcode = \h33 -> IF w.f7 \in DOMAIN ArithmeticNames
                            THEN Table(w, ArithmeticNames[w.f7]) ELSE ""
    [] w.opcode = \h13 -> IF w.f3 \notin {1, 5} THEN Table(w, ImmediateNames)
                          ELSE IF w.f7 \in DOMAIN ShiftNames
                            THEN Table(w, ShiftNames[w.f7]) ELSE ""
    [] w.opcode = \h03 -> Table(w, LoadNames)
    [] w.opcode = \h23 -> Table(w, StoreNames)
    [] w.opcode = \h07 -> IF w.f3 = 2 THEN "FLW"
                          ELSE IF is_unit_stride_vector_mem(w) THEN Table(w, VLoadNames) ELSE ""
    [] w.opcode = \h27 -> IF w.f3 = 2 THEN "FSW"
                          ELSE IF is_unit_stride_vector_mem(w) THEN Table(w, VStoreNames) ELSE ""
    [] w.opcode \in DOMAIN FmaNames ->
         IF w.f7 % 4 = 0 /\ valid_rm(w.f3) THEN FmaNames[w.opcode] ELSE ""
    [] w.opcode = \h53 -> float_operation(w)
    [] w.opcode = \h57 -> IF w.f3 = 7 THEN vset_operation(w) ELSE vector_operation(w)
    [] w.opcode = \h63 -> Table(w, BranchNames)
    [] w.opcode = \h6F -> "JAL"
    [] w.opcode = \h67 -> IF w.f3 = 0 THEN "JALR" ELSE ""
    [] w.opcode = \h37 -> "LUI"
    [] w.opcode = \h17 -> "AUIPC"
    [] OTHER -> ""

-----------------------------------------------------------------------------
\* Instruction{}, and an Instruction with no third source, rounding mode or width.
Invalid == [op |-> "INVALID", rd |-> 0, rs1 |-> 0, rs2 |-> 0, imm |-> 0,
            rs3 |-> 0, rm |-> 0, sew |-> 0]
Fields(rd, rs1, rs2, imm) == [Invalid EXCEPT !.rd = rd, !.rs1 = rs1, !.rs2 = rs2, !.imm = imm]

\* The operations without a second operand.
FUnary == {"FSQRT_S", "FCVT_W_S", "FCVT_WU_S", "FCVT_S_W", "FCVT_S_WU",
           "FMV_X_W", "FMV_W_X", "FCLASS_S"}
\* The operations whose f3 is their rounding mode.
Rounded == FMac \cup {"FADD_S", "FSUB_S", "FMUL_S", "FDIV_S", "FSQRT_S",
                      "FCVT_W_S", "FCVT_WU_S", "FCVT_S_W", "FCVT_S_WU"}

\* The destination is also the last source (the lanes beyond vl keep its value),
\* but of a multiply-accumulate it is the first.
VectorOperands(w, op) ==
  CASE op \in {"VMV_V_X", "VMV_S_X", "VFMV_V_F"} -> [Fields(w.rd, w.rs1, 0, 0) EXCEPT !.rs3 = w.rd]
    [] op = "VMV_V_I" -> [Fields(w.rd, 0, 0, SignExtended(w.rs1, 5)) EXCEPT !.rs3 = w.rd]
    [] op \in {"VMV_X_S", "VMV1R_V"}    -> Fields(w.rd, w.rs2, 0, 0)
    [] op \in {"VMUL_VV", "VREDSUM_VS"} -> [Fields(w.rd, w.rs2, w.rs1, 0) EXCEPT !.rs3 = w.rd]
    [] OTHER                            -> [Fields(w.rd, w.rd, w.rs1, 0) EXCEPT !.rs3 = w.rs2]

\* Mutant of VsetOperands: the immediate length is also taken for a register.
VsetOperandsWithRs1(w, op) ==
  LET avl == IF op = "VSETIVLI" THEN w.rs1
             ELSE IF w.rs1 # 0 THEN 0 ELSE IF w.rd = 0 THEN -2 ELSE -1
  IN  [Fields(w.rd, w.rs1, 0, avl) EXCEPT !.sew = sew_from_vtype(Vtype(w))]
\* vsetvli: -1 asks for the longest vector, -2 keeps vl, 0 takes it from rs1.
VsetOperands(w, op) ==
  LET avl == IF op = "VSETIVLI" THEN w.rs1
             ELSE IF w.rs1 # 0 THEN 0 ELSE IF w.rd = 0 THEN -2 ELSE -1
  IN  [Fields(w.rd, IF op = "VSETIVLI" THEN 0 ELSE w.rs1, 0, avl)
         EXCEPT !.sew = sew_from_vtype(Vtype(w))]

\* VLE and VSE: f3 is 0, 5 or 6.
WidthOf(w) == IF w.f3 = 0 THEN 8 ELSE IF w.f3 = 5 THEN 16 ELSE 32

Operands(w, op) ==
  CASE op \in Alu \cup Mul \cup Div -> Fields(w.rd, w.rs1, w.rs2, 0)
    [] op \in {"SLLI", "SRLI", "SRAI"} -> Fields(w.rd, w.rs1, 0, w.rs2)
    [] op \in (AluImm \ {"SLLI", "SRLI", "SRAI"}) \cup IntLoad \cup {"FLW", "JALR"} ->
         Fields(w.rd, w.rs1, 0, ImmI(w))
    [] op \in IntStore \cup {"FSW"} -> Fields(0, w.rs1, w.rs2, ImmS(w))
    [] op \in Branch -> Fields(0, w.rs1, w.rs2, ImmB(w))
    [] op = "JAL"    -> Fields(w.rd, 0, 0, ImmJ(w))
    [] op \in Upper  -> Fields(w.rd, 0, 0, ImmU(w))
    [] op \in VLoad  -> [Fields(w.rd, w.rs1, 0, 0) EXCEPT !.sew = WidthOf(w)]
    [] op \in VStore -> [Fields(0, w.rs1, w.rd, 0) EXCEPT !.sew = WidthOf(w)]
    [] op \in FMac   -> [Fields(w.rd, w.rs1, w.rs2, 0) EXCEPT !.rs3 = w.f7 \div 4, !.rm = w.f3]
    [] op \in Float \ FMac ->
         [Fields(w.rd, w.rs1, IF op \in FUnary THEN 0 ELSE w.rs2, 0)
            EXCEPT !.rm = IF op \in Rounded THEN w.f3 ELSE 0]
    [] op \in VSet   -> VsetOperands(w, op)
    [] op \in Vector \ VSet -> VectorOperands(w, op)

decode(w) ==
  LET op == operation(w)
  IN  IF op = "" THEN Invalid ELSE [Operands(w, op) EXCEPT !.op = op]
=============================================================================
