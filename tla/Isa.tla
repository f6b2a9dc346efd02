-------------------------------- MODULE Isa --------------------------------
(***************************************************************************)
(* The instruction tables every part of the simulator consults: which      *)
(* execution path an operation takes, which register files it reads and    *)
(* writes, and how long its unit is busy (utils/isa.hpp, utils/helpers.hpp)*)
(* The predicates is_xxx(op) of the code are the sets Xxx here.            *)
(***************************************************************************)
EXTENDS Integers

\* -1U, "no tag": the operand is available, the register has no producer.
NoTag == -1

WORD_BYTES == 4

Alu    == {"ADD", "SUB", "SLL", "SLT", "SLTU", "XOR", "SRL", "SRA", "OR", "AND"}
AluImm == {"ADDI", "SLTI", "SLTIU", "XORI", "ORI", "ANDI", "SLLI", "SRLI", "SRAI"}
Upper  == {"LUI", "AUIPC"}
Mul    == {"MUL", "MULH", "MULHSU", "MULHU"}
Div    == {"DIV", "DIVU", "REM", "REMU"}
Branch == {"BEQ", "BNE", "BLT", "BGE", "BLTU", "BGEU"}
Jump   == {"JAL", "JALR"}
Ctrl   == Branch \cup Jump

VLoad  == {"VLE8_V", "VLE16_V", "VLE32_V"}
VStore == {"VSE8_V", "VSE16_V", "VSE32_V"}
IntLoad  == {"LB", "LH", "LW", "LBU", "LHU"}
IntStore == {"SB", "SH", "SW"}
Load   == IntLoad \cup {"FLW"} \cup VLoad
Store  == IntStore \cup {"FSW"} \cup VStore

FAdd == {"FADD_S", "FSUB_S", "FMIN_S", "FMAX_S",
         "FCVT_W_S", "FCVT_WU_S", "FCVT_S_W", "FCVT_S_WU"}
FMac == {"FMADD_S", "FMSUB_S", "FNMSUB_S", "FNMADD_S"}
FMul == FMac \cup {"FMUL_S"}
FSgn == {"FSGNJ_S", "FSGNJN_S", "FSGNJX_S"}
FCmp == {"FEQ_S", "FLT_S", "FLE_S"}
Float == FAdd \cup FMul \cup FSgn \cup FCmp
           \cup {"FDIV_S", "FSQRT_S", "FMV_X_W", "FMV_W_X", "FCLASS_S"}

VSet  == {"VSETVLI", "VSETIVLI"}
VMul  == {"VMUL_VV", "VMACC_VV", "VMACC_VX", "VREDSUM_VS"}
VFMul == {"VFMACC_VV", "VFMACC_VF"}
VMove == {"VMV_V_I", "VMV_V_X", "VMV_S_X", "VMV_X_S", "VMV1R_V", "VFMV_V_F"}
Vector == VSet \cup VMul \cup VFMul \cup VMove
Vec   == Vector \cup VLoad \cup VStore

\* The operations exec_type accepts: every enumerator of Op but INVALID.
Op == Alu \cup AluImm \cup Upper \cup Mul \cup Div \cup Ctrl
        \cup Load \cup Store \cup Float \cup Vector

-----------------------------------------------------------------------------
RegFiles == {"INT", "FLOAT", "VECTOR"}
RegType  == RegFiles \cup {"NONE"}

exec_type(op) ==
  CASE op \in Alu \cup AluImm \cup Upper -> "LOGIC"
    [] op \in Mul \cup Div               -> "MULDIV"
    [] op \in Ctrl                       -> "CTRL"
    [] op \in Load \cup Store            -> "LOADSTORE"
    [] op \in Float                      -> "FLOAT"
    [] op \in Vector                     -> "VECTOR"

\* The register file of source operand i (0, 1, 2), or NONE.
src_type(op, i) ==
  CASE i = 0 /\ op \in Alu \cup AluImm \cup Mul \cup Div \cup Load \cup Store
                        \cup Branch \cup {"JALR", "FCVT_S_W", "FCVT_S_WU",
                        "FMV_W_X", "VSETVLI", "VMV_V_X", "VMV_S_X"} -> "INT"
    [] i = 0 /\ op \in (Float \cup {"VFMV_V_F"})
                        \ {"FCVT_S_W", "FCVT_S_WU", "FMV_W_X"}      -> "FLOAT"
    [] i = 0 /\ op \in VMul \cup VFMul \cup {"VMV_X_S", "VMV1R_V"}  -> "VECTOR"
    [] i = 1 /\ op \in Alu \cup Mul \cup Div \cup IntStore \cup Branch
                        \cup {"VMACC_VX"}                           -> "INT"
    [] i = 1 /\ op \in {"FADD_S", "FSUB_S", "FMIN_S", "FMAX_S", "FDIV_S",
                        "FSW", "VFMACC_VF"} \cup FMul \cup FSgn \cup FCmp -> "FLOAT"
    [] i = 1 /\ op \in {"VMUL_VV", "VMACC_VV", "VREDSUM_VS", "VFMACC_VV"}
                        \cup VStore                                 -> "VECTOR"
    [] i = 2 /\ op \in FMac                                         -> "FLOAT"
    [] i = 2 /\ op \in (VMul \cup VFMul \cup VMove)
                        \ {"VMV_X_S", "VMV1R_V"}                    -> "VECTOR"
    [] OTHER                                                        -> "NONE"

\* The register file of the destination, or NONE.
dst_type(op) ==
  IF op \in Alu \cup AluImm \cup Upper \cup Mul \cup Div \cup Jump \cup IntLoad
            \cup FCmp \cup VSet
            \cup {"FCVT_W_S", "FCVT_WU_S", "FMV_X_W", "FCLASS_S", "VMV_X_S"}
    THEN "INT"
  ELSE IF op \in Float \cup {"FLW"} THEN "FLOAT"
  ELSE IF op \in Vector \cup VLoad THEN "VECTOR"
  ELSE "NONE"

writes_register(op) == dst_type(op) # "NONE"

\* Cycles a unit is busy with an operation; an address generation takes 1.
cycles(op) ==
  CASE op \in Load \cup Store         -> 2
    [] op \in VMul \cup Mul \cup FAdd -> 3
    [] op \in VFMul \cup FMul         -> 4
    [] op \in Div                     -> 8
    [] op = "FDIV_S"                  -> 10
    [] op = "FSQRT_S"                 -> 12
    [] OTHER                          -> 1

\* Bits of an element of a vector load or store.
op_sew(op) ==
  CASE op \in {"VLE8_V", "VSE8_V"}   -> 8
    [] op \in {"VLE16_V", "VSE16_V"} -> 16
    [] op \in {"VLE32_V", "VSE32_V"} -> 32
    [] OTHER                         -> 0
=============================================================================
