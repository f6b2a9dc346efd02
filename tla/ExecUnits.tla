----------------------------- MODULE ExecUnits -----------------------------
(***************************************************************************)
(* What the execution units compute: ArithmeticLogicUnit (cpu/alu.hpp),    *)
(* MulDivUnit (cpu/mul.hpp), ControlUnit (cpu/ctrl.hpp), the address       *)
(* generation unit (cpu/lsu.hpp) and VectorUnit (cpu/vec.hpp).             *)
(* Operations are on words of four bytes of ByteBase       *)
(* values, so 32 bits are WordBits here; ByteBase is a power of two.  The  *)
(* floating-point operations, on floats of as many bits, are those of Fpu. *)
(***************************************************************************)
EXTENDS Isa, Memory

CONSTANTS
  WordBits,    \* bits of a word: ByteBase^4 = 2^WordBits
  VectorBits,  \* bits of a vector register, in bytes of eight bits
  ExpBits, FracBits, DoubleBits   \* see Fpu

ASSUME WordAssumption ==
  /\ ExpBits \in Nat \ {0, 1} /\ FracBits \in Nat \ {0}
  /\ DoubleBits \in Nat /\ DoubleBits >= 2 * (FracBits + 1) + 2
  /\ WordBits = 1 + ExpBits + FracBits /\ WordMod = 2^WordBits
  /\ VectorBits \in Nat /\ VectorBits >= 32
  /\ VectorBits \div 8 <= Lanes /\ VectorBits \div 8 < WordMod   \* 64 lanes

F == INSTANCE Fpu

\* static_cast<int32_t>, and back from a mathematical integer.
Signed(w) == IF 2 * w >= WordMod THEN w - WordMod ELSE w
ToWord(i) == i % WordMod

Bool(b) == IF b THEN 1 ELSE 0

\* The word whose bit k is set when the bits k of a and b are one of these pairs.
Bitwise(a, b, pairs) ==
  LET bit(w, k) == (w \div 2^k) % 2 = 1
      low[n \in 0..WordBits] ==
        IF n = 0 THEN 0
        ELSE low[n-1] + (IF <<bit(a, n-1), bit(b, n-1)>> \in pairs THEN 2^(n-1) ELSE 0)
  IN  low[WordBits]

alu(op, a, b) ==
  LET shift    == b % WordBits
      bits     == BOOLEAN \X BOOLEAN
  IN CASE op \in {"ADD", "ADDI", "LUI", "AUIPC"} -> ToWord(a + b)
       [] op = "SUB"                -> ToWord(a - b)
       [] op \in {"SLL", "SLLI"}    -> ToWord(a * 2^shift)
       [] op \in {"SLT", "SLTI"}    -> Bool(Signed(a) < Signed(b))
       [] op \in {"SLTU", "SLTIU"}  -> Bool(a < b)
       [] op \in {"XOR", "XORI"}    -> Bitwise(a, b, {p \in bits : p[1] # p[2]})
       [] op \in {"SRL", "SRLI"}    -> a \div 2^shift
       [] op \in {"SRA", "SRAI"}    -> ToWord(Signed(a) \div 2^shift)
       [] op \in {"OR", "ORI"}      -> Bitwise(a, b, {p \in bits : p[1] \/ p[2]})
       [] op \in {"AND", "ANDI"}    -> Bitwise(a, b, {p \in bits : p[1] /\ p[2]})

\* C++ division rounds towards zero.
Quotient(x, y) ==
  LET abs(i) == IF i < 0 THEN -i ELSE i
      q      == abs(x) \div abs(y)
  IN  IF (x < 0) = (y < 0) THEN q ELSE -q

muldiv(op, a, b) ==
  LET lhs == Signed(a)
      rhs == Signed(b)
      overflow == 2 * a = WordMod /\ rhs = -1
  IN CASE op = "MUL"    -> ToWord(lhs * rhs)
       [] op = "MULH"   -> ToWord((lhs * rhs) \div WordMod)
       [] op = "MULHSU" -> ToWord((lhs * b) \div WordMod)
       [] op = "MULHU"  -> (a * b) \div WordMod
       [] op = "DIV"    -> IF b = 0 THEN WordMod - 1 ELSE IF overflow THEN a
                           ELSE ToWord(Quotient(lhs, rhs))
       [] op = "REM"    -> IF b = 0 THEN a ELSE IF overflow THEN 0
                           ELSE ToWord(lhs - rhs * Quotient(lhs, rhs))
       [] op = "DIVU"   -> IF b = 0 THEN WordMod - 1 ELSE a \div b
       [] op = "REMU"   -> IF b = 0 THEN a ELSE a % b

branch_taken(op, a, b) ==
  CASE op = "BEQ"  -> a = b
    [] op = "BNE"  -> a # b
    [] op = "BLT"  -> Signed(a) < Signed(b)
    [] op = "BGE"  -> Signed(a) >= Signed(b)
    [] op = "BLTU" -> a < b
    [] op = "BGEU" -> a >= b

-----------------------------------------------------------------------------
\* VectorState: the longest vector of elements of sew bits, and what a vset gets.
vlmax(sew) == VectorBits \div sew
vl_for(avl, sew) == IF avl < vlmax(sew) THEN avl ELSE vlmax(sew)

\* The vl a vset leaves; `vsetvli x0, x0` keeps the one committed when it executes.
vset_vl(op, imm, a, sew, state_vl) ==
  IF op = "VSETVLI" /\ imm = -2 THEN state_vl
  ELSE vl_for(IF op = "VSETIVLI" THEN imm
              ELSE IF imm = -1 THEN vlmax(sew) ELSE a, sew)

\* A lane keeps the low sew bits (as many bytes of ByteBase values).
wrap(w, sew) == w % Base(sew \div 8)

\* Lanes below vl take a new value, the others keep that of the old register.
Lanewise(old, vl, sew, new) ==
  [l \in Lane |-> IF l < vl THEN wrap(ToWord(new[l]), sew) ELSE old[l]]

vector(op, imm, Vj, Vk, Vl, vl, sew) ==
  LET product   == [l \in Lane |-> Vj[l] * Vk[l]]
      macc      == [l \in Lane |-> Vj[l] + Vk[l] * Vl[l]]
      macc_x    == [l \in Lane |-> Vj[l] + Vk[0] * Vl[l]]
      immediate == [l \in Lane |-> imm]
      splat     == [l \in Lane |-> Vj[0]]
      fmacc     == [l \in Lane |-> F!SingleFma(Vk[l], Vl[l], Vj[l])]
      fmacc_f   == [l \in Lane |-> F!SingleFma(Vk[0], Vl[l], Vj[l])]
      sum[n \in 0..vl] == IF n = 0 THEN wrap(Vk[0], sew)
                          ELSE wrap(sum[n-1] + Vj[n-1], sew)
  IN CASE op = "VMUL_VV"    -> Lanewise(Vl, vl, sew, product)
       [] op = "VMACC_VV"   -> Lanewise(Vj, vl, sew, macc)
       [] op = "VMACC_VX"   -> Lanewise(Vj, vl, sew, macc_x)
       [] op = "VMV_V_I"    -> Lanewise(Vl, vl, sew, immediate)
       [] op = "VMV_V_X"    -> Lanewise(Vl, vl, sew, splat)
       [] op = "VMV_S_X"    -> [Vl EXCEPT ![0] = wrap(Vj[0], sew)]
       [] op = "VMV_X_S"    -> scalar(sign_extend(Vj[0], sew \div 8))
       [] op = "VMV1R_V"    -> Vj
       [] op = "VREDSUM_VS" -> [Vl EXCEPT ![0] = sum[vl]]
       [] op = "VFMV_V_F"   -> Lanewise(Vl, vl, 32, splat)
       [] op = "VFMACC_VV"  -> Lanewise(Vj, vl, 32, fmacc)
       [] op = "VFMACC_VF"  -> Lanewise(Vj, vl, 32, fmacc_f)

\* require_float_sew: the unit throws instead of computing.
VectorFloat == VFMul \cup {"VFMV_V_F"}
Unsupported(e) == e.op \in VectorFloat /\ e.sew # 32

-----------------------------------------------------------------------------
\* Where a control instruction at pc goes if it goes anywhere.
ctrl_target(op, pc, imm, a) ==
  IF op = "JALR" THEN LET t == ToWord(a + imm) IN t - (t % 2) ELSE ToWord(pc + imm)

\* The ExecEntry of an instruction that is not a load or a store: e is its
\* RSEntry, state_vl the vl of VectorState at the moment it finishes.
Compute(e, state_vl) ==
  LET a == e.Vj[0]
      b == IF e.op \in Upper \cup AluImm THEN ToWord(e.imm) ELSE e.Vk[0]
      base == IF e.op = "LUI" THEN 0 ELSE IF e.op = "AUIPC" THEN e.pc ELSE a
      new_vl == IF e.op \in VSet THEN vset_vl(e.op, e.imm, a, e.sew, state_vl) ELSE e.vl
      value ==
        CASE exec_type(e.op) = "LOGIC"  -> scalar(alu(e.op, base, b))
          [] exec_type(e.op) = "MULDIV" -> scalar(muldiv(e.op, a, b))
          [] e.op \in Jump              -> scalar(ToWord(e.pc + WORD_BYTES))
          [] e.op \in Branch            -> scalar(0)
          [] e.op \in VSet              -> scalar(new_vl)
          [] exec_type(e.op) = "FLOAT"  ->
               scalar(ToWord(F!fpu(e.op, a, e.Vk[0], e.Vl[0], e.rm)))
          [] e.op \in Vector \ VSet     -> vector(e.op, e.imm, e.Vj, e.Vk, e.Vl, e.vl, e.sew)
      jumped == e.op \in Jump \/ (e.op \in Branch /\ branch_taken(e.op, a, b))
  IN  [value |-> value, jumped |-> jumped,
       target |-> IF e.op \in Ctrl THEN ctrl_target(e.op, e.pc, e.imm, a) ELSE 0,
       vl  |-> IF e.op \in Vector THEN new_vl ELSE 0,
       sew |-> IF e.op \in Vector THEN e.sew ELSE 0]

\* AddressGenerationUnit.
EffectiveAddress(e) == ToWord(e.Vj[0] + e.imm)
=============================================================================
