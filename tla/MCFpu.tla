------------------------------- MODULE MCFpu -------------------------------
(***************************************************************************)
(* The floating-point unit on floats of a few bits, for which every        *)
(* combination of operands, operation and rounding mode can be tried,      *)
(* against the definition of correct rounding: the float next to the exact *)
(* result that the rounding mode asks for.  A behaviour executes one       *)
(* instruction.                                                            *)
(***************************************************************************)
EXTENDS Fpu

VARIABLES op, rm, a, b, c, result

fpuVars == <<op, rm, a, b, c, result>>

Float32 == 0..(2 * SIGN_MASK - 1)
Positive == 0..(SIGN_MASK - 1)
Finite(w) == mag(w) < EXP_MASK

Unary == {"FSQRT_S", "FCVT_W_S", "FCVT_WU_S", "FCLASS_S"}
Arithmetic == {"FADD_S", "FSUB_S", "FMUL_S", "FDIV_S", "FSQRT_S"}
Operations == Arithmetic \cup FMac \cup Unary \cup {"FMIN_S", "FMAX_S"}

\* Rounding modes as decoded: 0..4, and 7 for dynamic; two of them where rounding twice
\* may show, and none where nothing is rounded.
Modes(o) == CASE o \in FMac -> {RM_RNE, RM_RUP}
              [] o \in {"FMIN_S", "FMAX_S", "FCLASS_S"} -> {RM_RNE}
              [] OTHER -> {0, 1, 2, 3, 4, 7}

\* Addends: the smallest float, the most negative number, and infinity.
Addends == {1, SIGN_MASK + EXP_MASK - 1, EXP_MASK}

MCInit ==
  /\ op \in Operations
  /\ rm \in Modes(op)
  /\ a = 0 /\ b = 0 /\ c = 0 /\ result = -1

\* (Addition, subtraction and the four fused operations bring the signs that are left
\* out of the second and third operand.)
Execute ==
  /\ result = -1
  /\ a' \in IF op \in FMac THEN Positive ELSE Float32
  /\ b' \in CASE op \in Unary -> {0}
             [] op \in {"FMIN_S", "FMAX_S"} -> Float32
             [] OTHER -> Positive
  /\ c' \in IF op \in FMac THEN Addends ELSE {0}
  /\ result' = fpu(op, a', b', c', rm)
  /\ UNCHANGED <<op, rm>>

MCSpec == MCInit /\ [][Execute]_fpuVars

-----------------------------------------------------------------------------
\* Exact comparison of numbers m * 2^x, without rounding.
Sign(i) == IF i < 0 THEN -1 ELSE IF i > 0 THEN 1 ELSE 0
Compared(p, q) ==
  LET x == Smaller(p.x, q.x) IN Sign(Units(p, x) - Units(q, x))
Sum(p, q) ==
  LET x == Smaller(p.x, q.x)
      s == Units(p, x) + Units(q, x)
  IN  Num(s < 0, IF s < 0 THEN -s ELSE s, x)

\* The terms of the exact result: a product, and an addend.
Term1(o) == IF o \in {"FNMSUB_S", "FNMADD_S"} THEN Negated(ToDouble(a)) ELSE ToDouble(a)
Term3(o) == IF o \in {"FMSUB_S", "FNMADD_S"} THEN Negated(ToDouble(c)) ELSE ToDouble(c)

\* The exact result of the operation, when it is not a quotient or a root.
ExactResult ==
  IF op = "FMUL_S" THEN ExactProduct(ToDouble(a), ToDouble(b))
  ELSE Sum(IF op \in FMac THEN ExactProduct(Term1(op), ToDouble(b)) ELSE ToDouble(a),
           CASE op = "FADD_S" -> ToDouble(b)
             [] op = "FSUB_S" -> Negated(ToDouble(b))
             [] OTHER         -> Term3(op))

\* How the exact result of the operation compares with the number d: for a
\* quotient or a root without computing it.
ExactVersus(d) ==
  IF op = "FSQRT_S" /\ d.neg /\ d.m > 0 THEN 1
  ELSE Compared(IF op \in {"FDIV_S", "FSQRT_S"} THEN ToDouble(a) ELSE ExactResult,
                CASE op = "FDIV_S"  -> ExactProduct(d, ToDouble(b))
                  [] op = "FSQRT_S" -> ExactProduct(d, d)
                  [] OTHER          -> d)
       * (IF op = "FDIV_S" /\ sign(b) THEN -1 ELSE 1)

\* The operations whose exact result is a number.
Defined ==
  /\ Finite(a) /\ Finite(b) /\ Finite(c)
  /\ op = "FDIV_S" => ~is_zero(b)
  /\ op = "FSQRT_S" => ~sign(a) \/ is_zero(a)

\* A finite float as a number; and infinity, as the number that would follow the
\* largest float.
Number(w) ==
  IF mag(w) = EXP_MASK THEN Num(sign(w), 2^FracBits, MinX + 2^ExpBits - 2) ELSE ToDouble(w)
Halfway(v, w) == LET s == Sum(Number(v), Number(w)) IN Num(s.neg, s.m, s.x - 1)

\* The same on the side of the exact result, for the float of magnitude m there; and
\* the magnitudes next to the exact result, below and above (the same if it is one).
Versus(d, neg) == IF neg THEN -ExactVersus(d) ELSE ExactVersus(d)
Reached(m, neg) == Versus(Number(Bits(neg, m)), neg) >= 0
Below(m, neg) ==
  m \in 0..EXP_MASK /\ Reached(m, neg) /\ (m = EXP_MASK \/ ~Reached(m + 1, neg))
Above(below, neg) ==
  IF below = EXP_MASK \/ Versus(Number(Bits(neg, below)), neg) = 0 THEN below ELSE below + 1

\* Whether the exact result is negative; for a zero, the sign IEEE 754 gives it:
\* that of the product or quotient, and of a sum of unlike zeros or of opposites
\* minus only when rounding down.
ZeroSign ==
  LET product == Term1(op).neg # sign(b)
      first   == IF op \in FMac THEN product ELSE sign(a)
      addend  == CASE op = "FADD_S" -> sign(b) [] op = "FSUB_S" -> ~sign(b)
                   [] OTHER -> Term3(op).neg
  IN  IF op = "FSQRT_S" THEN sign(a)
      ELSE IF op \in {"FMUL_S", "FDIV_S"} THEN product
      ELSE IF first = addend THEN first ELSE rm = RM_RDN
Negative == \E versus \in {ExactVersus(Zero)} : versus < 0 \/ (versus = 0 /\ ZeroSign)

\* Which of the two magnitudes: half is how the exact result compares with the middle
\* between them.  Beyond the largest float, the one that is nearer to zero is that float.
Rounded(neg, lower, upper, half) ==
  LET low == IF lower = EXP_MASK THEN EXP_MASK - 1 ELSE lower
  IN  CASE rm = RM_RTZ -> low
        [] rm = RM_RDN -> IF neg THEN upper ELSE low
        [] rm = RM_RUP -> IF neg THEN low ELSE upper
        [] half < 0    -> lower
        [] half > 0    -> upper
        [] OTHER       -> IF rm = RM_RMM \/ lower % 2 = 1 THEN upper ELSE lower

\* A result that is one of these two magnitudes, or the largest float beyond it, is
\* among three candidates.
Candidates == {mag(result) - 1, mag(result), EXP_MASK}

IsCorrectlyRounded ==
  \E neg \in {Negative} :
  \E lower \in {m \in Candidates : Below(m, neg)} :
  \E upper \in {Above(lower, neg)} :
    result = Bits(neg,
          IF lower = upper /\ lower < EXP_MASK THEN lower
          ELSE Rounded(neg, lower, upper,
                 IF lower = upper THEN 1
                 ELSE Versus(Halfway(Bits(neg, lower), Bits(neg, upper)), neg)))

-----------------------------------------------------------------------------
Done == result # -1

\* In spite of rounding twice, first to a double and then to a float, the basic
\* operations are correctly rounded to nearest (also for dynamic rounding, which
\* the unit takes for it): a double has more than twice the bits of a float, so
\* it never falls on a tie the exact result was not on.
NearestIsCorrect ==
  Done /\ op \in Arithmetic /\ Defined /\ static_rm(rm) = RM_RNE => IsCorrectlyRounded

\* In every mode the result is correctly rounded, once, when the exact one fits a
\* double, however far the exponents of the operands are apart: the repair of the
\* rounding to nearest goes one float in the right direction, also across zero and
\* to and from infinity.  (Except, to nearest with ties away, beyond the largest
\* float; and for an exact zero, whose sign does not depend on the mode here.)
DirectedIsCorrect ==
  (/\ Done /\ op \in {"FADD_S", "FSUB_S", "FMUL_S"} \cup FMac /\ Defined
   /\ BitLength(ExactResult.m) \in 1..DoubleBits
   /\ rm = RM_RMM => mag(result) < EXP_MASK - 1)
    => IsCorrectlyRounded

\* In every mode, and for fused operations, the result is one of the two floats
\* next to the exact result, and the exact result itself when that is a float.
Faithful ==
  Done /\ op \in Arithmetic \cup FMac /\ Defined =>
    \E neg \in {Negative} : \E lower \in {m \in Candidates : Below(m, neg)} :
      mag(result) \in {lower, Above(lower, neg), Smaller(lower, EXP_MASK - 1)}

\* An operation without a numeric result gives the canonical NaN.
InvalidIsNan ==
  Done /\ op \in Arithmetic \cup FMac =>
    (is_nan(result) <=>
       \/ is_nan(a) \/ (op # "FSQRT_S" /\ is_nan(b)) \/ is_nan(c)
       \/ op \in {"FADD_S", "FSUB_S"} /\ ~Finite(a) /\ ~Finite(b)
            /\ (sign(a) = sign(b)) = (op = "FSUB_S")
       \/ op = "FDIV_S" /\ ((is_zero(a) /\ is_zero(b)) \/ (~Finite(a) /\ ~Finite(b)))
       \/ op \in {"FMUL_S"} \cup FMac
            /\ ((is_zero(a) /\ ~Finite(b)) \/ (~Finite(a) /\ is_zero(b)))
       \/ op \in FMac /\ ~Finite(c) /\ (~Finite(a) \/ ~Finite(b))
            /\ (Term1(op).neg # sign(b)) # Term3(op).neg
       \/ op = "FSQRT_S" /\ sign(a) /\ ~is_zero(a))
    /\ (is_nan(result) => result = CANONICAL_NAN)

-----------------------------------------------------------------------------
\* The integer a float is converted to: the one the mode asks for, or the limit it
\* passes; infinities and NaN are converted to the limits.
Limits(o) == IF o = "FCVT_W_S" THEN <<-SIGN_MASK, SIGN_MASK - 1>> ELSE <<0, 2 * SIGN_MASK - 1>>
Integral(d) ==
  LET versus(i) == Compared(d, Num(i < 0, IF i < 0 THEN -i ELSE i, 0))
      limit == 2^(2^(ExpBits - 1))   \* above every float
      floor == CHOOSE i \in (-limit)..limit : versus(i) >= 0 /\ versus(i + 1) < 0
      ceil  == IF versus(floor) = 0 THEN floor ELSE floor + 1
      s     == floor + ceil
      half  == Compared(d, Num(s < 0, IF s < 0 THEN -s ELSE s, -1))
      away  == IF d.neg THEN floor ELSE ceil
  IN  CASE rm = RM_RTZ -> floor + ceil - away
        [] rm = RM_RDN -> floor
        [] rm = RM_RUP -> ceil
        [] OTHER -> IF half < 0 THEN floor ELSE IF half > 0 THEN ceil
                    ELSE IF rm = RM_RMM THEN away ELSE IF floor % 2 = 0 THEN floor ELSE ceil
Clamped(i, limits) == IF i < limits[1] THEN limits[1] ELSE IF i > limits[2] THEN limits[2] ELSE i

\* Conversions to integers round once, in every mode, and saturate.
ConversionSaturates ==
  Done /\ op \in {"FCVT_W_S", "FCVT_WU_S"} =>
    result = (IF is_nan(a) THEN Limits(op)[2]
              ELSE IF ~Finite(a) THEN Limits(op)[IF sign(a) THEN 1 ELSE 2]
              ELSE Clamped(Integral(ToDouble(a)), Limits(op))) % (2 * SIGN_MASK)

\* Minimum, maximum and comparisons describe one order: the minimum is one of the
\* operands and not greater than either, -0 is less than +0 for them but equal in
\* comparisons, a NaN is ignored unless both are, and compares as nothing.
OrderIsOne ==
  Done /\ op \in {"FMIN_S", "FMAX_S"} =>
    \E lt \in {compare_lt(a, b)}, gt \in {compare_lt(b, a)}, eq \in {compare_eq(a, b)},
       le \in {compare_le(a, b)}, lo \in {fmin(a, b)}, hi \in {fmax(a, b)} :
      /\ IF is_nan(a) \/ is_nan(b) THEN ~lt /\ ~gt /\ ~eq /\ ~le
         ELSE /\ lt \/ gt \/ eq
              /\ ~(lt /\ gt) /\ ~(lt /\ eq) /\ ~(gt /\ eq) /\ (le <=> lt \/ eq)
      /\ fmin(b, a) = lo /\ fmax(b, a) = hi
      /\ result = IF op = "FMIN_S" THEN lo ELSE hi
      /\ IF is_nan(a) /\ is_nan(b) THEN lo = CANONICAL_NAN /\ hi = CANONICAL_NAN
         ELSE IF is_nan(a) \/ is_nan(b) THEN lo = hi /\ {lo} = {a, b} \ {w \in {a, b} : is_nan(w)}
         ELSE {lo, hi} = {a, b} /\ ~compare_lt(hi, lo) /\ (sign(hi) => sign(lo))

\* The class agrees with what arithmetic and comparisons say of the number.
ClassAgrees ==
  Done /\ op = "FCLASS_S" =>
    \E bit \in {CHOOSE k \in 0..9 : 2^k = result}, d \in {ToDouble(a)} :
      /\ bit \in {8, 9} <=> ~compare_eq(a, a)
      /\ bit \in {3, 4} <=> compare_eq(a, 0)
      /\ bit \in {0, 1, 2} <=> compare_lt(a, 0)
      /\ bit \in {0, 7} <=> ~is_nan(a) /\ Add(d, Negated(d)).kind = "nan"
      /\ bit \in {2, 5} <=> /\ ~compare_eq(a, 0)
                            /\ Less(d, Num(FALSE, 1, MinX + FracBits))
                            /\ Less(Num(TRUE, 1, MinX + FracBits), d)
=============================================================================
