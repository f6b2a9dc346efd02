-------------------------------- MODULE Fpu --------------------------------
(***************************************************************************)
(* What FloatingPointUnit computes (cpu/fpu.hpp).  A float is a word of a  *)
(* sign, ExpBits and FracBits bits (1, 8, 23); the unit computes in double *)
(* precision, rounds the double to a float, and repairs the float for the  *)
(* rounding modes that are not the host's.                                 *)
(*                                                                         *)
(* A double is a record: "nan", "inf" or "num", a sign, and m * 2^x with m *)
(* below 2^DoubleBits (53).  Its exponents are unbounded: the sums,        *)
(* products, quotients and roots of floats stay far within those of the    *)
(* code's double.                                                          *)
(***************************************************************************)
EXTENDS Isa

CONSTANTS ExpBits, FracBits, DoubleBits

ASSUME FpuAssumption ==
  /\ ExpBits \in Nat \ {0, 1} /\ FracBits \in Nat \ {0}
  /\ DoubleBits >= 2 * (FracBits + 1) + 2    \* 53 >= 50

SIGN_MASK     == 2^(ExpBits + FracBits)
EXP_MASK      == (2^ExpBits - 1) * 2^FracBits   \* the bits of infinity
QUIET_NAN_BIT == 2^(FracBits - 1)
CANONICAL_NAN == EXP_MASK + QUIET_NAN_BIT

sign(w)    == w >= SIGN_MASK
mag(w)     == w % SIGN_MASK
is_nan(w)  == mag(w) > EXP_MASK
is_zero(w) == mag(w) = 0
Bits(neg, magnitude) == magnitude + (IF neg THEN SIGN_MASK ELSE 0)

-----------------------------------------------------------------------------
Larger(a, b)  == IF a > b THEN a ELSE b
Smaller(a, b) == IF a > b THEN b ELSE a

Nan            == [kind |-> "nan", neg |-> FALSE, m |-> 0, x |-> 0]
Inf(neg)       == [kind |-> "inf", neg |-> neg, m |-> 0, x |-> 0]
Num(neg, m, x) == [kind |-> "num", neg |-> neg, m |-> m, x |-> x]

\* The exponent of the last bit of a subnormal float.
MinX == 2 - 2^(ExpBits - 1) - FracBits

\* static_cast<double>(bits_to_float(w)): exact.
ToDouble(w) ==
  LET e == mag(w) \div 2^FracBits
      f == mag(w) % 2^FracBits
  IN  IF is_nan(w) THEN Nan
      ELSE IF mag(w) = EXP_MASK THEN Inf(sign(w))
      ELSE IF e = 0 THEN Num(sign(w), f, MinX)
      ELSE Num(sign(w), 2^FracBits + f, MinX + e - 1)

Negated(d) == [d EXCEPT !.neg = ~@]

\* d as a whole number of units 2^x, x <= d.x; and the order of doubles, false
\* when one of them is not a number.
Units(d, x) == (IF d.neg THEN -d.m ELSE d.m) * 2^(d.x - x)
Rank(d) == IF d.kind = "num" THEN 0 ELSE IF d.neg THEN -1 ELSE 1
Less(a, b) ==
  /\ a.kind # "nan" /\ b.kind # "nan"
  /\ IF a.kind = "num" /\ b.kind = "num"
       THEN LET x == Smaller(a.x, b.x) IN Units(a, x) < Units(b, x)
       ELSE Rank(a) < Rank(b)
Zero == Num(FALSE, 0, 0)

\* The number of bits of m; the exact results of the unit have fewer than LongestBits.
LongestBits == 4 * 2^ExpBits + DoubleBits
BitLength(m) ==
  CHOOSE n \in 0..LongestBits :
    /\ m < 2^n \/ n = LongestBits
    /\ n = 0 \/ m >= 2^(n - 1)

\* Mutant of NearestEven: a tie goes up.
NearestUp(m, drop, sticky) ==
  IF drop <= 0 THEN m * 2^(-drop)
  ELSE IF drop > BitLength(m) THEN 0
  ELSE (m + 2^(drop - 1)) \div 2^drop

\* m without its last `drop` bits, rounded to nearest, ties to even; sticky says
\* that something less than the last bit of m has been cut off already.
NearestEven(m, drop, sticky) ==
  IF drop <= 0 THEN m * 2^(-drop)
  ELSE IF drop > BitLength(m) THEN 0
  ELSE LET q    == m \div 2^drop
           rest == m % 2^drop
           half == 2^(drop - 1)
       IN  IF rest > half \/ (rest = half /\ (sticky \/ q % 2 = 1)) THEN q + 1 ELSE q

RoundedDouble(neg, m, x, sticky) ==
  LET drop == Larger(BitLength(m) - DoubleBits, 0)
  IN  Num(neg, NearestEven(m, drop, sticky), x + drop)

IsZero(d) == d.kind = "num" /\ d.m = 0

\* a * b exactly, a + b of exact numbers, and the double operations made of them.
ExactProduct(a, b) ==
  LET neg == a.neg # b.neg
  IN  IF a.kind = "nan" \/ b.kind = "nan" THEN Nan
      ELSE IF a.kind = "inf" \/ b.kind = "inf"
        THEN IF IsZero(a) \/ IsZero(b) THEN Nan ELSE Inf(neg)
      ELSE Num(neg, a.m * b.m, a.x + b.x)

\* Mutant of ExactSum: infinities of unlike sign are not noticed.
ExactSumInfinities(a, b) ==
  IF a.kind = "nan" \/ b.kind = "nan" THEN Nan
  ELSE IF a.kind = "inf" THEN a
  ELSE IF b.kind = "inf" THEN b
  ELSE LET x   == Smaller(a.x, b.x)
           sum == Units(a, x) + Units(b, x)
       IN  Num(sum < 0, IF sum < 0 THEN -sum ELSE sum, x)

ExactSum(a, b) ==
  IF a.kind = "nan" \/ b.kind = "nan" THEN Nan
  ELSE IF a.kind = "inf" THEN IF b.kind = "inf" /\ a.neg # b.neg THEN Nan ELSE a
  ELSE IF b.kind = "inf" THEN b
  ELSE LET x   == Smaller(a.x, b.x)
           sum == Units(a, x) + Units(b, x)
       IN  IF sum = 0 THEN Num(a.neg /\ b.neg, 0, 0)
           ELSE Num(sum < 0, IF sum < 0 THEN -sum ELSE sum, x)

\* The double next to an exact number.
AsDouble(e) == IF e.kind = "num" THEN RoundedDouble(e.neg, e.m, e.x, FALSE) ELSE e
Add(a, b) == AsDouble(ExactSum(a, b))
Multiply(a, b) == AsDouble(ExactProduct(a, b))

Divide(a, b) ==
  LET neg   == a.neg # b.neg
      shift == DoubleBits + FracBits + 1
      n     == a.m * 2^shift
  IN  IF a.kind = "nan" \/ b.kind = "nan" \/ (a.kind = "inf" /\ b.kind = "inf") THEN Nan
      ELSE IF a.kind = "inf" THEN Inf(neg)
      ELSE IF b.kind = "inf" THEN Num(neg, 0, 0)
      ELSE IF b.m = 0 THEN IF a.m = 0 THEN Nan ELSE Inf(neg)
      ELSE RoundedDouble(neg, n \div b.m, a.x - b.x - shift, n % b.m # 0)

SquareRoot(a) ==
  LET shift == 2 * DoubleBits + (IF a.x % 2 = 0 THEN 0 ELSE 1)
      n     == a.m * 2^shift
      most  == 2^(DoubleBits + FracBits \div 2 + 2)    \* above every root
      root  == CHOOSE r \in 0..most : r * r <= n /\ (n < (r + 1) * (r + 1) \/ r = most)
  IN  IF a.kind = "nan" \/ IsZero(a) THEN a
      ELSE IF a.neg THEN Nan
      ELSE IF a.kind = "inf" THEN a
      ELSE RoundedDouble(FALSE, root, (a.x - shift) \div 2, root * root # n)

\* fma: one rounding, to a double.
FusedAdd(a, b, c) == Add(ExactProduct(a, b), c)

-----------------------------------------------------------------------------
\* float_to_bits(static_cast<float>(d)): to nearest, with subnormals, to infinity
\* above the largest float.
ToFloat(d) ==
  IF d.kind = "nan" THEN CANONICAL_NAN
  ELSE IF d.kind = "inf" THEN Bits(d.neg, EXP_MASK)
  ELSE IF d.m = 0 THEN Bits(d.neg, 0)
  ELSE LET drop == Larger(BitLength(d.m) - (FracBits + 1), MinX - d.x)
           q    == NearestEven(d.m, drop, FALSE)
       IN  Bits(d.neg, Smaller(q + (d.x + drop - MinX) * 2^FracBits, EXP_MASK))

\* fma on floats, which the vector unit uses: one rounding, to a float.
SingleFma(a, b, c) ==
  ToFloat(ExactSum(ExactProduct(ToDouble(a), ToDouble(b)), ToDouble(c)))

\* nextafterf(w, INFINITY) or (w, -INFINITY).
nextafter(w, up) ==
  IF is_nan(w) THEN w
  ELSE IF is_zero(w) THEN Bits(~up, 1)
  ELSE IF sign(w) = up THEN w - 1
  ELSE IF mag(w) = EXP_MASK THEN w ELSE w + 1

\* static_rm: without a frm register, dynamic rounding is to nearest.
RM_RNE == 0
RM_RTZ == 1
RM_RDN == 2
RM_RUP == 3
RM_RMM == 4
static_rm(rm) == IF rm <= RM_RMM THEN rm ELSE RM_RNE

\* Ties away from zero.
round_float_nearest(d, nearest) ==
  LET rounded == ToDouble(nearest)
      lower   == IF Less(rounded, d) THEN nearest ELSE nextafter(nearest, FALSE)
      upper   == IF Less(rounded, d) THEN nextafter(nearest, TRUE) ELSE nearest
      below   == Add(d, Negated(ToDouble(lower)))
      above   == Add(ToDouble(upper), Negated(d))
  IN  IF ~Less(rounded, d) /\ ~Less(d, rounded) THEN nearest
      ELSE IF Less(below, above) THEN lower
      ELSE IF Less(above, below) THEN upper
      ELSE IF Less(d, Zero) THEN lower ELSE upper

\* Mutant of round_to_float: the direction of a repair is taken from the float.
round_to_float_wrong_way(d, rm) ==
  LET nearest == ToFloat(d)
      rounded == ToDouble(nearest)
  IN  CASE static_rm(rm) = RM_RDN /\ Less(d, rounded) -> nextafter(nearest, sign(nearest))
        [] static_rm(rm) = RM_RUP /\ Less(rounded, d) -> nextafter(nearest, ~sign(nearest))
        [] OTHER -> nearest

\* round_to_float and rounded_bits.
round_to_float(d, rm) ==
  LET nearest == ToFloat(d)
      rounded == ToDouble(nearest)
      mode    == static_rm(rm)
  IN  IF \/ mode = RM_RTZ /\ ~Less(d, Zero) /\ Less(d, rounded)
         \/ mode = RM_RDN /\ Less(d, rounded)
        THEN nextafter(nearest, FALSE)
      ELSE IF \/ mode = RM_RTZ /\ Less(d, Zero) /\ Less(rounded, d)
              \/ mode = RM_RUP /\ Less(rounded, d)
        THEN nextafter(nearest, TRUE)
      ELSE IF mode = RM_RMM /\ d.kind # "nan" THEN round_float_nearest(d, nearest)
      ELSE nearest

\* round_to_integral of a number.
round_to_integral(d, rm) ==
  LET n     == Units(d, Smaller(d.x, 0))
      one   == 2^(-Smaller(d.x, 0))
      lower == n \div one
      ceil  == -((-n) \div one)
      frac  == 2 * (n % one)
      mode  == static_rm(rm)
  IN  CASE mode = RM_RTZ -> IF n < 0 THEN ceil ELSE lower
        [] mode = RM_RDN -> lower
        [] mode = RM_RUP -> ceil
        [] OTHER ->
             IF \/ frac < one
                \/ frac = one /\ IF mode = RM_RMM THEN n < 0 ELSE lower % 2 = 0
               THEN lower ELSE lower + 1

\* Mutant of fcvt_w_s: the upper bound is one too high.
fcvt_w_s_off_by_one(w, rm) ==
  LET d == ToDouble(w)
      r == round_to_integral(d, rm)
  IN  IF d.kind = "nan" \/ (d.kind = "inf" /\ ~d.neg) THEN SIGN_MASK - 1
      ELSE IF d.kind = "inf" \/ r < -SIGN_MASK THEN SIGN_MASK
      ELSE IF r > SIGN_MASK THEN SIGN_MASK - 1 ELSE r % (2 * SIGN_MASK)

\* To a signed, and an unsigned, integer of the word's width.
fcvt_w_s(w, rm) ==
  LET d == ToDouble(w)
      r == round_to_integral(d, rm)
  IN  IF d.kind = "nan" \/ (d.kind = "inf" /\ ~d.neg) THEN SIGN_MASK - 1
      ELSE IF d.kind = "inf" \/ r < -SIGN_MASK THEN SIGN_MASK
      ELSE IF r >= SIGN_MASK THEN SIGN_MASK - 1 ELSE r % (2 * SIGN_MASK)

fcvt_wu_s(w, rm) ==
  LET d == ToDouble(w)
      r == round_to_integral(d, rm)
  IN  IF d.kind = "nan" \/ (d.kind = "inf" /\ ~d.neg) THEN 2 * SIGN_MASK - 1
      ELSE IF d.kind = "inf" \/ r <= 0 THEN 0
      ELSE IF r >= 2 * SIGN_MASK THEN 2 * SIGN_MASK - 1 ELSE r

\* An integer is exact as a double: 32 bits are below 53.
FromInteger(i) == Num(i < 0, IF i < 0 THEN -i ELSE i, 0)
bits_to_i32(w) == IF sign(w) THEN w - 2 * SIGN_MASK ELSE w

\* The one that is a number, or else the lesser (greater) one; -0 is below +0.
Chosen(a, b, first_if, zero) ==
  IF is_nan(a) /\ is_nan(b) THEN CANONICAL_NAN
  ELSE IF is_nan(a) THEN b
  ELSE IF is_nan(b) THEN a
  ELSE IF is_zero(a) /\ is_zero(b) THEN zero
  ELSE IF first_if THEN a ELSE b
fmin(a, b) == Chosen(a, b, Less(ToDouble(a), ToDouble(b)), Bits(sign(a) \/ sign(b), 0))
\* Mutant of fmax: equal zeros are combined as in fmin.
fmax_negative_zero(a, b) ==
  Chosen(a, b, Less(ToDouble(b), ToDouble(a)), Bits(sign(a) \/ sign(b), 0))
fmax(a, b) == Chosen(a, b, Less(ToDouble(b), ToDouble(a)), Bits(sign(a) /\ sign(b), 0))

compare_lt(a, b) == Less(ToDouble(a), ToDouble(b))
compare_eq(a, b) == ~is_nan(a) /\ ~is_nan(b) /\ ~compare_lt(a, b) /\ ~compare_lt(b, a)
compare_le(a, b) == compare_lt(a, b) \/ compare_eq(a, b)

\* Mutant of fclass_bit: a subnormal with only the last bit set is called normal.
fclass_bit_subnormal(w) ==
  CASE is_nan(w)           -> IF mag(w) % (2 * QUIET_NAN_BIT) >= QUIET_NAN_BIT THEN 9 ELSE 8
    [] mag(w) = EXP_MASK   -> IF sign(w) THEN 0 ELSE 7
    [] mag(w) = 0          -> IF sign(w) THEN 3 ELSE 4
    [] mag(w) \in 2..(2^FracBits - 1) -> IF sign(w) THEN 2 ELSE 5
    [] OTHER               -> IF sign(w) THEN 1 ELSE 6

\* The number of the bit that is set.
fclass_bit(w) ==
  CASE is_nan(w)                     -> IF mag(w) % (2 * QUIET_NAN_BIT) >= QUIET_NAN_BIT THEN 9 ELSE 8
    [] mag(w) = EXP_MASK             -> IF sign(w) THEN 0 ELSE 7
    [] mag(w) = 0                    -> IF sign(w) THEN 3 ELSE 4
    [] mag(w) \in 1..(2^FracBits - 1) -> IF sign(w) THEN 2 ELSE 5
    [] OTHER                         -> IF sign(w) THEN 1 ELSE 6

\* The double an operation computes, to be rounded to a float.
Computed(op, a, b, c) ==
  LET f1 == ToDouble(a)
      f2 == ToDouble(b)
      f3 == ToDouble(c)
  IN CASE op = "FADD_S"    -> Add(f1, f2)
       [] op = "FSUB_S"    -> Add(f1, Negated(f2))
       [] op = "FMUL_S"    -> Multiply(f1, f2)
       [] op = "FDIV_S"    -> Divide(f1, f2)
       [] op = "FSQRT_S"   -> SquareRoot(f1)
       [] op = "FMADD_S"   -> FusedAdd(f1, f2, f3)
       [] op = "FMSUB_S"   -> FusedAdd(f1, f2, Negated(f3))
       [] op = "FNMSUB_S"  -> FusedAdd(Negated(f1), f2, f3)
       [] op = "FNMADD_S"  -> FusedAdd(Negated(f1), f2, Negated(f3))
       [] op = "FCVT_S_W"  -> FromInteger(bits_to_i32(a))
       [] op = "FCVT_S_WU" -> FromInteger(a)

fpu(op, a, b, c, rm) ==
  LET flag(x) == IF x THEN 1 ELSE 0
  IN CASE op = "FSGNJ_S"   -> Bits(sign(b), mag(a))
       [] op = "FSGNJN_S"  -> Bits(~sign(b), mag(a))
       [] op = "FSGNJX_S"  -> Bits(sign(a) # sign(b), mag(a))
       [] op = "FMIN_S"    -> fmin(a, b)
       [] op = "FMAX_S"    -> fmax(a, b)
       [] op = "FEQ_S"     -> flag(compare_eq(a, b))
       [] op = "FLT_S"     -> flag(compare_lt(a, b))
       [] op = "FLE_S"     -> flag(compare_le(a, b))
       [] op \in {"FMV_X_W", "FMV_W_X"} -> a
       [] op = "FCVT_W_S"  -> fcvt_w_s(a, rm)
       [] op = "FCVT_WU_S" -> fcvt_wu_s(a, rm)
       [] op = "FCLASS_S"  -> 2^fclass_bit(a)
       [] OTHER            -> round_to_float(Computed(op, a, b, c), rm)
=============================================================================
