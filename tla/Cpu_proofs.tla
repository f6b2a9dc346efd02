---------------------------- MODULE Cpu_proofs ------------------------------
(***************************************************************************)
(* The pipeline is typed, its load/store queue mirrors the re-order        *)
(* buffer, what issues is in one place, what waits waits for what is       *)
(* older, and renaming is what a commit and a dispatch make it, for every  *)
(* configuration, program and state of the memory.  The execution units    *)
(* come first, because a result is typed by what computed it.              *)
(*                                                                         *)
(* CpuInv is the inductive invariant.  Its part about what is behind       *)
(* dispatch is Served(Serving(c)), a predicate of one record that          *)
(* the paths, the load/store queue, the tags of the re-order buffer and    *)
(* the results make, so that a stage is one lemma: it takes a record that  *)
(* is served to one that is.                                               *)
(***************************************************************************)
EXTENDS Cpu, TagQueue_proofs, FiniteSetTheorems, WellFoundedInduction, TLAPS

-----------------------------------------------------------------------------
(* What an execution unit computes is a word, or a value made of words:    *)
(* no operation, rounding mode or operand makes a unit leave its width.    *)
(* The recursive functions in the definitions (a word bit by bit, a sum    *)
(* lane by lane) are shown to exist and to stay within their range.        *)

Below == {p \in Nat \X Nat : p[1] < p[2]}

\* A non-empty set of natural numbers has a least one.
LEMMA LeastNat ==
  ASSUME NEW T \in SUBSET Nat, T # {}
  PROVE  \E x \in T : \A y \in T : x <= y
<1>1. IsWellFoundedOn(Below, Nat)
  BY NatLessThanWellFounded DEF OpToRel, Below
<1>2. PICK x \in T : \A y \in T : <<y, x>> \notin Below
  BY <1>1, WFMin, Zenon
<1>3. \A y \in T : ~(y < x)
  BY <1>2 DEF Below
<1> QED
  BY <1>2, <1>3

\* Powers of two are positive.
LEMMA PowerPositive == \A n \in Nat : 2^n \in Nat \ {0}
<1> SUFFICES ASSUME NEW n \in Nat PROVE 2^n \in Nat \ {0}
  OBVIOUS
<1>1. IsFiniteSet(1..n) /\ Cardinality(1..n) = n
  BY FS_Interval
<1>2. IsFiniteSet(SUBSET (1..n)) /\ Cardinality(SUBSET (1..n)) = 2^n
  BY <1>1, FS_SUBSET
<1>3. Cardinality(SUBSET (1..n)) \in Nat /\ Cardinality(SUBSET (1..n)) # 0
  BY <1>2, FS_CardinalityType, FS_EmptySet
<1> QED
  BY <1>2, <1>3

LEMMA Constants ==
  /\ ExpBits \in Nat /\ FracBits \in Nat /\ DoubleBits \in Nat /\ WordBits \in Nat
  /\ ExpBits - 1 \in Nat /\ FracBits - 1 \in Nat /\ WordBits > 0
  /\ ByteBase \in Nat /\ ByteBase >= 2 /\ Lanes \in Nat /\ 0 \in Lane
BY WordAssumption, MemoryAssumption DEF Lane

\* The powers of the base of a byte.
LEMMA WordSizes ==
  /\ WordMod \in Nat /\ WordMod >= 16
  /\ \A k : Base(k) \in Nat \ {0} /\ Base(k) <= WordMod
<1> DEFINE Bs == ByteBase
<1>1. Bs \in Nat /\ Bs >= 2
  BY MemoryAssumption
<1> HIDE DEF Bs
<1>2. Bs * Bs \in Nat /\ Bs * Bs >= 2 * Bs
  BY <1>1
<1>3. Bs * Bs * Bs \in Nat /\ Bs * Bs * Bs >= 2 * (Bs * Bs)
  BY <1>1, <1>2
<1>4. Bs * Bs * Bs * Bs \in Nat /\ Bs * Bs * Bs * Bs >= 2 * (Bs * Bs * Bs)
  BY <1>1, <1>3
<1>5. \A k : Base(k) \in {1, Bs, Bs * Bs, Bs * Bs * Bs, Bs * Bs * Bs * Bs}
  BY DEF Base, Bs
<1>6. WordMod = Bs * Bs * Bs * Bs
  BY DEF WordMod, Base, Bs
<1> QED
  BY <1>1, <1>2, <1>3, <1>4, <1>5, <1>6

LEMMA ToWordIsWord == \A i \in Int : ToWord(i) \in Word
BY WordSizes DEF ToWord, Word

LEMMA ScalarValue == \A w \in Word : scalar(w) \in Value
BY WordSizes DEF scalar, Value, Word

-----------------------------------------------------------------------------
(* The floating-point unit computes with doubles, and gives an integer.    *)

Double == [kind: {"nan", "inf", "num"}, neg: BOOLEAN, m: Nat, x: Int]

\* A product of natural numbers is one.
LEMMA TimesNat == \A i, j \in Nat : i * j \in Nat
OBVIOUS

LEMMA TimesInt == \A i, j \in Int : i * j \in Int
OBVIOUS

LEMMA FpuMasks ==
  /\ F!SIGN_MASK \in Nat \ {0} /\ F!EXP_MASK \in Nat /\ F!QUIET_NAN_BIT \in Nat
  /\ F!CANONICAL_NAN \in Nat /\ F!MinX \in Int /\ F!LongestBits \in Nat
  /\ 2^FracBits \in Nat \ {0}
<1>1. /\ 2^(ExpBits + FracBits) \in Nat \ {0} /\ 2^ExpBits \in Nat \ {0}
      /\ 2^FracBits \in Nat \ {0} /\ 2^(FracBits - 1) \in Nat \ {0}
      /\ 2^(ExpBits - 1) \in Nat \ {0}
  <2>1. ExpBits + FracBits \in Nat
    BY Constants
  <2> QED
    BY <2>1, Constants, PowerPositive
<1>2. F!SIGN_MASK \in Nat \ {0} /\ F!QUIET_NAN_BIT \in Nat
  BY <1>1 DEF F!SIGN_MASK, F!QUIET_NAN_BIT
<1>3. F!EXP_MASK \in Nat
  <2>1. 2^ExpBits - 1 \in Nat
    BY <1>1
  <2> QED
    BY <1>1, <2>1, TimesNat DEF F!EXP_MASK
<1>4. F!CANONICAL_NAN \in Nat
  BY <1>2, <1>3 DEF F!CANONICAL_NAN
<1>5. F!MinX \in Int
  BY <1>1, Constants DEF F!MinX
<1>6. F!LongestBits \in Nat
  BY <1>1, Constants DEF F!LongestBits
<1> QED
  BY <1>1, <1>2, <1>3, <1>4, <1>5, <1>6

LEMMA BitsInt == \A neg \in BOOLEAN, i \in Int : F!Bits(neg, i) \in Int
BY FpuMasks DEF F!Bits

LEMMA Magnitude == \A w \in Int : /\ F!mag(w) \in Nat
                                 /\ F!sign(w) \in BOOLEAN
                                 /\ F!is_nan(w) \in BOOLEAN
BY FpuMasks DEF F!mag, F!sign, F!is_nan

LEMMA NumDouble == \A neg \in BOOLEAN, m \in Nat, x \in Int : F!Num(neg, m, x) \in Double
BY DEF F!Num, Double

LEMMA NanInfDouble == F!Nan \in Double /\ F!Zero \in Double
                        /\ \A neg \in BOOLEAN : F!Inf(neg) \in Double
BY DEF F!Nan, F!Inf, F!Zero, F!Num, Double

LEMMA ToDoubleDouble == \A w \in Int : F!ToDouble(w) \in Double
<1> SUFFICES ASSUME NEW w \in Int PROVE F!ToDouble(w) \in Double
  OBVIOUS
<1>1. F!mag(w) \in Nat /\ F!sign(w) \in BOOLEAN
  BY Magnitude
<1>2. F!mag(w) \div 2^FracBits \in Nat /\ F!mag(w) % 2^FracBits \in Nat
  BY <1>1, FpuMasks
<1>3. F!ToDouble(w) \in {F!Nan, F!Inf(F!sign(w)), F!Num(F!sign(w), F!mag(w) % 2^FracBits, F!MinX),
        F!Num(F!sign(w), 2^FracBits + (F!mag(w) % 2^FracBits), F!MinX + (F!mag(w) \div 2^FracBits) - 1)}
  BY DEF F!ToDouble
<1>4. 2^FracBits + (F!mag(w) % 2^FracBits) \in Nat
  BY <1>2, FpuMasks
<1>5. F!MinX + (F!mag(w) \div 2^FracBits) - 1 \in Int
  BY <1>2, FpuMasks
<1> QED
  BY <1>1, <1>2, <1>3, <1>4, <1>5, FpuMasks, NumDouble, NanInfDouble

LEMMA NegatedDouble == \A d \in Double : F!Negated(d) \in Double
BY DEF F!Negated, Double

LEMMA UnitsInt ==
  ASSUME NEW d \in Double, NEW x \in Int, x <= d.x
  PROVE  F!Units(d, x) \in Int
<1>1. d.x - x \in Nat /\ d.m \in Nat
  BY DEF Double
<1>2. 2^(d.x - x) \in Nat
  BY <1>1, PowerPositive
<1>3. (IF d.neg THEN -d.m ELSE d.m) \in Int
  BY <1>1
<1> QED
  BY <1>2, <1>3, TimesInt DEF F!Units

LEMMA SmallerInt ==
  \A i, j \in Int : F!Smaller(i, j) \in Int /\ F!Smaller(i, j) <= i /\ F!Smaller(i, j) <= j
BY DEF F!Smaller

\* The number of bits of a number is one.
LEMMA BitLengthNat == \A m \in Nat : F!BitLength(m) \in Nat
<1> SUFFICES ASSUME NEW m \in Nat PROVE F!BitLength(m) \in Nat
  OBVIOUS
<1> DEFINE Ls == F!LongestBits
           S == {n \in 0..Ls : m < 2^n \/ n = Ls}
<1>1. Ls \in Nat
  BY FpuMasks
<1> HIDE DEF Ls
<1>2. S \in SUBSET Nat /\ S # {}
  <2>1. Ls \in S
    BY <1>1
  <2> QED
    BY <1>1, <2>1
<1>3. PICK n \in S : \A k \in S : n <= k
  BY <1>2, LeastNat
<1>4. n = 0 \/ m >= 2^(n - 1)
  <2> SUFFICES ASSUME n # 0 PROVE m >= 2^(n - 1)
    OBVIOUS
  <2>1. n - 1 \in 0..Ls /\ n - 1 < n
    BY <1>1
  <2>2. n - 1 \notin S
    BY <1>1, <1>3, <2>1
  <2>3. 2^(n - 1) \in Nat
    BY <2>1, PowerPositive
  <2> QED
    BY <2>1, <2>2, <2>3
<1>5. \E k \in 0..Ls : (m < 2^k \/ k = Ls) /\ (k = 0 \/ m >= 2^(k - 1))
  BY <1>3, <1>4
<1>6. F!BitLength(m) \in 0..Ls
  BY <1>5 DEF F!BitLength, Ls
<1> QED
  BY <1>1, <1>6

LEMMA NearestEvenNat ==
  ASSUME NEW m \in Nat, NEW drop \in Int, NEW sticky \in BOOLEAN
  PROVE  F!NearestEven(m, drop, sticky) \in Nat
<1>1. CASE drop <= 0
  <2>1. 2^(-drop) \in Nat
    BY <1>1, PowerPositive
  <2> QED
    BY <1>1, <2>1, TimesNat DEF F!NearestEven
<1>2. CASE drop > 0
  <2>1. 2^drop \in Nat \ {0}
    BY <1>2, PowerPositive
  <2>2. m \div 2^drop \in Nat
    BY <2>1
  <2>3. F!NearestEven(m, drop, sticky) \in {0, (m \div 2^drop) + 1, m \div 2^drop}
    BY <1>2 DEF F!NearestEven
  <2> QED
    BY <2>2, <2>3
<1> QED
  BY <1>1, <1>2

LEMMA RoundedDoubleDouble ==
  ASSUME NEW neg \in BOOLEAN, NEW m \in Nat, NEW x \in Int, NEW sticky \in BOOLEAN
  PROVE  F!RoundedDouble(neg, m, x, sticky) \in Double
<1> DEFINE drop == F!Larger(F!BitLength(m) - DoubleBits, 0)
<1>1. drop \in Int
  BY BitLengthNat, Constants DEF F!Larger
<1> HIDE DEF drop
<1>2. F!NearestEven(m, drop, sticky) \in Nat /\ x + drop \in Int
  BY <1>1, NearestEvenNat
<1>3. F!RoundedDouble(neg, m, x, sticky) = F!Num(neg, F!NearestEven(m, drop, sticky), x + drop)
  BY DEF F!RoundedDouble, drop
<1> QED
  BY <1>2, <1>3, NumDouble

LEMMA DoubleFields ==
  \A d \in Double : d.neg \in BOOLEAN /\ d.m \in Nat /\ d.x \in Int
BY DEF Double

LEMMA ExactProductDouble == \A a, b \in Double : F!ExactProduct(a, b) \in Double
<1> SUFFICES ASSUME NEW a \in Double, NEW b \in Double PROVE F!ExactProduct(a, b) \in Double
  OBVIOUS
<1> DEFINE neg == a.neg # b.neg
<1>1. neg \in BOOLEAN
  OBVIOUS
<1>2. F!ExactProduct(a, b) \in {F!Nan, F!Inf(neg), F!Num(neg, a.m * b.m, a.x + b.x)}
  BY DEF F!ExactProduct
<1> HIDE DEF neg
<1>3. a.m * b.m \in Nat /\ a.x + b.x \in Int
  BY DoubleFields, TimesNat
<1> QED
  BY <1>1, <1>2, <1>3, NanInfDouble, NumDouble

LEMMA ExactSumDouble == \A a, b \in Double : F!ExactSum(a, b) \in Double
<1> SUFFICES ASSUME NEW a \in Double, NEW b \in Double PROVE F!ExactSum(a, b) \in Double
  OBVIOUS
<1> DEFINE x == F!Smaller(a.x, b.x)
           ua == F!Units(a, x)
           ub == F!Units(b, x)
           sum == ua + ub
           both == a.neg /\ b.neg
           least == sum < 0
<1>1. x \in Int /\ ua \in Int /\ ub \in Int
  BY DoubleFields, SmallerInt, UnitsInt
<1> HIDE DEF ua, ub
<1>2. sum \in Int /\ (IF sum < 0 THEN -sum ELSE sum) \in Nat
  BY <1>1
<1>3. both \in BOOLEAN /\ least \in BOOLEAN
  OBVIOUS
<1>4. F!ExactSum(a, b) \in {F!Nan, a, b, F!Num(both, 0, 0),
                           F!Num(least, IF sum < 0 THEN -sum ELSE sum, x)}
  BY DEF F!ExactSum, ua, ub
<1>5. F!Num(both, 0, 0) \in Double /\ F!Num(least, IF sum < 0 THEN -sum ELSE sum, x) \in Double
  <2> HIDE DEF x, sum, both, least
  <2> QED
    BY <1>1, <1>2, <1>3, NumDouble
<1> HIDE DEF x, sum, both, least
<1> QED
  BY <1>4, <1>5, NanInfDouble

LEMMA AddDouble == \A a, b \in Double : F!Add(a, b) \in Double /\ F!Multiply(a, b) \in Double
<1>1. \A e \in Double : F!AsDouble(e) \in Double
  <2> SUFFICES ASSUME NEW e \in Double PROVE F!AsDouble(e) \in Double
    OBVIOUS
  <2>1. F!RoundedDouble(e.neg, e.m, e.x, FALSE) \in Double
    BY DoubleFields, RoundedDoubleDouble
  <2> QED
    BY <2>1 DEF F!AsDouble
<1> QED
  BY <1>1, ExactSumDouble, ExactProductDouble DEF F!Add, F!Multiply

LEMMA FusedAddDouble == \A a, b, c \in Double : F!FusedAdd(a, b, c) \in Double
BY AddDouble, ExactProductDouble DEF F!FusedAdd

LEMMA DivideDouble == \A a, b \in Double : F!Divide(a, b) \in Double
<1> SUFFICES ASSUME NEW a \in Double, NEW b \in Double PROVE F!Divide(a, b) \in Double
  OBVIOUS
<1> DEFINE neg == a.neg # b.neg
           shift == DoubleBits + FracBits + 1
           n == a.m * 2^shift
           inexact == n % b.m # 0
<1>1. neg \in BOOLEAN /\ inexact \in BOOLEAN
  OBVIOUS
<1>2. shift \in Nat /\ n \in Nat
  <2>1. shift \in Nat
    BY Constants
  <2> HIDE DEF shift
  <2>2. 2^shift \in Nat
    BY <2>1, PowerPositive
  <2> QED
    BY <2>1, <2>2, DoubleFields, TimesNat
<1>3. F!Divide(a, b) \in {F!Nan, F!Inf(neg), F!Num(neg, 0, 0)} \/
      (b.m # 0 /\ F!Divide(a, b) = F!RoundedDouble(neg, n \div b.m, a.x - b.x - shift, inexact))
  BY DEF F!Divide
<1> HIDE DEF neg, shift, n, inexact
<1>4. b.m # 0 => n \div b.m \in Nat
  BY <1>2, DoubleFields
<1>5. a.x - b.x - shift \in Int
  BY <1>2, DoubleFields
<1> QED
  BY <1>1, <1>3, <1>4, <1>5, RoundedDoubleDouble, NanInfDouble, NumDouble

LEMMA SquareRootDouble == \A a \in Double : F!SquareRoot(a) \in Double
<1> SUFFICES ASSUME NEW a \in Double PROVE F!SquareRoot(a) \in Double
  OBVIOUS
<1> DEFINE shift == 2 * DoubleBits + (IF a.x % 2 = 0 THEN 0 ELSE 1)
           n == a.m * 2^shift
           most == 2^(DoubleBits + FracBits \div 2 + 2)
           root == CHOOSE r \in 0..most : r * r <= n /\ (n < (r + 1) * (r + 1) \/ r = most)
           inexact == root * root # n
<1>1. shift \in Nat
  BY Constants
<1>2. n \in Nat
  <2> HIDE DEF shift
  <2>1. 2^shift \in Nat
    BY <1>1, PowerPositive
  <2> QED
    BY <2>1, DoubleFields, TimesNat
<1>3. most \in Nat
  <2>1. DoubleBits + FracBits \div 2 + 2 \in Nat
    BY Constants
  <2> QED
    BY <2>1, PowerPositive
<1> HIDE DEF n, most
<1>4. root \in Nat
  <2> DEFINE S == {r \in 0..most : n < (r + 1) * (r + 1) \/ r = most}
  <2>1. S \in SUBSET Nat /\ S # {}
    <3>1. most \in S
      BY <1>3
    <3>2. \A r \in S : r \in 0..most
      OBVIOUS
    <3> HIDE DEF S
    <3> QED
      BY <1>3, <3>1, <3>2
  <2>2. PICK r \in S : \A k \in S : r <= k
    BY <2>1, LeastNat
  <2>3. r * r <= n
    <3>1. CASE r = 0
      BY <1>2, <3>1
    <3>2. CASE r # 0
      <4>1. r - 1 \in 0..most /\ r - 1 < r
        BY <1>3, <3>2
      <4>2. r - 1 \notin S
        BY <1>3, <2>2, <4>1
      <4>3. ~(n < ((r - 1) + 1) * ((r - 1) + 1))
        BY <4>1, <4>2
      <4>4. (r - 1) + 1 = r /\ r \in Nat
        BY <1>3
      <4>5. r * r \in Nat
        BY <4>4, TimesNat
      <4>6. ~(n < r * r)
        BY <4>3, <4>4
      <4> QED
        BY <1>2, <4>5, <4>6
    <3> QED
      BY <3>1, <3>2
  <2>4. \E k \in 0..most : k * k <= n /\ (n < (k + 1) * (k + 1) \/ k = most)
    BY <2>2, <2>3
  <2>5. root \in 0..most
    BY <2>4
  <2> QED
    BY <1>3, <2>5
<1>5. F!SquareRoot(a) \in {a, F!Nan}
        \/ F!SquareRoot(a) = F!RoundedDouble(FALSE, root, (a.x - shift) \div 2, inexact)
  BY DEF F!SquareRoot, n, most
<1>6. inexact \in BOOLEAN
  OBVIOUS
<1> HIDE DEF shift, root, inexact
<1>7. (a.x - shift) \div 2 \in Int
  BY <1>1, DoubleFields
<1> QED
  BY <1>4, <1>5, <1>6, <1>7, RoundedDoubleDouble, NanInfDouble

LEMMA ToFloatInt == \A d \in Double : F!ToFloat(d) \in Int
<1> SUFFICES ASSUME NEW d \in Double PROVE F!ToFloat(d) \in Int
  OBVIOUS
<1> DEFINE drop == F!Larger(F!BitLength(d.m) - (FracBits + 1), F!MinX - d.x)
           q == F!NearestEven(d.m, drop, FALSE)
           biased == (d.x + drop - F!MinX) * 2^FracBits
<1>1. drop \in Int
  BY BitLengthNat, DoubleFields, Constants, FpuMasks DEF F!Larger
<1> HIDE DEF drop
<1>2. q \in Nat
  BY <1>1, NearestEvenNat, DoubleFields
<1>3. d.x + drop - F!MinX \in Int
  BY <1>1, DoubleFields, FpuMasks
<1>4. biased \in Int
  BY <1>3, FpuMasks, TimesInt
<1>5. F!ToFloat(d) \in {F!CANONICAL_NAN, F!Bits(d.neg, F!EXP_MASK), F!Bits(d.neg, 0),
                       F!Bits(d.neg, F!Smaller(q + biased, F!EXP_MASK))}
  BY DEF F!ToFloat, drop
<1> HIDE DEF q, biased
<1>6. F!Smaller(q + biased, F!EXP_MASK) \in Int
  BY <1>2, <1>4, SmallerInt, FpuMasks
<1> QED
  BY <1>5, <1>6, BitsInt, FpuMasks, DoubleFields

LEMMA NextafterInt == \A w \in Int, up \in BOOLEAN : F!nextafter(w, up) \in Int
<1> SUFFICES ASSUME NEW w \in Int, NEW up \in BOOLEAN PROVE F!nextafter(w, up) \in Int
  OBVIOUS
<1>1. F!nextafter(w, up) \in {w, w - 1, w + 1, F!Bits(~up, 1)}
  BY DEF F!nextafter
<1>2. F!Bits(~up, 1) \in Int
  BY FpuMasks DEF F!Bits
<1> QED
  BY <1>1, <1>2

LEMMA RoundToFloatInt == \A d \in Double : \A rm : F!round_to_float(d, rm) \in Int
<1> SUFFICES ASSUME NEW d \in Double, NEW rm PROVE F!round_to_float(d, rm) \in Int
  OBVIOUS
<1> DEFINE nearest == F!ToFloat(d)
<1>1. nearest \in Int
  BY ToFloatInt
<1>2. F!nextafter(nearest, FALSE) \in Int /\ F!nextafter(nearest, TRUE) \in Int
  BY <1>1, NextafterInt
<1>3. F!round_float_nearest(d, nearest)
        \in {nearest, F!nextafter(nearest, FALSE), F!nextafter(nearest, TRUE)}
  BY DEF F!round_float_nearest
<1>4. F!round_to_float(d, rm) \in {nearest, F!nextafter(nearest, FALSE),
        F!nextafter(nearest, TRUE), F!round_float_nearest(d, nearest)}
  BY DEF F!round_to_float
<1> HIDE DEF nearest
<1> QED
  BY <1>1, <1>2, <1>3, <1>4

LEMMA RoundToIntegralInt == \A d \in Double : \A rm : F!round_to_integral(d, rm) \in Int
<1> SUFFICES ASSUME NEW d \in Double, NEW rm PROVE F!round_to_integral(d, rm) \in Int
  OBVIOUS
<1> DEFINE x == F!Smaller(d.x, 0)
           n == F!Units(d, x)
           one == 2^(-x)
<1>1. x \in Int /\ x <= d.x /\ x <= 0
  <2>1. d.x \in Int
    BY DoubleFields
  <2> QED
    BY <2>1 DEF F!Smaller
<1> HIDE DEF x
<1>2. n \in Int
  BY <1>1, UnitsInt
<1>3. one \in Nat \ {0}
  BY <1>1, PowerPositive
<1>4. F!round_to_integral(d, rm) \in {n \div one, -((-n) \div one), (n \div one) + 1}
  BY DEF F!round_to_integral, x
<1> HIDE DEF n, one
<1>5. n \div one \in Int /\ (-n) \div one \in Int
  BY <1>2, <1>3
<1> QED
  BY <1>4, <1>5

LEMMA ConvertedInt == \A w \in Int : \A rm : F!fcvt_w_s(w, rm) \in Int /\ F!fcvt_wu_s(w, rm) \in Int
<1> SUFFICES ASSUME NEW w \in Int, NEW rm
             PROVE  F!fcvt_w_s(w, rm) \in Int /\ F!fcvt_wu_s(w, rm) \in Int
  OBVIOUS
<1> DEFINE r == F!round_to_integral(F!ToDouble(w), rm)
           Ms == F!SIGN_MASK
<1>1. r \in Int
  BY ToDoubleDouble, RoundToIntegralInt
<1>2. F!fcvt_w_s(w, rm) \in {Ms - 1, Ms, r % (2 * Ms)}
  BY DEF F!fcvt_w_s
<1>3. F!fcvt_wu_s(w, rm) \in {2 * Ms - 1, 0, r}
  BY DEF F!fcvt_wu_s
<1>4. Ms \in Nat \ {0}
  BY FpuMasks
<1> HIDE DEF r, Ms
<1>5. r % (2 * Ms) \in Int
  BY <1>1, <1>4
<1> QED
  BY <1>1, <1>2, <1>3, <1>4, <1>5

LEMMA FromIntegerDouble == \A i \in Int : F!FromInteger(i) \in Double /\ F!bits_to_i32(i) \in Int
<1> SUFFICES ASSUME NEW i \in Int
             PROVE  F!FromInteger(i) \in Double /\ F!bits_to_i32(i) \in Int
  OBVIOUS
<1>1. F!bits_to_i32(i) \in Int
  BY FpuMasks DEF F!bits_to_i32
<1>2. (IF i < 0 THEN -i ELSE i) \in Nat /\ (i < 0) \in BOOLEAN
  OBVIOUS
<1>3. F!FromInteger(i) \in Double
  <2> DEFINE neg == i < 0
             m == IF i < 0 THEN -i ELSE i
  <2>1. F!FromInteger(i) = F!Num(neg, m, 0)
    BY DEF F!FromInteger
  <2>2. neg \in BOOLEAN /\ m \in Nat
    BY <1>2
  <2> HIDE DEF neg, m
  <2> QED
    BY <2>1, <2>2, NumDouble
<1> QED
  BY <1>1, <1>3

LEMMA MinMaxInt == \A a, b \in Int : F!fmin(a, b) \in Int /\ F!fmax(a, b) \in Int
<1> SUFFICES ASSUME NEW a \in Int, NEW b \in Int
             PROVE  F!fmin(a, b) \in Int /\ F!fmax(a, b) \in Int
  OBVIOUS
<1> DEFINE either == F!sign(a) \/ F!sign(b)
           both == F!sign(a) /\ F!sign(b)
<1>1. F!fmin(a, b) \in {F!CANONICAL_NAN, a, b, F!Bits(either, 0)}
  BY DEF F!fmin, F!Chosen
<1>2. F!fmax(a, b) \in {F!CANONICAL_NAN, a, b, F!Bits(both, 0)}
  BY DEF F!fmax, F!Chosen
<1>3. either \in BOOLEAN /\ both \in BOOLEAN
  OBVIOUS
<1> HIDE DEF either, both
<1> QED
  BY <1>1, <1>2, <1>3, BitsInt, FpuMasks

LEMMA ComputedDouble ==
  ASSUME NEW a \in Int, NEW b \in Int, NEW c \in Int,
         NEW op \in {"FADD_S", "FSUB_S", "FMUL_S", "FDIV_S", "FSQRT_S", "FMADD_S", "FMSUB_S",
                    "FNMSUB_S", "FNMADD_S", "FCVT_S_W", "FCVT_S_WU"}
  PROVE  F!Computed(op, a, b, c) \in Double
<1> DEFINE d1 == F!ToDouble(a)
           d2 == F!ToDouble(b)
           d3 == F!ToDouble(c)
<1>1. d1 \in Double /\ d2 \in Double /\ d3 \in Double
  BY ToDoubleDouble
<1>2. F!Computed(op, a, b, c) \in
        {F!Add(d1, d2), F!Add(d1, F!Negated(d2)), F!Multiply(d1, d2), F!Divide(d1, d2),
         F!SquareRoot(d1), F!FusedAdd(d1, d2, d3), F!FusedAdd(d1, d2, F!Negated(d3)),
         F!FusedAdd(F!Negated(d1), d2, d3), F!FusedAdd(F!Negated(d1), d2, F!Negated(d3)),
         F!FromInteger(F!bits_to_i32(a)), F!FromInteger(a)}
  BY DEF F!Computed
<1> HIDE DEF d1, d2, d3
<1>3. F!Negated(d1) \in Double /\ F!Negated(d2) \in Double /\ F!Negated(d3) \in Double
  BY <1>1, NegatedDouble
<1>4. /\ F!Add(d1, d2) \in Double /\ F!Add(d1, F!Negated(d2)) \in Double
      /\ F!Multiply(d1, d2) \in Double /\ F!Divide(d1, d2) \in Double
      /\ F!SquareRoot(d1) \in Double
  BY <1>1, <1>3, AddDouble, DivideDouble, SquareRootDouble
<1>5. /\ F!FusedAdd(d1, d2, d3) \in Double /\ F!FusedAdd(d1, d2, F!Negated(d3)) \in Double
      /\ F!FusedAdd(F!Negated(d1), d2, d3) \in Double
      /\ F!FusedAdd(F!Negated(d1), d2, F!Negated(d3)) \in Double
  BY <1>1, <1>3, FusedAddDouble
<1>6. F!FromInteger(F!bits_to_i32(a)) \in Double /\ F!FromInteger(a) \in Double
  BY FromIntegerDouble
<1> QED
  BY <1>2, <1>4, <1>5, <1>6

\* Whatever the operation, its operands and the rounding mode.
LEMMA FpuInt ==
  ASSUME NEW op \in Float, NEW a \in Int, NEW b \in Int, NEW c \in Int, NEW rm
  PROVE  F!fpu(op, a, b, c, rm) \in Int
<1> DEFINE Arithmetic == {"FADD_S", "FSUB_S", "FMUL_S", "FDIV_S", "FSQRT_S", "FMADD_S", "FMSUB_S",
                          "FNMSUB_S", "FNMADD_S", "FCVT_S_W", "FCVT_S_WU"}
<1>1. CASE op \in Arithmetic
  <2>1. F!fpu(op, a, b, c, rm) = F!round_to_float(F!Computed(op, a, b, c), rm)
    BY <1>1 DEF F!fpu
  <2> QED
    BY <1>1, <2>1, ComputedDouble, RoundToFloatInt
<1>2. CASE op \notin Arithmetic
  <2> DEFINE unlike == F!sign(a) # F!sign(b)
  <2>1. op \in {"FSGNJ_S", "FSGNJN_S", "FSGNJX_S", "FMIN_S", "FMAX_S", "FEQ_S", "FLT_S", "FLE_S",
               "FMV_X_W", "FMV_W_X", "FCVT_W_S", "FCVT_WU_S", "FCLASS_S"}
    BY <1>2 DEF Float, FAdd, FMul, FMac, FSgn, FCmp
  <2>2. F!fpu(op, a, b, c, rm) \in
          {F!Bits(F!sign(b), F!mag(a)), F!Bits(~F!sign(b), F!mag(a)), F!Bits(unlike, F!mag(a)),
           F!fmin(a, b), F!fmax(a, b), 0, 1, a, F!fcvt_w_s(a, rm), F!fcvt_wu_s(a, rm),
           2^F!fclass_bit(a)}
    BY <2>1 DEF F!fpu
  <2>3. /\ F!Bits(F!sign(b), F!mag(a)) \in Int /\ F!Bits(~F!sign(b), F!mag(a)) \in Int
        /\ F!Bits(unlike, F!mag(a)) \in Int
    BY FpuMasks, Magnitude DEF F!Bits
  <2>4. 2^F!fclass_bit(a) \in Int
    <3>1. F!fclass_bit(a) \in 0..9
      BY DEF F!fclass_bit
    <3> QED
      BY <3>1, PowerPositive
  <2>5. /\ F!fmin(a, b) \in Int /\ F!fmax(a, b) \in Int
        /\ F!fcvt_w_s(a, rm) \in Int /\ F!fcvt_wu_s(a, rm) \in Int
    BY MinMaxInt, ConvertedInt
  <2> QED
    BY <2>2, <2>3, <2>4, <2>5
<1> QED
  BY <1>1, <1>2

LEMMA SingleFmaInt == \A a, b, c \in Int : F!SingleFma(a, b, c) \in Int
BY ToDoubleDouble, ExactProductDouble, ExactSumDouble, ToFloatInt DEF F!SingleFma

-----------------------------------------------------------------------------
(* Recursive functions: they exist, and what they are is found by induction*)
(* over a set of numbers, in the form the provers can use.                 *)

LEMMA UpTo ==
  ASSUME NEW N \in Nat, NEW Ps, 0 \in Ps, \A n \in 1..N : n - 1 \in Ps => n \in Ps
  PROVE  \A n \in 0..N : n \in Ps
<1> DEFINE bad == {n \in 0..N : n \notin Ps}
<1> SUFFICES ASSUME bad # {} PROVE FALSE
  OBVIOUS
<1>1. bad \in SUBSET Nat
  OBVIOUS
<1>2. PICK k \in bad : \A n \in bad : k <= n
  BY <1>1, LeastNat
<1>3. k \in 1..N /\ k \notin Ps
  OBVIOUS
<1>4. k - 1 \notin bad /\ k - 1 \in 0..N
  BY <1>1, <1>2, <1>3
<1> QED
  BY <1>3, <1>4

\* A function on 0..N by its first value and the step to the next one.
Iterates(f, N, base, step) == f = [n \in 0..N |-> IF n = 0 THEN base ELSE step[<<f[n-1], n>>]]

LEMMA Recursion ==
  ASSUME NEW N \in Nat, NEW base, NEW step
  PROVE  \E f : Iterates(f, N, base, step)
<1> DEFINE Is(f, k) == Iterates(f, k, base, step)
           Ps == {k \in 0..N : \E f : Is(f, k)}
<1> USE DEF Iterates
<1>1. 0 \in Ps
  <2> DEFINE f == [n \in 0..0 |-> base]
  <2>1. f = [n \in 0..0 |-> IF n = 0 THEN base ELSE step[<<f[n-1], n>>]]
    OBVIOUS
  <2>2. \E g : Is(g, 0)
    <3> HIDE DEF f
    <3> QED
      BY <2>1
  <2> QED
    BY <2>2
<1>2. ASSUME NEW k \in 1..N, k - 1 \in Ps PROVE k \in Ps
  <2>1. PICK g : Is(g, k - 1)
    BY <1>2
  <2> DEFINE f == [n \in 0..k |-> IF n = k THEN step[<<g[k-1], k>>] ELSE g[n]]
  <2>2. ASSUME NEW n \in 0..k
        PROVE  f[n] = IF n = 0 THEN base ELSE step[<<f[n-1], n>>]
    <3>1. CASE n = 0
      BY <2>1, <3>1
    <3>2. CASE n # 0 /\ n # k
      <4>1. n \in 0..(k-1) /\ n - 1 \in 0..(k-1) /\ n - 1 # k
        BY <3>2
      <4>2. g[n] = step[<<g[n-1], n>>]
        BY <2>1, <3>2, <4>1
      <4>3. f[n] = g[n] /\ f[n-1] = g[n-1]
        BY <3>2, <4>1
      <4> HIDE DEF f
      <4> QED
        BY <3>2, <4>2, <4>3
    <3>3. CASE n = k
      <4>1. k - 1 \in 0..k /\ k - 1 # k /\ k # 0
        OBVIOUS
      <4>2. f[k] = step[<<g[k-1], k>>] /\ f[k-1] = g[k-1]
        BY <4>1
      <4> HIDE DEF f
      <4> QED
        BY <3>3, <4>1, <4>2
    <3> QED
      BY <3>1, <3>2, <3>3
  <2>3. f = [n \in 0..k |-> f[n]]
    OBVIOUS
  <2> HIDE DEF f
  <2>4. f = [n \in 0..k |-> IF n = 0 THEN base ELSE step[<<f[n-1], n>>]]
    BY <2>2, <2>3
  <2> QED
    BY <2>4
<1> HIDE DEF Ps
<1>3. N \in Ps
  BY <1>1, <1>2, UpTo
<1> QED
  BY <1>3 DEF Ps

\* The subsets of a set without and with one more element.
LEMMA PowerDoubles == \A n \in Nat : 2^(n + 1) = 2^n + 2^n
<1> SUFFICES ASSUME NEW n \in Nat PROVE 2^(n + 1) = 2^n + 2^n
  OBVIOUS
<1> DEFINE x == n + 1
           A == SUBSET (1..n)
           W == {T \in SUBSET (1..x) : x \in T}
<1>1. IsFiniteSet(1..n) /\ Cardinality(1..n) = n /\ IsFiniteSet(1..x) /\ Cardinality(1..x) = x
  BY FS_Interval
<1>2. /\ IsFiniteSet(A) /\ Cardinality(A) = 2^n
      /\ IsFiniteSet(SUBSET (1..x)) /\ Cardinality(SUBSET (1..x)) = 2^x
  BY <1>1, FS_SUBSET
<1>3. x \notin 1..n /\ 1..x = (1..n) \cup {x}
  OBVIOUS
<1>4. A \cup W = SUBSET (1..x) /\ A \cap W = {}
  <2> HIDE DEF x
  <2> QED
    BY <1>3
<1>5. IsFiniteSet(W)
  BY <1>2, FS_Subset
<1>6. Cardinality(W) = Cardinality(A)
  <2> DEFINE f == [T \in A |-> T \cup {x}]
  <2> HIDE DEF x
  <2>1. f \in [A -> W]
    BY <1>3
  <2>2. \A S, T \in A : f[S] = f[T] => S = T
    BY <1>3
  <2>3. \A T \in W : \E S \in A : f[S] = T
    <3> SUFFICES ASSUME NEW T \in W PROVE \E S \in A : f[S] = T
      OBVIOUS
    <3>1. T \ {x} \in A /\ (T \ {x}) \cup {x} = T
      BY <1>3
    <3> QED
      BY <3>1
  <2> HIDE DEF f, A, W
  <2>4. f \in Injection(A, W)
    BY <2>1, <2>2 DEF Injection, IsInjective
  <2>5. f \in Surjection(A, W)
    BY <2>1, <2>3 DEF Surjection
  <2>6. ExistsBijection(A, W)
    BY <2>4, <2>5 DEF ExistsBijection, Bijection
  <2> QED
    BY <1>2, <2>6, FS_Bijection
<1>7. Cardinality(A \cup W) = Cardinality(A) + Cardinality(W) - Cardinality(A \cap W)
  BY <1>2, <1>5, FS_Union
<1>8. Cardinality(A \cap W) = 0
  BY <1>4, FS_EmptySet
<1>9. 2^n \in Nat
  BY PowerPositive
<1>10. Cardinality(SUBSET (1..x)) = 2^n + 2^n
  <2> DEFINE p == 2^n
  <2>1. Cardinality(A) = p /\ p \in Nat
    BY <1>2, <1>9
  <2>2. Cardinality(A \cup W) = p + p
    <3> HIDE DEF A, W, p
    <3> QED
      BY <1>6, <1>7, <1>8, <2>1
  <2> QED
    BY <1>4, <2>2
<1>11. Cardinality(SUBSET (1..x)) = 2^x
  BY <1>2
<1> HIDE DEF A, W
<1> QED
  BY <1>10, <1>11

-----------------------------------------------------------------------------
(* The integer units.                                                      *)

\* A word put together bit by bit is a word.
LEMMA BitwiseIsWord == \A a, b, pairs : Bitwise(a, b, pairs) \in Word
<1> SUFFICES ASSUME NEW a, NEW b, NEW pairs PROVE Bitwise(a, b, pairs) \in Word
  OBVIOUS
<1> DEFINE N == WordBits
           bit(w, k) == (w \div 2^k) % 2 = 1
           value(n) == IF <<bit(a, n-1), bit(b, n-1)>> \in pairs THEN 2^(n-1) ELSE 0
           next(f) == [n \in 0..N |-> IF n = 0 THEN 0 ELSE f[n-1] + value(n)]
           low == CHOOSE f : f = next(f)
<1>1. Bitwise(a, b, pairs) = low[N]
  BY DEF Bitwise
<1>2. N \in Nat
  BY Constants
<1> HIDE DEF bit
<1>3. ASSUME NEW n \in 1..N PROVE value(n) \in {0, 2^(n-1)} /\ n - 1 \in Nat
  OBVIOUS
<1>4. low = next(low)
  <2> DEFINE step == [p \in Int \X (1..N) |-> p[1] + value(p[2])]
  <2>0. PICK f : Iterates(f, N, 0, step)
    <3> HIDE DEF step, N
    <3> QED
      BY <1>2, Recursion
  <2>1. f = [n \in 0..N |-> IF n = 0 THEN 0 ELSE step[<<f[n-1], n>>]]
    BY <2>0 DEF Iterates
  <2> DEFINE Ps == {n \in 0..N : f[n] \in Int}
  <2>2. 0 \in Ps
    BY <1>2, <2>1
  <2>3. ASSUME NEW n \in 1..N, n - 1 \in Ps PROVE n \in Ps /\ f[n] = f[n-1] + value(n)
    <3>1. f[n] = step[<<f[n-1], n>>] /\ f[n-1] \in Int
      <4>1. n \in 0..N /\ n # 0
        BY <1>2
      <4> HIDE DEF step
      <4> QED
        BY <2>1, <2>3, <4>1
    <3>2. step[<<f[n-1], n>>] = f[n-1] + value(n)
      BY <3>1
    <3>3. value(n) \in Int
      BY <1>3, PowerPositive
    <3> HIDE DEF step, value
    <3> QED
      BY <3>1, <3>2, <3>3
  <2>4. \A n \in 0..N : n \in Ps
    <3> HIDE DEF Ps
    <3> QED
      BY <1>2, <2>2, <2>3, UpTo
  <2>5. ASSUME NEW n \in 0..N PROVE f[n] = IF n = 0 THEN 0 ELSE f[n-1] + value(n)
    <3>1. CASE n = 0
      BY <2>1, <3>1
    <3>2. CASE n # 0
      <4>1. n \in 1..N /\ n - 1 \in 0..N
        BY <1>2, <3>2
      <4> HIDE DEF Ps, value, step
      <4> QED
        BY <2>3, <2>4, <3>2, <4>1
    <3> QED
      BY <3>1, <3>2
  <2>6. f = [n \in 0..N |-> f[n]]
    BY <2>1
  <2>7. f = next(f)
    <3> HIDE DEF step, value, Ps
    <3> QED
      BY <2>5, <2>6
  <2> HIDE DEF next
  <2> QED
    BY <2>7
<1> DEFINE Ps == {n \in 0..N : low[n] \in 0..(2^n - 1)}
<1> HIDE DEF low, value
<1>5. 0 \in Ps
  <2>1. low[0] = 0 /\ 2^0 = 1
    BY <1>2, <1>4
  <2> QED
    BY <1>2, <2>1
<1>6. ASSUME NEW n \in 1..N, n - 1 \in Ps PROVE n \in Ps
  <2>1. low[n] = low[n-1] + value(n) /\ n \in 0..N
    <3>1. n \in 0..N /\ n # 0
      BY <1>2
    <3> QED
      BY <1>4, <3>1
  <2>2. low[n-1] \in 0..(2^(n-1) - 1)
    BY <1>6
  <2>3. 2^n = 2^(n-1) + 2^(n-1) /\ 2^(n-1) \in Nat
    <3>1. n - 1 \in Nat /\ (n - 1) + 1 = n
      OBVIOUS
    <3> QED
      BY <3>1, PowerDoubles, PowerPositive
  <2> DEFINE p == 2^(n-1)
             q == 2^n
  <2>4. value(n) \in {0, p} /\ q = p + p /\ p \in Nat /\ low[n-1] \in 0..(p - 1)
    BY <1>3, <2>2, <2>3
  <2>5. low[n] \in 0..(q - 1)
    <3> HIDE DEF p, q
    <3> QED
      BY <2>1, <2>4
  <2> QED
    BY <2>1, <2>5
<1>7. N \in Ps
  <2> HIDE DEF Ps
  <2> QED
    BY <1>2, <1>5, <1>6, UpTo
<1>8. low[N] \in 0..(WordMod - 1)
  BY <1>7, WordAssumption
<1> QED
  BY <1>1, <1>8 DEF Word

LEMMA SignedInt == \A w \in Word : Signed(w) \in Int
BY WordSizes DEF Signed, Word

\* A power of two divides a word to a word.
LEMMA DividedIsWord == \A w \in Word : \A d \in Nat \ {0} : w \div d \in Word
<1> SUFFICES ASSUME NEW w \in Word, NEW d \in Nat \ {0} PROVE w \div d \in Word
  OBVIOUS
<1>1. w \in Nat /\ w < WordMod /\ WordMod \in Nat
  BY WordSizes DEF Word
<1> DEFINE q == w \div d
<1>2. q \in Nat /\ w >= d * q
  BY <1>1
<1>3. d * q >= q
  <2> HIDE DEF q
  <2> QED
    BY <1>2
<1>4. q <= w /\ d * q \in Int
  <2> HIDE DEF q
  <2>1. d * q \in Nat
    BY <1>2, TimesNat
  <2> QED
    BY <1>1, <1>2, <1>3, <2>1
<1> HIDE DEF q
<1>5. q \in Word
  BY <1>1, <1>2, <1>4 DEF Word
<1> QED
  BY <1>5 DEF q

LEMMA AluIsWord ==
  ASSUME NEW op \in Alu \cup AluImm \cup Upper, NEW a \in Word, NEW b \in Word
  PROVE  alu(op, a, b) \in Word
<1> DEFINE s == b % WordBits
           bits == BOOLEAN \X BOOLEAN
<1>1. a \in Nat /\ b \in Nat
  BY DEF Word
<1>2. s \in Nat
  BY <1>1, Constants
<1> HIDE DEF s
<1>3. 2^s \in Nat \ {0}
  BY <1>2, PowerPositive
<1>4. alu(op, a, b) \in
        {ToWord(a + b), ToWord(a - b), ToWord(a * 2^s), Bool(Signed(a) < Signed(b)), Bool(a < b),
         Bitwise(a, b, {p \in bits : p[1] # p[2]}), a \div 2^s, ToWord(Signed(a) \div 2^s),
         Bitwise(a, b, {p \in bits : p[1] \/ p[2]}), Bitwise(a, b, {p \in bits : p[1] /\ p[2]})}
  BY DEF alu, s, Alu, AluImm, Upper
<1>5. Bool(Signed(a) < Signed(b)) \in Word /\ Bool(a < b) \in Word
  BY WordSizes DEF Bool, Word
<1>6. ToWord(a + b) \in Word /\ ToWord(a - b) \in Word
  BY <1>1, ToWordIsWord
<1>7. ToWord(a * 2^s) \in Word
  BY <1>1, <1>3, TimesNat, ToWordIsWord
<1>8. ToWord(Signed(a) \div 2^s) \in Word
  <2>1. Signed(a) \div 2^s \in Int
    BY <1>3, SignedInt
  <2> QED
    BY <2>1, ToWordIsWord
<1>9. a \div 2^s \in Word
  BY <1>3, DividedIsWord
<1> HIDE DEF bits
<1> QED
  BY <1>4, <1>5, <1>6, <1>7, <1>8, <1>9, BitwiseIsWord

LEMMA QuotientInt ==
  ASSUME NEW x \in Int, NEW y \in Int, y # 0
  PROVE  Quotient(x, y) \in Int
<1> DEFINE n == IF x < 0 THEN -x ELSE x
           d == IF y < 0 THEN -y ELSE y
<1>1. n \in Nat /\ d \in Nat \ {0}
  OBVIOUS
<1>2. Quotient(x, y) \in {n \div d, -(n \div d)}
  BY DEF Quotient
<1> HIDE DEF n, d
<1>3. n \div d \in Int
  BY <1>1
<1> QED
  BY <1>2, <1>3

LEMMA HighIsWord == \A a, b \in Word : (a * b) \div WordMod \in Word
<1> SUFFICES ASSUME NEW a \in Word, NEW b \in Word PROVE (a * b) \div WordMod \in Word
  OBVIOUS
<1>1. a \in Nat /\ b \in Nat /\ a < WordMod /\ b < WordMod /\ WordMod \in Nat /\ WordMod > 0
  BY WordSizes DEF Word
<1> DEFINE p == a * b
           q == p \div WordMod
<1>2. p \in Nat
  BY <1>1, TimesNat
<1>3. p = 0 \/ p < WordMod * b
  BY <1>1
<1>4. WordMod * b \in Nat
  BY <1>1, TimesNat
<1> HIDE DEF p
<1>5. q \in Nat /\ WordMod * q <= p
  BY <1>1, <1>2
<1>6. WordMod * q \in Nat
  BY <1>1, <1>5, TimesNat
<1> HIDE DEF q
<1>7. q <= b
  <2> SUFFICES ASSUME q > b PROVE FALSE
    BY <1>1, <1>5
  <2>1. WordMod * q > WordMod * b
    BY <1>1, <1>5
  <2>2. WordMod * b >= 0
    BY <1>4
  <2> QED
    BY <1>2, <1>3, <1>4, <1>5, <1>6, <2>1, <2>2
<1>8. q \in Word
  BY <1>1, <1>5, <1>7 DEF Word
<1> QED
  BY <1>8 DEF p, q

LEMMA MuldivIsWord ==
  ASSUME NEW op \in Mul \cup Div, NEW a \in Word, NEW b \in Word
  PROVE  muldiv(op, a, b) \in Word
<1> DEFINE l == Signed(a)
           r == Signed(b)
<1>1. a \in Nat /\ b \in Nat /\ a < WordMod /\ WordMod \in Nat /\ WordMod >= 16
  BY WordSizes DEF Word
<1>2. l \in Int /\ r \in Int /\ (b # 0 => r # 0)
  <2>1. b # 0 => r # 0
    BY WordSizes DEF Signed, Word
  <2> QED
    BY <2>1, SignedInt
<1>3. muldiv(op, a, b) \in
        {ToWord(l * r), ToWord((l * r) \div WordMod), ToWord((l * b) \div WordMod),
         (a * b) \div WordMod, WordMod - 1, a, 0}
        \/ (b # 0 /\ muldiv(op, a, b) \in {ToWord(Quotient(l, r)), ToWord(l - r * Quotient(l, r)),
                                          a \div b, a % b})
  BY DEF muldiv, Mul, Div
<1> HIDE DEF l, r
<1>4. ToWord(l * r) \in Word /\ ToWord((l * r) \div WordMod) \in Word
  <2>1. l * r \in Int
    BY <1>2, TimesInt
  <2>2. (l * r) \div WordMod \in Int
    BY <1>1, <2>1
  <2> QED
    BY <2>1, <2>2, ToWordIsWord
<1>5. ToWord((l * b) \div WordMod) \in Word
  <2>1. l * b \in Int
    BY <1>1, <1>2, TimesInt
  <2>2. (l * b) \div WordMod \in Int
    BY <1>1, <2>1
  <2> QED
    BY <2>2, ToWordIsWord
<1>6. (a * b) \div WordMod \in Word /\ WordMod - 1 \in Word /\ 0 \in Word
  BY <1>1, HighIsWord DEF Word
<1>7. ASSUME b # 0
      PROVE  /\ ToWord(Quotient(l, r)) \in Word /\ ToWord(l - r * Quotient(l, r)) \in Word
             /\ a \div b \in Word /\ a % b \in Word
  <2>1. Quotient(l, r) \in Int
    BY <1>2, <1>7, QuotientInt
  <2>2. r * Quotient(l, r) \in Int
    BY <1>2, <2>1, TimesInt
  <2>3. l - r * Quotient(l, r) \in Int
    BY <1>2, <2>2
  <2>4. ToWord(Quotient(l, r)) \in Word /\ ToWord(l - r * Quotient(l, r)) \in Word
    BY <2>1, <2>3, ToWordIsWord
  <2>5. a \div b \in Word
    BY <1>1, <1>7, DividedIsWord
  <2>6. a % b \in Word
    <3>1. b < WordMod
      BY WordSizes DEF Word
    <3>2. a % b \in 0..(b - 1)
      BY <1>1, <1>7
    <3> QED
      BY <1>1, <3>1, <3>2 DEF Word
  <2> QED
    BY <2>4, <2>5, <2>6
<1> QED
  BY <1>3, <1>4, <1>5, <1>6, <1>7

-----------------------------------------------------------------------------
(* The vector unit.                                                        *)

\* The vector lengths there are: vectors of bytes are the longest.
VLength == 0..(VectorBits \div 8)

LEMMA WrapIsWord == \A w \in Int : \A sew : wrap(w, sew) \in Word
<1> SUFFICES ASSUME NEW w \in Int, NEW sew PROVE wrap(w, sew) \in Word
  OBVIOUS
<1> DEFINE b == Base(sew \div 8)
<1>1. b \in Nat \ {0} /\ b <= WordMod /\ WordMod \in Nat
  BY WordSizes
<1>2. wrap(w, sew) = w % b
  BY DEF wrap
<1> HIDE DEF b
<1>3. w % b \in 0..(b - 1)
  BY <1>1
<1> QED
  BY <1>1, <1>2, <1>3 DEF Word

LEMMA SignExtendIsWord == \A w \in Int : \A n : sign_extend(w, n) \in Word
<1> SUFFICES ASSUME NEW w \in Int, NEW n PROVE sign_extend(w, n) \in Word
  OBVIOUS
<1> DEFINE b == Base(n)
           low == w % b
<1>1. b \in Nat \ {0} /\ b <= WordMod /\ WordMod \in Nat
  BY WordSizes
<1>2. sign_extend(w, n) = IF 2 * low >= b THEN WordMod - b + low ELSE low
  BY DEF sign_extend
<1> HIDE DEF b
<1>3. low \in 0..(b - 1)
  BY <1>1
<1> HIDE DEF low
<1> QED
  BY <1>1, <1>2, <1>3 DEF Word

LEMMA ValueLanes ==
  \A v \in Value : /\ \A l \in Lane : v[l] \in Word /\ v[l] \in Nat
                  /\ v[0] \in Word /\ v[0] \in Nat
BY Constants DEF Value, Word

LEMMA LanewiseIsValue ==
  ASSUME NEW old \in Value, NEW len, NEW sew, NEW new, \A l \in Lane : new[l] \in Int
  PROVE  Lanewise(old, len, sew, new) \in Value
<1>1. ASSUME NEW l \in Lane
      PROVE  (IF l < len THEN wrap(ToWord(new[l]), sew) ELSE old[l]) \in Word
  <2>1. ToWord(new[l]) \in Int
    BY ToWordIsWord DEF Word
  <2>2. wrap(ToWord(new[l]), sew) \in Word
    BY <2>1, WrapIsWord
  <2> QED
    BY <2>2, ValueLanes
<1> QED
  BY <1>1 DEF Lanewise, Value

\* A value one lane of which is replaced.
LEMMA FirstLane ==
  \A v \in Value : \A w \in Word : [v EXCEPT ![0] = w] \in Value
BY Constants DEF Value

\* The sum of a reduction, which goes through the lanes below vl.
LaneSum(Vj, Vk, len, sew) ==
  LET sum[n \in 0..len] == IF n = 0 THEN wrap(Vk[0], sew)
                          ELSE wrap(sum[n-1] + Vj[n-1], sew)
  IN  sum[len]

LEMMA SumIsWord ==
  ASSUME NEW len \in Nat, len <= Lanes, NEW Vj \in Value, NEW Vk \in Value, NEW sew
  PROVE  LaneSum(Vj, Vk, len, sew) \in Word
<1> DEFINE next(f) == [n \in 0..len |-> IF n = 0 THEN wrap(Vk[0], sew)
                                       ELSE wrap(f[n-1] + Vj[n-1], sew)]
           sum == CHOOSE f : f = next(f)
<1> SUFFICES sum[len] \in Word
  BY DEF LaneSum
<1>1. wrap(Vk[0], sew) \in Word
  BY WrapIsWord, ValueLanes
<1>2. ASSUME NEW n \in 1..len PROVE n - 1 \in Lane /\ Vj[n-1] \in Int
  <2>1. n - 1 \in Lane
    BY Constants DEF Lane
  <2> QED
    BY <2>1, ValueLanes
<1>3. sum = next(sum)
  <2> DEFINE base == wrap(Vk[0], sew)
             step == [p \in Int \X (1..len) |-> wrap(p[1] + Vj[p[2]-1], sew)]
  <2>0. PICK f : Iterates(f, len, base, step)
    <3> HIDE DEF step, base
    <3> QED
      BY Recursion
  <2>1. f = [n \in 0..len |-> IF n = 0 THEN base ELSE step[<<f[n-1], n>>]]
    BY <2>0 DEF Iterates
  <2> DEFINE Ps == {n \in 0..len : f[n] \in Int}
  <2>2. 0 \in Ps
    <3>1. f[0] = base /\ base \in Int
      <4> HIDE DEF step
      <4> QED
        BY <1>1, <2>1 DEF Word
    <3> QED
      BY <3>1
  <2>3. ASSUME NEW n \in 1..len, n - 1 \in Ps
        PROVE  n \in Ps /\ f[n] = wrap(f[n-1] + Vj[n-1], sew)
    <3>1. f[n] = step[<<f[n-1], n>>] /\ f[n-1] \in Int
      <4>1. n \in 0..len /\ n # 0
        OBVIOUS
      <4> HIDE DEF step
      <4> QED
        BY <2>1, <2>3, <4>1
    <3>2. step[<<f[n-1], n>>] = wrap(f[n-1] + Vj[n-1], sew)
      BY <3>1
    <3>3. wrap(f[n-1] + Vj[n-1], sew) \in Int
      BY <1>2, <3>1, WrapIsWord DEF Word
    <3>4. n \in 0..len
      OBVIOUS
    <3> HIDE DEF step
    <3> QED
      BY <3>1, <3>2, <3>3, <3>4
  <2>4. \A n \in 0..len : n \in Ps
    <3> HIDE DEF Ps
    <3> QED
      BY <2>2, <2>3, UpTo
  <2>5. ASSUME NEW n \in 0..len
        PROVE  f[n] = IF n = 0 THEN wrap(Vk[0], sew) ELSE wrap(f[n-1] + Vj[n-1], sew)
    <3>1. CASE n = 0
      <4> HIDE DEF step, Ps
      <4> QED
        BY <2>1, <3>1
    <3>2. CASE n # 0
      <4>1. n \in 1..len /\ n - 1 \in 0..len
        BY <3>2
      <4> HIDE DEF Ps, step
      <4> QED
        BY <2>3, <2>4, <3>2, <4>1
    <3> QED
      BY <3>1, <3>2
  <2>6. f = [n \in 0..len |-> f[n]]
    BY <2>1
  <2>7. f = next(f)
    <3> HIDE DEF step, Ps
    <3> QED
      BY <2>5, <2>6
  <2> HIDE DEF next
  <2> QED
    BY <2>7
<1> HIDE DEF sum
<1> DEFINE Ps == {n \in 0..len : sum[n] \in Word}
<1>4. 0 \in Ps
  BY <1>1, <1>3
<1>5. ASSUME NEW n \in 1..len, n - 1 \in Ps PROVE n \in Ps
  <2>1. sum[n] = wrap(sum[n-1] + Vj[n-1], sew) /\ n \in 0..len
    <3>1. n \in 0..len /\ n # 0
      OBVIOUS
    <3> QED
      BY <1>3, <3>1
  <2>2. sum[n-1] + Vj[n-1] \in Int
    BY <1>2, <1>5 DEF Word
  <2> QED
    BY <2>1, <2>2, WrapIsWord
<1>6. len \in Ps
  <2> HIDE DEF Ps
  <2> QED
    BY <1>4, <1>5, UpTo
<1> QED
  BY <1>6

LEMMA VectorIsValue ==
  ASSUME NEW op \in Vector \ VSet, NEW imm \in Int, NEW Vj \in Value, NEW Vk \in Value,
         NEW Vl \in Value, NEW len \in Nat, len <= Lanes, NEW sew
  PROVE  vector(op, imm, Vj, Vk, Vl, len, sew) \in Value
<1> DEFINE product   == [l \in Lane |-> Vj[l] * Vk[l]]
           macc      == [l \in Lane |-> Vj[l] + Vk[l] * Vl[l]]
           macc_x    == [l \in Lane |-> Vj[l] + Vk[0] * Vl[l]]
           immediate == [l \in Lane |-> imm]
           splat     == [l \in Lane |-> Vj[0]]
           fmacc     == [l \in Lane |-> F!SingleFma(Vk[l], Vl[l], Vj[l])]
           fmacc_f   == [l \in Lane |-> F!SingleFma(Vk[0], Vl[l], Vj[l])]
<1>1. \A l \in Lane : /\ Vj[l] \in Int /\ Vk[l] \in Int /\ Vl[l] \in Int
                     /\ Vj[0] \in Int /\ Vk[0] \in Int
  BY ValueLanes
<1>2. \A l \in Lane : product[l] \in Int
  BY <1>1, TimesInt
<1>3. \A l \in Lane : macc[l] \in Int
  <2>1. \A l \in Lane : Vk[l] * Vl[l] \in Int
    BY <1>1, TimesInt
  <2> QED
    BY <1>1, <2>1
<1>4. \A l \in Lane : macc_x[l] \in Int
  <2>1. \A l \in Lane : Vk[0] * Vl[l] \in Int
    BY <1>1, TimesInt
  <2> QED
    BY <1>1, <2>1
<1>5. \A l \in Lane : immediate[l] \in Int /\ splat[l] \in Int
  BY <1>1
<1>6. \A l \in Lane : fmacc[l] \in Int /\ fmacc_f[l] \in Int
  BY <1>1, SingleFmaInt
<1> HIDE DEF product, macc, macc_x, immediate, splat, fmacc, fmacc_f
<1>7. /\ Lanewise(Vl, len, sew, product) \in Value /\ Lanewise(Vj, len, sew, macc) \in Value
      /\ Lanewise(Vj, len, sew, macc_x) \in Value /\ Lanewise(Vl, len, sew, immediate) \in Value
      /\ Lanewise(Vl, len, sew, splat) \in Value /\ Lanewise(Vl, len, 32, splat) \in Value
      /\ Lanewise(Vj, len, 32, fmacc) \in Value /\ Lanewise(Vj, len, 32, fmacc_f) \in Value
  BY <1>2, <1>3, <1>4, <1>5, <1>6, LanewiseIsValue
<1>8. [Vl EXCEPT ![0] = wrap(Vj[0], sew)] \in Value
  BY ValueLanes, WrapIsWord, FirstLane
<1>9. scalar(sign_extend(Vj[0], sew \div 8)) \in Value
  BY ValueLanes, SignExtendIsWord, ScalarValue
<1>10. CASE op = "VREDSUM_VS"
  <2>1. vector(op, imm, Vj, Vk, Vl, len, sew) = [Vl EXCEPT ![0] = LaneSum(Vj, Vk, len, sew)]
    BY <1>10 DEF vector, LaneSum
  <2> QED
    BY <2>1, SumIsWord, FirstLane
<1>11. CASE op # "VREDSUM_VS"
  <2>1. op \in {"VMUL_VV", "VMACC_VV", "VMACC_VX", "VMV_V_I", "VMV_V_X", "VMV_S_X", "VMV_X_S",
               "VMV1R_V", "VFMV_V_F", "VFMACC_VV", "VFMACC_VF"}
    BY <1>11 DEF Vector, VSet, VMul, VFMul, VMove
  <2>2. vector(op, imm, Vj, Vk, Vl, len, sew) \in
          {Lanewise(Vl, len, sew, product), Lanewise(Vj, len, sew, macc),
           Lanewise(Vj, len, sew, macc_x), Lanewise(Vl, len, sew, immediate),
           Lanewise(Vl, len, sew, splat), [Vl EXCEPT ![0] = wrap(Vj[0], sew)],
           scalar(sign_extend(Vj[0], sew \div 8)), Vj, Lanewise(Vl, len, 32, splat),
           Lanewise(Vj, len, 32, fmacc), Lanewise(Vj, len, 32, fmacc_f)}
    BY <2>1 DEF vector, product, macc, macc_x, immediate, splat, fmacc, fmacc_f
  <2> QED
    BY <1>7, <1>8, <1>9, <2>2
<1> QED
  BY <1>10, <1>11

-----------------------------------------------------------------------------
(* Every unit.                                                             *)

\* The execution path of an operation is that of the set it belongs to.
LEMMA ExecTypes ==
  /\ \A op \in Alu \cup AluImm \cup Upper : exec_type(op) = "LOGIC"
  /\ \A op \in Mul \cup Div : exec_type(op) = "MULDIV"
  /\ \A op \in Ctrl : exec_type(op) = "CTRL"
  /\ \A op \in Load \cup Store : exec_type(op) = "LOADSTORE"
  /\ \A op \in Float : exec_type(op) = "FLOAT"
  /\ \A op \in Vector : exec_type(op) = "VECTOR"
<1> USE DEF Alu, AluImm, Upper, Mul, Div, Ctrl, Branch, Jump, Load, Store, IntLoad, IntStore,
            VLoad, VStore, Float, FAdd, FMul, FMac, FSgn, FCmp, Vector, VSet, VMul, VFMul, VMove
<1>1. \A op \in Alu \cup AluImm \cup Upper : exec_type(op) = "LOGIC"
  BY DEF exec_type
<1>2. \A op \in Mul \cup Div : exec_type(op) = "MULDIV"
  BY DEF exec_type
<1>3. \A op \in Ctrl : exec_type(op) = "CTRL"
  BY DEF exec_type
<1>4. \A op \in Load \cup Store : exec_type(op) = "LOADSTORE"
  BY DEF exec_type
<1>5. \A op \in Float : exec_type(op) = "FLOAT"
  BY DEF exec_type
<1>6. \A op \in Vector : exec_type(op) = "VECTOR"
  BY DEF exec_type
<1> QED
  BY <1>1, <1>2, <1>3, <1>4, <1>5, <1>6

\* A reservation station entry with its operands.
HasOperands(e) ==
  /\ e.Vj \in Value /\ e.Vk \in Value /\ e.Vl \in Value
  /\ e.pc \in Word /\ e.imm \in Int
  /\ e.vl \in VLength /\ e.sew \in {0, 8, 16, 32}
  /\ e.op \in VSet => e.sew \in {8, 16, 32}
  /\ e.op = "VSETIVLI" => e.imm \in Nat

LEMMA VlenFacts ==
  /\ VectorBits \in Nat /\ VectorBits >= 32 /\ VectorBits \div 8 \in Nat
  /\ VectorBits \div 8 <= Lanes /\ VectorBits \div 8 < WordMod
  /\ \A sew \in {8, 16, 32} : vlmax(sew) \in VLength
BY WordAssumption DEF vlmax, VLength

LEMMA VsetLength ==
  ASSUME NEW e, HasOperands(e), e.op \in VSet, NEW state_vl \in VLength
  PROVE  vset_vl(e.op, e.imm, e.Vj[0], e.sew, state_vl) \in VLength
<1>1. \A avl \in Nat : vl_for(avl, e.sew) \in VLength
  BY VlenFacts DEF vl_for, HasOperands, VLength
<1> DEFINE avl == IF e.op = "VSETIVLI" THEN e.imm
                  ELSE IF e.imm = -1 THEN vlmax(e.sew) ELSE e.Vj[0]
<1>2. avl \in Nat
  <2>1. e.Vj[0] \in Nat
    BY ValueLanes DEF HasOperands
  <2>2. vlmax(e.sew) \in Nat
    BY VlenFacts DEF HasOperands, VLength
  <2> QED
    BY <2>1, <2>2 DEF HasOperands
<1>3. \/ vset_vl(e.op, e.imm, e.Vj[0], e.sew, state_vl) = state_vl
      \/ vset_vl(e.op, e.imm, e.Vj[0], e.sew, state_vl) = vl_for(avl, e.sew)
  BY DEF vset_vl
<1> HIDE DEF avl
<1> QED
  BY <1>1, <1>2, <1>3

\* The result of a unit: its fields have their types, only a control instruction jumps
\* and a jump always does, and a vset leaves a vl that fits the width it sets.
THEOREM ComputeTyped ==
  ASSUME NEW e, HasOperands(e), e.op \in Op \ (Load \cup Store), NEW state_vl \in VLength
  PROVE  /\ Compute(e, state_vl) \in [value: Value, jumped: BOOLEAN, target: Word,
                                      vl: VLength, sew: {0, 8, 16, 32}]
         /\ Compute(e, state_vl).jumped => e.op \in Ctrl
         /\ e.op \in Jump => Compute(e, state_vl).jumped
         /\ e.op \in VSet => Compute(e, state_vl).sew \in {8, 16, 32}
<1> DEFINE op == e.op
           a == e.Vj[0]
           b == IF op \in Upper \cup AluImm THEN ToWord(e.imm) ELSE e.Vk[0]
           base == IF op = "LUI" THEN 0 ELSE IF op = "AUIPC" THEN e.pc ELSE a
           new_vl == IF op \in VSet THEN vset_vl(op, e.imm, a, e.sew, state_vl) ELSE e.vl
           value ==
             CASE exec_type(op) = "LOGIC"  -> scalar(alu(op, base, b))
               [] exec_type(op) = "MULDIV" -> scalar(muldiv(op, a, b))
               [] op \in Jump              -> scalar(ToWord(e.pc + WORD_BYTES))
               [] op \in Branch            -> scalar(0)
               [] op \in VSet              -> scalar(new_vl)
               [] exec_type(op) = "FLOAT"  -> scalar(ToWord(F!fpu(op, a, e.Vk[0], e.Vl[0], e.rm)))
               [] op \in Vector \ VSet     -> vector(op, e.imm, e.Vj, e.Vk, e.Vl, e.vl, e.sew)
           jumped == op \in Jump \/ (op \in Branch /\ branch_taken(op, a, b))
           target == IF op \in Ctrl THEN ctrl_target(op, e.pc, e.imm, a) ELSE 0
           vlen  == IF op \in Vector THEN new_vl ELSE 0
           width == IF op \in Vector THEN e.sew ELSE 0
<1>1. Compute(e, state_vl) = [value |-> value, jumped |-> jumped, target |-> target,
                              vl |-> vlen, sew |-> width]
  BY DEF Compute
<1>2. /\ a \in Word /\ e.Vk[0] \in Word /\ e.Vl[0] \in Word /\ e.pc \in Word /\ e.imm \in Int
      /\ a \in Int /\ e.Vk[0] \in Int /\ e.Vl[0] \in Int /\ e.pc \in Int
  BY ValueLanes DEF HasOperands, Word
<1>3. 0 \in Word
  BY WordSizes DEF Word
<1>4. b \in Word /\ base \in Word
  BY <1>2, <1>3, ToWordIsWord
<1>5. new_vl \in VLength
  BY VsetLength DEF HasOperands
<1>6. \A x \in VLength : x \in Nat /\ x <= Lanes
  BY VlenFacts, Constants DEF VLength
<1>7. value \in Value
  <2> HIDE DEF a, b, base, new_vl
  <2>0. /\ op \in Jump => exec_type(op) = "CTRL"
        /\ op \in Branch => exec_type(op) = "CTRL"
        /\ op \in VSet => exec_type(op) = "VECTOR"
        /\ op \in Vector \ VSet => exec_type(op) = "VECTOR"
        /\ op \in Jump => op \notin Branch
    BY ExecTypes DEF Ctrl, Vector, Jump, Branch
  <2>1. CASE op \in Alu \cup AluImm \cup Upper
    <3>0. exec_type(op) = "LOGIC"
      BY <2>1, ExecTypes
    <3>1. value = scalar(alu(op, base, b))
      BY <3>0, <2>0
    <3> QED
      BY <1>4, <2>1, <3>1, AluIsWord, ScalarValue
  <2>2. CASE op \in Mul \cup Div
    <3>0. exec_type(op) = "MULDIV"
      BY <2>2, ExecTypes
    <3>1. value = scalar(muldiv(op, a, b))
      BY <2>0, <3>0
    <3> QED
      BY <1>2, <1>4, <2>2, <3>1, MuldivIsWord, ScalarValue
  <2>3. CASE op \in Ctrl
    <3>0. exec_type(op) = "CTRL"
      BY <2>3, ExecTypes
    <3>1. value \in {scalar(ToWord(e.pc + WORD_BYTES)), scalar(0)}
      BY <2>0, <2>3, <3>0 DEF Ctrl
    <3>2. e.pc + WORD_BYTES \in Int
      BY <1>2 DEF WORD_BYTES
    <3> QED
      BY <1>3, <3>1, <3>2, ToWordIsWord, ScalarValue
  <2>4. CASE op \in Float
    <3>1. value = scalar(ToWord(F!fpu(op, a, e.Vk[0], e.Vl[0], e.rm)))
      <4>1. exec_type(op) = "FLOAT"
        BY <2>4, ExecTypes
      <4> QED
        BY <2>0, <4>1
    <3>2. F!fpu(op, a, e.Vk[0], e.Vl[0], e.rm) \in Int
      BY <1>2, <2>4, FpuInt DEF a
    <3> QED
      BY <3>1, <3>2, ToWordIsWord, ScalarValue
  <2>5. CASE op \in Vector
    <3>1. exec_type(op) = "VECTOR" /\ op \notin Jump /\ op \notin Branch
      BY <2>5, ExecTypes DEF Ctrl
    <3>2. CASE op \in VSet
      <4>1. value = scalar(new_vl)
        BY <3>1, <3>2
      <4>2. new_vl \in Word
        BY <1>5, WordSizes, VlenFacts DEF VLength, Word
      <4> QED
        BY <4>1, <4>2, ScalarValue
    <3>3. CASE op \notin VSet
      <4>1. value = vector(op, e.imm, e.Vj, e.Vk, e.Vl, e.vl, e.sew)
        BY <2>5, <3>1, <3>3
      <4>2. e.vl \in Nat /\ e.vl <= Lanes /\ e.imm \in Int
            /\ e.Vj \in Value /\ e.Vk \in Value /\ e.Vl \in Value
        BY <1>6 DEF HasOperands
      <4> QED
        BY <2>5, <3>3, <4>1, <4>2, VectorIsValue
    <3> QED
      BY <3>2, <3>3
  <2> QED
    BY <2>1, <2>2, <2>3, <2>4, <2>5 DEF Op
<1>8. jumped \in BOOLEAN /\ (jumped => op \in Ctrl) /\ (op \in Jump => jumped)
  BY DEF Ctrl
<1>9. target \in Word
  <2>1. ToWord(e.pc + e.imm) \in Word
    BY <1>2, ToWordIsWord
  <2>2. ASSUME NEW t \in Word PROVE t - (t % 2) \in Word
    <3>1. t \in Nat /\ t < WordMod /\ WordMod \in Nat
      BY WordSizes DEF Word
    <3>2. t % 2 \in 0..1 /\ t % 2 <= t
      BY <3>1
    <3> DEFINE r == t % 2
    <3> HIDE DEF r
    <3>3. r \in 0..1 /\ r <= t
      BY <3>2 DEF r
    <3>4. t - r \in Word
      BY <3>1, <3>3 DEF Word
    <3> QED
      BY <3>4 DEF r
  <2>3. ToWord(a + e.imm) \in Word
    BY <1>2, ToWordIsWord
  <2>4. ctrl_target(op, e.pc, e.imm, a) \in Word
    BY <2>1, <2>2, <2>3 DEF ctrl_target
  <2> QED
    BY <1>3, <2>4
<1>10. vlen \in VLength
  BY <1>5, VlenFacts DEF VLength
<1>11. width \in {0, 8, 16, 32} /\ (op \in VSet => width \in {8, 16, 32})
  BY DEF HasOperands, Vector
<1> HIDE DEF value, jumped, target, vlen, width
<1> QED
  BY <1>1, <1>7, <1>8, <1>9, <1>10, <1>11

-----------------------------------------------------------------------------
(* Renaming and the load/store queue, as their own modules prove about     *)
(* them.  An instance brings its own copy of the operators it is made of,  *)
(* so the first lemmas say that the copies agree.                          *)

RP == INSTANCE Rename_proofs WITH Addr <- Word, VLen <- 0..VectorBits,
                                  Decoded <- {}, Outcome <- {}
LP == INSTANCE LoadStoreQueue_proofs WITH
        lsus <- {u.tag : u \in lsus}, lsq_next <- next_tag,
        LsqSize <- RobSize, LsuCount <- RobSize, Access <- Load \cup Store,
        Address <- {}, Datum <- {}, Length <- {}, Producer <- {}

\* What the instances assume follows from the assumptions here.
LEMMA InstanceAssumptions ==
  /\ RP!RenameAssumption /\ R!RenameAssumption
  /\ LP!LsqAssumption /\ L!LsqAssumption
  /\ LP!MemoryAssumption /\ L!MemoryAssumption
<1>1. /\ Word \subseteq Nat /\ Reg \subseteq Nat /\ RobSize \in Nat /\ TagLimit \in Nat
  BY CpuAssumption, WordSizes DEF Word
<1> QED
  BY <1>1, MemoryAssumption
     DEF RP!RenameAssumption, R!RenameAssumption, LP!LsqAssumption, L!LsqAssumption,
         LP!MemoryAssumption, L!MemoryAssumption, LP!Load, LP!Store, L!Load, L!Store,
         Load, Store, LP!IntLoad, LP!IntStore, L!IntLoad, L!IntStore, IntLoad, IntStore,
         LP!VLoad, LP!VStore, L!VLoad, L!VStore, VLoad, VStore

\* The copies of the instances write to the same registers.
LEMMA DestinationsAgree ==
  \A op : R!dst_type(op) = dst_type(op) /\ RP!dst_type(op) = dst_type(op)
BY DEF R!dst_type, RP!dst_type, dst_type, R!Alu, R!AluImm, R!Upper, R!Mul, R!Div, R!Jump,
       R!IntLoad, R!FCmp, R!VSet, R!Float, R!Vector, R!VLoad, RP!Alu, RP!AluImm, RP!Upper,
       RP!Mul, RP!Div, RP!Jump, RP!IntLoad, RP!FCmp, RP!VSet, RP!Float, RP!Vector,
       RP!VLoad, Alu, AluImm, Upper, Mul, Div, Jump, IntLoad, FCmp, VSet, Float, Vector,
       VLoad, FAdd, R!FAdd, RP!FAdd, FMul, R!FMul, RP!FMul, FMac, R!FMac, RP!FMac, FSgn,
       R!FSgn, RP!FSgn, VMul, R!VMul, RP!VMul, VFMul, R!VFMul, RP!VFMul, VMove, R!VMove,
       RP!VMove

\* The copies name the same operations and register files.
LEMMA OperationsAgree ==
  /\ R!Op = Op /\ RP!Op = Op /\ R!VSet = VSet /\ RP!VSet = VSet
  /\ R!Ctrl = Ctrl /\ RP!Ctrl = Ctrl /\ R!Jump = Jump /\ RP!Jump = Jump
  /\ R!RegFiles = RegFiles /\ RP!RegFiles = RegFiles
  /\ R!NoTag = NoTag /\ RP!NoTag = NoTag /\ R!WORD_BYTES = 4 /\ RP!WORD_BYTES = 4
BY DEF R!Op, RP!Op, Op, R!Alu, R!AluImm, R!Upper, R!Mul, R!Div, R!Jump, R!Branch, R!Ctrl,
       R!IntLoad, R!FCmp, R!VSet, R!Float, R!Vector, R!VLoad, RP!Alu, RP!AluImm, RP!Upper,
       RP!Mul, RP!Div, RP!Jump, RP!Branch, RP!Ctrl, RP!IntLoad, RP!FCmp, RP!VSet, RP!Float,
       RP!Vector, RP!VLoad, Alu, AluImm, Upper, Mul, Div, Jump, Branch, Ctrl, IntLoad, FCmp,
       VSet, Float, Vector, VLoad, FAdd, R!FAdd, RP!FAdd, FMul, R!FMul, RP!FMul, FMac,
       R!FMac, RP!FMac, FSgn, R!FSgn, RP!FSgn, VMul, R!VMul, RP!VMul, VFMul, R!VFMul,
       RP!VFMul, VMove, R!VMove, RP!VMove, Load, R!Load, RP!Load, Store, R!Store, RP!Store,
       IntStore, R!IntStore, RP!IntStore, VStore, R!VStore, RP!VStore, R!RegFiles,
       RP!RegFiles, RegFiles, NoTag, R!NoTag, RP!NoTag, R!WORD_BYTES, RP!WORD_BYTES

\* What Rename keeps, of the variables here.
RenameInv ==
  /\ R!RenameTypeOK /\ R!TagsOrdered /\ R!RatYoungest /\ R!VecTagYoungest
  /\ R!ResolvedInOrder

\* What Rename keeps, said with the two copies.
LEMMA RenameInvAgrees == RenameInv <=> RP!RenameInv
<1>1. \A e, t, r : R!Names(e, t, r) <=> RP!Names(e, t, r)
  BY DestinationsAgree DEF R!Names, RP!Names
<1>2. R!RenameTypeOK <=> RP!RenameTypeOK
  BY OperationsAgree DEF R!RenameTypeOK, RP!RenameTypeOK, R!ROBEntry, RP!ROBEntry, R!Result,
     RP!Result
<1>3. R!TagsOrdered <=> RP!TagsOrdered
  BY DEF R!TagsOrdered, RP!TagsOrdered, R!TagsGrow, RP!TagsGrow
<1>4. R!RatYoungest <=> RP!RatYoungest
  BY <1>1, OperationsAgree DEF R!RatYoungest, RP!RatYoungest
<1>5. R!VecTagYoungest <=> RP!VecTagYoungest
  BY OperationsAgree DEF R!VecTagYoungest, RP!VecTagYoungest
<1>6. R!ResolvedInOrder <=> RP!ResolvedInOrder
  BY OperationsAgree DEF R!ResolvedInOrder, RP!ResolvedInOrder
<1> QED
  BY <1>2, <1>3, <1>4, <1>5, <1>6 DEF RenameInv, RP!RenameInv

\* The copies flush alike.
LEMMA FlushesAgree ==
  \A q, tag : R!FlushAfter(q, tag) = FlushAfter(q, tag) /\ L!FlushAfter(q, tag) = FlushAfter(q, tag)
              /\ RP!FlushAfter(q, tag) = FlushAfter(q, tag)
BY DEF R!FlushAfter, L!FlushAfter, RP!FlushAfter, FlushAfter,
       R!Cardinality, L!Cardinality, RP!Cardinality, Cardinality

\* The copies order tags alike.
LEMMA GrowthAgrees ==
  \A q : (R!TagsGrow(q) <=> TagsGrow(q)) /\ (L!TagsGrow(q) <=> TagsGrow(q))
BY DEF R!TagsGrow, L!TagsGrow, TagsGrow

\* What Rename proves of its actions.
LEMMA RenameActions ==
  /\ R!RenameInit => RenameInv
  /\ RenameInv /\ R!Retire => RenameInv'
  /\ \A i \in DOMAIN rob : /\ RenameInv /\ R!Resolve(i) => RenameInv'
                           /\ RenameInv /\ R!Mispredict(i) => RenameInv'
                           /\ \A res \in R!Result : RenameInv /\ R!Update(i, res) => RenameInv'
  /\ \A d : RenameInv /\ RP!IsDecoded(d) /\ R!Allocate(d) => RenameInv'
<1>1. \A e, t, r : R!Names(e, t, r) <=> RP!Names(e, t, r)
  BY DestinationsAgree DEF R!Names, RP!Names
<1>2. R!RenameInit => RP!RenameInit
  BY OperationsAgree DEF R!RenameInit, RP!RenameInit
<1>3. R!Retire => RP!Retire
  BY <1>1, OperationsAgree DEF R!Retire, RP!Retire
<1>4. \A i : R!Resolvable(i) <=> RP!Resolvable(i)
  BY OperationsAgree DEF R!Resolvable, RP!Resolvable
<1>5. \A e : R!Mispredicted(e) <=> RP!Mispredicted(e)
  BY OperationsAgree DEF R!Mispredicted, RP!Mispredicted, R!Target, RP!Target
<1>6. \A i : R!Resolve(i) => RP!Resolve(i)
  BY <1>4, <1>5 DEF R!Resolve, RP!Resolve
<1>7. \A q : R!Rebuilt(q) = RP!Rebuilt(q)
  <2> SUFFICES ASSUME NEW q PROVE R!Rebuilt(q) = RP!Rebuilt(q)
    OBVIOUS
  <2>1. \A t, r : {i \in DOMAIN q : R!Names(q[i], t, r)} = {i \in DOMAIN q : RP!Names(q[i], t, r)}
    BY <1>1
  <2>2. \A S : R!Max(S) = RP!Max(S)
    BY DEF R!Max, RP!Max
  <2> QED
    BY <2>1, <2>2, OperationsAgree DEF R!Rebuilt, RP!Rebuilt
<1>8. \A i : R!Mispredict(i) => RP!Mispredict(i)
  BY <1>4, <1>5, <1>7, FlushesAgree, OperationsAgree DEF R!Mispredict, RP!Mispredict
<1>9. \A i, res : R!Update(i, res) => RP!Update(i, res)
  BY DEF R!Update, RP!Update
<1>10. \A d : R!Allocate(d) => RP!Allocate(d)
  BY <1>1, OperationsAgree DEF R!Allocate, RP!Allocate, R!NewEntry, RP!NewEntry
<1>11. R!Result = RP!Result
  BY DEF R!Result, RP!Result
<1>12. RenameInv' <=> RP!RenameInv'
  BY RenameInvAgrees, PTL
<1>13. R!RenameInit => RenameInv
  BY <1>2, RP!RenameInitInv, RenameInvAgrees, InstanceAssumptions DEF RP!RenameAssumption
<1>14. RenameInv /\ R!Retire => RenameInv'
  BY <1>3, <1>12, RP!RetireInv, RenameInvAgrees, InstanceAssumptions DEF RP!RenameAssumption
<1>15. ASSUME NEW i \in DOMAIN rob PROVE RenameInv /\ R!Resolve(i) => RenameInv'
  BY <1>6, <1>12, RP!ResolveInv, RenameInvAgrees, InstanceAssumptions DEF RP!RenameAssumption
<1>16. ASSUME NEW i \in DOMAIN rob PROVE RenameInv /\ R!Mispredict(i) => RenameInv'
  BY <1>8, <1>12, RP!MispredictInv, RenameInvAgrees, InstanceAssumptions DEF RP!RenameAssumption
<1>17. ASSUME NEW i \in DOMAIN rob, NEW res \in R!Result
       PROVE  RenameInv /\ R!Update(i, res) => RenameInv'
  BY <1>9, <1>11, <1>12, RP!UpdateInv, RenameInvAgrees, InstanceAssumptions DEF RP!RenameAssumption
<1>18. ASSUME NEW d PROVE RenameInv /\ RP!IsDecoded(d) /\ R!Allocate(d) => RenameInv'
  BY <1>10, <1>12, RP!AllocateInv, RenameInvAgrees, InstanceAssumptions DEF RP!RenameAssumption
<1> QED
  BY <1>13, <1>14, <1>15, <1>16, <1>17, <1>18

\* Memory, and what one access does to it.
LEMMA MemoryAgrees ==
  /\ \A n : L!Base(n) = Base(n) /\ LP!Base(n) = Base(n)
  /\ L!WordMod = WordMod /\ LP!WordMod = WordMod /\ L!Word = Word /\ LP!Word = Word
  /\ L!Byte = Byte /\ LP!Byte = Byte /\ L!Lane = Lane /\ LP!Lane = Lane
  /\ L!Value = Value /\ LP!Value = Value /\ L!MemState = MemState /\ LP!MemState = MemState
  /\ \A w, k : L!ByteOf(w, k) = ByteOf(w, k) /\ LP!ByteOf(w, k) = ByteOf(w, k)
  /\ \A bytes, n : L!Join(bytes, n) = Join(bytes, n) /\ LP!Join(bytes, n) = Join(bytes, n)
  /\ \A addr, n : (L!Checked(addr, n) <=> Checked(addr, n))
                  /\ (LP!Checked(addr, n) <=> Checked(addr, n))
<1>1. \A n : L!Base(n) = Base(n) /\ LP!Base(n) = Base(n)
  BY DEF L!Base, LP!Base, Base
<1>2. L!WordMod = WordMod /\ LP!WordMod = WordMod
  BY <1>1 DEF L!WordMod, LP!WordMod, WordMod
<1>3. L!Word = Word /\ LP!Word = Word
  BY <1>2 DEF L!Word, LP!Word, Word
<1>4. L!Byte = Byte /\ LP!Byte = Byte /\ L!Lane = Lane /\ LP!Lane = Lane
  BY DEF L!Byte, LP!Byte, Byte, L!Lane, LP!Lane, Lane
<1>5. L!Value = Value /\ LP!Value = Value /\ L!MemState = MemState /\ LP!MemState = MemState
  BY <1>3, <1>4 DEF L!Value, LP!Value, Value, L!MemState, LP!MemState, MemState
<1>6. \A w, k : L!ByteOf(w, k) = ByteOf(w, k) /\ LP!ByteOf(w, k) = ByteOf(w, k)
  BY <1>1 DEF L!ByteOf, LP!ByteOf, ByteOf
<1>7. \A bytes, n : L!Join(bytes, n) = Join(bytes, n) /\ LP!Join(bytes, n) = Join(bytes, n)
  BY <1>1 DEF L!Join, LP!Join, Join
<1>8. \A addr, n : (L!Checked(addr, n) <=> Checked(addr, n))
                   /\ (LP!Checked(addr, n) <=> Checked(addr, n))
  BY <1>2 DEF L!Checked, LP!Checked, Checked
<1> QED
  BY <1>1, <1>2, <1>3, <1>4, <1>5, <1>6, <1>7, <1>8

\* The copies class loads and stores alike.
LEMMA ClassesAgree ==
  /\ L!Load = Load /\ LP!Load = Load /\ L!Store = Store /\ LP!Store = Store
  /\ L!VLoad = VLoad /\ LP!VLoad = VLoad /\ L!VStore = VStore /\ LP!VStore = VStore
  /\ L!NoTag = NoTag /\ LP!NoTag = NoTag
  /\ \A op : L!op_sew(op) = op_sew(op) /\ LP!op_sew(op) = op_sew(op)
BY DEF LP!Load, LP!Store, L!Load, L!Store, Load, Store, LP!IntLoad, LP!IntStore, L!IntLoad,
       L!IntStore, IntLoad, IntStore, LP!VLoad, LP!VStore, L!VLoad, L!VStore, VLoad, VStore,
       L!op_sew, LP!op_sew, op_sew, L!NoTag, LP!NoTag, NoTag

\* The copies reach the same bytes of memory.
LEMMA AccessesAgree ==
  /\ \A e : /\ L!element_size(e) = element_size(e) /\ LP!element_size(e) = element_size(e)
            /\ L!access_size(e) = access_size(e) /\ LP!access_size(e) = access_size(e)
            /\ \A l : LP!element_address(e, l) = element_address(e, l)
  /\ \A m, a, n : L!load(m, a, n) = load(m, a, n) /\ LP!load(m, a, n) = load(m, a, n)
  /\ \A e, m : LP!Stored(e, m) = Stored(e, m)
  /\ L!LSQEntry = LP!LSQEntry
<1>1. \A e : L!element_size(e) = element_size(e) /\ LP!element_size(e) = element_size(e)
  BY ClassesAgree DEF L!element_size, LP!element_size, element_size
<1>2. \A e : L!access_size(e) = access_size(e) /\ LP!access_size(e) = access_size(e)
  BY <1>1, ClassesAgree DEF L!access_size, LP!access_size, access_size
<1>3. \A e, l : LP!element_address(e, l) = element_address(e, l)
  BY <1>1, MemoryAgrees DEF LP!element_address, element_address
<1>4. \A m, a, n : L!load(m, a, n) = load(m, a, n) /\ LP!load(m, a, n) = load(m, a, n)
  BY MemoryAgrees DEF L!load, LP!load, load
<1>5. \A e, m : LP!Stored(e, m) = Stored(e, m)
  BY <1>1, <1>2, <1>3, MemoryAgrees DEF LP!Stored, Stored
<1>6. L!LSQEntry = LP!LSQEntry
  BY ClassesAgree, MemoryAgrees DEF L!LSQEntry, LP!LSQEntry
<1> QED
  BY <1>1, <1>2, <1>3, <1>4, <1>5, <1>6

\* The copies forward and issue alike.
LEMMA ForwardingAgrees ==
  /\ \A q, i, m : L!Forwarded(q, i, m) = LP!Forwarded(q, i, m)
  /\ \A q, idle : L!ToIssue(q, idle) = LP!ToIssue(q, idle)
<1>1. \A e, a : L!covers_byte(e, a) <=> LP!covers_byte(e, a)
  BY AccessesAgree DEF L!covers_byte, LP!covers_byte
<1>2. \A e, a : L!byte_from(e, a) = LP!byte_from(e, a)
  BY ClassesAgree, AccessesAgree, MemoryAgrees DEF L!byte_from, LP!byte_from
<1>3. \A q, i, a, b : L!byte_forward(q, i, a, b) = LP!byte_forward(q, i, a, b)
  <2> SUFFICES ASSUME NEW q, NEW i, NEW a, NEW b
               PROVE  L!byte_forward(q, i, a, b) = LP!byte_forward(q, i, a, b)
    OBVIOUS
  <2>1. {j \in 1..(i-1) : q[j].op \in L!Store /\ L!covers_byte(q[j], a)}
        = {j \in 1..(i-1) : q[j].op \in LP!Store /\ LP!covers_byte(q[j], a)}
    BY <1>1, ClassesAgree
  <2>2. \A S : L!Max(S) = LP!Max(S)
    BY DEF L!Max, LP!Max
  <2> QED
    BY <1>2, <2>1, <2>2 DEF L!byte_forward, LP!byte_forward
<1>4. \A q, i, m : L!load_forward(q, i, m) = LP!load_forward(q, i, m)
  BY <1>3, AccessesAgree, MemoryAgrees DEF L!load_forward, LP!load_forward
<1>5. \A q, i, m : L!vload_forward(q, i, m) = LP!vload_forward(q, i, m)
  <2> SUFFICES ASSUME NEW q, NEW i, NEW m
               PROVE  L!vload_forward(q, i, m) = LP!vload_forward(q, i, m)
    OBVIOUS
  <2> DEFINE size == L!element_size(q[i])
             other == LP!element_size(q[i])
             byte(x) == L!byte_forward(q, i, x, L!load(m, x % L!WordMod, 1))
             same(x) == LP!byte_forward(q, i, x, LP!load(m, x % LP!WordMod, 1))
             lane(l) == L!Join([k \in 0..(size-1) |-> byte(q[i].Va + l * size + k)], size)
             peer(l) == LP!Join([k \in 0..(other-1) |-> same(q[i].Va + l * other + k)], other)
  <2>1. \A x : byte(x) = same(x)
    BY <1>3, AccessesAgree, MemoryAgrees
  <2>2. size = other /\ L!Lane = LP!Lane
    BY AccessesAgree, MemoryAgrees
  <2>3. \A bytes, n : L!Join(bytes, n) = LP!Join(bytes, n)
    BY MemoryAgrees
  <2>4. L!vload_forward(q, i, m) = [l \in L!Lane |-> IF l < q[i].vl THEN lane(l) ELSE 0]
    BY DEF L!vload_forward
  <2>5. LP!vload_forward(q, i, m) = [l \in LP!Lane |-> IF l < q[i].vl THEN peer(l) ELSE 0]
    BY DEF LP!vload_forward
  <2> HIDE DEF byte, same, size, other
  <2>6. \A l : lane(l) = peer(l)
    BY <2>1, <2>2, <2>3, Zenon
  <2> HIDE DEF lane, peer
  <2> QED
    BY <2>2, <2>4, <2>5, <2>6
<1>6. \A op, raw : L!format_load(op, raw) = LP!format_load(op, raw)
  <2>1. \A w, n : L!sign_extend(w, n) = LP!sign_extend(w, n)
    BY MemoryAgrees DEF L!sign_extend, LP!sign_extend
  <2> QED
    BY <2>1 DEF L!format_load, LP!format_load
<1>7. \A w : L!scalar(w) = LP!scalar(w)
  BY MemoryAgrees DEF L!scalar, LP!scalar
<1>8. \A q, i, m : L!Forwarded(q, i, m) = LP!Forwarded(q, i, m)
  BY <1>4, <1>5, <1>6, <1>7, ClassesAgree DEF L!Forwarded, LP!Forwarded
<1>9. \A a, b : L!overlaps(a, b) <=> LP!overlaps(a, b)
  BY AccessesAgree DEF L!overlaps, LP!overlaps
<1>10. \A q, i : L!can_issue(q, i) <=> LP!can_issue(q, i)
  BY <1>9, ClassesAgree DEF L!can_issue, LP!can_issue, L!can_issue_load, LP!can_issue_load
<1>11. \A q, idle : L!ToIssue(q, idle) = LP!ToIssue(q, idle)
  <2> SUFFICES ASSUME NEW q, NEW idle PROVE L!ToIssue(q, idle) = LP!ToIssue(q, idle)
    OBVIOUS
  <2>1. {i \in DOMAIN q : L!can_issue(q, i)} = {i \in DOMAIN q : LP!can_issue(q, i)}
    BY <1>10
  <2>2. \A S : L!Cardinality(S) = LP!Cardinality(S)
    BY DEF L!Cardinality, LP!Cardinality
  <2> QED
    BY <2>1, <2>2 DEF L!ToIssue, LP!ToIssue
<1> QED
  BY <1>8, <1>11

\* An access that goes past the check finds bytes: in memory, or behind it.
LEMMA BeyondReads ==
  ASSUME NEW m \in MemState, NEW b \in Byte, NEW addr \in Word, NEW n \in {1, 2, 4}
  PROVE  load(Beyond(m, b), addr, n) \in 0..(Base(n) - 1)
<1> DEFINE found == Beyond(m, b)
<1>1. /\ WordMod \in Nat /\ WordMod >= 16 /\ MemSize \in Nat /\ MemSize <= WordMod
      /\ addr \in 0..(WordMod - 1) /\ Base(n) \in Nat \ {0}
  BY LP!Bases, MemoryAgrees, InstanceAssumptions, MemoryAssumption, CpuAssumption
     DEF Word, LP!MemoryAssumption
<1>2. DOMAIN m = 0..(MemSize - 1) /\ \A a \in 0..(MemSize - 1) : m[a] \in Byte
  BY DEF MemState
<1>3. \A a \in 0..(MemSize - 1) \cup (WordMod - 3)..(WordMod - 1) : found[a] \in Byte
  BY <1>2 DEF Beyond
<1> HIDE DEF found
<1>4. CASE Checked(addr, n)
  <2>1. (addr + n - 1) % WordMod < MemSize
    BY <1>4 DEF Checked
  <2>2. ASSUME NEW k \in 0..(n-1) PROVE found[(addr + k) % WordMod] \in Byte
    <3>1. CASE addr + n - 1 < WordMod
      <4>1. (addr + n - 1) % WordMod = addr + n - 1 /\ (addr + k) % WordMod = addr + k
        BY <1>1, <3>1
      <4> QED
        BY <1>1, <1>3, <2>1, <4>1
    <3>2. CASE addr + n - 1 >= WordMod
      <4>1. (addr + n - 1) % WordMod = addr + n - 1 - WordMod
        BY <1>1, <3>2
      <4>2. CASE addr + k < WordMod
        <5>1. (addr + k) % WordMod = addr + k /\ addr >= WordMod - 3
          BY <1>1, <3>2, <4>2
        <5> QED
          BY <1>1, <1>3, <4>2, <5>1
      <4>3. CASE addr + k >= WordMod
        <5>1. (addr + k) % WordMod = addr + k - WordMod
          BY <1>1, <4>3
        <5> QED
          BY <1>1, <1>3, <2>1, <4>1, <4>3, <5>1
      <4> QED
        BY <1>1, <4>2, <4>3
    <3> QED
      BY <1>1, <3>1, <3>2
  <2> DEFINE bytes == [k \in 0..(n-1) |-> found[(addr + k) % WordMod]]
  <2>3. \A k \in 0..(n-1) : bytes[k] \in Byte
    BY <2>2
  <2>4. load(found, addr, n) = Join(bytes, n)
    BY <1>4 DEF load
  <2> HIDE DEF bytes
  <2>5. Join(bytes, n) \in 0..(Base(n) - 1)
    BY <2>3, LP!JoinBelow, MemoryAgrees, InstanceAssumptions DEF LP!MemoryAssumption
  <2> QED
    BY <2>4, <2>5 DEF found
<1>5. CASE ~Checked(addr, n)
  BY <1>1, <1>5 DEF load, found
<1> QED
  BY <1>4, <1>5

\* What a unit finds for a load, in the queue and in memory, is a value.
LEMMA BroughtBack ==
  ASSUME NEW q \in Seq(L!LSQEntry),
         \A k \in DOMAIN q : q[k].sew = op_sew(q[k].op) /\ q[k].Va \in Word,
         NEW i \in DOMAIN q, q[i].op \in Load, NEW m \in MemState, NEW b \in Byte
  PROVE  L!Forwarded(q, i, Beyond(m, b)) \in Value
<1>1. q \in Seq(LP!LSQEntry) /\ \A k \in DOMAIN q : LP!EntryTyped(q[k])
  <2>1. q \in Seq(LP!LSQEntry) /\ \A k \in DOMAIN q : q[k] \in LP!LSQEntry
    BY AccessesAgree, ElementOfSeq, LenProperties
  <2> QED
    BY <2>1, ClassesAgree DEF LP!EntryTyped
<1>2. \A a \in LP!Word : LP!load(Beyond(m, b), a, 1) \in LP!Byte
  <2> SUFFICES ASSUME NEW a \in Word PROVE load(Beyond(m, b), a, 1) \in Byte
    BY AccessesAgree, MemoryAgrees
  <2>1. load(Beyond(m, b), a, 1) \in 0..(Base(1) - 1)
    BY BeyondReads
  <2> QED
    BY <2>1 DEF Base, Byte
<1>3. LP!load(Beyond(m, b), q[i].Va, LP!element_size(q[i])) \in Nat
  <2>1. element_size(q[i]) \in {1, 2, 4}
    BY <1>1, LP!ElementSize, AccessesAgree, InstanceAssumptions DEF LP!MemoryAssumption
  <2>2. load(Beyond(m, b), q[i].Va, element_size(q[i])) \in 0..(Base(element_size(q[i])) - 1)
    BY <2>1, BeyondReads
  <2> QED
    BY <2>2, AccessesAgree
<1>4. q[i].op \in LP!Load
  BY ClassesAgree
<1> HIDE DEF LP!EntryTyped
<1>5. LP!Forwarded(q, i, Beyond(m, b)) \in LP!Value
  BY <1>1, <1>2, <1>3, <1>4, LP!ForwardedIsValue, InstanceAssumptions
     DEF LP!MemoryAssumption, LP!LsqAssumption
<1> QED
  BY <1>5, ForwardingAgrees, MemoryAgrees

\* A store leaves memory a memory.
LEMMA StoredKeeps ==
  ASSUME NEW e \in L!LSQEntry, e.sew = op_sew(e.op), NEW m \in MemState
  PROVE  Stored(e, m) \in MemState
<1>1. LP!EntryTyped(e) /\ m \in LP!MemState
  BY AccessesAgree, ClassesAgree, MemoryAgrees DEF LP!EntryTyped
<1>2. LP!Stored(e, m) \in LP!MemState
  BY <1>1, LP!StoredIsMemory, InstanceAssumptions DEF LP!MemoryAssumption, LP!LsqAssumption
<1> QED
  BY <1>2, AccessesAgree, MemoryAgrees

\* No more accesses are started than there are idle units.
LEMMA StartedFit ==
  ASSUME NEW q \in Seq(L!LSQEntry), NEW idle \in Int, L!ToIssue(q, idle) # {}
  PROVE  /\ L!ToIssue(q, idle) \subseteq DOMAIN q
         /\ IsFiniteSet(L!ToIssue(q, idle))
         /\ Cardinality(L!ToIssue(q, idle)) <= idle
<1>1. \A S : LP!IsFiniteSet(S) <=> IsFiniteSet(S)
  BY DEF LP!IsFiniteSet, IsFiniteSet
<1>2. \A S : LP!Cardinality(S) = Cardinality(S)
  BY DEF LP!Cardinality, Cardinality
<1>3. q \in Seq(LP!LSQEntry) /\ L!ToIssue(q, idle) = LP!ToIssue(q, idle)
  BY AccessesAgree, ForwardingAgrees
<1> QED
  BY <1>1, <1>2, <1>3, LP!ToIssueFits, InstanceAssumptions
     DEF LP!MemoryAssumption, LP!LsqAssumption

-----------------------------------------------------------------------------
(* Queues, as the other components see them: the entries of a queue, and   *)
(* those that wait for their result, by tag and operation.                 *)

\* An instruction is in a queue, or waits there for its result.
Entry(q, tag, op)   == \E i \in DOMAIN q : q[i].tag = tag /\ q[i].op = op
Pending(q, tag, op) == \E i \in DOMAIN q : q[i].tag = tag /\ q[i].op = op /\ ~q[i].ready

\* A queue whose entries have tags that grow, and operations.
Tagged(q) ==
  /\ DOMAIN q = 1..Len(q) /\ Len(q) \in Nat
  /\ \A i \in DOMAIN q : q[i].tag \in Nat /\ q[i].op \in Op
  /\ TagsGrow(q)

\* In such a queue a tag names one entry.
LEMMA OneEntry ==
  ASSUME NEW q, Tagged(q), NEW i \in DOMAIN q, NEW j \in DOMAIN q, q[i].tag = q[j].tag
  PROVE  i = j
<1>1. i \in Int /\ j \in Int /\ q[i].tag \in Nat
  BY DEF Tagged
<1> QED
  BY <1>1 DEF Tagged, TagsGrow

\* A tag names one operation.
LEMMA OneOperation ==
  ASSUME NEW q, Tagged(q), NEW tag, NEW a, NEW b, Entry(q, tag, a), Entry(q, tag, b)
  PROVE  a = b
BY OneEntry DEF Entry

\* What waits for its result is an entry.
LEMMA PendingIsEntry ==
  \A q, tag, op : Pending(q, tag, op) => Entry(q, tag, op)
BY DEF Pending, Entry

\* The queue without its head.
LEMMA TailOf ==
  ASSUME NEW E, NEW q \in Seq(E), q # <<>>, Tagged(q)
  PROVE  /\ Head(q) = q[1] /\ 1 \in DOMAIN q
         /\ Tail(q) \in Seq(E) /\ Len(Tail(q)) = Len(q) - 1 /\ Tagged(Tail(q))
         /\ \A i \in DOMAIN Tail(q) : i + 1 \in DOMAIN q /\ Tail(q)[i] = q[i + 1]
         /\ \A i \in DOMAIN q : i # 1 => i - 1 \in DOMAIN Tail(q) /\ Tail(q)[i - 1] = q[i]
         /\ \A tag, op : Entry(Tail(q), tag, op) <=> Entry(q, tag, op) /\ tag # Head(q).tag
<1>1. /\ Tail(q) \in Seq(E) /\ Len(Tail(q)) = Len(q) - 1
      /\ \A i \in 1..Len(Tail(q)) : Tail(q)[i] = q[i + 1]
      /\ Len(q) \in Nat /\ Len(q) # 0 /\ DOMAIN q = 1..Len(q)
      /\ DOMAIN Tail(q) = 1..(Len(q) - 1) /\ Head(q) = q[1]
  BY HeadTailProperties, EmptySeq, LenProperties
<1>2. /\ 1 \in DOMAIN q
      /\ \A i \in DOMAIN Tail(q) : i + 1 \in DOMAIN q /\ Tail(q)[i] = q[i + 1]
      /\ \A i \in DOMAIN q : i # 1 => i - 1 \in DOMAIN Tail(q) /\ Tail(q)[i - 1] = q[i]
  <2>1. ASSUME NEW i \in DOMAIN q, i # 1
        PROVE  i - 1 \in DOMAIN Tail(q) /\ Tail(q)[i - 1] = q[i]
    <3>1. i - 1 \in 1..Len(Tail(q)) /\ (i - 1) + 1 = i
      BY <1>1, <2>1
    <3> QED
      BY <1>1, <3>1
  <2> QED
    BY <1>1, <2>1
<1>3. Tagged(Tail(q))
  <2>1. TagsGrow(Tail(q))
    <3> SUFFICES ASSUME NEW i \in DOMAIN Tail(q), NEW j \in DOMAIN Tail(q), i < j
                 PROVE  Tail(q)[i].tag < Tail(q)[j].tag
      BY DEF TagsGrow
    <3>1. i + 1 \in DOMAIN q /\ j + 1 \in DOMAIN q /\ i + 1 < j + 1
      BY <1>1
    <3>2. q[i + 1].tag < q[j + 1].tag
      BY <3>1 DEF Tagged, TagsGrow
    <3> QED
      BY <1>2, <3>2
  <2> QED
    BY <1>1, <1>2, <2>1 DEF Tagged
<1>4. ASSUME NEW tag, NEW op
      PROVE  Entry(Tail(q), tag, op) <=> Entry(q, tag, op) /\ tag # Head(q).tag
  <2>1. ASSUME NEW i \in DOMAIN Tail(q) PROVE Tail(q)[i].tag # Head(q).tag
    <3>1. i + 1 \in DOMAIN q /\ i + 1 # 1 /\ Tail(q)[i] = q[i + 1]
      BY <1>1, <1>2
    <3> QED
      BY <1>1, <1>2, <3>1, OneEntry
  <2>2. ASSUME NEW i \in DOMAIN q, q[i].tag # Head(q).tag
        PROVE  \E j \in DOMAIN Tail(q) : Tail(q)[j] = q[i]
    BY <1>1, <1>2, <2>2
  <2>3. ASSUME NEW i \in DOMAIN Tail(q) PROVE \E j \in DOMAIN q : Tail(q)[i] = q[j]
    BY <1>2
  <2> QED
    BY <2>1, <2>2, <2>3 DEF Entry
<1> QED
  BY <1>1, <1>2, <1>3, <1>4

\* The queue behind which an entry has been appended.
LEMMA Appended ==
  ASSUME NEW E, NEW q \in Seq(E), Tagged(q), NEW e \in E, e.tag \in Nat, e.op \in Op,
         \A i \in DOMAIN q : q[i].tag < e.tag
  PROVE  /\ Append(q, e) \in Seq(E) /\ Len(Append(q, e)) = Len(q) + 1 /\ Tagged(Append(q, e))
         /\ DOMAIN Append(q, e) = DOMAIN q \cup {Len(q) + 1} /\ Len(q) + 1 \notin DOMAIN q
         /\ \A i \in DOMAIN q : Append(q, e)[i] = q[i]
         /\ Append(q, e)[Len(q) + 1] = e
         /\ \A tag, op : Entry(Append(q, e), tag, op) <=>
                           Entry(q, tag, op) \/ (tag = e.tag /\ op = e.op)
         /\ \A tag, op : Pending(Append(q, e), tag, op) <=>
                           Pending(q, tag, op) \/ (tag = e.tag /\ op = e.op /\ ~e.ready)
<1>1. /\ Append(q, e) \in Seq(E) /\ Len(Append(q, e)) = Len(q) + 1
      /\ \A i \in 1..Len(q) : Append(q, e)[i] = q[i]
      /\ Append(q, e)[Len(q) + 1] = e
      /\ Len(q) \in Nat /\ DOMAIN q = 1..Len(q)
      /\ DOMAIN Append(q, e) = 1..(Len(q) + 1)
  BY AppendProperties, LenProperties
<1>2. DOMAIN Append(q, e) = DOMAIN q \cup {Len(q) + 1} /\ Len(q) + 1 \notin DOMAIN q
  BY <1>1
<1>3. TagsGrow(Append(q, e))
  <2> SUFFICES ASSUME NEW i \in 1..(Len(q) + 1), NEW j \in 1..(Len(q) + 1), i < j
               PROVE  Append(q, e)[i].tag < Append(q, e)[j].tag
    BY <1>1 DEF TagsGrow
  <2>1. i \in 1..Len(q)
    BY <1>1
  <2>2. CASE j = Len(q) + 1
    BY <1>1, <2>1, <2>2
  <2>3. CASE j # Len(q) + 1
    <3>1. j \in 1..Len(q)
      BY <1>1, <2>3
    <3> QED
      BY <1>1, <2>1, <3>1 DEF Tagged, TagsGrow
  <2> QED
    BY <2>2, <2>3
<1>4. Tagged(Append(q, e))
  BY <1>1, <1>2, <1>3 DEF Tagged
<1> QED
  BY <1>1, <1>2, <1>4 DEF Entry, Pending

\* The queue without what is younger than a tag.
LEMMA Kept ==
  ASSUME NEW E, NEW q \in Seq(E), Tagged(q), NEW tag \in Int
  PROVE  /\ FlushAfter(q, tag) \in Seq(E) /\ Tagged(FlushAfter(q, tag))
         /\ Len(FlushAfter(q, tag)) <= Len(q)
         /\ \A i \in DOMAIN FlushAfter(q, tag) : /\ i \in DOMAIN q /\ q[i].tag <= tag
                                                 /\ FlushAfter(q, tag)[i] = q[i]
         /\ \A i \in DOMAIN q : q[i].tag <= tag => /\ i \in DOMAIN FlushAfter(q, tag)
                                                   /\ FlushAfter(q, tag)[i] = q[i]
         /\ \A t, op : Entry(FlushAfter(q, tag), t, op) <=> Entry(q, t, op) /\ t <= tag
         /\ \A t, op : Pending(FlushAfter(q, tag), t, op) <=> Pending(q, t, op) /\ t <= tag
<1> DEFINE kept == FlushAfter(q, tag)
<1>1. \A k \in DOMAIN q : q[k].tag \in Int
  BY DEF Tagged
<1>2. PICK n \in 0..Len(q) :
        /\ kept \in Seq(E) /\ Len(kept) = n /\ DOMAIN kept = 1..n
        /\ \A k \in 1..n : kept[k] = q[k]
        /\ \A k \in DOMAIN q : q[k].tag <= tag <=> k <= n
  BY <1>1, FlushAfterKeeps DEF Tagged
<1> HIDE DEF kept
<1>3. /\ \A i \in DOMAIN kept : i \in DOMAIN q /\ q[i].tag <= tag /\ kept[i] = q[i]
      /\ \A i \in DOMAIN q : q[i].tag <= tag => i \in DOMAIN kept /\ kept[i] = q[i]
  BY <1>2 DEF Tagged
<1>4. Tagged(kept)
  <2>1. TagsGrow(kept)
    <3> SUFFICES ASSUME NEW i \in DOMAIN kept, NEW j \in DOMAIN kept, i < j
                 PROVE  kept[i].tag < kept[j].tag
      BY DEF TagsGrow
    <3>1. q[i].tag < q[j].tag
      BY <1>3 DEF Tagged, TagsGrow
    <3> QED
      BY <1>3, <3>1
  <2> QED
    BY <1>2, <1>3, <2>1 DEF Tagged
<1>5. Len(kept) <= Len(q)
  BY <1>2 DEF Tagged
<1>6. /\ \A t, op : Entry(kept, t, op) <=> Entry(q, t, op) /\ t <= tag
      /\ \A t, op : Pending(kept, t, op) <=> Pending(q, t, op) /\ t <= tag
  BY <1>3 DEF Entry, Pending
<1> QED
  BY <1>2, <1>3, <1>4, <1>5, <1>6 DEF kept

-----------------------------------------------------------------------------
(* A path: what it may hold, and what the stages do to it.                 *)

\* Element widths; 0 is that of what is no vector instruction.
Sew == {0, 8, 16, 32}
Tag == Nat \cup {NoTag}

\* What a unit, or the load/store queue, brings back for operation op.
ResultOK(op, res) ==
  /\ res \in [value: Value, target: Word, jumped: BOOLEAN, vl: VLength, sew: Sew]
  /\ R!CanYield(op, res)
  /\ op \in VSet => res.sew # 0

\* What dispatch relies on in the operands of a vset.
VsetOK(d) == /\ d.op \in VSet => d.sew # 0
             /\ d.op = "VSETIVLI" => d.imm >= 0

\* An entry of a station, or of a unit; one that a unit can compute.
Station == [op: Op, Vj: Value, Vk: Value, Vl: Value, Qj: Tag, Qk: Tag, Ql: Tag, Qv: Tag,
            pc: Word, imm: Int, rm: 0..7, vl: VLength, sew: Sew, tag: Nat]
StationOK(e) == e \in Station /\ VsetOK(e) /\ (e.op \in VSet => e.Qv = NoTag)

\* A busy unit, and a result not yet collected.
UnitOK(u)   == u \in [rs: Station, left: Nat \ {0}] /\ StationOK(u.rs)
ResultIn(x) == /\ x.op \in Op /\ x.tag \in Nat /\ ResultOK(x.op, x.result)
               /\ x = [op |-> x.op, tag |-> x.tag, result |-> x.result]

\* A path within its sizes, and made of instructions.
PathTyped(p, rs_size, count) ==
  /\ p = [stations |-> p.stations, units |-> p.units, completed |-> p.completed]
  /\ p.stations = [s \in DOMAIN p.stations |-> p.stations[s]]
  /\ DOMAIN p.stations \subseteq 1..rs_size
  /\ \A s \in DOMAIN p.stations : StationOK(p.stations[s])
  /\ \A u \in p.units : UnitOK(u)
  /\ IsFiniteSet(p.units) /\ Cardinality(p.units) <= count
  /\ \A x \in p.completed : ResultIn(x)

\* No two items of a kind have one tag, nor two items of different kinds.
PathDistinct(p) ==
  /\ \A r, s \in DOMAIN p.stations : p.stations[r].tag = p.stations[s].tag => r = s
  /\ \A u, v \in p.units : u.rs.tag = v.rs.tag => u = v
  /\ \A x, y \in p.completed : x.tag = y.tag => x = y
  /\ P!Waiting(p) \cap P!Running(p) = {}
  /\ P!Waiting(p) \cap P!Finished(p) = {}
  /\ P!Running(p) \cap P!Finished(p) = {}

\* What a path holds is an instruction of its type that waits for its result.
PathServes(p, t, q) ==
  /\ \A s \in DOMAIN p.stations :
       Pending(q, p.stations[s].tag, p.stations[s].op) /\ exec_type(p.stations[s].op) = t
  /\ \A u \in p.units : Pending(q, u.rs.tag, u.rs.op) /\ exec_type(u.rs.op) = t
  /\ \A x \in p.completed : Pending(q, x.tag, x.op) /\ exec_type(x.op) = t

\* A path that is typed, distinct and serves q.
PathOK(p, t, rs_size, count, q) ==
  PathTyped(p, rs_size, count) /\ PathDistinct(p) /\ PathServes(p, t, q)

\* The tags of the instructions in a path.
Held(p) == P!Waiting(p) \cup P!Running(p) \cup P!Finished(p)

\* The path's copies of cycles and of the library's operators are the ones here.
LEMMA CopiesAgree ==
  /\ P!NoTag = NoTag /\ \A op : P!cycles(op) = cycles(op)
  /\ \A S : P!Cardinality(S) = Cardinality(S) /\ P!Min(S) = Min(S)
  /\ \A f, S : P!Restrict(f, S) = [x \in S |-> f[x]]
BY DEF P!NoTag, NoTag, P!cycles, cycles, P!Cardinality, Cardinality, P!Min, Min, P!Restrict,
       P!Load, Load, P!IntLoad, IntLoad, P!VLoad, VLoad, P!Store, Store, P!IntStore, IntStore,
       P!VStore, VStore, P!VMul, VMul, P!Mul, Mul, P!FAdd, FAdd, P!VFMul, VFMul, P!FMul, FMul,
       P!FMac, FMac, P!Div, Div

\* Whatever waits in q, and is not of this tag, waits in r.
OthersWait(q, r, tag) == \A a, op : Pending(q, a, op) /\ a # tag => Pending(r, a, op)

\* w is p without the result of this tag.
TakesFrom(p, w, tag) ==
  /\ w.stations = p.stations
  /\ P!Waiting(w) = P!Waiting(p) /\ P!Running(w) = P!Running(p)
  /\ P!Finished(w) = P!Finished(p) \ {tag}
  /\ tag \notin P!Waiting(p) \cup P!Running(p)

\* A result is taken from a path; others do not have it.
LEMMA TakenPath ==
  ASSUME NEW p, NEW t, NEW rs_size, NEW count, NEW q, NEW r, NEW x,
         PathOK(p, t, rs_size, count, q),
         OthersWait(q, r, x.tag),
         x \in p.completed \/ x.tag \notin Held(p)
  PROVE  /\ PathOK(P!Taken(p, x), t, rs_size, count, r)
         /\ TakesFrom(p, P!Taken(p, x), x.tag)
<1> DEFINE w == P!Taken(p, x)
<1>1. w = [stations |-> p.stations, units |-> p.units, completed |-> p.completed \ {x}]
  BY DEF P!Taken, PathOK, PathTyped
<1>2. x.tag \notin P!Waiting(p) /\ x.tag \notin P!Running(p)
  BY DEF PathOK, PathDistinct, P!Finished, Held
<1>3. w.stations = p.stations /\ w.units = p.units /\ w.completed = p.completed \ {x}
  BY <1>1
<1>4. /\ P!Waiting(w) = P!Waiting(p) /\ P!Running(w) = P!Running(p)
      /\ P!Finished(w) = P!Finished(p) \ {x.tag}
  BY <1>3 DEF P!Waiting, P!Running, P!Finished, PathOK, PathDistinct, Held
<1>5. PathTyped(w, rs_size, count) /\ PathDistinct(w)
  BY <1>1, <1>3, <1>4 DEF PathOK, PathTyped, PathDistinct
<1>6. PathServes(w, t, r)
  <2>1. ASSUME NEW s \in DOMAIN p.stations PROVE p.stations[s].tag # x.tag
    BY <1>2 DEF P!Waiting
  <2>2. ASSUME NEW u \in p.units PROVE u.rs.tag # x.tag
    BY <1>2 DEF P!Running
  <2>3. ASSUME NEW y \in p.completed \ {x} PROVE y.tag # x.tag
    BY DEF PathOK, PathDistinct, Held, P!Finished
  <2> QED
    BY <1>3, <2>1, <2>2, <2>3 DEF PathOK, PathServes, OthersWait
<1> QED
  BY <1>2, <1>3, <1>4, <1>5, <1>6 DEF PathOK, TakesFrom

\* A result reaches the operands that wait for it.
LEMMA WokenEntry ==
  ASSUME NEW e, StationOK(e), NEW x, ResultIn(x)
  PROVE  /\ StationOK(P!Wake(e, x))
         /\ P!Wake(e, x).tag = e.tag /\ P!Wake(e, x).op = e.op
         /\ P!Wake(e, x).Qj = (IF e.Qj = x.tag THEN NoTag ELSE e.Qj)
         /\ P!Wake(e, x).Qk = (IF e.Qk = x.tag THEN NoTag ELSE e.Qk)
         /\ P!Wake(e, x).Ql = (IF e.Ql = x.tag THEN NoTag ELSE e.Ql)
         /\ P!Wake(e, x).Qv = (IF e.Qv = x.tag THEN NoTag ELSE e.Qv)
<1> DEFINE w == P!Wake(e, x)
           tag(Q) == IF Q = x.tag THEN NoTag ELSE Q
           value(V, Q) == IF Q = x.tag THEN x.result.value ELSE V
<1>1. e = [op |-> e.op, Vj |-> e.Vj, Vk |-> e.Vk, Vl |-> e.Vl, Qj |-> e.Qj, Qk |-> e.Qk,
           Ql |-> e.Ql, Qv |-> e.Qv, pc |-> e.pc, imm |-> e.imm, rm |-> e.rm, vl |-> e.vl,
           sew |-> e.sew, tag |-> e.tag]
  BY DEF StationOK, Station
<1>2. w = [op |-> e.op, Vj |-> value(e.Vj, e.Qj), Vk |-> value(e.Vk, e.Qk),
           Vl |-> value(e.Vl, e.Ql), Qj |-> tag(e.Qj), Qk |-> tag(e.Qk),
           Ql |-> tag(e.Ql), Qv |-> tag(e.Qv), pc |-> e.pc, imm |-> e.imm, rm |-> e.rm,
           vl |-> IF e.Qv = x.tag THEN x.result.vl ELSE e.vl,
           sew |-> IF e.Qv = x.tag THEN x.result.sew ELSE e.sew, tag |-> e.tag]
  <2> DEFINE length == IF e.Qv = x.tag THEN x.result.vl ELSE e.vl
             width  == IF e.Qv = x.tag THEN x.result.sew ELSE e.sew
  <2>1. w = [e EXCEPT !.Vj = value(e.Vj, e.Qj), !.Vk = value(e.Vk, e.Qk),
                      !.Vl = value(e.Vl, e.Ql), !.Qj = tag(e.Qj), !.Qk = tag(e.Qk),
                      !.Ql = tag(e.Ql), !.Qv = tag(e.Qv), !.vl = length, !.sew = width]
    BY <1>1, CopiesAgree DEF P!Wake
  <2> HIDE DEF tag, value, length, width, w
  <2>2. w = [op |-> e.op, Vj |-> value(e.Vj, e.Qj), Vk |-> value(e.Vk, e.Qk),
             Vl |-> value(e.Vl, e.Ql), Qj |-> tag(e.Qj), Qk |-> tag(e.Qk),
             Ql |-> tag(e.Ql), Qv |-> tag(e.Qv), pc |-> e.pc, imm |-> e.imm, rm |-> e.rm,
             vl |-> length, sew |-> width, tag |-> e.tag]
    BY <1>1, <2>1
  <2> QED
    BY <2>2 DEF length, width
<1>3. /\ x.result.value \in Value /\ x.result.vl \in VLength /\ x.result.sew \in Sew
      /\ x.tag \in Nat
  BY DEF ResultIn, ResultOK
<1>4. /\ e.op \in Op /\ e.Vj \in Value /\ e.Vk \in Value /\ e.Vl \in Value
      /\ e.Qj \in Tag /\ e.Qk \in Tag /\ e.Ql \in Tag /\ e.Qv \in Tag
      /\ e.pc \in Word /\ e.imm \in Int /\ e.rm \in 0..7 /\ e.vl \in VLength
      /\ e.sew \in Sew /\ e.tag \in Nat
  BY DEF StationOK, Station
<1>5. /\ \A V \in Value : \A Q : value(V, Q) \in Value
      /\ \A Q \in Tag : tag(Q) \in Tag
  BY <1>3 DEF Tag
<1>6. NoTag \notin Nat
  BY DEF NoTag
<1> HIDE DEF w, tag, value
<1>7. w \in Station
  BY <1>2, <1>3, <1>4, <1>5 DEF Station
<1>8. /\ w.op = e.op /\ w.imm = e.imm /\ w.tag = e.tag
      /\ w.Qj = tag(e.Qj) /\ w.Qk = tag(e.Qk) /\ w.Ql = tag(e.Ql) /\ w.Qv = tag(e.Qv)
      /\ w.sew = (IF e.Qv = x.tag THEN x.result.sew ELSE e.sew)
  BY <1>2
<1>9. VsetOK(w) /\ (w.op \in VSet => w.Qv = NoTag)
  BY <1>3, <1>6, <1>8 DEF StationOK, VsetOK, tag
<1> QED
  BY <1>7, <1>8, <1>9 DEF StationOK, w, tag

\* A broadcast result leaves everything where it is in a path.
LEMMA WokenPath ==
  ASSUME NEW p, NEW t, NEW rs_size, NEW count, NEW q, NEW x,
         PathOK(p, t, rs_size, count, q), ResultIn(x)
  PROVE  /\ PathOK(P!Woken(p, x), t, rs_size, count, q)
         /\ P!Waiting(P!Woken(p, x)) = P!Waiting(p)
         /\ P!Running(P!Woken(p, x)) = P!Running(p)
         /\ P!Finished(P!Woken(p, x)) = P!Finished(p)
         /\ DOMAIN P!Woken(p, x).stations = DOMAIN p.stations
         /\ \A s \in DOMAIN p.stations : P!Woken(p, x).stations[s] = P!Wake(p.stations[s], x)
<1> DEFINE w == P!Woken(p, x)
<1>1. w = [stations |-> [s \in DOMAIN p.stations |-> P!Wake(p.stations[s], x)],
           units |-> p.units, completed |-> p.completed]
  BY DEF P!Woken, PathOK, PathTyped
<1>2. /\ DOMAIN w.stations = DOMAIN p.stations
      /\ \A s \in DOMAIN p.stations : w.stations[s] = P!Wake(p.stations[s], x)
      /\ w.units = p.units /\ w.completed = p.completed
      /\ w.stations = [s \in DOMAIN w.stations |-> w.stations[s]]
  BY <1>1
<1>3. ASSUME NEW s \in DOMAIN p.stations
      PROVE  /\ StationOK(w.stations[s])
             /\ w.stations[s].tag = p.stations[s].tag /\ w.stations[s].op = p.stations[s].op
  BY <1>2, WokenEntry DEF PathOK, PathTyped
<1>4. w = [stations |-> w.stations, units |-> w.units, completed |-> w.completed]
  BY <1>1
<1> HIDE DEF w
<1>5. /\ P!Waiting(w) = P!Waiting(p) /\ P!Running(w) = P!Running(p)
      /\ P!Finished(w) = P!Finished(p)
  BY <1>2, <1>3 DEF P!Waiting, P!Running, P!Finished
<1>6. PathTyped(w, rs_size, count)
  BY <1>2, <1>3, <1>4 DEF PathOK, PathTyped
<1>7. PathDistinct(w)
  BY <1>2, <1>3, <1>5 DEF PathOK, PathDistinct
<1>8. PathServes(w, t, q)
  BY <1>2, <1>3 DEF PathOK, PathServes
<1> QED
  BY <1>2, <1>5, <1>6, <1>7, <1>8 DEF PathOK, w

\* w is p without what is younger than a tag.
KeepsUpTo(p, w, tag) ==
  /\ P!Waiting(w) = {a \in P!Waiting(p) : a <= tag}
  /\ P!Running(w) = {a \in P!Running(p) : a <= tag}
  /\ P!Finished(w) = {a \in P!Finished(p) : a <= tag}
  /\ \A s \in DOMAIN w.stations : /\ s \in DOMAIN p.stations /\ p.stations[s].tag <= tag
                                  /\ w.stations[s] = p.stations[s]

\* Whatever is younger than a tag leaves.
LEMMA FlushedPath ==
  ASSUME NEW p, NEW t, NEW rs_size, NEW count \in Nat, NEW q, NEW r, NEW tag \in Nat,
         PathOK(p, t, rs_size, count, q),
         \A a, op : Pending(q, a, op) /\ a <= tag => Pending(r, a, op)
  PROVE  PathOK(P!Flushed(p, tag), t, rs_size, count, r) /\ KeepsUpTo(p, P!Flushed(p, tag), tag)
<1> DEFINE w == P!Flushed(p, tag)
           left == {s \in DOMAIN p.stations : p.stations[s].tag <= tag}
<1>1. w = [stations |-> [s \in left |-> p.stations[s]],
           units |-> {u \in p.units : u.rs.tag <= tag},
           completed |-> {x \in p.completed : x.tag <= tag}]
  BY CopiesAgree DEF P!Flushed
<1>2. /\ DOMAIN w.stations = left
      /\ \A s \in left : w.stations[s] = p.stations[s]
      /\ w.units = {u \in p.units : u.rs.tag <= tag}
      /\ w.completed = {x \in p.completed : x.tag <= tag}
      /\ w.stations = [s \in DOMAIN w.stations |-> w.stations[s]]
      /\ w = [stations |-> w.stations, units |-> w.units, completed |-> w.completed]
  BY <1>1
<1> HIDE DEF w
<1>3. /\ P!Waiting(w) = {a \in P!Waiting(p) : a <= tag}
      /\ P!Running(w) = {a \in P!Running(p) : a <= tag}
      /\ P!Finished(w) = {a \in P!Finished(p) : a <= tag}
  BY <1>2 DEF P!Waiting, P!Running, P!Finished
<1>4. IsFiniteSet(w.units) /\ Cardinality(w.units) <= count
  <2>1. /\ IsFiniteSet(w.units) /\ Cardinality(w.units) <= Cardinality(p.units)
        /\ Cardinality(p.units) <= count
        /\ Cardinality(w.units) \in Nat /\ Cardinality(p.units) \in Nat
    BY <1>2, FS_Subset, FS_CardinalityType DEF PathOK, PathTyped
  <2> QED
    BY <2>1
<1>5. PathTyped(w, rs_size, count)
  BY <1>2, <1>4 DEF PathOK, PathTyped
<1>6. PathDistinct(w)
  BY <1>2, <1>3 DEF PathOK, PathDistinct
<1>7. PathServes(w, t, r)
  BY <1>2 DEF PathOK, PathServes
<1>8. KeepsUpTo(p, w, tag)
  BY <1>2, <1>3 DEF KeepsUpTo
<1> QED
  BY <1>2, <1>5, <1>6, <1>7, <1>8 DEF PathOK, w

\* What a function makes of a finite set is not larger.
LEMMA ImageFits ==
  ASSUME NEW S, IsFiniteSet(S), NEW f, f = [x \in S |-> f[x]]
  PROVE  /\ IsFiniteSet({f[x] : x \in S})
         /\ Cardinality({f[x] : x \in S}) <= Cardinality(S)
<1> DEFINE T == {f[x] : x \in S}
<1>1. f \in Surjection(S, T)
  BY DEF Surjection
<1> QED
  BY <1>1, FS_Surjection

\* Units step; those that finish leave, and results come in.  No instruction is left
\* with an old result or a station, and the one a unit has is over.
CanFinish(p, t, q, results) ==
  /\ \A x \in results :
       /\ ResultIn(x) /\ Pending(q, x.tag, x.op) /\ exec_type(x.op) = t
       /\ x.tag \notin P!Waiting(p) \cup P!Finished(p)
       /\ x.tag \in P!Running(p) => \E e \in P!Finishing(p) : e.tag = x.tag
  /\ \A x, y \in results : x.tag = y.tag => x = y
\* What a cycle of the units has changed in a path.
StepsTo(p, w, results) ==
  /\ w.stations = p.stations /\ P!Waiting(w) = P!Waiting(p)
  /\ P!Running(w) = P!Running(p) \ {e.tag : e \in P!Finishing(p)}
  /\ P!Finished(w) = P!Finished(p) \cup {x.tag : x \in results}

\* A cycle of the units of a path only moves what runs to what has finished.
LEMMA ExecutedPath ==
  ASSUME NEW p, NEW t, NEW rs_size, NEW count \in Nat, NEW q, NEW results,
         PathOK(p, t, rs_size, count, q), CanFinish(p, t, q, results)
  PROVE  /\ PathOK(P!Executed(p, results), t, rs_size, count, q)
         /\ StepsTo(p, P!Executed(p, results), results)
<1> DEFINE w == P!Executed(p, results)
           stay == {v \in p.units : v.left # 1}
           step(u) == [rs |-> u.rs, left |-> u.left - 1]
           stepped(u) == [u EXCEPT !.left = @ - 1]
           left == {stepped(u) : u \in stay}
<1>0. /\ \A x \in results :
           /\ ResultIn(x) /\ Pending(q, x.tag, x.op) /\ exec_type(x.op) = t
           /\ x.tag \notin P!Waiting(p) \cup P!Finished(p)
           /\ x.tag \in P!Running(p) => \E e \in P!Finishing(p) : e.tag = x.tag
      /\ \A x, y \in results : x.tag = y.tag => x = y
  BY DEF CanFinish
<1>1. \A u \in p.units : UnitOK(u) /\ u = [rs |-> u.rs, left |-> u.left] /\ u.left \in Nat \ {0}
  BY DEF PathOK, PathTyped, UnitOK
<1>2. \A u \in stay : stepped(u) = step(u)
  BY <1>1
<1>3. w = [stations |-> p.stations, units |-> {step(u) : u \in stay},
           completed |-> p.completed \cup results]
  <2>1. w = [p EXCEPT !.units = left, !.completed = p.completed \cup results]
    BY DEF P!Executed
  <2> HIDE DEF step, stepped, stay
  <2>2. left = {step(u) : u \in stay}
    BY <1>2
  <2> HIDE DEF left, w
  <2>3. p = [stations |-> p.stations, units |-> p.units, completed |-> p.completed]
    BY DEF PathOK, PathTyped
  <2>4. w = [stations |-> p.stations, units |-> left,
             completed |-> p.completed \cup results]
    BY <2>1, <2>3
  <2> QED
    BY <2>2, <2>4
<1> HIDE DEF w
<1>4. /\ w.stations = p.stations /\ w.units = {step(u) : u \in stay}
      /\ w.completed = p.completed \cup results
      /\ w = [stations |-> w.stations, units |-> w.units, completed |-> w.completed]
  BY <1>3
<1> HIDE DEF w
<1>5. \A u \in stay : UnitOK(step(u)) /\ step(u).rs = u.rs
  BY <1>1 DEF UnitOK
<1>6. P!Waiting(w) = P!Waiting(p)
  BY <1>4 DEF P!Waiting
<1>7. P!Running(w) = P!Running(p) \ {e.tag : e \in P!Finishing(p)}
  <2>1. P!Running(w) = {u.rs.tag : u \in stay}
    <3> HIDE DEF step, stay
    <3> QED
      BY <1>4, <1>5 DEF P!Running
  <2>2. \A u \in stay, v \in p.units : v.left = 1 => u.rs.tag # v.rs.tag
    BY DEF PathOK, PathDistinct
  <2> QED
    BY <2>1, <2>2 DEF P!Running, P!Finishing
<1>8. P!Finished(w) = P!Finished(p) \cup {x.tag : x \in results}
  BY <1>4 DEF P!Finished
<1>9. IsFiniteSet(w.units) /\ Cardinality(w.units) <= count
  <2>1. IsFiniteSet(stay) /\ Cardinality(stay) <= Cardinality(p.units)
        /\ Cardinality(p.units) <= count /\ IsFiniteSet(p.units)
    BY FS_Subset DEF PathOK, PathTyped
  <2> DEFINE f == [u \in stay |-> step(u)]
  <2> HIDE DEF stay, step
  <2>3. f = [u \in stay |-> f[u]] /\ \A u \in stay : f[u] = step(u)
    OBVIOUS
  <2> HIDE DEF f
  <2>4. w.units = {f[u] : u \in stay}
    BY <1>4, <2>3
  <2>2. IsFiniteSet(w.units) /\ Cardinality(w.units) <= Cardinality(stay)
    BY <2>1, <2>3, <2>4, ImageFits
  <2> QED
    BY <2>1, <2>2, FS_CardinalityType
<1>10. PathTyped(w, rs_size, count)
  BY <1>0, <1>4, <1>5, <1>9 DEF PathOK, PathTyped
<1>11. PathDistinct(w)
  <2>1. \A u, v \in w.units : u.rs.tag = v.rs.tag => u = v
    BY <1>4, <1>5 DEF PathOK, PathDistinct
  <2>2. \A x, y \in w.completed : x.tag = y.tag => x = y
    <3>1. \A x \in p.completed, y \in results : x.tag # y.tag
      BY <1>0 DEF P!Finished
    <3> QED
      BY <1>0, <1>4, <3>1 DEF PathOK, PathDistinct
  <2> QED
    BY <1>0, <1>4, <1>6, <1>7, <1>8, <2>1, <2>2 DEF PathOK, PathDistinct
<1>12. PathServes(w, t, q)
  BY <1>0, <1>4, <1>5 DEF PathOK, PathServes
<1> QED
  BY <1>4, <1>6, <1>7, <1>8, <1>10, <1>11, <1>12 DEF PathOK, StepsTo, w

\* Ready entries go from stations to idle units.
\* w is p with some entries on their way.
StartsFrom(p, w) ==
  /\ P!Waiting(w) \cup P!Running(w) = P!Waiting(p) \cup P!Running(p)
  /\ P!Finished(w) = P!Finished(p)
  /\ \A s \in DOMAIN w.stations : s \in DOMAIN p.stations /\ w.stations[s] = p.stations[s]

\* Issue only moves what waits to what runs.
LEMMA IssuedPath ==
  ASSUME NEW p, NEW t, NEW rs_size \in Nat, NEW count \in Nat, NEW q, NEW agu \in BOOLEAN,
         PathOK(p, t, rs_size, count, q)
  PROVE  /\ PathOK(P!Issued(p, count, agu), t, rs_size, count, q)
         /\ StartsFrom(p, P!Issued(p, count, agu))
<1> DEFINE w == P!Issued(p, count, agu)
           starting == P!Starting(p, count, agu)
           unit(s) == [rs |-> p.stations[s], left |-> P!latency(p.stations[s], agu)]
           idle == count - Cardinality(p.units)
<1>1. starting \subseteq DOMAIN p.stations /\ DOMAIN p.stations \subseteq 1..rs_size
      /\ IsFiniteSet(p.units) /\ Cardinality(p.units) <= count /\ Cardinality(p.units) \in Nat
  BY FS_CardinalityType DEF P!Starting, PathOK, PathTyped
<1>2. w = [stations |-> [s \in DOMAIN p.stations \ starting |-> p.stations[s]],
           units |-> p.units \cup {unit(s) : s \in starting}, completed |-> p.completed]
  <2> DEFINE rest == [s \in DOMAIN p.stations \ starting |-> p.stations[s]]
             busy == p.units \cup {unit(s) : s \in starting}
  <2>1. w = [p EXCEPT !.stations = rest, !.units = busy]
    BY CopiesAgree DEF P!Issued
  <2> HIDE DEF rest, busy, w
  <2>2. p = [stations |-> p.stations, units |-> p.units, completed |-> p.completed]
    BY DEF PathOK, PathTyped
  <2>3. w = [stations |-> rest, units |-> busy, completed |-> p.completed]
    BY <2>1, <2>2
  <2> QED
    BY <2>3 DEF rest, busy
<1>3. /\ DOMAIN w.stations = DOMAIN p.stations \ starting
      /\ \A s \in DOMAIN w.stations : w.stations[s] = p.stations[s]
      /\ w.stations = [s \in DOMAIN w.stations |-> w.stations[s]]
      /\ w.units = p.units \cup {unit(s) : s \in starting} /\ w.completed = p.completed
      /\ w = [stations |-> w.stations, units |-> w.units, completed |-> w.completed]
  BY <1>2
<1>4. IsFiniteSet(starting) /\ (starting # {} => Cardinality(starting) <= idle)
  <2> DEFINE ready == {s \in DOMAIN p.stations : P!can_issue(p.stations[s], agu)}
  <2>1. starting = {s \in ready : Cardinality({r \in ready : r < s}) < idle}
    BY CopiesAgree DEF P!Starting
  <2>2. ready \in SUBSET (1..rs_size) /\ idle \in Int
    BY <1>1
  <2> HIDE DEF ready, idle, starting
  <2> QED
    BY <2>1, <2>2, FirstFit, FS_EmptySet
<1>5. IsFiniteSet(w.units) /\ Cardinality(w.units) <= count
  <2> DEFINE new == {unit(s) : s \in starting}
  <2>1. IsFiniteSet(new) /\ Cardinality(new) <= Cardinality(starting)
    <3> DEFINE f == [s \in starting |-> unit(s)]
    <3> HIDE DEF unit, starting
    <3>1. f = [s \in starting |-> f[s]] /\ \A s \in starting : f[s] = unit(s)
      OBVIOUS
    <3> HIDE DEF f
    <3>2. new = {f[s] : s \in starting}
      BY <3>1
    <3> HIDE DEF new
    <3> QED
      BY <1>4, <3>1, <3>2, ImageFits
  <2>2. starting = {} => new = {}
    OBVIOUS
  <2> HIDE DEF new, starting
  <2>3. CASE starting = {}
    <3>1. w.units = p.units
      BY <1>3, <2>2, <2>3 DEF new
    <3> QED
      BY <1>1, <3>1
  <2>4. CASE starting # {}
    <3>1. /\ IsFiniteSet(p.units \cup new)
          /\ Cardinality(p.units \cup new)
               = Cardinality(p.units) + Cardinality(new) - Cardinality(p.units \cap new)
      BY <1>1, <2>1, FS_Union
    <3>2. Cardinality(new) <= idle /\ Cardinality(new) \in Nat
      BY <1>1, <1>4, <2>1, <2>4, FS_CardinalityType
    <3>3. IsFiniteSet(p.units \cap new) /\ Cardinality(p.units \cap new) \in Nat
      BY <1>1, FS_Intersection, FS_CardinalityType
    <3> HIDE DEF w
    <3> QED
      BY <1>1, <1>3, <3>1, <3>2, <3>3 DEF new
  <2> QED
    BY <2>3, <2>4
<1> HIDE DEF w
<1>6. \A s \in starting : UnitOK(unit(s)) /\ unit(s).rs = p.stations[s]
  <2> SUFFICES ASSUME NEW s \in starting PROVE UnitOK(unit(s))
    OBVIOUS
  <2>1. P!latency(p.stations[s], agu) \in Nat \ {0}
    BY CopiesAgree DEF P!latency, cycles
  <2> QED
    BY <1>1, <2>1 DEF UnitOK, PathOK, PathTyped, StationOK
<1>7. P!Running(w) = P!Running(p) \cup {p.stations[s].tag : s \in starting}
  <2>1. \A s \in starting : unit(s).rs.tag = p.stations[s].tag
    BY <1>6
  <2> HIDE DEF unit, starting
  <2> QED
    BY <1>3, <2>1 DEF P!Running
<1>11. P!Waiting(w) \cup P!Running(w) = P!Waiting(p) \cup P!Running(p)
       /\ P!Finished(w) = P!Finished(p)
  <2>1. P!Waiting(p) = P!Waiting(w) \cup {p.stations[s].tag : s \in starting}
    <3> HIDE DEF unit, starting
    <3> QED
      BY <1>1, <1>3 DEF P!Waiting
  <2> QED
    BY <1>3, <1>7, <2>1 DEF P!Finished
<1>8. PathTyped(w, rs_size, count)
  BY <1>1, <1>3, <1>5, <1>6 DEF PathOK, PathTyped
<1>9. PathDistinct(w)
  <2>1. \A s \in starting : p.stations[s].tag \notin P!Running(p)
    BY <1>1 DEF PathOK, PathDistinct, P!Waiting
  <2>2. \A u, v \in w.units : u.rs.tag = v.rs.tag => u = v
    BY <1>1, <1>3, <1>6, <2>1 DEF PathOK, PathDistinct, P!Running
  <2>3. P!Waiting(w) \cap P!Running(w) = {}
    <3>1. \A s \in DOMAIN w.stations : w.stations[s].tag \in P!Waiting(p)
      BY <1>3 DEF P!Waiting
    <3>2. \A s \in DOMAIN w.stations : \A r \in starting :
            w.stations[s].tag # p.stations[r].tag
      BY <1>1, <1>3 DEF PathOK, PathDistinct
    <3> QED
      BY <1>7, <3>1, <3>2 DEF PathOK, PathDistinct, P!Waiting
  <2> QED
    BY <1>3, <1>11, <2>2, <2>3 DEF PathOK, PathDistinct
<1>10. PathServes(w, t, q)
  BY <1>1, <1>3, <1>6 DEF PathOK, PathServes
<1> QED
  BY <1>3, <1>8, <1>9, <1>10, <1>11 DEF PathOK, StartsFrom, w

\* An instruction gets a station.
\* w is p with one entry more; and whatever waits in q waits in r.
AddsTo(p, w, e) ==
  /\ P!Waiting(w) = P!Waiting(p) \cup {e.tag} /\ P!Running(w) = P!Running(p)
  /\ P!Finished(w) = P!Finished(p)
  /\ \A s \in DOMAIN w.stations : \/ w.stations[s] = e
                                  \/ /\ s \in DOMAIN p.stations
                                     /\ w.stations[s] = p.stations[s]
\* What waits in q waits in r.
AllWait(q, r) == \A tag, op : Pending(q, tag, op) => Pending(r, tag, op)

\* Dispatch adds one instruction, of a tag that the path did not hold.
LEMMA DispatchedPath ==
  ASSUME NEW p, NEW t, NEW rs_size \in Nat, NEW count, NEW q, NEW r, NEW e,
         PathOK(p, t, rs_size, count, q), P!can_allocate(p, rs_size),
         AllWait(q, r),
         StationOK(e), exec_type(e.op) = t, Pending(r, e.tag, e.op), e.tag \notin Held(p)
  PROVE  /\ PathOK(P!Dispatched(p, rs_size, e), t, rs_size, count, r)
         /\ AddsTo(p, P!Dispatched(p, rs_size, e), e)
<1> DEFINE w == P!Dispatched(p, rs_size, e)
           free == P!FreeSlots(p, rs_size)
           slot == Min(free)
<1>1. slot \in 1..rs_size /\ slot \notin DOMAIN p.stations
  <2>1. free = (1..rs_size) \ DOMAIN p.stations /\ free # {}
    BY DEF P!FreeSlots, P!can_allocate
  <2>2. free \in SUBSET Nat
    BY <2>1
  <2> HIDE DEF free
  <2>3. PICK m \in free : \A i \in free : m <= i
    BY <2>1, <2>2, LeastNat
  <2>4. slot \in free
    BY <2>3 DEF Min
  <2> QED
    BY <2>1, <2>4
<1>2. w = [stations |-> [s \in DOMAIN p.stations \cup {slot} |->
                           IF s = slot THEN e ELSE p.stations[s]],
           units |-> p.units, completed |-> p.completed]
  BY CopiesAgree DEF P!Dispatched, PathOK, PathTyped
<1> HIDE DEF slot
<1>3. /\ DOMAIN w.stations = DOMAIN p.stations \cup {slot}
      /\ w.stations[slot] = e
      /\ \A s \in DOMAIN p.stations : w.stations[s] = p.stations[s]
      /\ w.stations = [s \in DOMAIN w.stations |-> w.stations[s]]
      /\ w.units = p.units /\ w.completed = p.completed
      /\ w = [stations |-> w.stations, units |-> w.units, completed |-> w.completed]
  BY <1>1, <1>2
<1> HIDE DEF w
<1>4. /\ P!Waiting(w) = P!Waiting(p) \cup {e.tag} /\ P!Running(w) = P!Running(p)
      /\ P!Finished(w) = P!Finished(p)
  BY <1>3 DEF P!Waiting, P!Running, P!Finished
<1>5. PathTyped(w, rs_size, count)
  BY <1>1, <1>3 DEF PathOK, PathTyped
<1>6. PathDistinct(w)
  <2>1. \A s \in DOMAIN p.stations : p.stations[s].tag # e.tag
    BY DEF Held, P!Waiting
  <2> QED
    BY <1>3, <1>4, <2>1 DEF PathOK, PathDistinct, Held
<1>7. PathServes(w, t, r)
  BY <1>3 DEF PathOK, PathServes, AllWait
<1> QED
  BY <1>3, <1>4, <1>5, <1>6, <1>7 DEF PathOK, AddsTo, w

-----------------------------------------------------------------------------
(* The load/store queue: what it may hold, and what the stages do to it.   *)

\* An access as dispatch makes it.
AnAccess == [op: Load \cup Store, tag: Nat, V: Value, Va: Word, Q: Tag, Qa: Tag,
             vl: VLength, sew: Sew, issued: BOOLEAN, done: BOOLEAN]

\* An access waits for data only if it is a store, and then it is not started.
AccessOK(e) ==
  /\ e \in AnAccess /\ e.sew = op_sew(e.op)
  /\ e.Q # NoTag => e.op \in Store /\ ~e.done /\ ~e.issued

\* A queue within its size, made of accesses in program order.
QueueOK(q, size) ==
  /\ q \in Seq(AnAccess) /\ Len(q) <= size /\ TagsGrow(q)
  /\ \A i \in DOMAIN q : AccessOK(q[i])

\* An access is in its path until its address is known, and again when its result
\* is waiting there.
Homes(q, p, r) ==
  \A i \in DOMAIN q :
    /\ (q[i].Qa # NoTag) <=> (q[i].tag \in P!Waiting(p) \cup P!Running(p))
    /\ q[i].done <=> (q[i].tag \in P!Finished(p) \/ ~Pending(r, q[i].tag, q[i].op))

\* A unit works for an access of the queue, and for one nobody else works for.
Serves(u, e) == e.tag = u.tag /\ e.issued /\ ~e.done /\ e.Qa = NoTag /\ e.Q = NoTag
\* The units at work, each on an access of its own.
UnitsOK(us, count, q) ==
  /\ us \subseteq [tag: Nat, left: Nat \ {0}]
  /\ IsFiniteSet(us) /\ Cardinality(us) <= count
  /\ \A u \in us : \E i \in DOMAIN q : Serves(u, q[i])
  /\ \A u, v \in us : u.tag = v.tag => u = v

\* Loads and stores are operations, and none is both.
LEMMA AccessOps == Load \cup Store \subseteq Op /\ Load \cap Store = {}
BY DEF Op, Load, Store, IntLoad, IntStore, VLoad, VStore

\* An access as the pipeline makes it is an entry of LoadStoreQueue's.
LEMMA AccessIsEntry == AnAccess \subseteq L!LSQEntry
<1>1. VLength \subseteq 0..Lanes
  BY VlenFacts, Constants DEF VLength
<1>2. Word \subseteq Nat
  BY WordSizes DEF Word
<1>3. L!LSQEntry = [op: Load \cup Store, tag: Nat, V: Value, Va: Nat, Q: Tag, Qa: Tag,
                    vl: 0..Lanes, sew: Sew, issued: BOOLEAN, done: BOOLEAN]
  BY ClassesAgree, MemoryAgrees DEF L!LSQEntry, Tag, Sew
<1> SUFFICES ASSUME NEW e \in AnAccess PROVE e \in L!LSQEntry
  OBVIOUS
<1> QED
  BY <1>1, <1>2, <1>3 DEF AnAccess

\* A queue that is in order has one entry for a tag.
LEMMA QueueTagged ==
  ASSUME NEW q, NEW size, QueueOK(q, size)
  PROVE  /\ Tagged(q) /\ q \in Seq(L!LSQEntry)
         /\ \A i \in DOMAIN q : q[i] \in L!LSQEntry /\ q[i].Va \in Word
<1>1. q \in Seq(AnAccess) /\ DOMAIN q = 1..Len(q) /\ Len(q) \in Nat
  BY LenProperties DEF QueueOK
<1>2. \A i \in DOMAIN q : q[i] \in L!LSQEntry
  BY AccessIsEntry DEF QueueOK, AccessOK
<1>3. q \in Seq(L!LSQEntry)
  BY <1>1, <1>2, SeqDef DEF QueueOK
<1> QED
  BY <1>1, <1>2, <1>3, AccessOps DEF QueueOK, AccessOK, AnAccess, Tagged

\* A queue whose entries change, but not their tags and operations.
LEMMA QueueMap ==
  ASSUME NEW q, NEW size, QueueOK(q, size), NEW f, f = [i \in DOMAIN q |-> f[i]],
         \A i \in DOMAIN q : AccessOK(f[i]) /\ f[i].tag = q[i].tag /\ f[i].op = q[i].op
  PROVE  /\ QueueOK(f, size) /\ DOMAIN f = DOMAIN q
         /\ \A tag, op : Entry(f, tag, op) <=> Entry(q, tag, op)
<1>1. q \in Seq(AnAccess) /\ DOMAIN q = 1..Len(q) /\ Len(q) \in Nat /\ DOMAIN f = DOMAIN q
  BY LenProperties DEF QueueOK
<1>2. f \in [1..Len(q) -> AnAccess]
  BY <1>1 DEF AccessOK
<1>3. f \in Seq(AnAccess) /\ Len(f) = Len(q)
  BY <1>1, <1>2, SeqDef, LenProperties
<1>4. TagsGrow(f)
  BY <1>1 DEF QueueOK, TagsGrow
<1> QED
  BY <1>1, <1>3, <1>4 DEF QueueOK, Entry

\* A broadcast result only brings values and clears what waits for it.
LEMMA WokenQueue ==
  ASSUME NEW q, NEW size, QueueOK(q, size), NEW tag \in Nat, NEW v \in Value
  PROVE  LET w == L!Woken(q, tag, v)
         IN  /\ QueueOK(w, size) /\ DOMAIN w = DOMAIN q
             /\ \A t, op : Entry(w, t, op) <=> Entry(q, t, op)
             /\ \A i \in DOMAIN q :
                  /\ w[i].tag = q[i].tag /\ w[i].op = q[i].op /\ w[i].Qa = q[i].Qa
                  /\ w[i].issued = q[i].issued /\ w[i].done = q[i].done
                  /\ w[i].Q = (IF q[i].Q = tag THEN NoTag ELSE q[i].Q)
<1> DEFINE w == L!Woken(q, tag, v)
<1>1. w = [i \in DOMAIN q |-> IF ~q[i].done /\ q[i].op \in Store /\ q[i].Q = tag
                                THEN [q[i] EXCEPT !.Q = NoTag, !.V = v] ELSE q[i]]
  BY ClassesAgree DEF L!Woken
<1>2. tag # NoTag /\ NoTag \in Tag
  BY DEF NoTag, Tag
<1> HIDE DEF w
<1>3. ASSUME NEW i \in DOMAIN q
      PROVE  /\ AccessOK(w[i]) /\ w[i].tag = q[i].tag /\ w[i].op = q[i].op
             /\ w[i].Qa = q[i].Qa /\ w[i].issued = q[i].issued /\ w[i].done = q[i].done
             /\ w[i].Q = (IF q[i].Q = tag THEN NoTag ELSE q[i].Q)
  <2>1. AccessOK(q[i])
    BY DEF QueueOK
  <2>2. w[i] = IF q[i].Q = tag THEN [q[i] EXCEPT !.Q = NoTag, !.V = v] ELSE q[i]
    BY <1>1, <1>2, <2>1 DEF AccessOK
  <2> QED
    BY <1>2, <2>1, <2>2 DEF AccessOK, AnAccess
<1>4. w = [i \in DOMAIN q |-> w[i]]
  BY <1>1
<1>5. QueueOK(w, size) /\ DOMAIN w = DOMAIN q
      /\ \A t, op : Entry(w, t, op) <=> Entry(q, t, op)
  BY <1>3, <1>4, QueueMap
<1> QED
  BY <1>3, <1>5 DEF w

\* Generated addresses only change the address and length of an entry that waits for them.
LEMMA AddressedQueue ==
  ASSUME NEW q, NEW size, QueueOK(q, size), NEW results,
         \A x \in results : x.Va \in Word /\ x.vl \in VLength
  PROVE  LET w == L!Addressed(q, results)
         IN  /\ QueueOK(w, size) /\ DOMAIN w = DOMAIN q
             /\ \A t, op : Entry(w, t, op) <=> Entry(q, t, op)
             /\ \A i \in DOMAIN q :
                  /\ w[i].tag = q[i].tag /\ w[i].op = q[i].op /\ w[i].Q = q[i].Q
                  /\ w[i].issued = q[i].issued /\ w[i].done = q[i].done
                  /\ w[i].Qa = (IF \E x \in results : x.tag = q[i].tag
                                  THEN NoTag ELSE q[i].Qa)
<1> DEFINE w == L!Addressed(q, results)
           chosen(i) == CHOOSE y \in results : y.tag = q[i].tag
           new(i) == [q[i] EXCEPT !.Va = chosen(i).Va, !.Qa = NoTag,
                        !.vl = IF q[i].op \in VLoad \cup VStore THEN chosen(i).vl ELSE q[i].vl]
<1>1. w = [i \in DOMAIN q |->
             IF \E x \in results : x.tag = q[i].tag THEN new(i) ELSE q[i]]
  BY ClassesAgree DEF L!Addressed
<1> HIDE DEF w
<1>2. ASSUME NEW i \in DOMAIN q, \E x \in results : x.tag = q[i].tag
      PROVE  /\ AccessOK(new(i)) /\ new(i).tag = q[i].tag /\ new(i).op = q[i].op
             /\ new(i).Q = q[i].Q /\ new(i).issued = q[i].issued
             /\ new(i).done = q[i].done /\ new(i).Qa = NoTag
  <2>1. chosen(i).Va \in Word /\ chosen(i).vl \in VLength
    BY <1>2
  <2>2. AccessOK(q[i]) /\ NoTag \in Tag
    BY DEF QueueOK, Tag
  <2> HIDE DEF chosen
  <2> QED
    BY <2>1, <2>2 DEF AccessOK, AnAccess
<1> HIDE DEF new
<1>3. ASSUME NEW i \in DOMAIN q
      PROVE  /\ AccessOK(w[i]) /\ w[i].tag = q[i].tag /\ w[i].op = q[i].op
             /\ w[i].Q = q[i].Q /\ w[i].issued = q[i].issued /\ w[i].done = q[i].done
             /\ w[i].Qa = (IF \E x \in results : x.tag = q[i].tag THEN NoTag ELSE q[i].Qa)
  BY <1>1, <1>2 DEF QueueOK
<1>4. w = [i \in DOMAIN q |-> w[i]]
  BY <1>1
<1>5. QueueOK(w, size) /\ DOMAIN w = DOMAIN q
      /\ \A t, op : Entry(w, t, op) <=> Entry(q, t, op)
  BY <1>3, <1>4, QueueMap
<1> QED
  BY <1>3, <1>5 DEF w

\* w is q when units are done with the accesses of these tags.
CompletesTo(q, w, tags) ==
  \A i \in DOMAIN q :
    /\ w[i].tag = q[i].tag /\ w[i].op = q[i].op /\ w[i].Q = q[i].Q
    /\ w[i].Qa = q[i].Qa
    /\ w[i].issued = (q[i].issued /\ q[i].tag \notin tags)
    /\ w[i].done = (q[i].done \/ q[i].tag \in tags)
\* Two queues of the same instructions.
SameEntries(q, w) ==
  DOMAIN w = DOMAIN q /\ \A tag, op : Entry(w, tag, op) <=> Entry(q, tag, op)

\* Units that finish only bring values and mark their accesses done.
LEMMA CompletedQueue ==
  ASSUME NEW q, NEW size, QueueOK(q, size), NEW tags, NEW m \in MemState, NEW b \in Byte,
         \A i \in DOMAIN q : q[i].tag \in tags => q[i].Q = NoTag
  PROVE  /\ QueueOK(L!Completed(q, tags, Beyond(m, b)), size)
         /\ SameEntries(q, L!Completed(q, tags, Beyond(m, b)))
         /\ CompletesTo(q, L!Completed(q, tags, Beyond(m, b)), tags)
<1> DEFINE w == L!Completed(q, tags, Beyond(m, b))
           value(i) == IF q[i].op \in Load THEN L!Forwarded(q, i, Beyond(m, b)) ELSE q[i].V
           new(i) == [q[i] EXCEPT !.issued = FALSE, !.done = TRUE, !.V = value(i)]
<1>1. w = [i \in DOMAIN q |-> IF q[i].tag \in tags THEN new(i) ELSE q[i]]
  BY ClassesAgree DEF L!Completed
<1> HIDE DEF w
<1>2. ASSUME NEW i \in DOMAIN q
      PROVE  value(i) \in Value /\ AccessOK(q[i])
  <2>1. CASE q[i].op \in Load
    <3>1. q \in Seq(L!LSQEntry)
          /\ \A k \in DOMAIN q : q[k].sew = op_sew(q[k].op) /\ q[k].Va \in Word
      BY QueueTagged DEF QueueOK, AccessOK
    <3>2. L!Forwarded(q, i, Beyond(m, b)) \in Value
      BY <2>1, <3>1, BroughtBack
    <3> QED
      BY <2>1, <3>2 DEF QueueOK
  <2>2. CASE q[i].op \notin Load
    BY <2>2 DEF QueueOK, AccessOK, AnAccess
  <2> QED
    BY <2>1, <2>2
<1> HIDE DEF value
<1>3. ASSUME NEW i \in DOMAIN q, q[i].tag \in tags
      PROVE  /\ AccessOK(new(i)) /\ new(i).tag = q[i].tag /\ new(i).op = q[i].op
             /\ new(i).Q = q[i].Q /\ new(i).Qa = q[i].Qa
             /\ new(i).issued = FALSE /\ new(i).done = TRUE
  BY <1>2, <1>3 DEF AccessOK, AnAccess
<1> HIDE DEF new
<1>4. ASSUME NEW i \in DOMAIN q
      PROVE  /\ AccessOK(w[i]) /\ w[i].tag = q[i].tag /\ w[i].op = q[i].op
             /\ w[i].Q = q[i].Q /\ w[i].Qa = q[i].Qa
             /\ w[i].issued = (q[i].issued /\ q[i].tag \notin tags)
             /\ w[i].done = (q[i].done \/ q[i].tag \in tags)
  <2>1. CASE q[i].tag \in tags
    BY <1>1, <1>3, <2>1
  <2>2. CASE q[i].tag \notin tags
    BY <1>1, <1>2, <2>2 DEF AccessOK, AnAccess
  <2> QED
    BY <2>1, <2>2
<1>5. w = [i \in DOMAIN q |-> w[i]]
  BY <1>1
<1>6. QueueOK(w, size) /\ DOMAIN w = DOMAIN q
      /\ \A t, op : Entry(w, t, op) <=> Entry(q, t, op)
  BY <1>4, <1>5, QueueMap
<1> QED
  BY <1>4, <1>6 DEF SameEntries, CompletesTo, w

\* Issue only marks accesses that have what they wait for.
LEMMA IssuedQueue ==
  ASSUME NEW q, NEW size, QueueOK(q, size), NEW chosen \in SUBSET DOMAIN q,
         \A i \in chosen : q[i].Q = NoTag
  PROVE  LET w == L!Issued(q, chosen)
         IN  /\ QueueOK(w, size) /\ DOMAIN w = DOMAIN q
             /\ \A t, op : Entry(w, t, op) <=> Entry(q, t, op)
             /\ \A i \in DOMAIN q :
                  /\ w[i].tag = q[i].tag /\ w[i].op = q[i].op /\ w[i].Q = q[i].Q
                  /\ w[i].Qa = q[i].Qa /\ w[i].done = q[i].done
                  /\ w[i].issued = (q[i].issued \/ i \in chosen)
<1> DEFINE w == L!Issued(q, chosen)
<1>1. w = [i \in DOMAIN q |-> [q[i] EXCEPT !.issued = q[i].issued \/ i \in chosen]]
  BY DEF L!Issued
<1> HIDE DEF w
<1>2. ASSUME NEW i \in DOMAIN q
      PROVE  /\ AccessOK(w[i]) /\ w[i].tag = q[i].tag /\ w[i].op = q[i].op
             /\ w[i].Q = q[i].Q /\ w[i].Qa = q[i].Qa /\ w[i].done = q[i].done
             /\ w[i].issued = (q[i].issued \/ i \in chosen)
  <2>1. AccessOK(q[i]) /\ (q[i].issued \/ i \in chosen) \in BOOLEAN
    BY DEF QueueOK
  <2>2. w[i] = [q[i] EXCEPT !.issued = q[i].issued \/ i \in chosen]
    BY <1>1
  <2>3. w[i].issued => q[i].Q = NoTag
    BY <2>1, <2>2 DEF AccessOK, AnAccess
  <2> QED
    BY <2>1, <2>2, <2>3 DEF AccessOK, AnAccess
<1>3. w = [i \in DOMAIN q |-> w[i]]
  BY <1>1
<1>4. QueueOK(w, size) /\ DOMAIN w = DOMAIN q
      /\ \A t, op : Entry(w, t, op) <=> Entry(q, t, op)
  BY <1>2, <1>3, QueueMap
<1> QED
  BY <1>2, <1>4 DEF w

-----------------------------------------------------------------------------
(* What is behind dispatch, together: the paths ps, the load/store queue q *)
(* and its units us serve the re-order buffer r under configuration c.     *)

\* An instruction that waits for its result is in its path, if it is no access.
AllHeld(ps, r) ==
  \A i \in DOMAIN r :
    ~r[i].ready /\ ~IsAccess(r[i].op) => r[i].tag \in Held(ps[exec_type(r[i].op)])

\* The queue has the accesses of the re-order buffer.
Mirrors(q, r) ==
  {<<q[i].tag, q[i].op>> : i \in DOMAIN q}
    = {<<r[i].tag, r[i].op>> : i \in {j \in DOMAIN r : IsAccess(r[j].op)}}

\* The tag Q brings an operand to the instruction of this tag: an older one, that
\* waits for its result.
Brings(r, Q, tag) ==
  Q # NoTag => Q < tag /\ \E op \in Op : Pending(r, Q, op) /\ writes_register(op)

\* Every tag that a station or an access waits for is brought.
Waits(ps, q, r) ==
  /\ \A t \in ExecType : \A s \in DOMAIN ps[t].stations :
       LET e == ps[t].stations[s]
       IN  /\ Brings(r, e.Qj, e.tag) /\ Brings(r, e.Qk, e.tag)
           /\ Brings(r, e.Ql, e.tag) /\ Brings(r, e.Qv, e.tag)
  /\ \A i \in DOMAIN q : Brings(r, q[i].Q, q[i].tag)

\* Paths ps, queue q and units us serve the re-order buffer r.
Serving(c, r, ps, q, us) ==
  /\ ps = [t \in ExecType |-> ps[t]]
  /\ \A t \in ExecType : PathOK(ps[t], t, c.rs_size, c.units[t], r)
  /\ AllHeld(ps, r)
  /\ QueueOK(q, c.lsq_size) /\ Mirrors(q, r) /\ Homes(q, ps["LOADSTORE"], r)
  /\ UnitsOK(us, c.units["LOADSTORE"], q)
  /\ Waits(ps, q, r)

\* The queue mirrors r when the two have the same accesses.
LEMMA MirrorsMeans ==
  ASSUME NEW q, NEW r
  PROVE  Mirrors(q, r) <=> \A tag, op : Entry(q, tag, op) <=> Entry(r, tag, op) /\ IsAccess(op)
<1> DEFINE S == {<<q[i].tag, q[i].op>> : i \in DOMAIN q}
           T == {<<r[i].tag, r[i].op>> : i \in {j \in DOMAIN r : IsAccess(r[j].op)}}
<1>1. \A x \in S \cup T : x = <<x[1], x[2]>>
  OBVIOUS
<1>2. \A tag, op : <<tag, op>> \in S <=> Entry(q, tag, op)
  BY DEF Entry
<1>3. \A tag, op : <<tag, op>> \in T <=> Entry(r, tag, op) /\ IsAccess(op)
  BY DEF Entry
<1>4. Mirrors(q, r) <=> S = T
  BY DEF Mirrors
<1> HIDE DEF S, T
<1>5. ASSUME \A tag, op : Entry(q, tag, op) <=> Entry(r, tag, op) /\ IsAccess(op)
      PROVE  S = T
  <2>1. \A tag, op : <<tag, op>> \in S <=> <<tag, op>> \in T
    BY <1>2, <1>3, <1>5
  <2>2. ASSUME NEW x \in S \cup T PROVE x \in S <=> x \in T
    BY <1>1, <2>1
  <2> QED
    BY <2>2
<1> QED
  BY <1>2, <1>3, <1>4, <1>5

\* Every instruction that waits, accesses apart, is held by the path of its type.
LEMMA AllHeldMeans ==
  ASSUME NEW ps, NEW r
  PROVE  AllHeld(ps, r) <=>
           \A tag, op : Pending(r, tag, op) /\ ~IsAccess(op) => tag \in Held(ps[exec_type(op)])
BY DEF AllHeld, Pending

\* An operation has one type, and the accesses are those of one type.
LEMMA TypeOfOp ==
  /\ \A op \in Op : exec_type(op) \in ExecType
  /\ \A op \in Op : exec_type(op) = "LOADSTORE" <=> IsAccess(op)
  /\ \A op : IsAccess(op) => op \in Op
BY ExecTypes DEF ExecType, Op, IsAccess

\* What a path holds waits for its result, and is an instruction of its type.
LEMMA HeldPending ==
  ASSUME NEW p, NEW t, NEW n, NEW m, NEW r, PathOK(p, t, n, m, r), NEW tag, tag \in Held(p)
  PROVE  \E op \in Op : Pending(r, tag, op) /\ exec_type(op) = t
<1>1. CASE tag \in P!Waiting(p)
  BY <1>1 DEF P!Waiting, PathOK, PathServes, PathTyped, StationOK, Station
<1>2. CASE tag \in P!Running(p)
  BY <1>2 DEF P!Running, PathOK, PathServes, PathTyped, UnitOK, StationOK, Station
<1>3. CASE tag \in P!Finished(p)
  BY <1>3 DEF P!Finished, PathOK, PathServes, PathTyped, ResultIn
<1> QED
  BY <1>1, <1>2, <1>3 DEF Held

\* An instruction is held by the path of its type only.
LEMMA HeldOnce ==
  ASSUME NEW c, NEW r, NEW ps, NEW q, NEW us, Serving(c, r, ps, q, us), Tagged(r),
         NEW tag, NEW op, Entry(r, tag, op), NEW t \in ExecType, tag \in Held(ps[t])
  PROVE  t = exec_type(op)
BY HeldPending, OneOperation, PendingIsEntry DEF Serving

\* The entry of the queue for an access.
LEMMA InQueue ==
  ASSUME NEW c, NEW r, NEW ps, NEW q, NEW us, Serving(c, r, ps, q, us), Tagged(r)
  PROVE  /\ Tagged(q)
         /\ \A i \in DOMAIN q : IsAccess(q[i].op) /\ Entry(r, q[i].tag, q[i].op)
         /\ \A tag, op : Entry(r, tag, op) /\ IsAccess(op) => Entry(q, tag, op)
         /\ \A i \in DOMAIN q : \A op : Entry(r, q[i].tag, op) => op = q[i].op
<1>1. \A tag, op : Entry(q, tag, op) <=> Entry(r, tag, op) /\ IsAccess(op)
  BY MirrorsMeans DEF Serving
<1>2. \A i \in DOMAIN q : Entry(q, q[i].tag, q[i].op)
  BY DEF Entry
<1>3. \A i \in DOMAIN q : \A op : Entry(r, q[i].tag, op) => op = q[i].op
  BY <1>1, <1>2, OneOperation
<1> QED
  BY <1>1, <1>2, <1>3, QueueTagged DEF Serving

\* Only what waits, and what is there, matters of the re-order buffer.
LEMMA ServingSame ==
  ASSUME NEW c, NEW r, NEW ps, NEW q, NEW us, Serving(c, r, ps, q, us), NEW r2,
         \A tag, op : /\ Entry(r2, tag, op) <=> Entry(r, tag, op)
                      /\ Pending(r2, tag, op) <=> Pending(r, tag, op)
  PROVE  Serving(c, r2, ps, q, us)
<1>1. \A t \in ExecType : PathOK(ps[t], t, c.rs_size, c.units[t], r2)
  BY DEF Serving, PathOK, PathServes
<1>2. AllHeld(ps, r2)
  BY AllHeldMeans DEF Serving
<1>3. Mirrors(q, r2)
  BY MirrorsMeans DEF Serving
<1>4. Homes(q, ps["LOADSTORE"], r2)
  BY DEF Serving, Homes
<1>5. \A Q, tag : Brings(r, Q, tag) => Brings(r2, Q, tag)
  BY DEF Brings
<1>6. Waits(ps, q, r2)
  BY <1>5 DEF Serving, Waits
<1> QED
  BY <1>1, <1>2, <1>3, <1>4, <1>6 DEF Serving

\* The head of the re-order buffer commits, and with it the head of the queue.
LEMMA ServingRetire ==
  ASSUME NEW c \in Configuration, NEW E, NEW r \in Seq(E), NEW ps, NEW q, NEW us,
         Serving(c, r, ps, q, us),
         Tagged(r), r # <<>>, Head(r).ready,
         IsAccess(Head(r).op) => q # <<>> /\ Head(q).tag = Head(r).tag /\ Head(q).done
  PROVE  Serving(c, Tail(r), ps, IF IsAccess(Head(r).op) THEN Tail(q) ELSE q, us)
<1> DEFINE h == Head(r)
           q2 == IF IsAccess(h.op) THEN Tail(q) ELSE q
           r2 == Tail(r)
<1>1. /\ h = r[1] /\ 1 \in DOMAIN r
      /\ \A i \in DOMAIN r2 : i + 1 \in DOMAIN r /\ r2[i] = r[i + 1]
      /\ \A i \in DOMAIN r : i # 1 => i - 1 \in DOMAIN r2 /\ r2[i - 1] = r[i]
      /\ \A tag, op : Entry(r2, tag, op) <=> Entry(r, tag, op) /\ tag # h.tag
  BY TailOf
<1>2. \A tag, op : Pending(r2, tag, op) <=> Pending(r, tag, op)
  BY <1>1 DEF Pending
<1>3. /\ Tagged(q) /\ q \in Seq(AnAccess)
      /\ \A i \in DOMAIN q : \A op : Entry(r, q[i].tag, op) => op = q[i].op
      /\ \A i \in DOMAIN q : IsAccess(q[i].op)
  <2>1. QueueOK(q, c.lsq_size)
    BY DEF Serving
  <2> QED
    BY <2>1, InQueue DEF QueueOK
<1>4. Entry(r, h.tag, h.op)
  BY <1>1 DEF Entry
<1>5. /\ QueueOK(q2, c.lsq_size) /\ \A i \in DOMAIN q2 : \E j \in DOMAIN q : q2[i] = q[j]
      /\ \A i \in DOMAIN q : \/ \E j \in DOMAIN q2 : q2[j] = q[i]
                             \/ q[i].tag = h.tag /\ q[i].done
      /\ \A tag, op : Entry(q2, tag, op) <=> Entry(q, tag, op) /\ tag # h.tag
  <2>1. CASE IsAccess(h.op)
    <3>1. /\ Head(q) = q[1] /\ 1 \in DOMAIN q
          /\ Tail(q) \in Seq(AnAccess) /\ Len(Tail(q)) = Len(q) - 1 /\ Tagged(Tail(q))
          /\ \A i \in DOMAIN Tail(q) : i + 1 \in DOMAIN q /\ Tail(q)[i] = q[i + 1]
          /\ \A i \in DOMAIN q : i # 1 => i - 1 \in DOMAIN Tail(q) /\ Tail(q)[i - 1] = q[i]
          /\ \A tag, op : Entry(Tail(q), tag, op) <=> Entry(q, tag, op) /\ tag # Head(q).tag
      BY <1>3, <2>1, TailOf
    <3>2. QueueOK(Tail(q), c.lsq_size)
      <4>1. Len(Tail(q)) <= c.lsq_size
        BY <1>3, <3>1 DEF Serving, QueueOK, Tagged, Configuration
      <4> QED
        BY <3>1, <4>1 DEF Serving, QueueOK, Tagged
    <3> QED
      BY <2>1, <3>1, <3>2
  <2>2. CASE ~IsAccess(h.op)
    <3>1. \A tag, op : Entry(q, tag, op) => tag # h.tag
      BY <1>3, <1>4, <2>2 DEF Entry
    <3> QED
      BY <2>2, <3>1 DEF Serving
  <2> QED
    BY <2>1, <2>2
<1> HIDE DEF q2, r2
<1>6. \A t \in ExecType : PathOK(ps[t], t, c.rs_size, c.units[t], r2)
  BY <1>2 DEF Serving, PathOK, PathServes
<1>7. AllHeld(ps, r2)
  BY <1>2, AllHeldMeans DEF Serving
<1>8. Mirrors(q2, r2)
  BY <1>1, <1>5, MirrorsMeans DEF Serving
<1>9. Homes(q2, ps["LOADSTORE"], r2)
  BY <1>2, <1>5 DEF Serving, Homes
<1>10. UnitsOK(us, c.units["LOADSTORE"], q2)
  <2>1. \A u \in us : \E i \in DOMAIN q2 : Serves(u, q2[i])
    BY <1>5 DEF Serving, UnitsOK, Serves
  <2> QED
    BY <2>1 DEF Serving, UnitsOK
<1>11. \A Q, tag : Brings(r, Q, tag) => Brings(r2, Q, tag)
  BY <1>2 DEF Brings
<1>12. Waits(ps, q2, r2)
  BY <1>5, <1>11 DEF Serving, Waits
<1> QED
  BY <1>5, <1>6, <1>7, <1>8, <1>9, <1>10, <1>12 DEF Serving, q2, r2

\* What is younger than a tag leaves everywhere.
LEMMA ServingFlush ==
  ASSUME NEW c \in Configuration, NEW r, Tagged(r), NEW r2, NEW ps, NEW q, NEW us,
         Serving(c, r, ps, q, us), NEW tag \in Nat,
         \A a, op : /\ Entry(r2, a, op) <=> Entry(r, a, op) /\ a <= tag
                    /\ Pending(r2, a, op) <=> Pending(r, a, op) /\ a <= tag
  PROVE  Serving(c, r2, [t \in ExecType |-> P!Flushed(ps[t], tag)], FlushAfter(q, tag),
                 {u \in us : u.tag <= tag})
<1> DEFINE ps2 == [t \in ExecType |-> P!Flushed(ps[t], tag)]
           q2 == FlushAfter(q, tag)
           us2 == {u \in us : u.tag <= tag}
           LS == "LOADSTORE"
<1>0. LS \in ExecType /\ NoTag \notin Nat /\ c.lsq_size \in Nat
      /\ \A t \in ExecType : c.units[t] \in Nat
  BY DEF ExecType, NoTag, Configuration
<1>1. ASSUME NEW t \in ExecType
      PROVE  /\ PathOK(ps2[t], t, c.rs_size, c.units[t], r2)
             /\ P!Waiting(ps2[t]) = {a \in P!Waiting(ps[t]) : a <= tag}
             /\ P!Running(ps2[t]) = {a \in P!Running(ps[t]) : a <= tag}
             /\ P!Finished(ps2[t]) = {a \in P!Finished(ps[t]) : a <= tag}
             /\ \A s \in DOMAIN ps2[t].stations :
                  /\ s \in DOMAIN ps[t].stations /\ ps[t].stations[s].tag <= tag
                  /\ ps2[t].stations[s] = ps[t].stations[s]
  <2>1. ps2[t] = P!Flushed(ps[t], tag) /\ PathOK(ps[t], t, c.rs_size, c.units[t], r)
    BY DEF Serving
  <2>2. c.units[t] \in Nat /\ \A a, op : Pending(r, a, op) /\ a <= tag => Pending(r2, a, op)
    BY <1>0
  <2> DEFINE p == ps[t]
             w == P!Flushed(p, tag)
  <2>3. PathOK(p, t, c.rs_size, c.units[t], r)
    BY <2>1
  <2> HIDE DEF ps2, p
  <2>4. PathOK(w, t, c.rs_size, c.units[t], r2) /\ KeepsUpTo(p, w, tag)
    BY <2>2, <2>3, FlushedPath
  <2> QED
    BY <2>1, <2>4 DEF p, KeepsUpTo
<1>2. ps2 = [t \in ExecType |-> ps2[t]]
  OBVIOUS
<1>3. /\ Tagged(q) /\ q \in Seq(AnAccess) /\ QueueOK(q, c.lsq_size)
  BY QueueTagged DEF Serving, QueueOK
<1>4. /\ q2 \in Seq(AnAccess) /\ Tagged(q2) /\ Len(q2) <= Len(q)
      /\ \A i \in DOMAIN q2 : i \in DOMAIN q /\ q[i].tag <= tag /\ q2[i] = q[i]
      /\ \A i \in DOMAIN q : q[i].tag <= tag => i \in DOMAIN q2 /\ q2[i] = q[i]
      /\ \A a, op : Entry(q2, a, op) <=> Entry(q, a, op) /\ a <= tag
  BY <1>3, Kept
<1> HIDE DEF ps2, q2
<1>5. AllHeld(ps2, r2)
  <2> SUFFICES ASSUME NEW a, NEW op, Pending(r2, a, op), ~IsAccess(op)
               PROVE  a \in Held(ps2[exec_type(op)])
    BY AllHeldMeans
  <2>1. a \in Held(ps[exec_type(op)]) /\ a <= tag
    BY AllHeldMeans DEF Serving
  <2>2. CASE exec_type(op) \in ExecType
    BY <1>1, <2>1, <2>2 DEF Held
  <2>3. CASE exec_type(op) \notin ExecType
    <3>1. Pending(r, a, op)
      OBVIOUS
    <3>2. PICK i \in DOMAIN r : r[i].op = op
      BY ONLY <3>1 DEF Pending
    <3>3. op \in Op
      BY ONLY <3>2, Tagged(r) DEF Tagged
    <3> QED
      BY <2>3, <3>3, TypeOfOp
  <2> QED
    BY <2>2, <2>3
<1>6. QueueOK(q2, c.lsq_size)
  <2>1. Len(q2) <= c.lsq_size
    BY <1>0, <1>3, <1>4 DEF QueueOK, Tagged
  <2> QED
    BY <1>3, <1>4, <2>1 DEF QueueOK, Tagged
<1>7. Mirrors(q2, r2)
  BY <1>4, MirrorsMeans DEF Serving
<1>8. Homes(q2, ps2[LS], r2)
  BY <1>0, <1>1, <1>4 DEF Serving, Homes
<1>9. UnitsOK(us2, c.units[LS], q2)
  <2>1. IsFiniteSet(us2) /\ Cardinality(us2) <= c.units[LS]
    <3>1. /\ IsFiniteSet(us2) /\ Cardinality(us2) <= Cardinality(us)
          /\ Cardinality(us) <= c.units[LS] /\ Cardinality(us2) \in Nat
          /\ Cardinality(us) \in Nat /\ c.units[LS] \in Nat
      BY <1>0, FS_Subset, FS_CardinalityType DEF Serving, UnitsOK
    <3> QED
      BY <3>1
  <2>2. \A u \in us2 : \E i \in DOMAIN q2 : Serves(u, q2[i])
    BY <1>4 DEF Serving, UnitsOK, Serves
  <2> QED
    BY <2>1, <2>2 DEF Serving, UnitsOK
<1>10. ASSUME NEW Q \in Tag, NEW a \in Nat, a <= tag, Brings(r, Q, a) PROVE Brings(r2, Q, a)
  BY <1>0, <1>10 DEF Brings, Tag
<1>11. Waits(ps2, q2, r2)
  <2>1. ASSUME NEW t \in ExecType, NEW s \in DOMAIN ps2[t].stations
        PROVE  LET e == ps2[t].stations[s]
               IN  /\ Brings(r2, e.Qj, e.tag) /\ Brings(r2, e.Qk, e.tag)
                   /\ Brings(r2, e.Ql, e.tag) /\ Brings(r2, e.Qv, e.tag)
    <3> DEFINE e == ps[t].stations[s]
    <3>1. ps2[t].stations[s] = e /\ s \in DOMAIN ps[t].stations /\ e.tag <= tag
      BY <1>1
    <3>2. e.tag \in Nat /\ e.Qj \in Tag /\ e.Qk \in Tag /\ e.Ql \in Tag /\ e.Qv \in Tag
      BY <3>1 DEF Serving, PathOK, PathTyped, StationOK, Station
    <3>3. /\ Brings(r, e.Qj, e.tag) /\ Brings(r, e.Qk, e.tag)
          /\ Brings(r, e.Ql, e.tag) /\ Brings(r, e.Qv, e.tag)
      BY <3>1 DEF Serving, Waits
    <3> HIDE DEF e
    <3> QED
      BY <1>10, <3>1, <3>2, <3>3
  <2>2. ASSUME NEW i \in DOMAIN q2 PROVE Brings(r2, q2[i].Q, q2[i].tag)
    <3>1. q2[i] = q[i] /\ i \in DOMAIN q /\ q[i].tag <= tag
      BY <1>4
    <3>2. q[i].tag \in Nat /\ q[i].Q \in Tag /\ Brings(r, q[i].Q, q[i].tag)
      BY <1>3, <3>1 DEF QueueOK, AccessOK, AnAccess, Serving, Waits
    <3> QED
      BY <1>10, <3>1, <3>2
  <2> QED
    BY <2>1, <2>2 DEF Waits
<1> QED
  BY <1>1, <1>2, <1>5, <1>6, <1>7, <1>8, <1>9, <1>11 DEF Serving, ps2, q2

\* A result that has come back is that of an instruction that waits for it.
LEMMA ResultServes ==
  ASSUME NEW c, NEW r, NEW ps, NEW q, NEW us, Serving(c, r, ps, q, us), Tagged(r),
         NEW x \in UNION {ps[t].completed : t \in ExecType}
  PROVE  /\ ResultIn(x) /\ Pending(r, x.tag, x.op)
         /\ \A t \in ExecType : x \in ps[t].completed \/ x.tag \notin Held(ps[t])
<1>1. PICK u \in ExecType : x \in ps[u].completed
  OBVIOUS
<1>2. ResultIn(x) /\ Pending(r, x.tag, x.op) /\ exec_type(x.op) = u
  BY <1>1 DEF Serving, PathOK, PathTyped, PathServes
<1>3. ASSUME NEW t \in ExecType, x.tag \in Held(ps[t]) PROVE t = u
  BY <1>2, <1>3, HeldOnce, PendingIsEntry
<1> QED
  BY <1>1, <1>2, <1>3

\* A result leaves its path for the re-order buffer and, broadcast, for whatever
\* waits for it.
LEMMA ServingWriteback ==
  ASSUME NEW c \in Configuration, NEW r, NEW r2, NEW ps, NEW q, NEW us,
         Serving(c, r, ps, q, us), Tagged(r),
         NEW x \in UNION {ps[t].completed : t \in ExecType},
         \A tag, op : /\ Entry(r2, tag, op) <=> Entry(r, tag, op)
                      /\ Pending(r2, tag, op) <=> Pending(r, tag, op) /\ tag # x.tag
  PROVE  LET taken == [t \in ExecType |-> P!Taken(ps[t], x)]
             wakes == writes_register(x.op)
         IN  Serving(c, r2, IF wakes THEN [t \in ExecType |-> P!Woken(taken[t], x)] ELSE taken,
                     IF wakes THEN L!Woken(q, x.tag, x.result.value) ELSE q, us)
<1> DEFINE taken == [t \in ExecType |-> P!Taken(ps[t], x)]
           wakes == writes_register(x.op)
           ps2   == IF wakes THEN [t \in ExecType |-> P!Woken(taken[t], x)] ELSE taken
           q2    == IF wakes THEN L!Woken(q, x.tag, x.result.value) ELSE q
           LS    == "LOADSTORE"
<1>0. LS \in ExecType /\ \A t \in ExecType : c.units[t] \in Nat
  BY DEF ExecType, Configuration
<1>1. /\ ResultIn(x) /\ Pending(r, x.tag, x.op) /\ x.tag \in Nat
      /\ x.result.value \in Value
      /\ \A t \in ExecType : x \in ps[t].completed \/ x.tag \notin Held(ps[t])
  BY ResultServes DEF ResultIn, ResultOK
<1>2. NoTag # x.tag
  BY <1>1 DEF NoTag
<1>3. ASSUME NEW Q, NEW a, Brings(r, Q, a)
      PROVE  /\ Q # x.tag => Brings(r2, Q, a)
             /\ ~wakes => Q # x.tag
  <2>1. Q # x.tag => Brings(r2, Q, a)
    BY <1>3 DEF Brings
  <2>2. ASSUME Q = x.tag PROVE wakes
    <3>1. PICK op \in Op : Pending(r, x.tag, op) /\ writes_register(op)
      BY <1>2, <1>3, <2>2 DEF Brings
    <3>2. op = x.op
      BY <1>1, <3>1, OneOperation, PendingIsEntry
    <3> QED
      BY <3>1, <3>2
  <2> QED
    BY <2>1, <2>2
<1>4. \A a : Brings(r2, NoTag, a)
  BY DEF Brings
<1>5. ASSUME NEW t \in ExecType
      PROVE  /\ PathOK(taken[t], t, c.rs_size, c.units[t], r2)
             /\ taken[t].stations = ps[t].stations
             /\ P!Waiting(taken[t]) = P!Waiting(ps[t])
             /\ P!Running(taken[t]) = P!Running(ps[t])
             /\ P!Finished(taken[t]) = P!Finished(ps[t]) \ {x.tag}
             /\ x.tag \notin P!Waiting(ps[t]) \cup P!Running(ps[t])
  <2> DEFINE p == ps[t]
  <2>1. taken[t] = P!Taken(p, x)
    OBVIOUS
  <2>2. PathOK(p, t, c.rs_size, c.units[t], r) /\ (x \in p.completed \/ x.tag \notin Held(p))
    BY <1>1 DEF Serving
  <2>4. OthersWait(r, r2, x.tag)
    BY DEF OthersWait
  <2> HIDE DEF p, taken
  <2>3. /\ PathOK(P!Taken(p, x), t, c.rs_size, c.units[t], r2)
        /\ TakesFrom(p, P!Taken(p, x), x.tag)
    BY <2>2, <2>4, TakenPath
  <2> QED
    BY <2>1, <2>3 DEF p, TakesFrom
<1>6. ASSUME NEW t \in ExecType
      PROVE  /\ PathOK(ps2[t], t, c.rs_size, c.units[t], r2)
             /\ P!Waiting(ps2[t]) = P!Waiting(ps[t])
             /\ P!Running(ps2[t]) = P!Running(ps[t])
             /\ P!Finished(ps2[t]) = P!Finished(ps[t]) \ {x.tag}
             /\ \A s \in DOMAIN ps2[t].stations :
                  LET e == ps2[t].stations[s]
                  IN  /\ Brings(r2, e.Qj, e.tag) /\ Brings(r2, e.Qk, e.tag)
                      /\ Brings(r2, e.Ql, e.tag) /\ Brings(r2, e.Qv, e.tag)
  <2> DEFINE p == taken[t]
  <2>0. \A s \in DOMAIN ps[t].stations :
          LET e == ps[t].stations[s]
          IN  /\ Brings(r, e.Qj, e.tag) /\ Brings(r, e.Qk, e.tag)
              /\ Brings(r, e.Ql, e.tag) /\ Brings(r, e.Qv, e.tag)
    BY DEF Serving, Waits
  <2>1. CASE wakes
    <3>1. ps2[t] = P!Woken(p, x)
      BY <2>1
    <3>2. PathOK(p, t, c.rs_size, c.units[t], r2)
      BY <1>5
    <3> HIDE DEF p, ps2, taken
    <3>3. /\ PathOK(ps2[t], t, c.rs_size, c.units[t], r2)
          /\ P!Waiting(ps2[t]) = P!Waiting(p)
          /\ P!Running(ps2[t]) = P!Running(p)
          /\ P!Finished(ps2[t]) = P!Finished(p)
          /\ DOMAIN ps2[t].stations = DOMAIN p.stations
          /\ \A s \in DOMAIN p.stations : ps2[t].stations[s] = P!Wake(p.stations[s], x)
      BY <1>1, <3>1, <3>2, WokenPath
    <3>4. ASSUME NEW s \in DOMAIN p.stations
          PROVE  LET e == ps2[t].stations[s]
                 IN  /\ Brings(r2, e.Qj, e.tag) /\ Brings(r2, e.Qk, e.tag)
                     /\ Brings(r2, e.Ql, e.tag) /\ Brings(r2, e.Qv, e.tag)
      <4> DEFINE old == p.stations[s]
                 new == P!Wake(old, x)
      <4>1. old = ps[t].stations[s] /\ s \in DOMAIN ps[t].stations /\ StationOK(old)
        BY <1>5, <3>2 DEF p, PathOK, PathTyped
      <4>2. /\ Brings(r, old.Qj, old.tag) /\ Brings(r, old.Qk, old.tag)
            /\ Brings(r, old.Ql, old.tag) /\ Brings(r, old.Qv, old.tag)
        BY <2>0, <4>1
      <4> HIDE DEF old
      <4>3. /\ new.tag = old.tag
            /\ new.Qj = (IF old.Qj = x.tag THEN NoTag ELSE old.Qj)
            /\ new.Qk = (IF old.Qk = x.tag THEN NoTag ELSE old.Qk)
            /\ new.Ql = (IF old.Ql = x.tag THEN NoTag ELSE old.Ql)
            /\ new.Qv = (IF old.Qv = x.tag THEN NoTag ELSE old.Qv)
        BY <1>1, <4>1, WokenEntry
      <4> HIDE DEF new
      <4>4. /\ Brings(r2, new.Qj, new.tag) /\ Brings(r2, new.Qk, new.tag)
            /\ Brings(r2, new.Ql, new.tag) /\ Brings(r2, new.Qv, new.tag)
        BY <1>3, <1>4, <4>2, <4>3
      <4> QED
        BY <3>3, <4>4 DEF new, old
    <3> QED
      BY <1>5, <3>3, <3>4 DEF p
  <2>2. CASE ~wakes
    <3>1. ps2[t] = taken[t]
      BY <2>2
    <3> HIDE DEF ps2, taken
    <3>2. ASSUME NEW s \in DOMAIN ps[t].stations
          PROVE  LET e == ps[t].stations[s]
                 IN  /\ Brings(r2, e.Qj, e.tag) /\ Brings(r2, e.Qk, e.tag)
                     /\ Brings(r2, e.Ql, e.tag) /\ Brings(r2, e.Qv, e.tag)
      BY <1>3, <2>0, <2>2
    <3> QED
      BY <1>5, <3>1, <3>2
  <2> QED
    BY <2>1, <2>2
<1>7. QueueOK(q, c.lsq_size)
  BY DEF Serving
<1>8. /\ QueueOK(q2, c.lsq_size) /\ DOMAIN q2 = DOMAIN q
      /\ \A t, op : Entry(q2, t, op) <=> Entry(q, t, op)
      /\ \A i \in DOMAIN q :
           /\ q2[i].tag = q[i].tag /\ q2[i].op = q[i].op /\ q2[i].Qa = q[i].Qa
           /\ q2[i].issued = q[i].issued /\ q2[i].done = q[i].done
           /\ q2[i].Q = (IF wakes /\ q[i].Q = x.tag THEN NoTag ELSE q[i].Q)
  <2>1. CASE wakes
    <3>1. q2 = L!Woken(q, x.tag, x.result.value)
      BY <2>1
    <3> HIDE DEF q2
    <3> QED
      BY <1>1, <1>7, <2>1, <3>1, WokenQueue
  <2>2. CASE ~wakes
    BY <1>7, <2>2
  <2> QED
    BY <2>1, <2>2
<1>9. ps2 = [t \in ExecType |-> ps2[t]]
  OBVIOUS
<1> HIDE DEF ps2, q2, wakes
<1>10. AllHeld(ps2, r2)
  <2> SUFFICES ASSUME NEW a, NEW op, Pending(r2, a, op), ~IsAccess(op)
               PROVE  a \in Held(ps2[exec_type(op)])
    BY AllHeldMeans
  <2>1. a \in Held(ps[exec_type(op)]) /\ a # x.tag
    BY AllHeldMeans DEF Serving
  <2>2. exec_type(op) \in ExecType
    BY TypeOfOp DEF Pending, Tagged
  <2> QED
    BY <1>6, <2>1, <2>2 DEF Held
<1>11. Mirrors(q2, r2)
  BY <1>8, MirrorsMeans DEF Serving
<1>12. Homes(q2, ps2[LS], r2)
  <2> SUFFICES ASSUME NEW i \in DOMAIN q
               PROVE  /\ (q2[i].Qa # NoTag)
                           <=> (q2[i].tag \in P!Waiting(ps2[LS]) \cup P!Running(ps2[LS]))
                      /\ q2[i].done <=> \/ q2[i].tag \in P!Finished(ps2[LS])
                                        \/ ~Pending(r2, q2[i].tag, q2[i].op)
    BY <1>8 DEF Homes
  <2>1. /\ (q[i].Qa # NoTag) <=> (q[i].tag \in P!Waiting(ps[LS]) \cup P!Running(ps[LS]))
        /\ q[i].done <=> \/ q[i].tag \in P!Finished(ps[LS])
                         \/ ~Pending(r, q[i].tag, q[i].op)
    BY DEF Serving, Homes
  <2>2. ASSUME q[i].tag = x.tag PROVE q[i].done
    <3>1. q[i].op = x.op /\ IsAccess(x.op)
      <4>1. Entry(r, q[i].tag, x.op)
        BY <1>1, <2>2, PendingIsEntry
      <4>2. IsAccess(q[i].op) /\ \A op : Entry(r, q[i].tag, op) => op = q[i].op
        BY ONLY Serving(c, r, ps, q, us), Tagged(r), i \in DOMAIN q, InQueue
      <4> QED
        BY <4>1, <4>2
    <3>2. x.tag \in Held(ps[LS]) \/ q[i].done
      <4>1. PICK u \in ExecType : x \in ps[u].completed
        OBVIOUS
      <4>2. x.tag \in P!Finished(ps[u]) /\ x.tag \in Held(ps[u])
        BY <4>1 DEF P!Finished, Held
      <4>3. u = exec_type(x.op)
        BY <1>1, <4>2, HeldOnce, PendingIsEntry
      <4>4. u = LS
        BY <3>1, <4>3, TypeOfOp
      <4> QED
        BY <4>2, <4>4
    <3>3. x \in ps[LS].completed \/ q[i].done
      BY <1>0, <1>1, <3>2
    <3> QED
      BY <2>1, <2>2, <3>3 DEF P!Finished
  <2> QED
    BY <1>0, <1>6, <1>8, <2>1, <2>2
<1>13. UnitsOK(us, c.units[LS], q2)
  <2>1. ASSUME NEW u, NEW i \in DOMAIN q, Serves(u, q[i]) PROVE Serves(u, q2[i])
    BY <1>8, <2>1 DEF Serves
  <2> QED
    BY <1>8, <2>1 DEF Serving, UnitsOK
<1>14. Waits(ps2, q2, r2)
  <2>1. ASSUME NEW i \in DOMAIN q PROVE Brings(r2, q2[i].Q, q2[i].tag)
    BY <1>3, <1>4, <1>8 DEF Serving, Waits
  <2> QED
    BY <1>6, <1>8, <2>1 DEF Waits
<1>15. Serving(c, r2, ps2, q2, us)
  BY <1>6, <1>8, <1>9, <1>10, <1>11, <1>12, <1>13, <1>14 DEF Serving
<1> QED
  BY <1>15 DEF ps2, q2, wakes

\* What issue leaves serves r.
ServingIssued(c, r, ps, q, us) ==
  LET chosen == L!ToIssue(q, c.units["LOADSTORE"] - Cardinality(us))
  IN  Serving(c, r,
        [t \in ExecType |-> P!Issued(ps[t], c.units[t], t = "LOADSTORE")],
        L!Issued(q, chosen),
        us \cup {[tag |-> q[i].tag, left |-> cycles(q[i].op)] : i \in chosen})

\* Entries of the stations go to idle units, and accesses of the queue to idle
\* load/store units.
LEMMA ServingIssue ==
  ASSUME NEW c \in Configuration, NEW r, NEW ps, NEW q, NEW us,
         Serving(c, r, ps, q, us), Tagged(r)
  PROVE  ServingIssued(c, r, ps, q, us)
<1> DEFINE LS     == "LOADSTORE"
           idle   == c.units[LS] - Cardinality(us)
           chosen == L!ToIssue(q, idle)
           ps2    == [t \in ExecType |-> P!Issued(ps[t], c.units[t], t = LS)]
           q2     == L!Issued(q, chosen)
           unit(i) == [tag |-> q[i].tag, left |-> cycles(q[i].op)]
           us2    == us \cup {unit(i) : i \in chosen}
<1>0. /\ LS \in ExecType /\ c.rs_size \in Nat /\ c.lsq_size \in Nat
      /\ \A t \in ExecType : c.units[t] \in Nat
  BY DEF ExecType, Configuration
<1>1. ASSUME NEW t \in ExecType
      PROVE  /\ PathOK(ps2[t], t, c.rs_size, c.units[t], r)
             /\ P!Waiting(ps2[t]) \cup P!Running(ps2[t]) = P!Waiting(ps[t]) \cup P!Running(ps[t])
             /\ P!Finished(ps2[t]) = P!Finished(ps[t])
             /\ \A s \in DOMAIN ps2[t].stations : /\ s \in DOMAIN ps[t].stations
                                                  /\ ps2[t].stations[s] = ps[t].stations[s]
  <2> DEFINE p == ps[t]
             agu == t = LS
             n == c.rs_size
             m == c.units[t]
             w == P!Issued(p, m, agu)
  <2>1. ps2[t] = w /\ agu \in BOOLEAN /\ n \in Nat /\ m \in Nat
    BY <1>0
  <2>2. PathOK(p, t, n, m, r)
    BY DEF Serving
  <2> HIDE DEF p, agu, n, m, ps2
  <2>3. /\ PathOK(w, t, n, m, r)
        /\ StartsFrom(p, w)
    BY <2>1, <2>2, IssuedPath
  <2> QED
    BY <2>1, <2>3 DEF p, n, m, StartsFrom
<1>2. ps2 = [t \in ExecType |-> ps2[t]]
  OBVIOUS
<1>3. QueueOK(q, c.lsq_size) /\ Tagged(q) /\ q \in Seq(L!LSQEntry)
      /\ \A i \in DOMAIN q : q[i].op \in Load \cup Store /\ q[i].tag \in Nat
  BY QueueTagged DEF Serving, QueueOK, AccessOK, AnAccess
<1>4. /\ us \subseteq [tag: Nat, left: Nat \ {0}] /\ IsFiniteSet(us)
      /\ Cardinality(us) \in Nat /\ Cardinality(us) <= c.units[LS] /\ idle \in Int
  BY <1>0, FS_CardinalityType DEF Serving, UnitsOK
<1>5. \A i \in chosen : /\ i \in DOMAIN q /\ ~q[i].issued /\ ~q[i].done
                        /\ q[i].Qa = NoTag /\ q[i].Q = NoTag
  <2>1. \A i \in chosen : i \in DOMAIN q /\ L!can_issue(q, i)
    BY DEF L!ToIssue
  <2> HIDE DEF chosen
  <2> QED
    BY <1>3, <2>1, ClassesAgree DEF L!can_issue, QueueOK, AccessOK
<1>6. IsFiniteSet(chosen) /\ (chosen # {} => Cardinality(chosen) <= idle)
  BY <1>3, <1>4, StartedFit, FS_EmptySet
<1> HIDE DEF ps2, chosen, idle
<1>7. /\ QueueOK(q2, c.lsq_size) /\ DOMAIN q2 = DOMAIN q
      /\ \A t, op : Entry(q2, t, op) <=> Entry(q, t, op)
      /\ \A i \in DOMAIN q :
           /\ q2[i].tag = q[i].tag /\ q2[i].op = q[i].op /\ q2[i].Q = q[i].Q
           /\ q2[i].Qa = q[i].Qa /\ q2[i].done = q[i].done
           /\ q2[i].issued = (q[i].issued \/ i \in chosen)
  <2>1. chosen \in SUBSET DOMAIN q /\ \A i \in chosen : q[i].Q = NoTag
    BY <1>5
  <2> QED
    BY <1>3, <2>1, IssuedQueue
<1> HIDE DEF q2
<1>8. AllHeld(ps2, r)
  <2> SUFFICES ASSUME NEW a, NEW op, Pending(r, a, op), ~IsAccess(op)
               PROVE  a \in Held(ps2[exec_type(op)])
    BY AllHeldMeans
  <2>1. a \in Held(ps[exec_type(op)])
    BY AllHeldMeans DEF Serving
  <2>2. exec_type(op) \in ExecType
    BY TypeOfOp DEF Pending, Tagged
  <2> QED
    BY <1>1, <2>1, <2>2 DEF Held
<1>9. Mirrors(q2, r)
  BY <1>7, MirrorsMeans DEF Serving
<1>10. Homes(q2, ps2[LS], r)
  BY <1>0, <1>1, <1>7 DEF Serving, Homes
<1>11. UnitsOK(us2, c.units[LS], q2)
  <2>1. \A i \in chosen : unit(i) \in [tag: Nat, left: Nat \ {0}] /\ unit(i).tag = q[i].tag
    <3>1. \A i \in chosen : cycles(q[i].op) \in Nat \ {0}
      BY DEF cycles
    <3> QED
      BY <1>3, <1>5, <3>1
  <2> HIDE DEF unit
  <2>2. us2 \subseteq [tag: Nat, left: Nat \ {0}]
    BY <1>4, <2>1
  <2>3. IsFiniteSet(us2) /\ Cardinality(us2) <= c.units[LS]
    <3> DEFINE f == [i \in chosen |-> unit(i)]
               new == {f[i] : i \in chosen}
    <3>1. f = [i \in chosen |-> f[i]] /\ us2 = us \cup new
      OBVIOUS
    <3> HIDE DEF f
    <3>2. IsFiniteSet(new) /\ Cardinality(new) <= Cardinality(chosen)
      BY <1>6, <3>1, ImageFits
    <3>3. chosen = {} => new = {}
      OBVIOUS
    <3> HIDE DEF new
    <3>4. CASE chosen = {}
      <4>1. us2 = us
        BY <3>1, <3>3, <3>4
      <4> QED
        BY <1>4, <4>1
    <3>5. CASE chosen # {}
      <4>1. /\ IsFiniteSet(us \cup new)
            /\ Cardinality(us \cup new)
                 = Cardinality(us) + Cardinality(new) - Cardinality(us \cap new)
        BY <1>4, <3>2, FS_Union
      <4>2. /\ Cardinality(new) \in Nat /\ Cardinality(chosen) \in Nat
            /\ Cardinality(us \cap new) \in Nat
        BY <1>4, <1>6, <3>2, FS_CardinalityType, FS_Intersection
      <4>3. Cardinality(chosen) <= idle
        BY <1>6, <3>5
      <4>4. Cardinality(us \cup new) <= c.units[LS]
        BY <1>0, <1>4, <3>2, <4>1, <4>2, <4>3 DEF idle
      <4> QED
        BY <3>1, <4>1, <4>4
    <3> QED
      BY <3>4, <3>5
  <2>4. \A u \in us2 : \E i \in DOMAIN q2 : Serves(u, q2[i])
    <3>1. ASSUME NEW u \in us PROVE \E i \in DOMAIN q2 : Serves(u, q2[i])
      <4>1. PICK i \in DOMAIN q : Serves(u, q[i])
        BY DEF Serving, UnitsOK
      <4> QED
        BY <1>7, <4>1 DEF Serves
    <3>2. ASSUME NEW i \in chosen PROVE Serves(unit(i), q2[i]) /\ i \in DOMAIN q2
      BY <1>5, <1>7, <2>1 DEF Serves
    <3> QED
      BY <3>1, <3>2
  <2>5. ASSUME NEW u \in us2, NEW v \in us2, u.tag = v.tag PROVE u = v
    <3>1. ASSUME NEW w \in us, NEW i \in chosen PROVE w.tag # unit(i).tag
      <4>1. PICK j \in DOMAIN q : Serves(w, q[j])
        BY DEF Serving, UnitsOK
      <4>2. q[i].tag # q[j].tag
        BY <1>3, <1>5, <4>1, OneEntry DEF Serves
      <4> QED
        BY <2>1, <4>1, <4>2 DEF Serves
    <3>2. ASSUME NEW i \in chosen, NEW j \in chosen, unit(i).tag = unit(j).tag PROVE i = j
      BY <1>3, <1>5, <2>1, <3>2, OneEntry
    <3>3. \A w, x \in us : w.tag = x.tag => w = x
      BY DEF Serving, UnitsOK
    <3> QED
      BY <2>5, <3>1, <3>2, <3>3
  <2> QED
    BY <2>2, <2>3, <2>4, <2>5 DEF UnitsOK
<1>12. Waits(ps2, q2, r)
  BY <1>1, <1>7 DEF Serving, Waits
<1>13. Serving(c, r, ps2, q2, us2)
  BY <1>1, <1>2, <1>7, <1>8, <1>9, <1>10, <1>11, <1>12 DEF Serving
<1> QED
  BY <1>13 DEF ServingIssued, ps2, q2, chosen, idle

\* What dispatching the entry e leaves serves r.
ServingDispatched(c, r, ps, q, us, e) ==
  Serving(c, r,
    [ps EXCEPT ![exec_type(e.op)] = P!Dispatched(ps[exec_type(e.op)], c.rs_size, e)],
    IF IsAccess(e.op) THEN Append(q, L!NewAccess(e.op, e.tag, e.Vk, e.Qk, e.vl)) ELSE q, us)

\* An instruction is dispatched: to a station, and an access to the queue as well.
LEMMA ServingDispatch ==
  ASSUME NEW c \in Configuration, NEW r, NEW r2, NEW ps, NEW q, NEW us, NEW e,
         Serving(c, r, ps, q, us), Tagged(r), StationOK(e),
         \A i \in DOMAIN r : r[i].tag < e.tag,
         \A tag, op : /\ Entry(r2, tag, op) <=> Entry(r, tag, op) \/ (tag = e.tag /\ op = e.op)
                      /\ Pending(r2, tag, op)
                           <=> Pending(r, tag, op) \/ (tag = e.tag /\ op = e.op),
         P!can_allocate(ps[exec_type(e.op)], c.rs_size),
         IsAccess(e.op) => Len(q) < c.lsq_size,
         Brings(r, e.Qj, e.tag), Brings(r, e.Qk, e.tag), Brings(r, e.Ql, e.tag),
         Brings(r, e.Qv, e.tag)
  PROVE  ServingDispatched(c, r2, ps, q, us, e)
<1> DEFINE LS  == "LOADSTORE"
           u   == exec_type(e.op)
           w   == P!Dispatched(ps[u], c.rs_size, e)
           ps2 == [ps EXCEPT ![u] = w]
           a   == L!NewAccess(e.op, e.tag, e.Vk, e.Qk, e.vl)
           q2  == IF IsAccess(e.op) THEN Append(q, a) ELSE q
<1>0. /\ LS \in ExecType /\ c.rs_size \in Nat /\ c.lsq_size \in Nat /\ NoTag \notin Nat
      /\ e.tag \in Nat /\ e.op \in Op /\ u \in ExecType
      /\ e.Vk \in Value /\ e.Qk \in Tag /\ e.vl \in VLength
  BY TypeOfOp DEF ExecType, Configuration, StationOK, Station, NoTag
<1>1. AllWait(r, r2) /\ \A tag, op : Pending(r, tag, op) => Pending(r2, tag, op)
  BY DEF AllWait
<1>2. Pending(r2, e.tag, e.op)
  OBVIOUS
<1>3. ASSUME NEW t \in ExecType PROVE e.tag \notin Held(ps[t])
  <2>1. \A op : ~Pending(r, e.tag, op)
    BY <1>0 DEF Pending, Tagged
  <2> QED
    BY <2>1, HeldPending DEF Serving
<1>4. /\ PathOK(w, u, c.rs_size, c.units[u], r2)
      /\ P!Waiting(w) = P!Waiting(ps[u]) \cup {e.tag} /\ P!Running(w) = P!Running(ps[u])
      /\ P!Finished(w) = P!Finished(ps[u])
      /\ \A s \in DOMAIN w.stations : \/ w.stations[s] = e
                                      \/ /\ s \in DOMAIN ps[u].stations
                                         /\ w.stations[s] = ps[u].stations[s]
  <2>1. PathOK(ps[u], u, c.rs_size, c.units[u], r)
    BY <1>0 DEF Serving
  <2> DEFINE t == u
             p == ps[t]
  <2>2. PathOK(p, t, c.rs_size, c.units[t], r) /\ P!can_allocate(p, c.rs_size)
        /\ exec_type(e.op) = t /\ e.tag \notin Held(p) /\ w = P!Dispatched(p, c.rs_size, e)
    BY <1>0, <1>3, <2>1
  <2> HIDE DEF p, w, t
  <2>3. PathOK(w, t, c.rs_size, c.units[t], r2) /\ AddsTo(p, w, e)
    BY <1>0, <1>1, <1>2, <2>2, DispatchedPath
  <2> QED
    BY <2>3 DEF p, t, AddsTo
<1> HIDE DEF w
<1>5. /\ ps2 = [t \in ExecType |-> ps2[t]] /\ ps2[u] = w
      /\ \A t \in ExecType : t # u => ps2[t] = ps[t]
  BY <1>0 DEF Serving
<1> HIDE DEF ps2
<1>6. \A t \in ExecType : PathOK(ps2[t], t, c.rs_size, c.units[t], r2)
  <2>1. ASSUME NEW t \in ExecType, t # u PROVE PathOK(ps2[t], t, c.rs_size, c.units[t], r2)
    BY <1>1, <1>5, <2>1 DEF Serving, PathOK, PathServes
  <2> QED
    BY <1>4, <1>5, <2>1
<1>7. AllHeld(ps2, r2)
  <2> SUFFICES ASSUME NEW tag, NEW op, Pending(r2, tag, op), ~IsAccess(op)
               PROVE  tag \in Held(ps2[exec_type(op)])
    BY AllHeldMeans
  <2>1. CASE Pending(r, tag, op)
    <3>1. tag \in Held(ps[exec_type(op)])
      BY <2>1, AllHeldMeans DEF Serving
    <3>2. exec_type(op) \in ExecType
      BY <2>1, TypeOfOp DEF Pending, Tagged
    <3> QED
      BY <1>4, <1>5, <3>1, <3>2 DEF Held
  <2>2. CASE tag = e.tag /\ op = e.op
    BY <1>4, <1>5, <2>2 DEF Held
  <2> QED
    BY <2>1, <2>2
<1>8. /\ QueueOK(q, c.lsq_size) /\ Tagged(q) /\ q \in Seq(AnAccess)
      /\ \A i \in DOMAIN q : IsAccess(q[i].op) /\ Entry(r, q[i].tag, q[i].op)
  <2>1. QueueOK(q, c.lsq_size)
    BY DEF Serving
  <2> QED
    BY <2>1, InQueue DEF QueueOK
<1>9. \A i \in DOMAIN q : q[i].tag < e.tag
  BY <1>8 DEF Entry
<1>10. ASSUME IsAccess(e.op)
       PROVE  /\ AccessOK(a) /\ a.tag = e.tag /\ a.op = e.op /\ a.Qa = e.tag /\ ~a.done
              /\ a.Q = NoTag \/ a.Q = e.Qk
  <2> DEFINE V  == IF e.op \in Store THEN e.Vk ELSE scalar(0)
             Q  == IF e.op \in Store THEN e.Qk ELSE NoTag
             vn == IF e.op \in VLoad \cup VStore THEN e.vl ELSE 0
  <2>1. a = [op |-> e.op, tag |-> e.tag, V |-> V, Va |-> 0, Q |-> Q, Qa |-> e.tag,
             vl |-> vn, sew |-> op_sew(e.op), issued |-> FALSE, done |-> FALSE]
    <3>1. L!scalar(0) = scalar(0)
      BY MemoryAgrees DEF L!scalar, scalar
    <3> QED
      BY <3>1, ClassesAgree DEF L!NewAccess
  <2>2. V \in Value /\ Q \in Tag /\ vn \in VLength /\ 0 \in Word
    <3>1. 0 \in Word /\ 0 \in VLength
      BY WordSizes, VlenFacts DEF Word, VLength
    <3> QED
      BY <1>0, <3>1, ScalarValue DEF Tag
  <2>3. op_sew(e.op) \in Sew
    BY DEF op_sew, Sew
  <2>4. Q # NoTag => e.op \in Store
    OBVIOUS
  <2>5. Q = NoTag \/ Q = e.Qk
    OBVIOUS
  <2>6. e.tag \in Tag
    BY <1>0 DEF Tag
  <2> HIDE DEF V, Q, vn, a
  <2> QED
    BY <1>0, <1>10, <2>1, <2>2, <2>3, <2>4, <2>5, <2>6 DEF AccessOK, AnAccess, IsAccess
<1> HIDE DEF a
<1>11. /\ QueueOK(q2, c.lsq_size)
       /\ \A i \in DOMAIN q2 : \/ i \in DOMAIN q /\ q2[i] = q[i]
                               \/ IsAccess(e.op) /\ q2[i] = a
       /\ \A i \in DOMAIN q : i \in DOMAIN q2 /\ q2[i] = q[i]
       /\ \A tag, op : Entry(q2, tag, op) <=>
            Entry(q, tag, op) \/ (IsAccess(e.op) /\ tag = e.tag /\ op = e.op)
  <2>1. CASE IsAccess(e.op)
    <3>1. a \in AnAccess /\ a.tag \in Nat /\ a.op \in Op /\ \A i \in DOMAIN q : q[i].tag < a.tag
      BY <1>0, <1>9, <1>10, <2>1 DEF AccessOK
    <3>2. /\ Append(q, a) \in Seq(AnAccess) /\ Len(Append(q, a)) = Len(q) + 1
          /\ Tagged(Append(q, a))
          /\ DOMAIN Append(q, a) = DOMAIN q \cup {Len(q) + 1}
          /\ \A i \in DOMAIN q : Append(q, a)[i] = q[i]
          /\ Append(q, a)[Len(q) + 1] = a
          /\ \A tag, op : Entry(Append(q, a), tag, op) <=>
                            Entry(q, tag, op) \/ (tag = a.tag /\ op = a.op)
      BY <1>8, <3>1, Appended
    <3>3. q2 = Append(q, a)
      BY <2>1
    <3> HIDE DEF q2
    <3>4. QueueOK(q2, c.lsq_size)
      <4>1. Len(q) + 1 <= c.lsq_size
        BY <1>0, <1>8, <2>1 DEF Tagged
      <4> QED
        BY <1>8, <1>10, <2>1, <3>2, <3>3, <4>1 DEF QueueOK, Tagged
    <3> QED
      BY <1>10, <2>1, <3>2, <3>3, <3>4
  <2>2. CASE ~IsAccess(e.op)
    BY <1>8, <2>2
  <2> QED
    BY <2>1, <2>2
<1> HIDE DEF q2
<1>12. Mirrors(q2, r2)
  <2>1. \A tag, op : Entry(q, tag, op) <=> Entry(r, tag, op) /\ IsAccess(op)
    BY MirrorsMeans DEF Serving
  <2> QED
    BY <1>11, <2>1, MirrorsMeans
<1>13. Homes(q2, ps2[LS], r2)
  <2>1. ASSUME NEW i \in DOMAIN q
        PROVE  /\ (q[i].Qa # NoTag) <=> (q[i].tag \in P!Waiting(ps2[LS]) \cup P!Running(ps2[LS]))
               /\ q[i].done <=> \/ q[i].tag \in P!Finished(ps2[LS])
                                \/ ~Pending(r2, q[i].tag, q[i].op)
    <3>1. q[i].tag # e.tag
      BY <1>0, <1>8, <1>9 DEF Tagged
    <3>2. /\ (q[i].Qa # NoTag) <=> (q[i].tag \in P!Waiting(ps[LS]) \cup P!Running(ps[LS]))
          /\ q[i].done <=> \/ q[i].tag \in P!Finished(ps[LS])
                           \/ ~Pending(r, q[i].tag, q[i].op)
      BY DEF Serving, Homes
    <3> QED
      BY <1>0, <1>4, <1>5, <3>1, <3>2
  <2>2. ASSUME IsAccess(e.op)
        PROVE  /\ a.Qa # NoTag /\ a.tag \in P!Waiting(ps2[LS])
               /\ ~a.done /\ a.tag \notin P!Finished(ps2[LS]) /\ Pending(r2, a.tag, a.op)
    <3>1. u = LS
      BY <1>0, <2>2, TypeOfOp
    <3> QED
      BY <1>0, <1>3, <1>4, <1>5, <1>10, <2>2, <3>1 DEF Held
  <2> QED
    BY <1>11, <2>1, <2>2 DEF Homes
<1>14. UnitsOK(us, c.units[LS], q2)
  <2>1. \A v \in us : \E i \in DOMAIN q2 : Serves(v, q2[i])
    BY <1>11 DEF Serving, UnitsOK
  <2> QED
    BY <2>1 DEF Serving, UnitsOK
<1>15. \A Q, tag : Brings(r, Q, tag) => Brings(r2, Q, tag)
  BY <1>1 DEF Brings
<1>16. Waits(ps2, q2, r2)
  <2>1. ASSUME NEW t \in ExecType, NEW s \in DOMAIN ps2[t].stations
        PROVE  LET x == ps2[t].stations[s]
               IN  /\ Brings(r, x.Qj, x.tag) /\ Brings(r, x.Qk, x.tag)
                   /\ Brings(r, x.Ql, x.tag) /\ Brings(r, x.Qv, x.tag)
    <3>1. \/ ps2[t].stations[s] = e
          \/ s \in DOMAIN ps[t].stations /\ ps2[t].stations[s] = ps[t].stations[s]
      BY <1>4, <1>5
    <3> QED
      BY <3>1 DEF Serving, Waits
  <2>2. ASSUME NEW i \in DOMAIN q2 PROVE Brings(r, q2[i].Q, q2[i].tag)
    <3>1. CASE i \in DOMAIN q /\ q2[i] = q[i]
      BY <3>1 DEF Serving, Waits
    <3>2. CASE IsAccess(e.op) /\ q2[i] = a
      <4>1. a.tag = e.tag /\ (a.Q = NoTag \/ a.Q = e.Qk)
        BY <1>10, <3>2
      <4>2. Brings(r, NoTag, e.tag)
        BY DEF Brings
      <4> QED
        BY <3>2, <4>1, <4>2
    <3> QED
      BY <1>11, <3>1, <3>2
  <2> QED
    BY <1>15, <2>1, <2>2 DEF Waits
<1>17. Serving(c, r2, ps2, q2, us)
  BY <1>5, <1>6, <1>7, <1>11, <1>12, <1>13, <1>14, <1>16 DEF Serving
<1> QED
  BY <1>17 DEF ServingDispatched, ps2, q2, w, a

\* A unit's result is one that can come back.
LEMMA UnitResult ==
  ASSUME NEW e, StationOK(e), ~IsAccess(e.op), vl \in VLength
  PROVE  ResultIn(Result(e)) /\ Result(e).tag = e.tag /\ Result(e).op = e.op
<1>1. e.op \in Op \ (Load \cup Store) /\ e.tag \in Nat
  BY DEF StationOK, Station, IsAccess
<1>2. HasOperands(e)
  <2>1. /\ e.Vj \in Value /\ e.Vk \in Value /\ e.Vl \in Value /\ e.pc \in Word
        /\ e.imm \in Int /\ e.vl \in VLength /\ e.sew \in Sew
    BY DEF StationOK, Station
  <2>2. /\ e.op \in VSet => e.sew \in {8, 16, 32}
        /\ e.op = "VSETIVLI" => e.imm \in Nat
    BY <2>1 DEF StationOK, VsetOK, Sew
  <2> QED
    BY <2>1, <2>2 DEF HasOperands, Sew
<1> DEFINE res == Compute(e, vl)
<1>3. /\ res \in [value: Value, jumped: BOOLEAN, target: Word, vl: VLength, sew: {0, 8, 16, 32}]
      /\ res.jumped => e.op \in Ctrl
      /\ e.op \in Jump => res.jumped
      /\ e.op \in VSet => res.sew \in {8, 16, 32}
  BY <1>1, <1>2, ComputeTyped
<1> HIDE DEF res
<1>4. res \in [value: Value, target: Word, jumped: BOOLEAN, vl: VLength, sew: Sew]
  BY <1>3 DEF Sew
<1>5. R!CanYield(e.op, res)
  BY <1>3, OperationsAgree DEF R!CanYield
<1>6. Result(e) = [op |-> e.op, tag |-> e.tag, result |-> res]
  BY DEF Result, res
<1>7. ResultOK(e.op, res)
  BY <1>3, <1>4, <1>5 DEF ResultOK
<1> QED
  BY <1>1, <1>6, <1>7 DEF ResultIn

\* And so is what the queue brings back.
LEMMA QueueResult ==
  ASSUME NEW a, AccessOK(a)
  PROVE  /\ ResultIn(AccessResult(a))
         /\ AccessResult(a).tag = a.tag /\ AccessResult(a).op = a.op
<1>1. /\ a.op \in Load \cup Store /\ a.tag \in Nat /\ a.V \in Value /\ a.vl \in VLength
      /\ a.sew \in Sew
  BY DEF AccessOK, AnAccess
<1>2. a.op \in Op /\ a.op \notin Ctrl /\ a.op \notin Jump /\ a.op \notin VSet
  BY <1>1 DEF Op, Load, IntLoad, VLoad, Store, IntStore, VStore, Ctrl, Jump, Branch, VSet
<1> DEFINE res == [value |-> a.V, target |-> 0, jumped |-> FALSE, vl |-> a.vl, sew |-> a.sew]
<1>3. ResultOK(a.op, res)
  <2>1. 0 \in Word
    BY WordSizes DEF Word
  <2>2. res \in [value: Value, target: Word, jumped: BOOLEAN, vl: VLength, sew: Sew]
    BY <1>1, <2>1
  <2>3. R!CanYield(a.op, res)
    BY <1>2, OperationsAgree DEF R!CanYield
  <2> QED
    BY <1>2, <2>2, <2>3 DEF ResultOK
<1>4. AccessResult(a) = [op |-> a.op, tag |-> a.tag, result |-> res]
  BY DEF AccessResult
<1> QED
  BY <1>1, <1>2, <1>3, <1>4 DEF ResultIn

\* What execute leaves serves r; it reads memory m, or b behind its end.
ServingExecuted(c, r, ps, q, us, m, b) ==
  LET generated == {[tag |-> e.tag, Va |-> EffectiveAddress(e), vl |-> e.vl] :
                      e \in P!Finishing(ps["LOADSTORE"])}
      ended     == {u.tag : u \in {v \in us : v.left = 1}}
      queue     == L!Completed(L!Addressed(q, generated), ended, Beyond(m, b))
      results(t) ==
        IF t = "LOADSTORE"
          THEN {AccessResult(queue[i]) : i \in {j \in DOMAIN queue : queue[j].tag \in ended}}
          ELSE {Result(e) : e \in P!Finishing(ps[t])}
  IN  Serving(c, r, [t \in ExecType |-> P!Executed(ps[t], results(t))], queue,
              {[u EXCEPT !.left = @ - 1] : u \in {v \in us : v.left # 1}})

\* Units step: addresses reach the queue, accesses finish there, and every other
\* unit that ends has its result.
LEMMA ServingExecute ==
  ASSUME NEW c \in Configuration, NEW r, NEW ps, NEW q, NEW us,
         Serving(c, r, ps, q, us), Tagged(r), vl \in VLength,
         NEW m \in MemState, NEW b \in Byte
  PROVE  ServingExecuted(c, r, ps, q, us, m, b)
<1> DEFINE LS == "LOADSTORE"
           address(e) == [tag |-> e.tag, Va |-> EffectiveAddress(e), vl |-> e.vl]
           generated == {address(e) : e \in P!Finishing(ps[LS])}
           ended == {u.tag : u \in {v \in us : v.left = 1}}
           addressed == L!Addressed(q, generated)
           queue == L!Completed(addressed, ended, Beyond(m, b))
           brought == {AccessResult(queue[i]) : i \in {j \in DOMAIN queue : queue[j].tag \in ended}}
           results(t) == IF t = LS THEN brought ELSE {Result(e) : e \in P!Finishing(ps[t])}
           ps2 == [t \in ExecType |-> P!Executed(ps[t], results(t))]
           stay == {v \in us : v.left # 1}
           stepped(u) == [u EXCEPT !.left = @ - 1]
           us2 == {stepped(u) : u \in stay}
<1>0. /\ LS \in ExecType /\ \A t \in ExecType : c.units[t] \in Nat
      /\ QueueOK(q, c.lsq_size) /\ UnitsOK(us, c.units[LS], q)
  BY DEF ExecType, Configuration, Serving
<1>1. ASSUME NEW t \in ExecType
      PROVE  /\ PathOK(ps[t], t, c.rs_size, c.units[t], r)
             /\ \A e \in P!Finishing(ps[t]) : /\ StationOK(e) /\ e.tag \in P!Running(ps[t])
                                              /\ Pending(r, e.tag, e.op) /\ exec_type(e.op) = t
             /\ \A e, f \in P!Finishing(ps[t]) : e.tag = f.tag => e = f
  <2>1. PathOK(ps[t], t, c.rs_size, c.units[t], r)
    BY DEF Serving
  <2> DEFINE p == ps[t]
             n == c.units[t]
  <2>2. PathOK(p, t, c.rs_size, n, r)
    BY <2>1
  <2> HIDE DEF p, n
  <2>3. /\ \A e \in P!Finishing(p) : /\ StationOK(e) /\ e.tag \in P!Running(p)
                                     /\ Pending(r, e.tag, e.op) /\ exec_type(e.op) = t
        /\ \A e, f \in P!Finishing(p) : e.tag = f.tag => e = f
    BY <2>2 DEF PathOK, PathTyped, PathServes, PathDistinct, P!Finishing, P!Running, UnitOK
  <2> QED
    BY <2>1, <2>3 DEF p
<1>2. \A x \in generated : x.Va \in Word /\ x.vl \in VLength
  <2> SUFFICES ASSUME NEW e \in P!Finishing(ps[LS])
               PROVE  address(e).Va \in Word /\ address(e).vl \in VLength
    OBVIOUS
  <2>1. StationOK(e)
    BY <1>0, <1>1
  <2>2. e.Vj[0] \in Int /\ e.imm \in Int /\ e.vl \in VLength
    BY <2>1, ValueLanes DEF StationOK, Station, Word
  <2>3. EffectiveAddress(e) \in Word
    BY <2>2, ToWordIsWord DEF EffectiveAddress
  <2> QED
    BY <2>2, <2>3
<1> DEFINE over == {e.tag : e \in P!Finishing(ps[LS])}
<1>3. \A tag : (\E x \in generated : x.tag = tag) <=> tag \in over
  <2>1. \A e : address(e).tag = e.tag
    OBVIOUS
  <2> HIDE DEF address
  <2> QED
    BY <2>1
<1> HIDE DEF generated, address, over
<1>4. /\ QueueOK(addressed, c.lsq_size) /\ DOMAIN addressed = DOMAIN q
      /\ \A t, op : Entry(addressed, t, op) <=> Entry(q, t, op)
      /\ \A i \in DOMAIN q :
           /\ addressed[i].tag = q[i].tag /\ addressed[i].op = q[i].op
           /\ addressed[i].Q = q[i].Q
           /\ addressed[i].issued = q[i].issued /\ addressed[i].done = q[i].done
           /\ addressed[i].Qa = (IF \E x \in generated : x.tag = q[i].tag THEN NoTag ELSE q[i].Qa)
  BY <1>0, <1>2, AddressedQueue
<1> HIDE DEF addressed
\* A unit that ends works for an access that waits for its result and is in no path.
<1>5. ASSUME NEW u \in us
      PROVE  \E i \in DOMAIN q : Serves(u, q[i])
  BY <1>0 DEF UnitsOK
<1>6. ASSUME NEW i \in DOMAIN q, NEW j \in DOMAIN q, q[i].tag = q[j].tag PROVE i = j
  BY <1>0, <1>6, QueueTagged, OneEntry
<1>7. ASSUME NEW i \in DOMAIN q, q[i].tag \in ended
      PROVE  /\ ~q[i].done /\ q[i].Qa = NoTag /\ q[i].Q = NoTag
             /\ Pending(r, q[i].tag, q[i].op)
             /\ q[i].tag \notin Held(ps[LS])
  <2>1. PICK u \in us : u.tag = q[i].tag
    BY <1>7
  <2>2. PICK j \in DOMAIN q : Serves(u, q[j])
    BY <1>5
  <2>3. j = i
    BY <1>6, <2>1, <2>2 DEF Serves
  <2>4. ~q[i].done /\ q[i].Qa = NoTag /\ q[i].Q = NoTag
    BY <2>2, <2>3 DEF Serves
  <2> QED
    BY <2>4 DEF Serving, Homes, Held
<1>8. /\ QueueOK(queue, c.lsq_size) /\ DOMAIN queue = DOMAIN q
      /\ \A t, op : Entry(queue, t, op) <=> Entry(q, t, op)
      /\ \A i \in DOMAIN q :
           /\ queue[i].tag = q[i].tag /\ queue[i].op = q[i].op /\ queue[i].Q = q[i].Q
           /\ queue[i].issued = (q[i].issued /\ q[i].tag \notin ended)
           /\ queue[i].done = (q[i].done \/ q[i].tag \in ended)
           /\ queue[i].Qa = addressed[i].Qa
  <2>1. \A i \in DOMAIN addressed : addressed[i].tag \in ended => addressed[i].Q = NoTag
    BY <1>4, <1>7
  <2>3. queue = L!Completed(addressed, ended, Beyond(m, b))
    OBVIOUS
  <2> HIDE DEF ended, queue
  <2>2. /\ QueueOK(queue, c.lsq_size)
        /\ SameEntries(addressed, queue) /\ CompletesTo(addressed, queue, ended)
    BY <1>4, <2>1, <2>3, CompletedQueue
  <2> QED
    BY <1>4, <2>2 DEF SameEntries, CompletesTo
<1> HIDE DEF queue
<1>9. CanFinish(ps[LS], LS, r, brought)
  <2>1. ASSUME NEW i \in DOMAIN queue, queue[i].tag \in ended
        PROVE  LET x == AccessResult(queue[i])
               IN  /\ ResultIn(x) /\ x.tag = queue[i].tag
                   /\ Pending(r, x.tag, x.op) /\ exec_type(x.op) = LS
                   /\ x.tag \notin Held(ps[LS])
    <3>1. ResultIn(AccessResult(queue[i])) /\ AccessResult(queue[i]).tag = queue[i].tag
          /\ AccessResult(queue[i]).op = queue[i].op /\ IsAccess(queue[i].op)
      BY <1>8, QueueResult DEF QueueOK, AccessOK, AnAccess, IsAccess
    <3>2. Pending(r, queue[i].tag, queue[i].op) /\ queue[i].tag \notin Held(ps[LS])
      BY <1>7, <1>8, <2>1
    <3> QED
      BY <3>1, <3>2, TypeOfOp
  <2>2. ASSUME NEW i \in DOMAIN queue, NEW j \in DOMAIN queue, queue[i].tag = queue[j].tag
        PROVE  i = j
    BY <1>6, <1>8, <2>2
  <2> HIDE DEF ended
  <2>3. \A x \in brought : /\ ResultIn(x) /\ Pending(r, x.tag, x.op) /\ exec_type(x.op) = LS
                           /\ x.tag \notin Held(ps[LS])
    BY <2>1
  <2>4. ASSUME NEW x \in brought, NEW y \in brought, x.tag = y.tag PROVE x = y
    <3>1. PICK i \in DOMAIN queue : queue[i].tag \in ended /\ x = AccessResult(queue[i])
      OBVIOUS
    <3>2. PICK j \in DOMAIN queue : queue[j].tag \in ended /\ y = AccessResult(queue[j])
      OBVIOUS
    <3> QED
      BY <2>1, <2>2, <2>4, <3>1, <3>2
  <2> HIDE DEF brought
  <2> QED
    BY <2>3, <2>4 DEF CanFinish, Held
<1>10. {x.tag : x \in brought} = {q[i].tag : i \in {j \in DOMAIN q : q[j].tag \in ended}}
  <2>1. \A i \in DOMAIN queue : AccessResult(queue[i]).tag = q[i].tag /\ queue[i].tag = q[i].tag
    BY <1>8 DEF AccessResult
  <2> HIDE DEF ended
  <2> QED
    BY <1>8, <2>1
<1>11. ASSUME NEW t \in ExecType, t # LS
       PROVE  CanFinish(ps[t], t, r, {Result(e) : e \in P!Finishing(ps[t])})
  <2> DEFINE p == ps[t]
  <2>1. PathDistinct(p)
    BY <1>1 DEF PathOK
  <2>2. ASSUME NEW e \in P!Finishing(p)
        PROVE  /\ ResultIn(Result(e)) /\ Result(e).tag = e.tag /\ Result(e).op = e.op
               /\ Pending(r, e.tag, e.op) /\ exec_type(e.op) = t /\ e.tag \in P!Running(p)
    <3>1. StationOK(e) /\ exec_type(e.op) = t
      BY <1>1
    <3>2. ~IsAccess(e.op)
      BY <1>11, <3>1, TypeOfOp DEF StationOK, Station
    <3> QED
      BY <1>1, <3>1, <3>2, UnitResult
  <2>3. \A e, f \in P!Finishing(p) : e.tag = f.tag => e = f
    BY <1>1
  <2> HIDE DEF p
  <2> QED
    BY <2>1, <2>2, <2>3 DEF CanFinish, PathDistinct, p
<1> HIDE DEF brought
<1>12. ASSUME NEW t \in ExecType
       PROVE  /\ PathOK(ps2[t], t, c.rs_size, c.units[t], r)
              /\ StepsTo(ps[t], ps2[t], results(t))
  <2> DEFINE p == ps[t]
             n == c.units[t]
             found == results(t)
  <2>1. CanFinish(p, t, r, found)
    BY <1>9, <1>11
  <2>2. PathOK(p, t, c.rs_size, n, r) /\ ps2[t] = P!Executed(p, found) /\ n \in Nat
    BY <1>0, <1>1
  <2> HIDE DEF p, n, found, ps2
  <2>3. PathOK(ps2[t], t, c.rs_size, n, r) /\ StepsTo(p, ps2[t], found)
    BY <2>1, <2>2, ExecutedPath
  <2> QED
    BY <2>3 DEF p, n, found
<1>13. ps2 = [t \in ExecType |-> ps2[t]]
  OBVIOUS
<1>14. \A t \in ExecType : t # LS => {x.tag : x \in results(t)} = {e.tag : e \in P!Finishing(ps[t])}
  <2> SUFFICES ASSUME NEW t \in ExecType, t # LS
               PROVE  {x.tag : x \in results(t)} = {e.tag : e \in P!Finishing(ps[t])}
    OBVIOUS
  <2>1. \A e : Result(e).tag = e.tag
    BY DEF Result
  <2>2. results(t) = {Result(e) : e \in P!Finishing(ps[t])}
    OBVIOUS
  <2> HIDE DEF results
  <2> QED
    BY <2>1, <2>2
<1>15. results(LS) = brought
  OBVIOUS
<1> HIDE DEF ps2, results
<1>16. AllHeld(ps2, r)
  <2> SUFFICES ASSUME NEW a, NEW op, Pending(r, a, op), ~IsAccess(op)
               PROVE  a \in Held(ps2[exec_type(op)])
    BY AllHeldMeans
  <2>1. a \in Held(ps[exec_type(op)])
    BY AllHeldMeans DEF Serving
  <2>2. exec_type(op) \in ExecType /\ exec_type(op) # LS
    BY TypeOfOp DEF Pending, Tagged
  <2> QED
    BY <1>12, <1>14, <2>1, <2>2 DEF Held, StepsTo
<1>17. Mirrors(queue, r)
  BY <1>8, MirrorsMeans DEF Serving
<1>18. Homes(queue, ps2[LS], r)
  <2> SUFFICES ASSUME NEW i \in DOMAIN q
               PROVE  /\ (queue[i].Qa # NoTag)
                           <=> (queue[i].tag \in P!Waiting(ps2[LS]) \cup P!Running(ps2[LS]))
                      /\ queue[i].done <=> \/ queue[i].tag \in P!Finished(ps2[LS])
                                           \/ ~Pending(r, queue[i].tag, queue[i].op)
    BY <1>8 DEF Homes
  <2>1. /\ (q[i].Qa # NoTag) <=> (q[i].tag \in P!Waiting(ps[LS]) \cup P!Running(ps[LS]))
        /\ q[i].done <=> \/ q[i].tag \in P!Finished(ps[LS])
                         \/ ~Pending(r, q[i].tag, q[i].op)
    BY DEF Serving, Homes
  <2>2. /\ P!Waiting(ps2[LS]) = P!Waiting(ps[LS])
        /\ P!Running(ps2[LS]) = P!Running(ps[LS]) \ over
        /\ P!Finished(ps2[LS])
             = P!Finished(ps[LS]) \cup {q[j].tag : j \in {k \in DOMAIN q : q[k].tag \in ended}}
    BY <1>0, <1>10, <1>12, <1>15 DEF StepsTo, over
  <2>3. over \cap P!Waiting(ps[LS]) = {}
    BY <1>0, <1>1 DEF PathOK, PathDistinct, over
  <2>4. queue[i].Qa = (IF q[i].tag \in over THEN NoTag ELSE q[i].Qa)
    BY <1>3, <1>4, <1>8
  <2> HIDE DEF ended
  <2>5. queue[i].tag = q[i].tag /\ queue[i].op = q[i].op
        /\ queue[i].done = (q[i].done \/ q[i].tag \in ended)
    BY <1>8
  <2>6. q[i].tag \in ended => Pending(r, q[i].tag, q[i].op)
    BY <1>7
  <2>7. (queue[i].Qa # NoTag)
          <=> (queue[i].tag \in P!Waiting(ps2[LS]) \cup P!Running(ps2[LS]))
    BY <2>1, <2>2, <2>3, <2>4, <2>5
  <2>8. queue[i].tag \in P!Finished(ps2[LS])
          <=> q[i].tag \in P!Finished(ps[LS]) \/ q[i].tag \in ended
    BY <2>2, <2>5
  <2>9. queue[i].done <=> \/ queue[i].tag \in P!Finished(ps2[LS])
                          \/ ~Pending(r, queue[i].tag, queue[i].op)
    BY <2>1, <2>5, <2>6, <2>8
  <2> QED
    BY <2>7, <2>9
<1>19. UnitsOK(us2, c.units[LS], queue)
  <2> DEFINE step(u) == [tag |-> u.tag, left |-> u.left - 1]
  <2>1. ASSUME NEW u \in stay
        PROVE  /\ stepped(u) = step(u) /\ u.tag \in Nat /\ u.left - 1 \in Nat \ {0} /\ u \in us
    <3>1. u \in [tag: Nat, left: Nat \ {0}] /\ u.left # 1
      BY <1>0 DEF UnitsOK
    <3> QED
      BY <3>1
  <2>2. us2 = {step(u) : u \in stay}
    <3> HIDE DEF stepped, step, stay
    <3> QED
      BY <2>1
  <2>3. ASSUME NEW u \in stay
        PROVE  step(u) \in [tag: Nat, left: Nat \ {0}] /\ step(u).tag = u.tag
    BY <2>1
  <2>4. IsFiniteSet(us2) /\ Cardinality(us2) <= c.units[LS]
    <3>1. /\ IsFiniteSet(stay) /\ Cardinality(stay) <= Cardinality(us)
          /\ Cardinality(us) <= c.units[LS] /\ IsFiniteSet(us)
      BY <1>0, FS_Subset DEF UnitsOK
    <3> DEFINE f == [u \in stay |-> step(u)]
    <3> HIDE DEF stay, step, us2
    <3>2. f = [u \in stay |-> f[u]] /\ \A u \in stay : f[u] = step(u)
      OBVIOUS
    <3> HIDE DEF f
    <3>3. us2 = {f[u] : u \in stay}
      BY <2>2, <3>2
    <3>4. IsFiniteSet(us2) /\ Cardinality(us2) <= Cardinality(stay)
      BY <3>1, <3>2, <3>3, ImageFits
    <3> QED
      BY <1>0, <3>1, <3>4, FS_CardinalityType
  <2>5. ASSUME NEW u \in stay PROVE \E i \in DOMAIN queue : Serves(step(u), queue[i])
    <3>1. PICK i \in DOMAIN q : Serves(u, q[i])
      BY <1>5
    <3>2. u.tag \notin ended
      BY <1>0 DEF UnitsOK
    <3>3. queue[i].Qa = NoTag
      BY <1>4, <1>8, <3>1 DEF Serves
    <3> HIDE DEF ended
    <3> QED
      BY <1>8, <2>3, <3>1, <3>2, <3>3 DEF Serves
  <2>6. ASSUME NEW u \in stay, NEW v \in stay, step(u).tag = step(v).tag PROVE u = v
    BY <1>0, <2>3, <2>6 DEF UnitsOK
  <2> HIDE DEF stay, step, us2
  <2> QED
    BY <2>2, <2>3, <2>4, <2>5, <2>6 DEF UnitsOK
<1>20. Waits(ps2, queue, r)
  <2>1. \A t \in ExecType : ps2[t].stations = ps[t].stations
    BY <1>12 DEF StepsTo
  <2> QED
    BY <1>8, <2>1 DEF Serving, Waits
<1> HIDE DEF us2
<1>21. Serving(c, r, ps2, queue, us2)
  BY <1>8, <1>12, <1>13, <1>16, <1>17, <1>18, <1>19, <1>20 DEF Serving
<1> QED
  BY <1>21 DEF ServingExecuted, ps2, queue, us2, results, brought, addressed, generated,
               address, over

-----------------------------------------------------------------------------
(* The inductive invariant.                                                *)

\* A decoded instruction.
Fetched == [op: Op \cup {"INVALID"}, rd: Reg, rs1: Reg, rs2: Reg, rs3: Reg, imm: Int,
            rm: 0..7, sew: Sew, pc: Word, pred_taken: BOOLEAN, pred_target: Word]

\* The stages before dispatch.
FrontOK ==
  /\ program \in Programs /\ config \in Configs
  /\ stage \in {"idle", "commit", "writeback", "issue", "dispatch", "front",
                "check_halt", "crashed"}
  /\ committed \in 0..config.width
  /\ pc \in Word
  /\ fetch_q \in Seq(Nat) /\ Len(fetch_q) <= config.width
  /\ \A i \in DOMAIN fetch_q : fetch_q[i] + WORD_BYTES <= end
  /\ decode_q \in Seq(Fetched)
  /\ \A i \in DOMAIN decode_q : VsetOK(decode_q[i])
  /\ ~halted => Len(decode_q) <= config.width
  /\ stage = "front" => halted
  /\ fetch_stopped \in BOOLEAN /\ halted \in BOOLEAN

\* What the branch predictor keeps.
Predictor ==
  [kind: B!PredictorKind, btb: [0..(TableSize - 1) -> [pc: Word \cup {-1}, target: Word]],
   history: [0..(TableSize - 1) -> 0..3]]

\* The predictor, and the counters of the statistics.
CountersOK ==
  /\ bp \in Predictor
  /\ instruction_count \in Nat /\ branch_count \in Nat /\ mispred_count \in Nat

\* The architectural state.
ArchOK ==
  /\ regs \in [RegFiles -> [Reg -> Value]]
  /\ vl \in VLength /\ vsew \in Sew \ {0}
  /\ mem \in MemState

\* What is ready has a result of its operation.
ResultsOK == \A i \in DOMAIN rob : rob[i].ready => ResultOK(rob[i].op, rob[i].result)

\* Between one writeback and the next there is nothing to resolve.
SettledOutside == stage \notin {"writeback", "crashed"} => R!Settled

\* What is behind dispatch serves the re-order buffer.
Served == Serving(config, rob, paths, lsq, lsus)

\* The inductive invariant.
CpuInv ==
  /\ FrontOK /\ CountersOK /\ ArchOK
  /\ RenameInv /\ ResultsOK /\ SettledOutside
  /\ Served

-----------------------------------------------------------------------------
\* What the parts of the invariant say of a state.
LEMMA ConfigFacts ==
  ASSUME FrontOK
  PROVE  /\ config \in Configuration
         /\ config.width \in Nat /\ config.rs_size \in Nat /\ config.lsq_size \in Nat
         /\ \A t \in ExecType : config.units[t] \in Nat
         /\ program \in Seq(Instruction) /\ Len(program) \in Nat
         /\ end = 4 * Len(program) /\ end < WordMod
         /\ \A i \in 1..Len(program) : program[i] \in Instruction /\ VsetOK(program[i])
<1>1. config \in Configuration
  BY CpuAssumption DEF FrontOK
<1>2. /\ program \in Seq(Instruction) /\ WORD_BYTES * Len(program) < WordMod
      /\ \A i \in DOMAIN program : VsetOK(program[i])
  BY CpuAssumption DEF FrontOK, VsetOK
<1>3. /\ Len(program) \in Nat /\ DOMAIN program = 1..Len(program)
      /\ \A i \in 1..Len(program) : program[i] \in Instruction
  BY <1>2, LenProperties, ElementOfSeq
<1>4. end = 4 * Len(program) /\ end < WordMod
  BY <1>2 DEF end, WORD_BYTES
<1> QED
  BY <1>1, <1>2, <1>3, <1>4 DEF Configuration

\* What the re-order buffer is made of.
LEMMA RobFacts ==
  ASSUME RenameInv
  PROVE  /\ rob \in Seq(R!ROBEntry) /\ Tagged(rob) /\ next_tag \in Nat
         /\ DOMAIN rob = 1..Len(rob) /\ Len(rob) \in Nat
         /\ \A i \in DOMAIN rob : /\ rob[i] \in R!ROBEntry /\ rob[i].tag \in Nat
                                  /\ rob[i].op \in Op /\ rob[i].tag < next_tag
<1>1. /\ rob \in Seq(R!ROBEntry) /\ next_tag \in Nat
      /\ R!TagsGrow(rob) /\ \A i \in DOMAIN rob : rob[i].tag < next_tag
  BY DEF RenameInv, R!RenameTypeOK, R!TagsOrdered
<1>2. /\ DOMAIN rob = 1..Len(rob) /\ Len(rob) \in Nat
      /\ \A i \in DOMAIN rob : rob[i] \in R!ROBEntry
  BY <1>1, LenProperties, ElementOfSeq
<1>3. \A i \in DOMAIN rob : rob[i].tag \in Nat /\ rob[i].op \in Op
  BY <1>2, OperationsAgree DEF R!ROBEntry
<1> QED
  BY <1>1, <1>2, <1>3, GrowthAgrees DEF Tagged

\* Nothing to resolve, of a queue.
Settles(q) ==
  \A i \in DOMAIN q :
    ~ /\ q[i].op \in Ctrl /\ ~q[i].ctrl_handled /\ q[i].ready
      /\ \A j \in 1..(i-1) : q[j].op \in Ctrl => q[j].ctrl_handled

\* Settles is Rename's Settled, of a queue.
LEMMA SettlesRob == R!Settled <=> Settles(rob)
BY OperationsAgree DEF R!Settled, R!Resolvable, Settles

\* Settles of the next re-order buffer.
LEMMA SettlesNext == R!Settled' <=> Settles(rob')
BY OperationsAgree DEF R!Settled, R!Resolvable, Settles

\* A step that leaves the re-order buffer and what serves it alone.
LEMMA BackUnchanged ==
  ASSUME CpuInv, UNCHANGED <<config, rob, next_tag, rat, vec_tag, paths, lsq, lsus>>
  PROVE  RenameInv' /\ ResultsOK' /\ Served' /\ (R!Settled => R!Settled')
<1>1. RenameInv'
  BY DEF CpuInv, RenameInv, R!RenameTypeOK, R!TagsOrdered, R!RatYoungest, R!VecTagYoungest,
         R!ResolvedInOrder
<1>2. ResultsOK' /\ Served'
  BY DEF CpuInv, ResultsOK, Served
<1>3. R!Settled => R!Settled'
  BY SettlesRob, SettlesNext
<1> QED
  BY <1>1, <1>2, <1>3

-----------------------------------------------------------------------------
(* The steps that touch the front of the pipeline only.                    *)

\* The start of a step.
LEMMA StartStepInv == CpuInv /\ StartStep => CpuInv'
<1> SUFFICES ASSUME CpuInv, StartStep PROVE CpuInv'
  OBVIOUS
<1>1. RenameInv' /\ ResultsOK' /\ Served' /\ (R!Settled => R!Settled')
  BY BackUnchanged DEF StartStep, inputVars, renameVars, execVars
<1>2. FrontOK'
  <2>1. 0 \in 0..config.width
    BY ConfigFacts DEF CpuInv
  <2> QED
    BY <2>1 DEF CpuInv, FrontOK, StartStep, inputVars, frontVars, end
<1>3. CountersOK' /\ ArchOK'
  BY DEF CpuInv, CountersOK, ArchOK, StartStep, archVars, controlVars
<1>4. SettledOutside'
  BY <1>1 DEF CpuInv, SettledOutside, StartStep
<1> QED
  BY <1>1, <1>2, <1>3, <1>4 DEF CpuInv

\* Commit ends at the width, at what is not ready, or at an access not done.
LEMMA CommitEndsInv == CpuInv /\ CommitEnds => CpuInv'
<1> SUFFICES ASSUME CpuInv, CommitEnds PROVE CpuInv'
  OBVIOUS
<1>1. RenameInv' /\ ResultsOK' /\ Served' /\ (R!Settled => R!Settled')
  BY BackUnchanged DEF CommitEnds, inputVars, renameVars, execVars
<1>2. FrontOK'
  BY DEF CpuInv, FrontOK, CommitEnds, inputVars, frontVars, end
<1>3. CountersOK' /\ ArchOK'
  BY DEF CpuInv, CountersOK, ArchOK, CommitEnds, archVars, controlVars
<1>4. SettledOutside'
  BY DEF SettledOutside, CommitEnds
<1> QED
  BY <1>1, <1>2, <1>3, <1>4 DEF CpuInv

\* An exception of the vector unit, or a load that is not survived, ends the run.
LEMMA ExecuteThrowsInv == CpuInv /\ ExecuteThrows => CpuInv'
<1> SUFFICES ASSUME CpuInv, ExecuteThrows PROVE CpuInv'
  OBVIOUS
<1>1. RenameInv' /\ ResultsOK' /\ Served'
  BY BackUnchanged DEF ExecuteThrows, inputVars, renameVars, execVars
<1>2. FrontOK'
  BY DEF CpuInv, FrontOK, ExecuteThrows, inputVars, frontVars, end
<1>3. CountersOK' /\ ArchOK'
  BY DEF CpuInv, CountersOK, ArchOK, ExecuteThrows, archVars, controlVars
<1>4. SettledOutside'
  BY DEF SettledOutside, ExecuteThrows
<1> QED
  BY <1>1, <1>2, <1>3, <1>4 DEF CpuInv

\* A full structure stalls dispatch.
LEMMA DispatchStallsInv == CpuInv /\ DispatchStalls => CpuInv'
<1> SUFFICES ASSUME CpuInv, DispatchStalls PROVE CpuInv'
  OBVIOUS
<1>1. RenameInv' /\ ResultsOK' /\ Served' /\ (R!Settled => R!Settled')
  BY BackUnchanged DEF DispatchStalls, inputVars, renameVars, execVars
<1>2. FrontOK'
  BY DEF CpuInv, FrontOK, DispatchStalls, inputVars, frontVars, end
<1>3. CountersOK' /\ ArchOK'
  BY DEF CpuInv, CountersOK, ArchOK, DispatchStalls, archVars, controlVars
<1>4. SettledOutside'
  BY <1>1 DEF CpuInv, SettledOutside, DispatchStalls
<1> QED
  BY <1>1, <1>2, <1>3, <1>4 DEF CpuInv

\* An invalid instruction halts the CPU.
LEMMA DispatchInvalidInv == CpuInv /\ DispatchInvalid => CpuInv'
<1> SUFFICES ASSUME CpuInv, DispatchInvalid PROVE CpuInv'
  OBVIOUS
<1>1. RenameInv' /\ ResultsOK' /\ Served' /\ (R!Settled => R!Settled')
  BY BackUnchanged DEF DispatchInvalid, inputVars, renameVars, execVars
<1>2. FrontOK'
  BY DEF CpuInv, FrontOK, DispatchInvalid, inputVars, frontVars, end
<1>3. CountersOK' /\ ArchOK'
  BY DEF CpuInv, CountersOK, ArchOK, DispatchInvalid, archVars, controlVars
<1>4. SettledOutside'
  BY <1>1 DEF CpuInv, SettledOutside, DispatchInvalid
<1> QED
  BY <1>1, <1>2, <1>3, <1>4 DEF CpuInv

\* The check for the end of the program.
LEMMA CheckHaltInv == CpuInv /\ CheckHalt => CpuInv'
<1> SUFFICES ASSUME CpuInv, CheckHalt PROVE CpuInv'
  OBVIOUS
<1>1. RenameInv' /\ ResultsOK' /\ Served' /\ (R!Settled => R!Settled')
  BY BackUnchanged DEF CheckHalt, inputVars, renameVars, execVars
<1>2. halted' \in BOOLEAN /\ (~halted' => ~halted)
  BY DEF CpuInv, FrontOK, CheckHalt
<1>3. FrontOK'
  BY <1>2 DEF CpuInv, FrontOK, CheckHalt, inputVars, frontVars, end
<1>4. CountersOK' /\ ArchOK'
  BY DEF CpuInv, CountersOK, ArchOK, CheckHalt, archVars, controlVars
<1>5. SettledOutside'
  BY <1>1 DEF CpuInv, SettledOutside, CheckHalt
<1> QED
  BY <1>1, <1>3, <1>4, <1>5 DEF CpuInv

-----------------------------------------------------------------------------
(* Commit.                                                                 *)

\* What the load/store queue answers about.
LEMMA HeadOfQueue ==
  ASSUME CpuInv, lsq # <<>>
  PROVE  /\ Head(lsq) = lsq[1] /\ 1 \in DOMAIN lsq /\ AccessOK(Head(lsq))
         /\ Head(lsq) \in L!LSQEntry /\ Stored(Head(lsq), mem) \in MemState
<1>1. QueueOK(lsq, config.lsq_size) /\ mem \in MemState
  BY DEF CpuInv, Served, Serving, ArchOK
<1>2. lsq \in Seq(AnAccess) /\ Tagged(lsq)
  BY <1>1, QueueTagged DEF QueueOK
<1>3. Head(lsq) = lsq[1] /\ 1 \in DOMAIN lsq
  BY <1>2, TailOf
<1>4. AccessOK(Head(lsq))
  BY <1>1, <1>3 DEF QueueOK
<1>5. Head(lsq) \in L!LSQEntry /\ Head(lsq).sew = op_sew(Head(lsq).op)
  BY <1>4, AccessIsEntry DEF AccessOK
<1> QED
  BY <1>1, <1>3, <1>4, <1>5, StoredKeeps

\* A write to a register file leaves values in it.
LEMMA WrittenIsRegs ==
  ASSUME NEW f \in [RegFiles -> [Reg -> Value]], NEW t \in RegType, NEW r \in Reg,
         NEW v \in Value
  PROVE  Written(f, t, r, v) \in [RegFiles -> [Reg -> Value]]
<1>1. scalar(v[0]) \in Value
  <2>1. 0 \in Lane /\ v[0] \in Word
    BY MemoryAssumption DEF Lane, Value
  <2> QED
    BY <2>1, ScalarValue
<1> DEFINE w == IF t = "VECTOR" THEN v ELSE scalar(v[0])
<1>2. w \in Value
  BY <1>1
<1>3. Written(f, t, r, v) = IF t = "NONE" \/ (t = "INT" /\ r = 0) THEN f ELSE [f EXCEPT ![t][r] = w]
  BY DEF Written
<1> HIDE DEF w
<1>4. CASE t = "NONE" \/ (t = "INT" /\ r = 0)
  BY <1>3, <1>4
<1>5. CASE ~(t = "NONE" \/ (t = "INT" /\ r = 0))
  <2>1. t \in RegFiles
    BY <1>5 DEF RegType
  <2>2. [f EXCEPT ![t][r] = w] \in [RegFiles -> [Reg -> Value]]
    BY <1>2, <2>1
  <2> QED
    BY <1>3, <1>5, <2>2
<1> QED
  BY <1>4, <1>5

\* A store outside memory throws, and ends the run.
LEMMA CommitThrowsInv == CpuInv /\ CommitThrows => CpuInv'
<1> SUFFICES ASSUME CpuInv, CommitThrows PROVE CpuInv'
  OBVIOUS
<1>1. RenameInv' /\ ResultsOK' /\ Served'
  BY BackUnchanged DEF CommitThrows, inputVars, renameVars, execVars
<1>2. FrontOK'
  BY DEF CpuInv, FrontOK, CommitThrows, inputVars, frontVars, end
<1>3. CountersOK'
  BY DEF CpuInv, CountersOK, CommitThrows, controlVars
<1>4. lsq # <<>>
  BY DEF CommitThrows, LsqAnswer
<1>5. Stored(Head(lsq), mem) \in MemState
  BY <1>4, HeadOfQueue
<1>6. mem' \in MemState
  <2>1. mem \in MemState
    BY DEF CpuInv, ArchOK
  <2> QED
    BY <1>5, <2>1 DEF CommitThrows
<1>7. ArchOK'
  BY <1>6 DEF CpuInv, ArchOK, CommitThrows
<1>8. SettledOutside'
  BY DEF SettledOutside, CommitThrows
<1> QED
  BY <1>1, <1>2, <1>3, <1>7, <1>8 DEF CpuInv

\* The head's result becomes architectural, and its access leaves the queue.
LEMMA CommitOneInv == CpuInv /\ CommitOne => CpuInv'
<1> SUFFICES ASSUME CpuInv, CommitOne PROVE CpuInv'
  OBVIOUS
<1> DEFINE e == Head(rob)
<1>1. /\ rob \in Seq(R!ROBEntry) /\ Tagged(rob) /\ rob # <<>> /\ e.ready
      /\ config \in Configuration
  BY RobFacts, ConfigFacts DEF CpuInv, CommitOne, CanCommit
<1>2. /\ e = rob[1] /\ 1 \in DOMAIN rob
      /\ Tail(rob) \in Seq(R!ROBEntry) /\ Len(Tail(rob)) = Len(rob) - 1
      /\ \A i \in DOMAIN Tail(rob) : i + 1 \in DOMAIN rob /\ Tail(rob)[i] = rob[i + 1]
      /\ \A i \in DOMAIN rob : i # 1 => i - 1 \in DOMAIN Tail(rob) /\ Tail(rob)[i - 1] = rob[i]
  BY <1>1, TailOf
<1>3. e \in R!ROBEntry /\ e.op \in Op /\ e.rd \in Reg /\ ResultOK(e.op, e.result)
  <2>1. e \in R!ROBEntry /\ e.op \in Op
    BY <1>2, RobFacts DEF CpuInv
  <2>2. ResultOK(e.op, e.result)
    BY <1>1, <1>2 DEF CpuInv, ResultsOK
  <2> QED
    BY <2>1, <2>2 DEF R!ROBEntry
<1>4. /\ rob' = Tail(rob) /\ UNCHANGED <<config, program, stage, paths, lsus>>
      /\ lsq' = IF IsAccess(e.op) THEN Tail(lsq) ELSE lsq
  BY DEF CommitOne, R!Retire, inputVars
<1>5. IsAccess(e.op) => lsq # <<>> /\ Head(lsq).tag = e.tag /\ Head(lsq).done
  BY DEF CommitOne, LsqAnswer
<1> HIDE DEF e
<1>6. RenameInv'
  BY RenameActions DEF CpuInv, CommitOne
<1>7. Served'
  <2>1. Serving(config, Tail(rob), paths, IF IsAccess(Head(rob).op) THEN Tail(lsq) ELSE lsq, lsus)
    BY <1>1, <1>5, ServingRetire DEF CpuInv, Served, e
  <2>2. Serving(config', rob', paths', lsq', lsus')
    BY <1>4, <2>1 DEF e
  <2> QED
    BY <2>2 DEF Served
<1>8. ResultsOK'
  <2>1. ASSUME NEW i \in DOMAIN Tail(rob), Tail(rob)[i].ready
        PROVE  ResultOK(Tail(rob)[i].op, Tail(rob)[i].result)
    BY <1>2, <2>1 DEF CpuInv, ResultsOK
  <2> QED
    BY <1>4, <2>1 DEF ResultsOK
<1>9. SettledOutside'
  <2>1. stage = "commit" /\ Settles(rob)
    BY SettlesRob DEF CpuInv, SettledOutside, CommitOne
  <2>2. e.op \in Ctrl => e.ctrl_handled
    <3>1. \A j \in 1..0 : rob[j].op \in Ctrl => rob[j].ctrl_handled
      OBVIOUS
    <3> QED
      BY <1>1, <1>2, <2>1, <3>1 DEF Settles, e
  <2>3. Settles(Tail(rob))
    <3> SUFFICES ASSUME NEW i \in DOMAIN Tail(rob),
                        Tail(rob)[i].op \in Ctrl, ~Tail(rob)[i].ctrl_handled, Tail(rob)[i].ready,
                        \A j \in 1..(i-1) : Tail(rob)[j].op \in Ctrl => Tail(rob)[j].ctrl_handled
                 PROVE  FALSE
      BY DEF Settles
    <3>1. /\ i + 1 \in DOMAIN rob /\ Tail(rob)[i] = rob[i + 1] /\ i \in 1..(Len(rob) - 1)
          /\ Len(rob) \in Nat /\ DOMAIN Tail(rob) = 1..(Len(rob) - 1) /\ DOMAIN rob = 1..Len(rob)
      <4>1. DOMAIN Tail(rob) = 1..Len(Tail(rob)) /\ Len(rob) \in Nat /\ DOMAIN rob = 1..Len(rob)
        BY <1>1, <1>2, LenProperties
      <4> QED
        BY <1>2, <4>1
    <3>2. ASSUME NEW j \in 1..i, rob[j].op \in Ctrl PROVE rob[j].ctrl_handled
      <4>1. CASE j = 1
        BY <1>2, <2>2, <3>2, <4>1
      <4>2. CASE j # 1
        <5>1. j - 1 \in 1..(i-1) /\ j \in DOMAIN rob
          BY <3>1, <4>2
        <5>2. Tail(rob)[j - 1] = rob[j]
          BY <1>2, <4>2, <5>1
        <5> QED
          BY <3>2, <5>1, <5>2
      <4> QED
        BY <4>1, <4>2
    <3>3. \A j \in 1..((i + 1) - 1) : rob[j].op \in Ctrl => rob[j].ctrl_handled
      BY <3>1, <3>2
    <3> QED
      BY <2>1, <3>1, <3>3 DEF Settles
  <2>4. R!Settled'
    BY <1>4, <2>3, SettlesNext
  <2> QED
    BY <2>4 DEF SettledOutside
<1>10. FrontOK'
  <2>1. committed < config.width /\ committed' = committed + 1
    BY DEF CommitOne, CanCommit
  <2>2. committed' \in 0..config.width
    BY <1>1, <2>1, ConfigFacts DEF CpuInv, FrontOK
  <2> QED
    BY <1>4, <2>2 DEF CpuInv, FrontOK, CommitOne, frontVars, end
<1>11. CountersOK'
  BY DEF CpuInv, CountersOK, CommitOne, controlVars
<1>12. ArchOK'
  <2>1. /\ e.result.value \in Value /\ e.result.vl \in VLength /\ e.result.sew \in Sew
        /\ e.op \in VSet => e.result.sew # 0
    BY <1>3 DEF ResultOK
  <2>2. dst_type(e.op) \in RegType
    BY DEF dst_type, RegType, RegFiles
  <2>3. /\ regs' = Written(regs, dst_type(e.op), e.rd, e.result.value)
        /\ regs \in [RegFiles -> [Reg -> Value]]
    BY DEF CommitOne, e, CpuInv, ArchOK
  <2>4. regs' \in [RegFiles -> [Reg -> Value]]
    BY <1>3, <2>1, <2>2, <2>3, WrittenIsRegs
  <2>5. vl' \in VLength /\ vsew' \in Sew \ {0}
    BY <2>1 DEF CommitOne, e, CpuInv, ArchOK
  <2>6. mem' \in MemState
    <3>1. CASE e.op \in Store
      <4>1. IsAccess(e.op)
        BY <3>1 DEF IsAccess
      <4>2. Stored(Head(lsq), mem) \in MemState
        BY <1>5, <4>1, HeadOfQueue
      <4> QED
        BY <3>1, <4>2 DEF CommitOne, e
    <3>2. CASE e.op \notin Store
      BY <3>2 DEF CommitOne, e, CpuInv, ArchOK
    <3> QED
      BY <3>1, <3>2
  <2> QED
    BY <2>4, <2>5, <2>6 DEF ArchOK
<1> QED
  BY <1>6, <1>7, <1>8, <1>9, <1>10, <1>11, <1>12 DEF CpuInv

-----------------------------------------------------------------------------
(* Writeback: results, and the control instructions they resolve.          *)

\* w is r but for its entry i, which is e.
Replaces(w, r, i, e) ==
  /\ DOMAIN w = DOMAIN r /\ w[i] = e
  /\ \A j \in DOMAIN r : j # i => w[j] = r[j]

\* An entry replaced by one of its tag and operation.
LEMMA ReplacedEntry ==
  ASSUME NEW r \in Seq(R!ROBEntry), Tagged(r), NEW i \in DOMAIN r, NEW e, NEW w,
         Replaces(w, r, i, e), e.tag = r[i].tag, e.op = r[i].op
  PROVE  /\ \A tag, op : Entry(w, tag, op) <=> Entry(r, tag, op)
         /\ (e.ready <=> r[i].ready) => \A tag, op : Pending(w, tag, op) <=> Pending(r, tag, op)
         /\ e.ready => \A tag, op : Pending(w, tag, op) <=> Pending(r, tag, op) /\ tag # r[i].tag
<1>1. \A tag, op : Entry(w, tag, op) <=> Entry(r, tag, op)
  <2>1. \A j \in DOMAIN r : w[j].tag = r[j].tag /\ w[j].op = r[j].op
    BY DEF Replaces
  <2> QED
    BY <2>1 DEF Entry, Replaces
<1>2. ASSUME e.ready <=> r[i].ready
      PROVE  \A tag, op : Pending(w, tag, op) <=> Pending(r, tag, op)
  <2>1. \A j \in DOMAIN r : w[j].tag = r[j].tag /\ w[j].op = r[j].op /\ (w[j].ready <=> r[j].ready)
    BY <1>2 DEF Replaces
  <2> QED
    BY <2>1 DEF Pending, Replaces
<1>3. ASSUME e.ready
      PROVE  \A tag, op : Pending(w, tag, op) <=> Pending(r, tag, op) /\ tag # r[i].tag
  <2>1. \A j \in DOMAIN r : /\ w[j].tag = r[j].tag /\ w[j].op = r[j].op
                            /\ ~w[j].ready <=> ~r[j].ready /\ r[j].tag # r[i].tag
    <3> SUFFICES ASSUME NEW j \in DOMAIN r
                 PROVE  /\ w[j].tag = r[j].tag /\ w[j].op = r[j].op
                        /\ ~w[j].ready <=> ~r[j].ready /\ r[j].tag # r[i].tag
      OBVIOUS
    <3>1. r[j].tag = r[i].tag => j = i
      BY OneEntry
    <3> QED
      BY <1>3, <3>1 DEF Replaces
  <2> QED
    BY <2>1 DEF Pending, Replaces
<1> QED
  BY <1>1, <1>2, <1>3

\* EXCEPT replaces one entry.
LEMMA ReplacesExcept ==
  ASSUME NEW r \in Seq(R!ROBEntry), NEW i \in DOMAIN r, NEW e
  PROVE  Replaces([r EXCEPT ![i] = e], r, i, e)
<1>1. r = [j \in DOMAIN r |-> r[j]]
  BY LenProperties
<1> QED
  BY <1>1 DEF Replaces

\* A result of the pipeline's is one of Rename's.
LEMMA ResultIsResult ==
  ASSUME NEW op, NEW res, ResultOK(op, res)
  PROVE  res \in R!Result
<1>1. VLength \subseteq 0..VectorBits /\ Sew \subseteq 0..VectorBits
  <2>1. VectorBits \in Nat /\ VectorBits >= 32 /\ VectorBits \div 8 <= VectorBits
    BY WordAssumption
  <2> QED
    BY <2>1 DEF VLength, Sew
<1> QED
  BY <1>1 DEF ResultOK, R!Result

\* The result that is written back first, of those there are.
LEMMA ChosenResult ==
  ASSUME CpuInv, Completed # {},
         NEW x, x = CHOOSE y \in Completed : \A z \in Completed : y.tag <= z.tag
  PROVE  x \in Completed /\ ResultIn(x) /\ Pending(rob, x.tag, x.op)
<1>1. ASSUME NEW y \in Completed PROVE ResultIn(y) /\ Pending(rob, y.tag, y.op)
  BY RobFacts, ResultServes DEF CpuInv, Served, Completed
<1> DEFINE tags == {y.tag : y \in Completed}
<1>2. tags \subseteq Nat /\ tags # {}
  BY <1>1 DEF ResultIn
<1>3. \E n \in tags : \A m \in tags : n <= m
  BY <1>2, LeastNat
<1>4. \E y \in Completed : \A z \in Completed : y.tag <= z.tag
  BY <1>3
<1> HIDE DEF tags
<1>5. x \in Completed
  BY <1>4
<1> QED
  BY <1>1, <1>5

\* The oldest result that has come back is written and broadcast.
LEMMA WritebackOneInv == CpuInv /\ WritebackOne => CpuInv'
<1> SUFFICES ASSUME CpuInv, WritebackOne PROVE CpuInv'
  OBVIOUS
<1> DEFINE x == CHOOSE y \in Completed : \A z \in Completed : y.tag <= z.tag
           taken == [t \in ExecType |-> P!Taken(paths[t], x)]
           wakes == writes_register(x.op)
<1>1. /\ IF \E i \in DOMAIN rob : rob[i].tag = x.tag
           THEN \E i \in DOMAIN rob : rob[i].tag = x.tag /\ R!Update(i, x.result)
           ELSE UNCHANGED renameVars
      /\ paths' = IF wakes THEN [t \in ExecType |-> P!Woken(taken[t], x)] ELSE taken
      /\ lsq' = IF wakes THEN L!Woken(lsq, x.tag, x.result.value) ELSE lsq
      /\ UNCHANGED <<config, lsus>>
  BY DEF WritebackOne, inputVars
<1>2. x \in Completed /\ ResultIn(x) /\ Pending(rob, x.tag, x.op)
  BY ChosenResult DEF WritebackOne
<1>3. /\ rob \in Seq(R!ROBEntry) /\ Tagged(rob) /\ config \in Configuration
      /\ \A i \in DOMAIN rob : rob[i] \in R!ROBEntry
  BY RobFacts, ConfigFacts DEF CpuInv
<1> HIDE DEF x
<1>4. PICK i \in DOMAIN rob : rob[i].tag = x.tag /\ R!Update(i, x.result)
  BY <1>1, <1>2 DEF Pending
<1>5. rob[i].op = x.op /\ ~rob[i].ready
  BY <1>2, <1>3, <1>4, OneEntry DEF Pending
<1> DEFINE e == [rob[i] EXCEPT !.ready = TRUE, !.result = x.result]
<1>6. e.tag = x.tag /\ e.op = x.op /\ e.ready /\ e.result = x.result
  BY <1>3, <1>4, <1>5 DEF R!ROBEntry
<1>7. rob' = [rob EXCEPT ![i] = e]
  BY <1>4 DEF R!Update
<1> HIDE DEF e
<1>8. Replaces(rob', rob, i, e)
  BY <1>3, <1>7, ReplacesExcept
<1>9. RenameInv'
  <2>1. x.result \in R!Result
    BY <1>2, ResultIsResult DEF ResultIn
  <2> QED
    BY <1>4, <2>1, RenameActions DEF CpuInv
<1>10. Served'
  <2>1. \A tag, op : /\ Entry(rob', tag, op) <=> Entry(rob, tag, op)
                     /\ Pending(rob', tag, op) <=> Pending(rob, tag, op) /\ tag # x.tag
    BY <1>3, <1>4, <1>5, <1>6, <1>8, ReplacedEntry
  <2>2. Serving(config, rob',
                IF wakes THEN [t \in ExecType |-> P!Woken(taken[t], x)] ELSE taken,
                IF wakes THEN L!Woken(lsq, x.tag, x.result.value) ELSE lsq, lsus)
    BY <1>2, <1>3, <2>1, ServingWriteback DEF CpuInv, Served, Completed
  <2>3. Serving(config', rob', paths', lsq', lsus')
    BY <1>1, <2>2
  <2> QED
    BY <2>3 DEF Served
<1>11. ResultsOK'
  <2>1. ResultOK(x.op, x.result)
    BY <1>2 DEF ResultIn
  <2> QED
    BY <1>6, <1>8, <2>1 DEF CpuInv, ResultsOK, Replaces
<1>12. FrontOK'
  BY DEF CpuInv, FrontOK, WritebackOne, inputVars, frontVars, end
<1>13. CountersOK' /\ ArchOK'
  BY DEF CpuInv, CountersOK, ArchOK, WritebackOne, archVars, controlVars
<1>14. SettledOutside'
  BY DEF SettledOutside, WritebackOne
<1> QED
  BY <1>9, <1>10, <1>11, <1>12, <1>13, <1>14 DEF CpuInv

\* What the predictor learns, it keeps in its tables.
LEMMA TrainKeeps ==
  ASSUME CpuInv, NEW i \in DOMAIN rob, rob[i].ready, Train(rob[i])
  PROVE  bp' \in Predictor /\ branch_count' \in Nat
<1> DEFINE e == rob[i]
           target == ToWord(R!Target(e))
<1>1. e \in R!ROBEntry /\ ResultOK(e.op, e.result)
  BY RobFacts DEF CpuInv, ResultsOK
<1>2. e.pc \in Word /\ e.result.jumped \in BOOLEAN /\ e.result.target \in Word /\ e.pc \in Int
  BY <1>1, WordSizes DEF R!ROBEntry, ResultOK, Word
<1>3. R!Target(e) \in Int
  BY <1>2, OperationsAgree DEF R!Target, Word
<1>4. target \in Word
  BY <1>3, ToWordIsWord
<1> DEFINE n == B!index(e.pc)
<1>5. n \in 0..(TableSize - 1)
  <2>1. TableSize \in Nat \ {0} /\ e.pc \div 4 \in Int
    BY <1>2, CpuAssumption
  <2> QED
    BY <2>1 DEF B!index, B!WORD_BYTES
<1>6. /\ bp \in Predictor /\ branch_count \in Nat
  BY DEF CpuInv, CountersOK
<1> HIDE DEF e, target, n
<1>7. B!TrainedDirection(bp, e.pc, e.result.jumped) \in 0..3
  <2>1. bp.history[n] \in 0..3
    BY <1>5, <1>6 DEF Predictor
  <2> QED
    BY <2>1 DEF B!TrainedDirection, n
<1> DEFINE learnt == IF e.op \in B!Branch THEN B!TrainedDirection(bp, e.pc, e.result.jumped)
                     ELSE bp.history[n]
           entry  == IF e.result.jumped THEN [pc |-> e.pc, target |-> target] ELSE bp.btb[n]
<1>8. learnt \in 0..3 /\ entry \in [pc: Word \cup {-1}, target: Word]
  BY <1>2, <1>4, <1>5, <1>6, <1>7 DEF Predictor
<1>9. bp' = [bp EXCEPT !.history = [bp.history EXCEPT ![n] = learnt],
                       !.btb = [bp.btb EXCEPT ![n] = entry]]
  <2>1. bp' = B!Updated(bp, e.pc, e.op, e.result.jumped, target)
    BY DEF Train, e, target
  <2>2. bp = [kind |-> bp.kind, btb |-> bp.btb, history |-> bp.history]
    BY <1>6 DEF Predictor
  <2> QED
    BY <1>5, <1>6, <2>1, <2>2 DEF B!Updated, n, Predictor
<1> HIDE DEF learnt, entry
<1>10. bp' \in Predictor
  BY <1>5, <1>6, <1>8, <1>9 DEF Predictor
<1>11. branch_count' \in Nat
  BY <1>6 DEF Train
<1> QED
  BY <1>10, <1>11

\* A control instruction of the re-order buffer that can be resolved is marked.
LEMMA Marked ==
  ASSUME CpuInv, NEW i \in DOMAIN rob, R!Resolvable(i), NEW w,
         w = [rob EXCEPT ![i].ctrl_handled = TRUE]
  PROVE  /\ w \in Seq(R!ROBEntry) /\ Tagged(w) /\ DOMAIN w = DOMAIN rob
         /\ w[i].tag = rob[i].tag /\ w[i].ctrl_handled
         /\ \A j \in DOMAIN rob : j # i => w[j] = rob[j]
         /\ \A j \in DOMAIN w : w[j].ready => ResultOK(w[j].op, w[j].result)
         /\ \A tag, op : /\ Entry(w, tag, op) <=> Entry(rob, tag, op)
                         /\ Pending(w, tag, op) <=> Pending(rob, tag, op)
<1> DEFINE e == [rob[i] EXCEPT !.ctrl_handled = TRUE]
<1>1. /\ rob \in Seq(R!ROBEntry) /\ Tagged(rob)
      /\ \A j \in DOMAIN rob : rob[j] \in R!ROBEntry
  BY RobFacts DEF CpuInv
<1>2. /\ e \in R!ROBEntry /\ e.tag = rob[i].tag /\ e.op = rob[i].op /\ e.ctrl_handled
      /\ e.ready = rob[i].ready /\ e.result = rob[i].result
  BY <1>1 DEF R!ROBEntry
<1>3. w = [rob EXCEPT ![i] = e]
  OBVIOUS
<1> HIDE DEF e
<1>4. w \in Seq(R!ROBEntry) /\ Len(w) = Len(rob)
  <2>1. i \in 1..Len(rob)
    BY <1>1, LenProperties
  <2>2. rob \in Seq(R!ROBEntry) /\ e \in R!ROBEntry
    BY <1>1, <1>2
  <2>3. /\ [rob EXCEPT ![i] = e] \in Seq(R!ROBEntry)
        /\ Len([rob EXCEPT ![i] = e]) = Len(rob)
    BY ONLY <2>1, <2>2, ExceptSeq
  <2> QED
    BY <1>3, <2>3
<1>5. Replaces(w, rob, i, e)
  <2>1. rob \in Seq(R!ROBEntry) /\ i \in DOMAIN rob
    BY <1>1
  <2>2. Replaces([rob EXCEPT ![i] = e], rob, i, e)
    BY ONLY <2>1, ReplacesExcept
  <2> QED
    BY <1>3, <2>2
<1>6. \A j \in DOMAIN rob : /\ w[j].tag = rob[j].tag /\ w[j].op = rob[j].op
                            /\ w[j].ready = rob[j].ready /\ w[j].result = rob[j].result
  BY <1>2, <1>5 DEF Replaces
<1>7. Tagged(w)
  BY <1>1, <1>4, <1>5, <1>6 DEF Tagged, TagsGrow, Replaces
<1>8. \A tag, op : /\ Entry(w, tag, op) <=> Entry(rob, tag, op)
                   /\ Pending(w, tag, op) <=> Pending(rob, tag, op)
  BY <1>1, <1>2, <1>5, ReplacedEntry
<1>9. \A j \in DOMAIN w : w[j].ready => ResultOK(w[j].op, w[j].result)
  BY <1>5, <1>6 DEF CpuInv, ResultsOK, Replaces
<1> QED
  BY <1>2, <1>4, <1>5, <1>6, <1>7, <1>8, <1>9 DEF Replaces

\* A control instruction that is predicted right only trains the predictor.
LEMMA ResolveOneInv == CpuInv /\ ResolveOne => CpuInv'
<1> SUFFICES ASSUME CpuInv, ResolveOne PROVE CpuInv'
  OBVIOUS
<1>1. PICK i \in DOMAIN rob : R!Resolve(i) /\ Train(rob[i])
  BY DEF ResolveOne
<1>2. R!Resolvable(i) /\ rob[i].ready /\ rob' = [rob EXCEPT ![i].ctrl_handled = TRUE]
  BY <1>1 DEF R!Resolve, R!Resolvable
<1>3. /\ DOMAIN rob' = DOMAIN rob
      /\ \A j \in DOMAIN rob' : rob'[j].ready => ResultOK(rob'[j].op, rob'[j].result)
      /\ \A tag, op : /\ Entry(rob', tag, op) <=> Entry(rob, tag, op)
                      /\ Pending(rob', tag, op) <=> Pending(rob, tag, op)
  BY <1>2, Marked
<1>4. RenameInv'
  BY <1>1, RenameActions DEF CpuInv
<1>5. ResultsOK'
  BY <1>3 DEF ResultsOK
<1>6. Served'
  <2>1. Serving(config, rob', paths, lsq, lsus)
    BY <1>3, ServingSame DEF CpuInv, Served
  <2>2. Serving(config', rob', paths', lsq', lsus')
    BY <2>1 DEF ResolveOne, inputVars, execVars
  <2> QED
    BY <2>2 DEF Served
<1>7. FrontOK'
  BY DEF CpuInv, FrontOK, ResolveOne, inputVars, frontVars, end
<1>8. CountersOK'
  <2>1. bp' \in Predictor /\ branch_count' \in Nat
    BY <1>1, <1>2, TrainKeeps
  <2> QED
    BY <2>1 DEF CpuInv, CountersOK, ResolveOne
<1>9. ArchOK'
  BY DEF CpuInv, ArchOK, ResolveOne, archVars
<1>10. SettledOutside'
  BY DEF SettledOutside, ResolveOne
<1> QED
  BY <1>4, <1>5, <1>6, <1>7, <1>8, <1>9, <1>10 DEF CpuInv

\* A misprediction flushes what is younger, in every structure.
LEMMA FlushMispredictedInv == CpuInv /\ FlushMispredicted => CpuInv'
<1> SUFFICES ASSUME CpuInv, FlushMispredicted PROVE CpuInv'
  OBVIOUS
<1>1. PICK i \in DOMAIN rob :
        /\ R!Mispredict(i) /\ Train(rob[i]) /\ flush(rob[i].tag)
        /\ mispred_count' = mispred_count + (IF rob[i].op \in Branch THEN 1 ELSE 0)
        /\ pc' = ToWord(R!Target(rob[i]))
  BY DEF FlushMispredicted
<1> DEFINE tag == rob[i].tag
           q == [rob EXCEPT ![i].ctrl_handled = TRUE]
<1>2. /\ R!Resolvable(i) /\ rob[i].ready /\ rob' = FlushAfter(q, tag)
  BY <1>1, FlushesAgree DEF R!Mispredict, R!Resolvable
<1>3. /\ rob \in Seq(R!ROBEntry) /\ Tagged(rob) /\ config \in Configuration /\ tag \in Nat
      /\ rob[i] \in R!ROBEntry
  BY RobFacts, ConfigFacts DEF CpuInv
<1>4. /\ q \in Seq(R!ROBEntry) /\ Tagged(q) /\ DOMAIN q = DOMAIN rob
      /\ q[i].tag = tag /\ q[i].ctrl_handled
      /\ \A j \in DOMAIN rob : j # i => q[j] = rob[j]
      /\ \A j \in DOMAIN q : q[j].ready => ResultOK(q[j].op, q[j].result)
      /\ \A t, op : /\ Entry(q, t, op) <=> Entry(rob, t, op)
                    /\ Pending(q, t, op) <=> Pending(rob, t, op)
  BY <1>2, Marked
<1> HIDE DEF q
<1>5. /\ \A j \in DOMAIN rob' : j \in DOMAIN q /\ q[j].tag <= tag /\ rob'[j] = q[j]
      /\ \A t, op : Entry(rob', t, op) <=> Entry(q, t, op) /\ t <= tag
      /\ \A t, op : Pending(rob', t, op) <=> Pending(q, t, op) /\ t <= tag
  BY <1>2, <1>3, <1>4, Kept
<1>6. RenameInv'
  BY <1>1, RenameActions DEF CpuInv
<1>7. ResultsOK'
  BY <1>4, <1>5 DEF ResultsOK
<1>8. Served'
  <2>1. \A t, op : /\ Entry(rob', t, op) <=> Entry(rob, t, op) /\ t <= tag
                   /\ Pending(rob', t, op) <=> Pending(rob, t, op) /\ t <= tag
    BY <1>4, <1>5
  <2>2. Serving(config, rob', [t \in ExecType |-> P!Flushed(paths[t], tag)],
                FlushAfter(lsq, tag), {u \in lsus : u.tag <= tag})
    BY <1>3, <2>1, ServingFlush DEF CpuInv, Served
  <2>3. Serving(config', rob', paths', lsq', lsus')
    BY <1>1, <2>2, FlushesAgree DEF FlushMispredicted, flush, inputVars
  <2> QED
    BY <2>3 DEF Served
<1>9. FrontOK'
  <2>1. pc' \in Word
    <3>1. ResultOK(rob[i].op, rob[i].result)
      BY <1>2 DEF CpuInv, ResultsOK
    <3>2. R!Target(rob[i]) \in Int
      BY <1>3, <3>1, OperationsAgree, WordSizes DEF R!Target, R!ROBEntry, ResultOK, Word
    <3> QED
      BY <1>1, <3>2, ToWordIsWord
  <2>2. fetch_q' = <<>> /\ decode_q' = <<>>
    BY <1>1 DEF flush
  <2>3. /\ <<>> \in Seq(Nat) /\ <<>> \in Seq(Fetched) /\ Len(<<>>) = 0 /\ DOMAIN <<>> = {}
        /\ 0 <= config.width
    BY ConfigFacts DEF CpuInv
  <2> QED
    BY <2>1, <2>2, <2>3 DEF CpuInv, FrontOK, FlushMispredicted, inputVars, end
<1>10. CountersOK'
  <2>1. bp' \in Predictor /\ branch_count' \in Nat
    BY <1>1, <1>2, TrainKeeps
  <2> QED
    BY <1>1, <2>1 DEF CpuInv, CountersOK, FlushMispredicted
<1>11. ArchOK'
  BY DEF CpuInv, ArchOK, FlushMispredicted, archVars
<1>12. SettledOutside'
  <2>1. \A j \in DOMAIN rob' : rob'[j].op \in Ctrl => rob'[j].ctrl_handled
    <3> SUFFICES ASSUME NEW j \in DOMAIN rob', rob'[j].op \in Ctrl PROVE rob'[j].ctrl_handled
      OBVIOUS
    <3>1. j \in DOMAIN rob /\ q[j].tag <= tag /\ rob'[j] = q[j]
      BY <1>4, <1>5
    <3>2. CASE j = i
      BY <1>4, <3>1, <3>2
    <3>3. CASE j # i
      <4>1. rob[j].tag <= rob[i].tag /\ rob[j].tag \in Nat /\ rob[i].tag \in Nat
            /\ i \in Nat /\ j \in Nat /\ i >= 1 /\ j >= 1
        BY <1>3, <1>4, <3>1, <3>3 DEF Tagged
      <4>2. ~(i < j)
        BY <1>3, <3>1, <4>1 DEF Tagged, TagsGrow
      <4>3. j \in 1..(i-1)
        BY <3>3, <4>1, <4>2
      <4> QED
        BY <1>2, <1>4, <3>1, <3>3, <4>3, OperationsAgree DEF R!Resolvable
    <3> QED
      BY <3>2, <3>3
  <2>2. Settles(rob')
    BY <2>1 DEF Settles
  <2> QED
    BY <2>2, SettlesNext DEF SettledOutside
<1> QED
  BY <1>6, <1>7, <1>8, <1>9, <1>10, <1>11, <1>12 DEF CpuInv

-----------------------------------------------------------------------------
(* Execute and issue.                                                      *)

\* A cycle of every unit.
LEMMA ExecuteInv == CpuInv /\ Execute => CpuInv'
<1> SUFFICES ASSUME CpuInv, Execute PROVE CpuInv'
  OBVIOUS
<1>1. /\ Tagged(rob) /\ config \in Configuration /\ vl \in VLength /\ mem \in MemState
      /\ Serving(config, rob, paths, lsq, lsus)
  BY RobFacts, ConfigFacts DEF CpuInv, ArchOK, Served
<1>2. UNCHANGED <<config, rob, next_tag, rat, vec_tag>>
  BY DEF Execute, inputVars, renameVars
<1> DEFINE generated == {[tag |-> e.tag, Va |-> EffectiveAddress(e), vl |-> e.vl] :
                           e \in P!Finishing(paths["LOADSTORE"])}
           queue(found) == L!Completed(L!Addressed(lsq, generated), Ended, Beyond(mem, found))
           results(found, t) ==
             IF t = "LOADSTORE"
               THEN {AccessResult(queue(found)[i]) :
                       i \in {j \in DOMAIN queue(found) : queue(found)[j].tag \in Ended}}
               ELSE {Result(e) : e \in P!Finishing(paths[t])}
<1>3. PICK found \in IF WildLoad THEN Byte ELSE {0} :
        /\ paths' = [t \in ExecType |-> P!Executed(paths[t], results(found, t))]
        /\ lsq' = queue(found)
        /\ lsus' = {[u EXCEPT !.left = @ - 1] : u \in {v \in lsus : v.left # 1}}
  BY DEF Execute
<1>4. found \in Byte
  BY MemoryAssumption DEF Byte
<1>5. Served'
  <2>1. ServingExecuted(config, rob, paths, lsq, lsus, mem, found)
    BY <1>1, <1>4, ServingExecute
  <2>2. Serving(config, rob, [t \in ExecType |-> P!Executed(paths[t], results(found, t))],
                queue(found),
                {[u EXCEPT !.left = @ - 1] : u \in {v \in lsus : v.left # 1}})
    BY <2>1 DEF ServingExecuted, Ended
  <2>3. Serving(config', rob', paths', lsq', lsus')
    BY <1>2, <1>3, <2>2
  <2> QED
    BY <2>3 DEF Served
<1>6. RenameInv'
  BY <1>2 DEF CpuInv, RenameInv, R!RenameTypeOK, R!TagsOrdered, R!RatYoungest,
              R!VecTagYoungest, R!ResolvedInOrder
<1>7. ResultsOK'
  BY <1>2 DEF CpuInv, ResultsOK
<1>8. FrontOK'
  BY DEF CpuInv, FrontOK, Execute, inputVars, frontVars, end
<1>9. CountersOK' /\ ArchOK'
  BY DEF CpuInv, CountersOK, ArchOK, Execute, archVars, controlVars
<1>10. SettledOutside'
  <2>1. R!Settled
    BY DEF Execute
  <2>2. R!Settled'
    BY <1>2, <2>1, SettlesRob, SettlesNext
  <2> QED
    BY <2>2 DEF SettledOutside
<1> QED
  BY <1>5, <1>6, <1>7, <1>8, <1>9, <1>10 DEF CpuInv

\* What has its operands is issued.
LEMMA IssueInv == CpuInv /\ Issue => CpuInv'
<1> SUFFICES ASSUME CpuInv, Issue PROVE CpuInv'
  OBVIOUS
<1>1. /\ Tagged(rob) /\ config \in Configuration
      /\ Serving(config, rob, paths, lsq, lsus)
  BY RobFacts, ConfigFacts DEF CpuInv, Served
<1>2. UNCHANGED <<config, rob, next_tag, rat, vec_tag>>
  BY DEF Issue, inputVars, renameVars
<1> DEFINE chosen == L!ToIssue(lsq, config.units["LOADSTORE"] - Cardinality(lsus))
<1>3. /\ paths' = [t \in ExecType |-> P!Issued(paths[t], config.units[t], t = "LOADSTORE")]
      /\ lsq' = L!Issued(lsq, chosen)
      /\ lsus' = lsus \cup {[tag |-> lsq[i].tag, left |-> cycles(lsq[i].op)] : i \in chosen}
  BY DEF Issue
<1>4. Served'
  <2>1. ServingIssued(config, rob, paths, lsq, lsus)
    BY <1>1, ServingIssue
  <2>2. Serving(config, rob,
                [t \in ExecType |-> P!Issued(paths[t], config.units[t], t = "LOADSTORE")],
                L!Issued(lsq, chosen),
                lsus \cup {[tag |-> lsq[i].tag, left |-> cycles(lsq[i].op)] : i \in chosen})
    BY <2>1 DEF ServingIssued
  <2>3. Serving(config', rob', paths', lsq', lsus')
    BY <1>2, <1>3, <2>2
  <2> QED
    BY <2>3 DEF Served
<1>5. RenameInv'
  BY <1>2 DEF CpuInv, RenameInv, R!RenameTypeOK, R!TagsOrdered, R!RatYoungest,
              R!VecTagYoungest, R!ResolvedInOrder
<1>6. ResultsOK'
  BY <1>2 DEF CpuInv, ResultsOK
<1>7. FrontOK'
  BY DEF CpuInv, FrontOK, Issue, inputVars, frontVars, end
<1>8. CountersOK' /\ ArchOK'
  BY DEF CpuInv, CountersOK, ArchOK, Issue, archVars, controlVars
<1>9. SettledOutside'
  <2>1. R!Settled
    BY DEF CpuInv, SettledOutside, Issue
  <2>2. R!Settled'
    BY <1>2, <2>1, SettlesRob, SettlesNext
  <2> QED
    BY <2>2 DEF SettledOutside
<1> QED
  BY <1>4, <1>5, <1>6, <1>7, <1>8, <1>9 DEF CpuInv

-----------------------------------------------------------------------------
(* Dispatch.                                                               *)

\* The entry a tag in an alias table, or that of the vset, names.
LEMMA RobGet ==
  ASSUME CpuInv, NEW i \in DOMAIN rob
  PROVE  rob_get(rob[i].tag) = rob[i]
<1>1. Tagged(rob)
  BY RobFacts DEF CpuInv
<1>2. \A j \in DOMAIN rob : rob[j].tag = rob[i].tag => j = i
  BY <1>1, OneEntry
<1> QED
  BY <1>2 DEF rob_get

\* An operand is there, or an older instruction brings it.
LEMMA OperandOK ==
  ASSUME CpuInv, NEW t \in RegType, NEW r \in Reg
  PROVE  /\ Operand(t, r).V \in Value /\ Operand(t, r).Q \in Tag
         /\ Brings(rob, Operand(t, r).Q, next_tag)
<1>1. scalar(0) \in Value
  BY ScalarValue, WordSizes DEF Word
<1>2. CASE t = "NONE" \/ (t = "INT" /\ r = 0)
  BY <1>1, <1>2 DEF Operand, Tag, Brings
<1>3. CASE ~(t = "NONE" \/ (t = "INT" /\ r = 0))
  <2>1. t \in RegFiles
    BY <1>3 DEF RegType
  <2>2. CASE rat[t][r] = NoTag
    <3>1. regs[t][r] \in Value
      BY <2>1 DEF CpuInv, ArchOK
    <3> QED
      BY <1>3, <2>2, <3>1 DEF Operand, Tag, Brings
  <2>3. CASE rat[t][r] # NoTag
    <3>1. PICK i \in DOMAIN rob : rat[t][r] = rob[i].tag /\ R!Names(rob[i], t, r)
      BY <2>1, <2>3, OperationsAgree DEF CpuInv, RenameInv, R!RatYoungest
    <3> DEFINE e == rob[i]
    <3>2. rob_get(rat[t][r]) = e
      BY <3>1, RobGet
    <3>3. /\ e.tag \in Nat /\ e.op \in Op /\ e.tag < next_tag
          /\ e.ready => e.result.value \in Value
      BY RobFacts DEF CpuInv, ResultsOK, ResultOK
    <3>4. writes_register(e.op)
      BY <1>3, <3>1, DestinationsAgree DEF R!Names, writes_register
    <3>5. ~e.ready => Pending(rob, e.tag, e.op)
      BY DEF Pending
    <3> HIDE DEF e
    <3>6. CASE e.ready
      <4>1. Operand(t, r) = [V |-> e.result.value, Q |-> NoTag]
        BY <1>3, <2>3, <3>2, <3>6 DEF Operand
      <4> QED
        BY <3>3, <3>6, <4>1 DEF Tag, Brings
    <3>7. CASE ~e.ready
      <4>1. Operand(t, r) = [V |-> scalar(0), Q |-> e.tag]
        BY <1>3, <2>3, <3>1, <3>2, <3>7 DEF Operand, e
      <4> QED
        BY <1>1, <3>3, <3>4, <3>5, <3>7, <4>1 DEF Tag, Brings
    <3> QED
      BY <3>6, <3>7
  <2> QED
    BY <2>2, <2>3
<1> QED
  BY <1>2, <1>3

\* So are the vector length and the element width.
LEMMA VectorConfigOK ==
  ASSUME CpuInv, NEW d, d.sew \in Sew
  PROVE  LET v == VectorConfig(d)
         IN  /\ v.vl \in VLength /\ v.sew \in Sew /\ v.Q \in Tag
             /\ Brings(rob, v.Q, next_tag)
             /\ d.op \in VSet => v.sew = d.sew /\ v.Q = NoTag
<1> DEFINE now == [vl |-> vl, sew |-> IF d.op \in VSet THEN d.sew ELSE vsew, Q |-> NoTag]
<1>1. vl \in VLength /\ vsew \in Sew
  BY DEF CpuInv, ArchOK
<1>2. CASE d.op \notin Vec \ VSet \/ vec_tag = NoTag
  <2>1. VectorConfig(d) = now
    BY <1>2 DEF VectorConfig
  <2> QED
    BY <1>1, <2>1 DEF Tag, Brings
<1>3. CASE ~(d.op \notin Vec \ VSet \/ vec_tag = NoTag)
  <2>1. PICK i \in DOMAIN rob : vec_tag = rob[i].tag /\ rob[i].op \in VSet
    BY <1>3, OperationsAgree DEF CpuInv, RenameInv, R!VecTagYoungest
  <2> DEFINE e == rob[i]
  <2>2. rob_get(vec_tag) = e
    BY <2>1, RobGet
  <2>3. /\ e.tag \in Nat /\ e.op \in Op /\ e.tag < next_tag
        /\ e.ready => e.result.vl \in VLength /\ e.result.sew \in Sew
    BY RobFacts DEF CpuInv, ResultsOK, ResultOK
  <2>4. writes_register(e.op)
    BY <2>1 DEF writes_register, dst_type, VSet
  <2>5. ~e.ready => Pending(rob, e.tag, e.op)
    BY DEF Pending
  <2>6. vec_tag = e.tag
    BY <2>1
  <2> HIDE DEF e
  <2>7. CASE e.ready
    <3>1. VectorConfig(d) = [vl |-> e.result.vl, sew |-> e.result.sew, Q |-> NoTag]
      BY <1>3, <2>2, <2>7 DEF VectorConfig
    <3> QED
      BY <1>3, <2>3, <2>7, <3>1 DEF Tag, Brings
  <2>8. CASE ~e.ready
    <3>1. VectorConfig(d) = [vl |-> vl, sew |-> vsew, Q |-> e.tag]
      BY <1>3, <2>2, <2>6, <2>8 DEF VectorConfig
    <3> QED
      BY <1>1, <1>3, <2>3, <2>4, <2>5, <2>8, <3>1 DEF Tag, Brings
  <2> QED
    BY <2>7, <2>8
<1> QED
  BY <1>2, <1>3

\* The entry that is dispatched.
LEMMA RSEntryOK ==
  ASSUME CpuInv, NEW d \in Fetched, d.op \in Op, VsetOK(d), NEW e, e = RSEntry(d)
  PROVE  /\ StationOK(e) /\ e.tag = next_tag /\ e.op = d.op
         /\ Brings(rob, e.Qj, e.tag) /\ Brings(rob, e.Qk, e.tag)
         /\ Brings(rob, e.Ql, e.tag) /\ Brings(rob, e.Qv, e.tag)
<1> DEFINE j == Operand(src_type(d.op, 0), d.rs1)
           k == Operand(src_type(d.op, 1), d.rs2)
           l == Operand(src_type(d.op, 2), d.rs3)
           v == VectorConfig(d)
<1>1. e = [op |-> d.op, Vj |-> j.V, Vk |-> k.V, Vl |-> l.V, Qj |-> j.Q, Qk |-> k.Q,
           Ql |-> l.Q, Qv |-> v.Q, pc |-> d.pc, imm |-> d.imm, rm |-> d.rm, vl |-> v.vl,
           sew |-> v.sew, tag |-> next_tag]
  BY DEF RSEntry
<1>2. \A op, i : src_type(op, i) \in RegType
  BY DEF src_type, RegType, RegFiles
<1>3. /\ d.rs1 \in Reg /\ d.rs2 \in Reg /\ d.rs3 \in Reg /\ d.sew \in Sew
      /\ d.pc \in Word /\ d.imm \in Int /\ d.rm \in 0..7
  BY DEF Fetched
<1>4. /\ j.V \in Value /\ j.Q \in Tag /\ Brings(rob, j.Q, next_tag)
      /\ k.V \in Value /\ k.Q \in Tag /\ Brings(rob, k.Q, next_tag)
      /\ l.V \in Value /\ l.Q \in Tag /\ Brings(rob, l.Q, next_tag)
  BY <1>2, <1>3, OperandOK
<1>5. /\ v.vl \in VLength /\ v.sew \in Sew /\ v.Q \in Tag /\ Brings(rob, v.Q, next_tag)
      /\ d.op \in VSet => v.sew = d.sew /\ v.Q = NoTag
  BY <1>3, VectorConfigOK
<1>6. next_tag \in Nat
  BY RobFacts DEF CpuInv
<1> HIDE DEF j, k, l, v
<1>7. e \in Station
  BY <1>1, <1>3, <1>4, <1>5, <1>6 DEF Station
<1>8. VsetOK(e) /\ (e.op \in VSet => e.Qv = NoTag)
  BY <1>1, <1>5 DEF VsetOK
<1> QED
  BY <1>1, <1>4, <1>5, <1>7, <1>8 DEF StationOK

\* An instruction enters the re-order buffer and its path, or the queue as well.
LEMMA DispatchOneInv == CpuInv /\ DispatchOne => CpuInv'
<1> SUFFICES ASSUME CpuInv, DispatchOne PROVE CpuInv'
  OBVIOUS
<1> DEFINE d == Head(decode_q)
           e == RSEntry(d)
           n == R!NewEntry(d, next_tag)
<1>1. /\ decode_q # <<>> /\ d.op # "INVALID" /\ CanAllocate(d) /\ R!Allocate(d)
      /\ paths' = [paths EXCEPT ![exec_type(d.op)] = P!Dispatched(@, config.rs_size, e)]
      /\ lsq' = IF IsAccess(d.op)
                  THEN Append(lsq, L!NewAccess(d.op, e.tag, e.Vk, e.Qk, e.vl)) ELSE lsq
      /\ decode_q' = Tail(decode_q)
      /\ UNCHANGED <<config, lsus, stage>>
  BY DEF DispatchOne, inputVars
<1>2. /\ rob \in Seq(R!ROBEntry) /\ Tagged(rob) /\ config \in Configuration
      /\ next_tag \in Nat /\ DOMAIN rob = 1..Len(rob) /\ Len(rob) \in Nat
      /\ \A i \in DOMAIN rob : rob[i].tag < next_tag
  BY RobFacts, ConfigFacts DEF CpuInv
<1>3. /\ decode_q \in Seq(Fetched) /\ \A i \in DOMAIN decode_q : VsetOK(decode_q[i])
      /\ Len(decode_q) \in Nat /\ DOMAIN decode_q = 1..Len(decode_q)
      /\ Len(decode_q) # 0
  <2>1. decode_q \in Seq(Fetched) /\ \A i \in DOMAIN decode_q : VsetOK(decode_q[i])
    BY DEF CpuInv, FrontOK
  <2> QED
    BY <1>1, <2>1, LenProperties, EmptySeq
<1>4. d = decode_q[1] /\ 1 \in DOMAIN decode_q /\ d \in Fetched /\ VsetOK(d)
  <2>1. d = decode_q[1] /\ 1 \in 1..Len(decode_q)
    BY <1>1, <1>3, HeadTailProperties
  <2> QED
    BY <1>3, <2>1, ElementOfSeq
<1>5. /\ d.op \in Op /\ d.rd \in Reg /\ d.pc \in Word
      /\ d.pred_taken \in BOOLEAN /\ d.pred_target \in Word
  BY <1>1, <1>4 DEF Fetched
<1> HIDE DEF d
<1>6. /\ StationOK(e) /\ e.tag = next_tag /\ e.op = d.op
      /\ Brings(rob, e.Qj, e.tag) /\ Brings(rob, e.Qk, e.tag)
      /\ Brings(rob, e.Ql, e.tag) /\ Brings(rob, e.Qv, e.tag)
  BY <1>4, <1>5, RSEntryOK
<1> HIDE DEF e
<1>7. /\ n \in R!ROBEntry /\ n.tag = next_tag /\ n.op = d.op /\ ~n.ready /\ rob' = Append(rob, n)
  <2>1. n = [op |-> d.op, rd |-> d.rd, pc |-> d.pc, pred_taken |-> d.pred_taken,
             pred_target |-> d.pred_target, tag |-> next_tag, ready |-> FALSE,
             ctrl_handled |-> FALSE, result |-> <<>>]
    BY DEF R!NewEntry
  <2>2. rob' = Append(rob, n)
    BY <1>1 DEF R!Allocate
  <2> HIDE DEF n
  <2>3. n \in R!ROBEntry
    BY <1>2, <1>5, <2>1, OperationsAgree DEF R!ROBEntry
  <2> QED
    BY <2>1, <2>2, <2>3
<1> HIDE DEF n
<1>8. /\ DOMAIN rob' = DOMAIN rob \cup {Len(rob) + 1} /\ Len(rob) + 1 \notin DOMAIN rob
      /\ \A i \in DOMAIN rob : rob'[i] = rob[i]
      /\ rob'[Len(rob) + 1] = n
      /\ \A tag, op : Entry(rob', tag, op) <=> Entry(rob, tag, op) \/ (tag = n.tag /\ op = n.op)
      /\ \A tag, op : Pending(rob', tag, op) <=>
                        Pending(rob, tag, op) \/ (tag = n.tag /\ op = n.op /\ ~n.ready)
  BY <1>2, <1>5, <1>7, Appended
<1>9. RenameInv'
  <2>1. RP!IsDecoded(d)
    BY <1>5, OperationsAgree DEF RP!IsDecoded
  <2> QED
    BY <1>1, <2>1, RenameActions DEF CpuInv
<1>10. ResultsOK'
  BY <1>7, <1>8 DEF CpuInv, ResultsOK
<1>11. Served'
  <2>1. \A tag, op :
          /\ Entry(rob', tag, op) <=> Entry(rob, tag, op) \/ (tag = e.tag /\ op = e.op)
          /\ Pending(rob', tag, op) <=> Pending(rob, tag, op) \/ (tag = e.tag /\ op = e.op)
    BY <1>6, <1>7, <1>8
  <2>2. /\ P!can_allocate(paths[exec_type(e.op)], config.rs_size)
        /\ IsAccess(e.op) => Len(lsq) < config.lsq_size
    BY <1>1, <1>6 DEF CanAllocate
  <2>3. Serving(config, rob, paths, lsq, lsus) /\ \A i \in DOMAIN rob : rob[i].tag < e.tag
    BY <1>2, <1>6 DEF CpuInv, Served
  <2>4. ServingDispatched(config, rob', paths, lsq, lsus, e)
    BY <1>2, <1>6, <2>1, <2>2, <2>3, ServingDispatch
  <2>5. Serving(config, rob',
          [paths EXCEPT ![exec_type(e.op)] =
             P!Dispatched(paths[exec_type(e.op)], config.rs_size, e)],
          IF IsAccess(e.op) THEN Append(lsq, L!NewAccess(e.op, e.tag, e.Vk, e.Qk, e.vl)) ELSE lsq,
          lsus)
    BY <2>4 DEF ServingDispatched
  <2>6. Serving(config', rob', paths', lsq', lsus')
    BY <1>1, <1>6, <2>5
  <2> QED
    BY <2>6 DEF Served
<1>12. FrontOK'
  <2>1. /\ Tail(decode_q) \in Seq(Fetched) /\ Len(Tail(decode_q)) = Len(decode_q) - 1
        /\ DOMAIN Tail(decode_q) = 1..Len(Tail(decode_q))
        /\ \A i \in 1..Len(Tail(decode_q)) : Tail(decode_q)[i] = decode_q[i + 1]
    BY <1>1, <1>3, HeadTailProperties, LenProperties
  <2>2. \A i \in DOMAIN Tail(decode_q) : VsetOK(Tail(decode_q)[i])
    <3> SUFFICES ASSUME NEW i \in 1..Len(Tail(decode_q)) PROVE VsetOK(Tail(decode_q)[i])
      BY <2>1
    <3>1. i + 1 \in DOMAIN decode_q
      BY <1>3, <2>1
    <3> QED
      BY <1>3, <2>1, <3>1
  <2>3. config.width \in Nat
    BY ConfigFacts DEF CpuInv
  <2>4. ~halted => Len(Tail(decode_q)) <= config.width
    BY <1>3, <2>1, <2>3 DEF CpuInv, FrontOK
  <2> QED
    BY <1>1, <2>1, <2>2, <2>4 DEF CpuInv, FrontOK, DispatchOne, inputVars, end
<1>13. CountersOK' /\ ArchOK'
  BY DEF CpuInv, CountersOK, ArchOK, DispatchOne, archVars, controlVars
<1>14. SettledOutside'
  <2>1. Settles(rob)
    BY SettlesRob DEF CpuInv, SettledOutside, DispatchOne
  <2>2. Settles(rob')
    <3> SUFFICES ASSUME NEW i \in DOMAIN rob',
                        rob'[i].op \in Ctrl, ~rob'[i].ctrl_handled, rob'[i].ready,
                        \A j \in 1..(i-1) : rob'[j].op \in Ctrl => rob'[j].ctrl_handled
                 PROVE  FALSE
      BY DEF Settles
    <3>1. i \in DOMAIN rob /\ rob'[i] = rob[i]
      BY <1>7, <1>8
    <3>2. \A j \in 1..(i-1) : j \in DOMAIN rob
      BY <1>2, <3>1
    <3>3. \A j \in 1..(i-1) : rob[j].op \in Ctrl => rob[j].ctrl_handled
      BY <1>8, <3>2
    <3> QED
      BY <2>1, <3>1, <3>3 DEF Settles
  <2> QED
    BY <2>2, SettlesNext DEF SettledOutside
<1> QED
  BY <1>9, <1>10, <1>11, <1>12, <1>13, <1>14 DEF CpuInv

-----------------------------------------------------------------------------
(* Decode and fetch.                                                       *)

\* An address that has been fetched is that of an instruction of the program.
LEMMA DecodeOK ==
  ASSUME CpuInv, NEW a \in Nat, a + WORD_BYTES <= end
  PROVE  Decode(a) \in Fetched /\ VsetOK(Decode(a))
<1> DEFINE i == a \div WORD_BYTES + 1
           d == program[i]
           guess == IF d.op \in Ctrl THEN B!predict(bp, a, d.op, d.imm)
                    ELSE [taken |-> FALSE, target |-> ToWord(a + WORD_BYTES)]
<1>1. /\ Len(program) \in Nat /\ end = 4 * Len(program) /\ end < WordMod
      /\ \A k \in 1..Len(program) : program[k] \in Instruction /\ VsetOK(program[k])
  BY ConfigFacts DEF CpuInv
<1>2. i \in 1..Len(program) /\ a \in Word /\ a \in Int
  BY <1>1, WordSizes DEF WORD_BYTES, Word
<1> HIDE DEF i
<1>3. d \in Instruction /\ VsetOK(d)
  BY <1>1, <1>2
<1>4. /\ d.op \in Op \cup {"INVALID"} /\ d.rd \in Reg /\ d.rs1 \in Reg /\ d.rs2 \in Reg
      /\ d.rs3 \in Reg /\ d.imm \in Int /\ d.rm \in 0..7 /\ d.sew \in Sew
  BY <1>3 DEF Instruction, Sew
<1> HIDE DEF d
<1>5. guess.taken \in BOOLEAN /\ guess.target \in Word
  <2>1. \A j \in Int : (a + j) % WordMod \in Word
    BY <1>2, ToWordIsWord DEF ToWord
  <2>2. ToWord(a + WORD_BYTES) \in Word
    BY <1>2, ToWordIsWord DEF WORD_BYTES
  <2>3. B!index(a) \in 0..(TableSize - 1)
    <3>1. TableSize \in Nat \ {0} /\ a \div 4 \in Int
      BY <1>2, CpuAssumption
    <3> QED
      BY <3>1 DEF B!index, B!WORD_BYTES
  <2>4. bp.btb[B!index(a)].target \in Word
    BY <2>3 DEF CpuInv, CountersOK, Predictor
  <2>5. /\ B!predict(bp, a, d.op, d.imm).taken \in BOOLEAN
        /\ B!predict(bp, a, d.op, d.imm).target \in Word
    <3> DEFINE p == B!predict(bp, a, d.op, d.imm)
    <3>1. \/ p = [taken |-> FALSE, target |-> (a + 4) % WordMod]
          \/ p = [taken |-> TRUE, target |-> (a + d.imm) % WordMod]
          \/ p = [taken |-> TRUE, target |-> bp.btb[B!index(a)].target]
      BY Zenon DEF B!predict, B!WORD_BYTES
    <3> HIDE DEF p
    <3>2. \E target \in Word : \/ p = [taken |-> TRUE, target |-> target]
                               \/ p = [taken |-> FALSE, target |-> target]
      <4>1. (a + 4) % WordMod \in Word /\ (a + d.imm) % WordMod \in Word
        BY <1>4, <2>1
      <4> QED
        BY <2>4, <3>1, <4>1, Zenon
    <3>3. p.taken \in BOOLEAN /\ p.target \in Word
      <4>1. PICK target \in Word : \/ p = [taken |-> TRUE, target |-> target]
                                   \/ p = [taken |-> FALSE, target |-> target]
        BY <3>2
      <4>2. CASE p = [taken |-> TRUE, target |-> target]
        BY <4>2
      <4>3. CASE p = [taken |-> FALSE, target |-> target]
        BY <4>3
      <4> QED
        BY <4>1, <4>2, <4>3
    <3> QED
      BY <3>3 DEF p
  <2> QED
    BY <2>2, <2>5
<1> HIDE DEF guess
<1>6. Decode(a) = [op |-> d.op, rd |-> d.rd, rs1 |-> d.rs1, rs2 |-> d.rs2, rs3 |-> d.rs3,
                   imm |-> d.imm, rm |-> d.rm, sew |-> d.sew, pc |-> a,
                   pred_taken |-> guess.taken, pred_target |-> guess.target]
  BY DEF Decode, d, i, guess
<1> DEFINE f == Decode(a)
<1>7. f = [op |-> d.op, rd |-> d.rd, rs1 |-> d.rs1, rs2 |-> d.rs2, rs3 |-> d.rs3,
                   imm |-> d.imm, rm |-> d.rm, sew |-> d.sew, pc |-> a,
                   pred_taken |-> guess.taken, pred_target |-> guess.target]
  BY <1>6
<1> HIDE DEF f
<1>8. f \in Fetched
  BY <1>2, <1>4, <1>5, <1>7 DEF Fetched
<1>9. VsetOK(f)
  BY <1>3, <1>7 DEF VsetOK
<1> QED
  BY <1>8, <1>9 DEF f

\* What is decoded of the fetched words goes behind what is there.
LEMMA DecodedOK ==
  ASSUME CpuInv, NEW decoded, decoded = [i \in DOMAIN fetch_q |-> Decode(fetch_q[i])],
         NEW last \in 0..Len(fetch_q), NEW w, w = decode_q \o SubSeq(decoded, 1, last)
  PROVE  /\ \A i \in DOMAIN fetch_q : decoded[i] \in Fetched
         /\ w \in Seq(Fetched) /\ \A i \in DOMAIN w : VsetOK(w[i])
         /\ decode_q = <<>> => Len(w) <= config.width
<1>1. /\ fetch_q \in Seq(Nat) /\ Len(fetch_q) <= config.width
      /\ \A i \in DOMAIN fetch_q : fetch_q[i] + WORD_BYTES <= end
      /\ decode_q \in Seq(Fetched)
      /\ \A i \in DOMAIN decode_q : VsetOK(decode_q[i])
  BY DEF CpuInv, FrontOK
<1>2. /\ Len(fetch_q) \in Nat /\ DOMAIN fetch_q = 1..Len(fetch_q)
      /\ \A i \in DOMAIN fetch_q : fetch_q[i] \in Nat
      /\ Len(decode_q) \in Nat /\ DOMAIN decode_q = 1..Len(decode_q)
      /\ \A i \in DOMAIN decode_q : decode_q[i] \in Fetched
  BY <1>1, LenProperties, ElementOfSeq
<1>3. \A i \in DOMAIN fetch_q : decoded[i] \in Fetched /\ VsetOK(decoded[i])
  BY <1>1, <1>2, DecodeOK
<1> DEFINE n == Len(fetch_q)
           part == SubSeq(decoded, 1, last)
<1>4. n \in Nat /\ DOMAIN fetch_q = 1..n /\ last \in 0..n
  BY <1>2
<1> HIDE DEF n
<1>5. decoded \in Seq(Fetched) /\ Len(decoded) = n
  <2>1. decoded \in [1..n -> Fetched]
    BY <1>3, <1>4
  <2>2. DOMAIN decoded = 1..n
    BY <1>4
  <2>3. decoded \in Seq(Fetched)
    BY <1>4, <2>1
  <2> QED
    BY <1>4, <2>2, <2>3, LenProperties
<1>6. /\ part \in Seq(Fetched) /\ Len(part) = last
      /\ \A i \in 1..last : part[i] = decoded[i]
  BY <1>4, <1>5
<1> HIDE DEF part
<1>7. /\ w \in Seq(Fetched) /\ Len(w) = Len(decode_q) + last
      /\ \A i \in 1..(Len(decode_q) + last) :
           w[i] = IF i <= Len(decode_q) THEN decode_q[i] ELSE part[i - Len(decode_q)]
  <2>1. w = decode_q \o part
    BY DEF part
  <2> QED
    BY ONLY <1>1, <1>6, <2>1, ConcatProperties
<1>8. \A i \in DOMAIN w : VsetOK(w[i])
  <2> SUFFICES ASSUME NEW i \in 1..(Len(decode_q) + last) PROVE VsetOK(w[i])
    BY <1>7, LenProperties
  <2>1. CASE i <= Len(decode_q)
    BY <1>1, <1>2, <1>4, <1>7, <2>1
  <2>2. CASE ~(i <= Len(decode_q))
    <3>1. i - Len(decode_q) \in 1..last
      BY <1>2, <1>4, <2>2
    <3> QED
      BY <1>3, <1>4, <1>6, <1>7, <2>2, <3>1
  <2> QED
    BY <2>1, <2>2
<1>9. decode_q = <<>> => Len(w) <= config.width
  BY <1>1, <1>4, <1>7, ConfigFacts DEF CpuInv, n
<1> QED
  BY <1>3, <1>7, <1>8, <1>9

\* Fetching from an address on stops at the end of the program.
LEMMA FetchOK ==
  ASSUME CpuInv, NEW from \in Word, NEW count \in Nat, NEW left,
         left = IF from > end - WORD_BYTES THEN 0 ELSE (end - from) \div WORD_BYTES,
         count <= left, NEW f, f = [i \in 1..count |-> from + (i - 1) * WORD_BYTES]
  PROVE  /\ f \in Seq(Nat) /\ Len(f) = count
         /\ \A i \in DOMAIN f : f[i] + WORD_BYTES <= end
         /\ ToWord(from + count * WORD_BYTES) \in Word
<1>1. end \in Nat /\ from \in Nat
  <2>1. Len(program) \in Nat /\ end = 4 * Len(program)
    BY ConfigFacts DEF CpuInv
  <2> QED
    BY <2>1, WordSizes DEF Word
<1>2. \A i \in 1..count : from + (i - 1) * 4 \in Nat /\ from + (i - 1) * 4 + 4 <= end
  <2> SUFFICES ASSUME NEW i \in 1..count
               PROVE  from + (i - 1) * 4 \in Nat /\ from + (i - 1) * 4 + 4 <= end
    OBVIOUS
  <2>1. ~(from > end - 4) /\ left = (end - from) \div 4 /\ end - from \in Nat
    BY <1>1 DEF WORD_BYTES
  <2>2. i <= (end - from) \div 4
    BY <1>1, <2>1
  <2>3. 4 * i <= end - from
    BY <2>1, <2>2
  <2> QED
    BY <1>1, <2>3
<1>3. f = [i \in 1..count |-> from + (i - 1) * 4]
  BY DEF WORD_BYTES
<1>4. f \in [1..count -> Nat] /\ DOMAIN f = 1..count
  BY <1>2, <1>3
<1>5. f \in Seq(Nat) /\ Len(f) = count
  <2>1. f \in Seq(Nat)
    BY <1>4
  <2> QED
    BY <1>4, <2>1, LenProperties
<1>6. \A i \in DOMAIN f : f[i] + 4 <= end
  BY <1>2, <1>3
<1>7. ToWord(from + count * 4) \in Word
  BY <1>1, ToWordIsWord
<1> QED
  BY <1>5, <1>6, <1>7 DEF WORD_BYTES

\* What is fetched is decoded, and the next words are fetched.
LEMMA DecodeAndFetchInv == CpuInv /\ DecodeAndFetch => CpuInv'
<1> SUFFICES ASSUME CpuInv, DecodeAndFetch PROVE CpuInv'
  OBVIOUS
<1>1. RenameInv' /\ ResultsOK' /\ Served' /\ (R!Settled => R!Settled')
  BY BackUnchanged DEF DecodeAndFetch, inputVars, renameVars, execVars
<1> DEFINE decoded == [i \in DOMAIN fetch_q |-> Decode(fetch_q[i])]
           taken   == {i \in DOMAIN fetch_q : decoded[i].pred_taken}
           last    == IF taken = {} THEN Len(fetch_q)
                      ELSE CHOOSE i \in taken : \A j \in taken : i <= j
           from    == IF taken = {} THEN pc ELSE decoded[last].pred_target
           left    == IF from > end - WORD_BYTES THEN 0 ELSE (end - from) \div WORD_BYTES
           count   == IF fetch_stopped THEN 0
                      ELSE IF left < config.width THEN left ELSE config.width
<1>2. /\ decode_q' = decode_q \o SubSeq(decoded, 1, last)
      /\ fetch_q' = [i \in 1..count |-> from + (i - 1) * WORD_BYTES]
      /\ pc' = ToWord(from + count * WORD_BYTES)
      /\ fetch_stopped' = (fetch_stopped \/ count < config.width)
  BY DEF DecodeAndFetch
<1>3. /\ Len(fetch_q) \in Nat /\ DOMAIN fetch_q = 1..Len(fetch_q)
      /\ config.width \in Nat /\ pc \in Word /\ end \in Nat
  <2>1. fetch_q \in Seq(Nat) /\ pc \in Word
    BY DEF CpuInv, FrontOK
  <2>2. config.width \in Nat /\ Len(program) \in Nat /\ end = 4 * Len(program)
    BY ConfigFacts DEF CpuInv
  <2> QED
    BY <2>1, <2>2, LenProperties
<1>4. last \in 0..Len(fetch_q) /\ (taken # {} => last \in DOMAIN fetch_q)
  <2>1. CASE taken = {}
    <3>1. last = Len(fetch_q)
      BY <2>1
    <3> HIDE DEF taken, last
    <3> QED
      BY <1>3, <2>1, <3>1
  <2>2. CASE taken # {}
    <3>1. taken \subseteq Nat /\ taken \subseteq DOMAIN fetch_q
      BY <1>3
    <3> HIDE DEF taken
    <3>2. \E i \in taken : \A j \in taken : i <= j
      BY <2>2, <3>1, LeastNat
    <3>3. last \in taken
      BY <2>2, <3>2
    <3> HIDE DEF last
    <3> QED
      BY <1>3, <3>1, <3>3
  <2> HIDE DEF taken, last
  <2> QED
    BY <2>1, <2>2
<1> HIDE DEF taken, last
<1>5. /\ \A i \in DOMAIN fetch_q : decoded[i] \in Fetched
      /\ decode_q' \in Seq(Fetched) /\ \A i \in DOMAIN decode_q' : VsetOK(decode_q'[i])
      /\ decode_q = <<>> => Len(decode_q') <= config.width
  BY <1>2, <1>4, DecodedOK
<1> HIDE DEF decoded
<1>6. from \in Word
  BY <1>3, <1>4, <1>5 DEF Fetched
<1> HIDE DEF from
<1>7. left \in Nat
  BY <1>3, <1>6, WordSizes DEF Word, WORD_BYTES
<1>8. count \in Nat /\ count <= left /\ count <= config.width
  <2> HIDE DEF left
  <2> QED
    BY <1>3, <1>7
<1> HIDE DEF count
<1>9. /\ fetch_q' \in Seq(Nat) /\ Len(fetch_q') = count
      /\ \A i \in DOMAIN fetch_q' : fetch_q'[i] + WORD_BYTES <= end
      /\ pc' \in Word
  BY <1>2, <1>6, <1>8, FetchOK
<1>10. FrontOK'
  <2>1. ~halted => decode_q = <<>>
    BY DEF CpuInv, FrontOK, DecodeAndFetch
  <2>2. fetch_stopped' \in BOOLEAN
    BY <1>2 DEF CpuInv, FrontOK
  <2>3. /\ stage' = "check_halt" /\ end' = end
        /\ UNCHANGED <<program, config, committed, halted>>
    BY DEF DecodeAndFetch, inputVars, end
  <2> HIDE DEF left
  <2> QED
    BY <1>5, <1>8, <1>9, <2>1, <2>2, <2>3 DEF CpuInv, FrontOK
<1>11. CountersOK' /\ ArchOK'
  BY DEF CpuInv, CountersOK, ArchOK, DecodeAndFetch, archVars, controlVars
<1>12. SettledOutside'
  BY <1>1 DEF CpuInv, SettledOutside, DecodeAndFetch
<1> QED
  BY <1>1, <1>10, <1>11, <1>12 DEF CpuInv

-----------------------------------------------------------------------------
(* The invariant holds initially and is kept by every step.                *)

\* Empty structures serve an empty re-order buffer.
LEMMA ServingNothing ==
  ASSUME NEW c \in Configuration
  PROVE  Serving(c, <<>>, [t \in ExecType |-> P!EmptyPath], <<>>, {})
<1> DEFINE ps == [t \in ExecType |-> P!EmptyPath]
           p  == P!EmptyPath
<1>0. /\ \A t \in ExecType : c.units[t] \in Nat /\ c.lsq_size \in Nat
      /\ "LOADSTORE" \in ExecType
  BY DEF Configuration, ExecType
<1>1. /\ p = [stations |-> <<>>, units |-> {}, completed |-> {}]
      /\ p.stations = <<>> /\ p.units = {} /\ p.completed = {}
  BY DEF P!EmptyPath
<1>2. P!Waiting(p) = {} /\ P!Running(p) = {} /\ P!Finished(p) = {}
  BY <1>1 DEF P!Waiting, P!Running, P!Finished
<1>3. ASSUME NEW t \in ExecType PROVE PathOK(p, t, c.rs_size, c.units[t], <<>>)
  <2>1. IsFiniteSet({}) /\ Cardinality({}) = 0
    BY FS_EmptySet
  <2>2. PathTyped(p, c.rs_size, c.units[t])
    <3> DEFINE st == p.stations
    <3>1. st = [s \in DOMAIN st |-> st[s]] /\ DOMAIN st = {}
      BY <1>1
    <3> QED
      BY <1>0, <1>1, <2>1, <3>1 DEF PathTyped
  <2>3. PathDistinct(p) /\ PathServes(p, t, <<>>)
    BY <1>1, <1>2 DEF PathDistinct, PathServes
  <2> QED
    BY <2>2, <2>3 DEF PathOK
<1> HIDE DEF p
<1>4. ps = [t \in ExecType |-> ps[t]] /\ \A t \in ExecType : ps[t] = p
  BY DEF p
<1>5. AllHeld(ps, <<>>) /\ Mirrors(<<>>, <<>>) /\ Homes(<<>>, ps["LOADSTORE"], <<>>)
  BY DEF AllHeld, Mirrors, Homes
<1>6. QueueOK(<<>>, c.lsq_size)
  BY <1>0 DEF QueueOK, TagsGrow
<1>7. UnitsOK({}, c.units["LOADSTORE"], <<>>)
  BY <1>0, FS_EmptySet DEF UnitsOK
<1>8. Waits(ps, <<>>, <<>>)
  BY <1>1, <1>4 DEF Waits
<1> HIDE DEF ps
<1>9. Serving(c, <<>>, ps, <<>>, {})
  BY <1>3, <1>4, <1>5, <1>6, <1>7, <1>8 DEF Serving
<1> QED
  BY <1>9 DEF ps

\* The invariant holds initially.
LEMMA CpuInitInv == CpuInit => CpuInv
<1> SUFFICES ASSUME CpuInit PROVE CpuInv
  OBVIOUS
<1>1. FrontOK
  <2>1. program \in Programs /\ config \in Configs /\ config \in Configuration
    BY CpuAssumption DEF CpuInit
  <2>2. config.width \in Nat
    BY <2>1 DEF Configuration
  <2>3. 0 \in Word
    BY WordSizes DEF Word
  <2>4. <<>> \in Seq(Nat) /\ <<>> \in Seq(Fetched) /\ Len(<<>>) = 0 /\ DOMAIN <<>> = {}
    OBVIOUS
  <2>5. fetch_q = <<>> /\ decode_q = <<>> /\ pc = 0 /\ committed = 0 /\ stage = "idle"
    BY DEF CpuInit
  <2>6. fetch_stopped = FALSE /\ halted = FALSE
    BY DEF CpuInit
  <2>7. /\ fetch_q \in Seq(Nat) /\ Len(fetch_q) <= config.width /\ DOMAIN fetch_q = {}
        /\ decode_q \in Seq(Fetched) /\ Len(decode_q) <= config.width /\ DOMAIN decode_q = {}
    BY <2>2, <2>4, <2>5
  <2>8. committed \in 0..config.width /\ pc \in Word
    BY <2>2, <2>3, <2>5
  <2> QED
    BY <2>1, <2>5, <2>6, <2>7, <2>8 DEF FrontOK
<1>2. CountersOK
  <2>1. config.branch_pred \in B!PredictorKind
    BY CpuAssumption DEF CpuInit, Configuration
  <2>2. 0 \in Word
    BY WordSizes DEF Word
  <2>3. bp \in Predictor
    BY <2>1, <2>2 DEF CpuInit, B!NewPredictor, Predictor
  <2> QED
    BY <2>3 DEF CpuInit, CountersOK
<1>3. ArchOK
  <2>1. end \in Word /\ MemSize - WORD_BYTES \in Word /\ 0 \in Word
    <3>1. Len(program) \in Nat /\ end = 4 * Len(program) /\ end < WordMod
      BY <1>1, ConfigFacts
    <3>2. end \in Nat
      BY <3>1
    <3> QED
      BY <3>1, <3>2, CpuAssumption, MemoryAssumption, WordSizes DEF Word, WORD_BYTES
  <2>2. scalar(end) \in Value /\ scalar(MemSize - WORD_BYTES) \in Value /\ scalar(0) \in Value
    BY <2>1, ScalarValue
  <2>3. regs \in [RegFiles -> [Reg -> Value]]
    BY <2>2 DEF CpuInit, InitialRegs
  <2>4. vl \in VLength
    <3>1. VectorBits \in Nat /\ VectorBits \div 32 <= VectorBits \div 8 /\ VectorBits \div 32 >= 0
      BY WordAssumption
    <3> QED
      BY <3>1 DEF CpuInit, vlmax, VLength
  <2>5. vsew \in Sew \ {0} /\ mem \in MemState
    BY CpuAssumption DEF CpuInit, Sew
  <2> QED
    BY <2>3, <2>4, <2>5 DEF ArchOK
<1>4. RenameInv
  BY RenameActions DEF CpuInit
<1>5. rob = <<>>
  BY DEF CpuInit, R!RenameInit
<1>6. ResultsOK /\ SettledOutside
  BY <1>5 DEF ResultsOK, SettledOutside, R!Settled
<1>7. Served
  <2>1. config \in Configuration
    BY <1>1, ConfigFacts
  <2> QED
    BY <1>5, <2>1, ServingNothing DEF CpuInit, Served
<1> QED
  BY <1>1, <1>2, <1>3, <1>4, <1>6, <1>7 DEF CpuInv

\* Every step keeps the invariant.
LEMMA CpuNextInv == CpuInv /\ [CpuNext]_cpuVars => CpuInv'
<1> SUFFICES ASSUME CpuInv, [CpuNext]_cpuVars PROVE CpuInv'
  OBVIOUS
<1>1. CASE StartStep
  BY <1>1, StartStepInv
<1>2. CASE CommitOne
  BY <1>2, CommitOneInv
<1>3. CASE CommitThrows
  BY <1>3, CommitThrowsInv
<1>4. CASE CommitEnds
  BY <1>4, CommitEndsInv
<1>5. CASE WritebackOne
  BY <1>5, WritebackOneInv
<1>6. CASE ResolveOne
  BY <1>6, ResolveOneInv
<1>7. CASE FlushMispredicted
  BY <1>7, FlushMispredictedInv
<1>8. CASE Execute
  BY <1>8, ExecuteInv
<1>9. CASE ExecuteThrows
  BY <1>9, ExecuteThrowsInv
<1>10. CASE Issue
  BY <1>10, IssueInv
<1>11. CASE DispatchOne
  BY <1>11, DispatchOneInv
<1>12. CASE DispatchStalls
  BY <1>12, DispatchStallsInv
<1>13. CASE DispatchInvalid
  BY <1>13, DispatchInvalidInv
<1>14. CASE DecodeAndFetch
  BY <1>14, DecodeAndFetchInv
<1>15. CASE CheckHalt
  BY <1>15, CheckHaltInv
<1>16. CASE UNCHANGED cpuVars
  <2>1. /\ UNCHANGED <<inputVars, stage, committed, frontVars, halted, renameVars, archVars,
                       execVars, controlVars, instruction_count>>
    BY <1>16 DEF cpuVars
  <2>2. RenameInv' /\ ResultsOK' /\ Served' /\ (R!Settled => R!Settled')
    BY <2>1, BackUnchanged DEF inputVars, renameVars, execVars
  <2>3. FrontOK'
    BY <2>1 DEF CpuInv, FrontOK, inputVars, frontVars, end
  <2>4. CountersOK' /\ ArchOK'
    BY <2>1 DEF CpuInv, CountersOK, ArchOK, archVars, controlVars
  <2>5. SettledOutside'
    BY <2>1, <2>2 DEF CpuInv, SettledOutside
  <2> QED
    BY <2>2, <2>3, <2>4, <2>5 DEF CpuInv
<1> QED
  BY <1>1, <1>2, <1>3, <1>4, <1>5, <1>6, <1>7, <1>8, <1>9, <1>10, <1>11, <1>12, <1>13, <1>14,
     <1>15, <1>16 DEF CpuNext

\* Every behaviour of the pipeline keeps the invariant.
THEOREM CpuInvariant == CpuSpec => []CpuInv
<1>1. CpuInit => CpuInv
  BY CpuInitInv
<1>2. CpuInv /\ [CpuNext]_cpuVars => CpuInv'
  BY CpuNextInv
<1> QED
  BY <1>1, <1>2, PTL DEF CpuSpec

-----------------------------------------------------------------------------
(* What TLC checks of the pipeline on MCCpu, for every configuration.      *)

\* Every variable has its type, and no structure is fuller than its size.
THEOREM CpuTypes == CpuSpec => []CpuTypeOK
<1>1. CpuInv => CpuTypeOK
  <2> SUFFICES ASSUME CpuInv PROVE CpuTypeOK
    OBVIOUS
  <2>1. program \in Seq(Instruction)
    BY ConfigFacts DEF CpuInv
  <2>2. fetch_q \in Seq(Word)
    <3>1. fetch_q \in Seq(Nat) /\ \A i \in DOMAIN fetch_q : fetch_q[i] + 4 <= end
      BY DEF CpuInv, FrontOK, WORD_BYTES
    <3>2. end \in Nat /\ end < WordMod
      <4>1. Len(program) \in Nat /\ end = 4 * Len(program) /\ end < WordMod
        BY ConfigFacts DEF CpuInv
      <4> QED
        BY <4>1
    <3>3. /\ DOMAIN fetch_q = 1..Len(fetch_q) /\ Len(fetch_q) \in Nat
          /\ fetch_q = [i \in DOMAIN fetch_q |-> fetch_q[i]]
          /\ \A i \in DOMAIN fetch_q : fetch_q[i] \in Nat
      BY <3>1, LenProperties, ElementOfSeq
    <3>4. \A i \in DOMAIN fetch_q : fetch_q[i] \in Word
      BY <3>1, <3>2, <3>3, WordSizes DEF Word
    <3> QED
      BY <3>3, <3>4
  <2>3. regs \in [RegFiles -> [Reg -> Value]] /\ vl \in 0..VectorBits /\ vsew \in {8, 16, 32}
        /\ mem \in MemState
    <3>1. VLength \subseteq 0..VectorBits
      <4>1. VectorBits \in Nat /\ VectorBits \div 8 <= VectorBits
        BY WordAssumption
      <4> QED
        BY <4>1 DEF VLength
    <3> QED
      BY <3>1 DEF CpuInv, ArchOK, Sew
  <2>4. lsq \in Seq(L!LSQEntry) /\ Len(lsq) <= config.lsq_size
    BY QueueTagged DEF CpuInv, Served, Serving, QueueOK
  <2>5. \A t \in ExecType : /\ DOMAIN paths[t].stations \subseteq 1..config.rs_size
                            /\ Cardinality(paths[t].units) <= config.units[t]
    BY DEF CpuInv, Served, Serving, PathOK, PathTyped
  <2>6. Cardinality(lsus) <= config.units["LOADSTORE"]
    BY DEF CpuInv, Served, Serving, UnitsOK
  <2>7. R!RenameTypeOK
    BY DEF CpuInv, RenameInv
  <2> QED
    BY <2>1, <2>2, <2>3, <2>4, <2>5, <2>6, <2>7 DEF CpuTypeOK, CpuInv, FrontOK, CountersOK
<1> QED
  BY <1>1, CpuInvariant, PTL

\* The load/store queue holds the accesses of the re-order buffer, in its order.
THEOREM LsqMirrors == CpuSpec => []LsqMirrorsRob
<1>1. CpuInv => LsqMirrorsRob
  <2> SUFFICES ASSUME CpuInv PROVE LsqMirrorsRob
    OBVIOUS
  <2>1. R!TagsGrow(rob)
    BY DEF CpuInv, RenameInv, R!TagsOrdered
  <2>2. L!TagsGrow(lsq)
    BY GrowthAgrees DEF CpuInv, Served, Serving, QueueOK
  <2>3. Mirrors(lsq, rob)
    BY DEF CpuInv, Served, Serving
  <2> QED
    BY <2>1, <2>2, <2>3 DEF LsqMirrorsRob, Mirrors
<1> QED
  BY <1>1, CpuInvariant, PTL

\* Whatever an instruction waits for, an older one will bring.
THEOREM WaitsForOlderAlways == CpuSpec => []WaitsForOlder
<1>1. CpuInv => WaitsForOlder
  <2> SUFFICES ASSUME CpuInv, NEW i \in DOMAIN rob,
                      NEW q \in WaitsFor(rob[i].tag), q # NoTag
               PROVE  \E j \in 1..(i-1) : rob[j].tag = q /\ ~rob[j].ready
    BY DEF WaitsForOlder
  <2>1. Tagged(rob) /\ DOMAIN rob = 1..Len(rob) /\ Len(rob) \in Nat /\ Waits(paths, lsq, rob)
    BY RobFacts DEF CpuInv, Served, Serving
  <2>2. Brings(rob, q, rob[i].tag)
    <3>1. CASE \E t \in ExecType : \E s \in DOMAIN paths[t].stations :
                 /\ paths[t].stations[s].tag = rob[i].tag
                 /\ q \in {paths[t].stations[s].Qj, paths[t].stations[s].Qk,
                           paths[t].stations[s].Ql, paths[t].stations[s].Qv}
      BY <2>1, <3>1 DEF Waits
    <3>2. CASE \E j \in DOMAIN lsq : lsq[j].tag = rob[i].tag /\ q = lsq[j].Q
      BY <2>1, <3>2 DEF Waits
    <3> DEFINE stations(t) == {paths[t].stations[s] : s \in
                                 {r \in DOMAIN paths[t].stations :
                                    paths[t].stations[r].tag = rob[i].tag}}
               tags(e) == {e.Qj, e.Qk, e.Ql, e.Qv}
    <3>3. \/ q \in UNION {tags(e) : e \in UNION {stations(t) : t \in ExecType}}
          \/ q \in {lsq[j].Q : j \in {k \in DOMAIN lsq : lsq[k].tag = rob[i].tag}}
      BY DEF WaitsFor
    <3> HIDE DEF tags
    <3>4. CASE q \in UNION {tags(e) : e \in UNION {stations(t) : t \in ExecType}}
      <4>1. PICK t \in ExecType : \E e \in stations(t) : q \in tags(e)
        BY <3>4
      <4>2. PICK s \in DOMAIN paths[t].stations :
              paths[t].stations[s].tag = rob[i].tag /\ q \in tags(paths[t].stations[s])
        BY <4>1
      <4> QED
        BY <3>1, <4>2 DEF tags
    <3>5. CASE q \in {lsq[j].Q : j \in {k \in DOMAIN lsq : lsq[k].tag = rob[i].tag}}
      BY <3>2, <3>5
    <3> QED
      BY <3>3, <3>4, <3>5
  <2>3. PICK j \in DOMAIN rob : rob[j].tag = q /\ ~rob[j].ready
    BY <2>2 DEF Brings, Pending
  <2>4. rob[j].tag < rob[i].tag
    BY <2>2, <2>3 DEF Brings
  <2>5. ~(i <= j)
    <3> SUFFICES ASSUME i <= j PROVE FALSE
      OBVIOUS
    <3>1. rob[i].tag \in Nat /\ rob[j].tag \in Nat
      BY <2>1 DEF Tagged
    <3>2. CASE i = j
      BY <2>4, <3>1, <3>2
    <3>3. CASE i < j
      BY <2>1, <2>4, <3>1, <3>3 DEF Tagged, TagsGrow
    <3> QED
      BY <2>1, <3>2, <3>3
  <2> QED
    BY <2>1, <2>3, <2>5
<1> QED
  BY <1>1, CpuInvariant, PTL

\* Every action is a step of Rename, or leaves its variables alone.
LEMMA StepsAsRename ==
  ASSUME CpuInv, [CpuNext]_cpuVars
  PROVE  [RenameStep]_renameVars
<1>1. CASE CommitOne
  <2>1. R!Settled /\ R!Retire
    BY <1>1 DEF CpuInv, SettledOutside, CommitOne
  <2>2. R!Commit
    BY <2>1 DEF R!Commit
  <2> QED
    BY <2>2 DEF RenameStep
<1>2. CASE WritebackOne
  <2> DEFINE x == CHOOSE y \in Completed : \A z \in Completed : y.tag <= z.tag
  <2>1. x \in Completed /\ ResultIn(x) /\ Pending(rob, x.tag, x.op)
    BY <1>2, ChosenResult DEF WritebackOne
  <2>2. IF \E i \in DOMAIN rob : rob[i].tag = x.tag
          THEN \E i \in DOMAIN rob : rob[i].tag = x.tag /\ R!Update(i, x.result)
          ELSE UNCHANGED renameVars
    BY <1>2 DEF WritebackOne
  <2> HIDE DEF x
  <2>3. PICK i \in DOMAIN rob : rob[i].tag = x.tag /\ R!Update(i, x.result)
    BY <2>1, <2>2 DEF Pending
  <2>4. rob[i].op = x.op /\ ~rob[i].ready
    BY <2>1, <2>3, RobFacts, OneEntry DEF Pending, CpuInv
  <2>5. x.result \in R!Result /\ R!CanYield(x.op, x.result)
    BY <2>1, ResultIsResult DEF ResultIn, ResultOK
  <2>6. R!Writeback(i, x.result)
    BY <2>3, <2>4, <2>5 DEF R!Writeback
  <2> QED
    BY <2>1, <2>3, <2>5, <2>6 DEF RenameStep
<1>3. CASE ResolveOne
  BY <1>3 DEF ResolveOne, RenameStep
<1>4. CASE FlushMispredicted
  BY <1>4 DEF FlushMispredicted, RenameStep
<1>5. CASE DispatchOne
  <2>1. R!Settled /\ R!Allocate(Head(decode_q)) /\ decode_q # <<>>
    BY <1>5 DEF CpuInv, SettledOutside, DispatchOne
  <2>2. R!Dispatch(Head(decode_q))
    BY <2>1 DEF R!Dispatch
  <2> QED
    BY <2>1, <2>2 DEF RenameStep
<1>6. CASE UNCHANGED renameVars
  BY <1>6
<1>7. StartStep \/ CommitThrows \/ CommitEnds => UNCHANGED renameVars
  BY DEF StartStep, CommitThrows, CommitEnds
<1>8. Execute \/ ExecuteThrows \/ Issue => UNCHANGED renameVars
  BY DEF Execute, ExecuteThrows, Issue
<1>9. DispatchStalls \/ DispatchInvalid \/ DecodeAndFetch \/ CheckHalt => UNCHANGED renameVars
  BY DEF DispatchStalls, DispatchInvalid, DecodeAndFetch, CheckHalt
<1>10. UNCHANGED cpuVars => UNCHANGED renameVars
  BY DEF cpuVars, renameVars
<1> QED
  BY <1>1, <1>2, <1>3, <1>4, <1>5, <1>6, <1>7, <1>8, <1>9, <1>10 DEF CpuNext

\* What the stages do to the re-order buffer and the alias tables is a step of Rename:
\* results come back once, for instructions that wait for them, and nothing is
\* dispatched or committed while there is something to resolve.
THEOREM CpuKeepsToRename == CpuSpec => KeepsToRename
<1>1. CpuInv /\ [CpuNext]_cpuVars => [RenameStep]_renameVars
  BY StepsAsRename
<1> QED
  BY <1>1, CpuInvariant, PTL DEF CpuSpec, KeepsToRename

\* The items of a path with one tag, counted.
Homed(p, tag) ==
  Cardinality({s \in DOMAIN p.stations : p.stations[s].tag = tag})
    + Cardinality({u \in p.units : u.rs.tag = tag})
    + Cardinality({x \in p.completed : x.tag = tag})

\* A set whose members are all alike has at most one.
LEMMA CountAlike ==
  ASSUME NEW S, \A a, b \in S : a = b
  PROVE  /\ S = {} => Cardinality(S) = 0
         /\ S # {} => Cardinality(S) = 1
<1>1. S = {} => Cardinality(S) = 0
  BY FS_EmptySet
<1>2. ASSUME S # {} PROVE Cardinality(S) = 1
  <2>1. PICK a : S = {a}
    BY <1>2
  <2> QED
    BY <2>1, FS_Singleton
<1> QED
  BY <1>1, <1>2

\* A tag that a path holds is counted once, any other not at all.
LEMMA HomedOnce ==
  ASSUME NEW p, PathDistinct(p), NEW tag
  PROVE  Homed(p, tag) = IF tag \in Held(p) THEN 1 ELSE 0
<1> DEFINE A == {s \in DOMAIN p.stations : p.stations[s].tag = tag}
           B2 == {u \in p.units : u.rs.tag = tag}
           D == {x \in p.completed : x.tag = tag}
<1>1. /\ \A a, b \in A : a = b
      /\ \A a, b \in B2 : a = b
      /\ \A a, b \in D : a = b
  BY DEF PathDistinct
<1>2. /\ A # {} <=> tag \in P!Waiting(p)
      /\ B2 # {} <=> tag \in P!Running(p)
      /\ D # {} <=> tag \in P!Finished(p)
  BY DEF P!Waiting, P!Running, P!Finished
<1>3. Homed(p, tag) = Cardinality(A) + Cardinality(B2) + Cardinality(D)
  BY DEF Homed
<1> HIDE DEF A, B2, D
<1>4. /\ (A = {} => Cardinality(A) = 0) /\ (A # {} => Cardinality(A) = 1)
      /\ (B2 = {} => Cardinality(B2) = 0) /\ (B2 # {} => Cardinality(B2) = 1)
      /\ (D = {} => Cardinality(D) = 0) /\ (D # {} => Cardinality(D) = 1)
  BY <1>1, CountAlike
<1> QED
  BY <1>2, <1>3, <1>4 DEF Held, PathDistinct

\* An instruction has one home until its result has been collected, and none after.
THEOREM OneHomeAlways == CpuSpec => []OneHome
<1>1. CpuInv => OneHome
  <2> SUFFICES ASSUME CpuInv PROVE OneHome
    OBVIOUS
  <2>1. /\ Tagged(rob) /\ Serving(config, rob, paths, lsq, lsus)
        /\ \A i \in DOMAIN rob : rob[i].op \in Op
    BY RobFacts DEF CpuInv, Served
  <2>2. ASSUME NEW t \in ExecType
        PROVE  Held(paths[t]) \subseteq {rob[i].tag : i \in DOMAIN rob}
    <3> DEFINE p == paths[t]
               n == config.units[t]
    <3>1. PathOK(p, t, config.rs_size, n, rob)
      BY <2>1 DEF Serving
    <3> HIDE DEF p, n
    <3>2. \A tag \in Held(p) : \E op \in Op : Pending(rob, tag, op)
      BY <3>1, HeldPending
    <3> QED
      BY <3>2 DEF Pending, p
  <2>3. ASSUME NEW i \in DOMAIN rob
        PROVE  LET e        == rob[i]
                   path     == paths[exec_type(e.op)]
                   waiting  == e.tag \in P!Waiting(path)
                   running  == e.tag \in P!Running(path)
                   finished == e.tag \in P!Finished(path)
               IN  IF ~IsAccess(e.op)
                     THEN Homed(path, e.tag) = (IF e.ready THEN 0 ELSE 1)
                     ELSE \E j \in DOMAIN lsq :
                            /\ lsq[j].tag = e.tag
                            /\ (lsq[j].Qa # NoTag) <=> (waiting \/ running)
                            /\ lsq[j].done <=> (finished \/ e.ready)
                            /\ Homed(path, e.tag) <= 1 /\ (finished => ~e.ready)
    <3> DEFINE e    == rob[i]
               t    == exec_type(e.op)
               path == paths[t]
               n    == config.units[t]
    <3>1. t \in ExecType /\ (t = "LOADSTORE" <=> IsAccess(e.op))
      BY <2>1, TypeOfOp
    <3>2. PathOK(path, t, config.rs_size, n, rob)
      BY <2>1, <3>1 DEF Serving
    <3>3. \A op : Pending(rob, e.tag, op) <=> op = e.op /\ ~e.ready
      <4>1. \A j \in DOMAIN rob : rob[j].tag = e.tag => j = i
        BY <2>1, OneEntry
      <4> QED
        BY <4>1 DEF Pending
    <3>4. ~IsAccess(e.op) /\ ~e.ready => e.tag \in Held(path)
      BY <2>1 DEF Serving, AllHeld
    <3>5. Entry(rob, e.tag, e.op)
      BY DEF Entry
    <3> HIDE DEF path, n
    <3>6. Homed(path, e.tag) = IF e.tag \in Held(path) THEN 1 ELSE 0
      BY <3>2, HomedOnce DEF PathOK
    <3>7. e.tag \in Held(path) => ~e.ready
      BY <3>2, <3>3, HeldPending
    <3>8. CASE ~IsAccess(e.op)
      BY <3>4, <3>6, <3>7, <3>8 DEF path
    <3>9. CASE IsAccess(e.op)
      <4>1. PICK j \in DOMAIN lsq : lsq[j].tag = e.tag /\ lsq[j].op = e.op
        <5>1. Entry(lsq, e.tag, e.op)
          BY <2>1, <3>5, <3>9, InQueue
        <5> QED
          BY <5>1 DEF Entry
      <4>2. /\ (lsq[j].Qa # NoTag) <=> (lsq[j].tag \in P!Waiting(path) \cup P!Running(path))
            /\ lsq[j].done <=> (lsq[j].tag \in P!Finished(path)
                                  \/ ~Pending(rob, lsq[j].tag, lsq[j].op))
        BY <2>1, <3>1, <3>9 DEF Serving, Homes, path
      <4>3. e.tag \in P!Finished(path) => ~e.ready
        BY <3>7 DEF Held
      <4>4. Homed(path, e.tag) <= 1
        BY <3>6
      <4> HIDE DEF e, t
      <4>5. /\ lsq[j].tag = e.tag
            /\ (lsq[j].Qa # NoTag)
                 <=> (e.tag \in P!Waiting(path) \/ e.tag \in P!Running(path))
            /\ lsq[j].done <=> (e.tag \in P!Finished(path) \/ e.ready)
        BY <3>3, <4>1, <4>2
      <4> QED
        BY <3>9, <4>3, <4>4, <4>5 DEF path, e, t
    <3> QED
      BY <3>8, <3>9 DEF path
  <2>4. ASSUME NEW t \in ExecType
        PROVE  P!Waiting(paths[t]) \cup P!Running(paths[t]) \cup P!Finished(paths[t])
                 \subseteq {rob[i].tag : i \in DOMAIN rob}
    BY <2>2 DEF Held
  <2> QED
    BY <2>3, <2>4 DEF OneHome, Homed
<1> QED
  BY <1>1, CpuInvariant, PTL
=============================================================================
