------------------------- MODULE Refinement_proofs --------------------------
(***************************************************************************)
(* The pipeline of Cpu implements the machine of Machine, for every        *)
(* program, configuration and size: every commit is the execution of the   *)
(* next instruction in program order with the operands that machine has,   *)
(* and no other step shows.                                                *)
(*                                                                         *)
(* RefinementInv is the inductive invariant: what is in flight and its     *)
(* data (Dataflow_proofs), and that a load which is done has what it would *)
(* read once the stores before it were written (Sees).                     *)
(***************************************************************************)
EXTENDS Dataflow_proofs

-----------------------------------------------------------------------------
(* The machine, an instance, brings its own copy of the operations.        *)

\* The two copies of the floating-point unit compute the same.
LEMMA FloatsAgree ==
  /\ \A op, a, b, c, rm : M!F!fpu(op, a, b, c, rm) = F!fpu(op, a, b, c, rm)
  /\ \A a, b, c : M!F!SingleFma(a, b, c) = F!SingleFma(a, b, c)
<1>1. /\ M!F!SIGN_MASK = F!SIGN_MASK /\ M!F!EXP_MASK = F!EXP_MASK
      /\ M!F!QUIET_NAN_BIT = F!QUIET_NAN_BIT /\ M!F!MinX = F!MinX
      /\ M!F!LongestBits = F!LongestBits
  BY DEF M!F!SIGN_MASK, F!SIGN_MASK, M!F!EXP_MASK, F!EXP_MASK, M!F!QUIET_NAN_BIT,
         F!QUIET_NAN_BIT, M!F!MinX, F!MinX, M!F!LongestBits, F!LongestBits
<1>2. M!F!CANONICAL_NAN = F!CANONICAL_NAN
  BY <1>1 DEF M!F!CANONICAL_NAN, F!CANONICAL_NAN
<1>3. \A w : /\ M!F!sign(w) = F!sign(w) /\ M!F!mag(w) = F!mag(w)
             /\ M!F!bits_to_i32(w) = F!bits_to_i32(w)
  BY <1>1 DEF M!F!sign, F!sign, M!F!mag, F!mag, M!F!bits_to_i32, F!bits_to_i32
<1>4. \A w : M!F!is_nan(w) = F!is_nan(w) /\ M!F!is_zero(w) = F!is_zero(w)
  BY <1>1, <1>3 DEF M!F!is_nan, F!is_nan, M!F!is_zero, F!is_zero
<1>5. \A x, y : M!F!Bits(x, y) = F!Bits(x, y)
  BY <1>1 DEF M!F!Bits, F!Bits
<1>6. /\ \A a, b : M!F!Larger(a, b) = F!Larger(a, b) /\ M!F!Smaller(a, b) = F!Smaller(a, b)
      /\ \A n : M!F!Inf(n) = F!Inf(n) /\ \A m, x : M!F!Num(n, m, x) = F!Num(n, m, x)
      /\ M!F!Nan = F!Nan
      /\ \A d, x : M!F!Units(d, x) = F!Units(d, x) /\ M!F!Rank(d) = F!Rank(d)
      /\ \A d : M!F!Negated(d) = F!Negated(d) /\ M!F!IsZero(d) = F!IsZero(d)
  BY DEF M!F!Larger, F!Larger, M!F!Smaller, F!Smaller, M!F!Inf, F!Inf, M!F!Num, F!Num,
         M!F!Nan, F!Nan, M!F!Units, F!Units, M!F!Rank, F!Rank, M!F!Negated, F!Negated,
         M!F!IsZero, F!IsZero
<1>7. \A w : M!F!ToDouble(w) = F!ToDouble(w)
  BY <1>1, <1>3, <1>4, <1>6 DEF M!F!ToDouble, F!ToDouble
<1>8. \A a, b : M!F!Less(a, b) = F!Less(a, b)
  BY <1>6 DEF M!F!Less, F!Less
<1>9. M!F!Zero = F!Zero
  BY <1>6 DEF M!F!Zero, F!Zero
<1>10. \A m : M!F!BitLength(m) = F!BitLength(m)
  BY <1>1 DEF M!F!BitLength, F!BitLength
<1>11. \A m, d, s : M!F!NearestEven(m, d, s) = F!NearestEven(m, d, s)
  BY <1>10 DEF M!F!NearestEven, F!NearestEven
<1>12. \A n, m, x, s : M!F!RoundedDouble(n, m, x, s) = F!RoundedDouble(n, m, x, s)
  BY <1>6, <1>10, <1>11 DEF M!F!RoundedDouble, F!RoundedDouble
<1>13. \A a, b : M!F!ExactProduct(a, b) = F!ExactProduct(a, b)
  BY <1>6 DEF M!F!ExactProduct, F!ExactProduct
<1>14. \A a, b : M!F!ExactSum(a, b) = F!ExactSum(a, b)
  BY <1>6 DEF M!F!ExactSum, F!ExactSum
<1>15. \A e : M!F!AsDouble(e) = F!AsDouble(e)
  BY <1>12 DEF M!F!AsDouble, F!AsDouble
<1>16. \A a, b : M!F!Add(a, b) = F!Add(a, b) /\ M!F!Multiply(a, b) = F!Multiply(a, b)
  BY <1>13, <1>14, <1>15 DEF M!F!Add, F!Add, M!F!Multiply, F!Multiply
<1>17. \A a, b : M!F!Divide(a, b) = F!Divide(a, b)
  BY <1>6, <1>12 DEF M!F!Divide, F!Divide
<1>18. \A a : M!F!SquareRoot(a) = F!SquareRoot(a)
  <2> SUFFICES ASSUME NEW a PROVE M!F!SquareRoot(a) = F!SquareRoot(a)
    OBVIOUS
  <2> DEFINE shift == 2 * DoubleBits + (IF a.x % 2 = 0 THEN 0 ELSE 1)
             n     == a.m * 2^shift
             most  == 2^(DoubleBits + FracBits \div 2 + 2)
             root  == CHOOSE r \in 0..most : r * r <= n /\ (n < (r + 1) * (r + 1) \/ r = most)
             more  == root * root # n
             exp   == (a.x - shift) \div 2
  <2>1. M!F!SquareRoot(a) = IF a.kind = "nan" \/ M!F!IsZero(a) THEN a
                            ELSE IF a.neg THEN M!F!Nan
                            ELSE IF a.kind = "inf" THEN a
                            ELSE M!F!RoundedDouble(FALSE, root, exp, more)
    BY Zenon DEF M!F!SquareRoot
  <2>2. F!SquareRoot(a) = IF a.kind = "nan" \/ F!IsZero(a) THEN a
                          ELSE IF a.neg THEN F!Nan
                          ELSE IF a.kind = "inf" THEN a
                          ELSE F!RoundedDouble(FALSE, root, exp, more)
    BY Zenon DEF F!SquareRoot
  <2> HIDE DEF root, more, exp
  <2>3. M!F!RoundedDouble(FALSE, root, exp, more) = F!RoundedDouble(FALSE, root, exp, more)
    BY <1>12
  <2>4. M!F!Nan = F!Nan /\ (M!F!IsZero(a) <=> F!IsZero(a))
    BY <1>6
  <2>5. CASE a.kind = "nan" \/ F!IsZero(a)
    <3>1. M!F!SquareRoot(a) = a
      BY <2>1, <2>4, <2>5, Zenon
    <3>2. F!SquareRoot(a) = a
      BY <2>2, <2>5, Zenon
    <3> QED
      BY <3>1, <3>2
  <2>6. CASE ~(a.kind = "nan" \/ F!IsZero(a))
    <3>1. M!F!SquareRoot(a) = IF a.neg THEN M!F!Nan ELSE IF a.kind = "inf" THEN a
                              ELSE M!F!RoundedDouble(FALSE, root, exp, more)
      BY <2>1, <2>4, <2>6, Zenon
    <3>2. F!SquareRoot(a) = IF a.neg THEN F!Nan ELSE IF a.kind = "inf" THEN a
                            ELSE F!RoundedDouble(FALSE, root, exp, more)
      BY <2>2, <2>6, Zenon
    <3>3. CASE a.neg
      BY <2>4, <3>1, <3>2, <3>3, Zenon
    <3>4. CASE ~a.neg
      <4>1. M!F!SquareRoot(a) = IF a.kind = "inf" THEN a
                                ELSE M!F!RoundedDouble(FALSE, root, exp, more)
        BY <3>1, <3>4, Zenon
      <4>2. F!SquareRoot(a) = IF a.kind = "inf" THEN a
                              ELSE F!RoundedDouble(FALSE, root, exp, more)
        BY <3>2, <3>4, Zenon
      <4> QED
        BY <2>3, <4>1, <4>2
    <3> QED
      BY <3>3, <3>4
  <2> QED
    BY <2>5, <2>6
<1>19. \A a, b, c : M!F!FusedAdd(a, b, c) = F!FusedAdd(a, b, c)
  BY <1>13, <1>16 DEF M!F!FusedAdd, F!FusedAdd
<1>20. \A d : M!F!ToFloat(d) = F!ToFloat(d)
  BY <1>1, <1>2, <1>5, <1>6, <1>10, <1>11 DEF M!F!ToFloat, F!ToFloat
<1>21. \A a, b, c : M!F!SingleFma(a, b, c) = F!SingleFma(a, b, c)
  BY <1>7, <1>13, <1>14, <1>20 DEF M!F!SingleFma, F!SingleFma
<1>22. \A w, up : M!F!nextafter(w, up) = F!nextafter(w, up)
  BY <1>1, <1>3, <1>4, <1>5 DEF M!F!nextafter, F!nextafter
<1>23. \A rm : M!F!static_rm(rm) = F!static_rm(rm)
  BY DEF M!F!static_rm, F!static_rm, M!F!RM_RMM, F!RM_RMM, M!F!RM_RNE, F!RM_RNE
<1>24. \A d, n : M!F!round_float_nearest(d, n) = F!round_float_nearest(d, n)
  <2> SUFFICES ASSUME NEW d, NEW n
               PROVE  M!F!round_float_nearest(d, n) = F!round_float_nearest(d, n)
    OBVIOUS
  <2> DEFINE rounded == F!ToDouble(n)
             lower   == IF F!Less(rounded, d) THEN n ELSE F!nextafter(n, FALSE)
             upper   == IF F!Less(rounded, d) THEN F!nextafter(n, TRUE) ELSE n
             below   == F!Add(d, F!Negated(F!ToDouble(lower)))
             above   == F!Add(F!ToDouble(upper), F!Negated(d))
             mlower  == IF M!F!Less(M!F!ToDouble(n), d) THEN n ELSE M!F!nextafter(n, FALSE)
             mupper  == IF M!F!Less(M!F!ToDouble(n), d) THEN M!F!nextafter(n, TRUE) ELSE n
             mbelow  == M!F!Add(d, M!F!Negated(M!F!ToDouble(mlower)))
             mabove  == M!F!Add(M!F!ToDouble(mupper), M!F!Negated(d))
  <2>1. F!round_float_nearest(d, n) =
          IF ~F!Less(rounded, d) /\ ~F!Less(d, rounded) THEN n
          ELSE IF F!Less(below, above) THEN lower
          ELSE IF F!Less(above, below) THEN upper
          ELSE IF F!Less(d, F!Zero) THEN lower ELSE upper
    BY Zenon DEF F!round_float_nearest
  <2>2. M!F!round_float_nearest(d, n) =
          IF ~M!F!Less(M!F!ToDouble(n), d) /\ ~M!F!Less(d, M!F!ToDouble(n)) THEN n
          ELSE IF M!F!Less(mbelow, mabove) THEN mlower
          ELSE IF M!F!Less(mabove, mbelow) THEN mupper
          ELSE IF M!F!Less(d, M!F!Zero) THEN mlower ELSE mupper
    BY Zenon DEF M!F!round_float_nearest
  <2>3. M!F!ToDouble(n) = rounded
    BY <1>7
  <2> HIDE DEF rounded
  <2>4. mlower = lower /\ mupper = upper
    BY <1>8, <1>22, <2>3
  <2> HIDE DEF lower, upper, mlower, mupper
  <2>5. mbelow = below /\ mabove = above
    BY <1>6, <1>7, <1>16, <2>4
  <2> HIDE DEF below, above, mbelow, mabove
  <2> QED
    BY <1>8, <1>9, <2>1, <2>2, <2>3, <2>4, <2>5
<1>25. \A d, rm : M!F!round_to_float(d, rm) = F!round_to_float(d, rm)
  BY <1>7, <1>8, <1>9, <1>20, <1>22, <1>23, <1>24
     DEF M!F!round_to_float, F!round_to_float, M!F!RM_RTZ, F!RM_RTZ, M!F!RM_RDN, F!RM_RDN,
         M!F!RM_RUP, F!RM_RUP, M!F!RM_RMM, F!RM_RMM
<1>26. \A d, rm : M!F!round_to_integral(d, rm) = F!round_to_integral(d, rm)
  BY <1>6, <1>23 DEF M!F!round_to_integral, F!round_to_integral, M!F!RM_RTZ, F!RM_RTZ,
     M!F!RM_RDN, F!RM_RDN, M!F!RM_RUP, F!RM_RUP, M!F!RM_RMM, F!RM_RMM
<1>27. \A w, rm : /\ M!F!fcvt_w_s(w, rm) = F!fcvt_w_s(w, rm)
                  /\ M!F!fcvt_wu_s(w, rm) = F!fcvt_wu_s(w, rm)
  BY <1>1, <1>7, <1>26 DEF M!F!fcvt_w_s, F!fcvt_w_s, M!F!fcvt_wu_s, F!fcvt_wu_s
<1>28. \A a : M!F!FromInteger(a) = F!FromInteger(a)
  BY <1>6 DEF M!F!FromInteger, F!FromInteger
<1>29. \A a, b, f, z : M!F!Chosen(a, b, f, z) = F!Chosen(a, b, f, z)
  BY <1>2, <1>4 DEF M!F!Chosen, F!Chosen
<1>30. \A a, b : M!F!fmin(a, b) = F!fmin(a, b) /\ M!F!fmax(a, b) = F!fmax(a, b)
  BY <1>3, <1>5, <1>7, <1>8, <1>29 DEF M!F!fmin, F!fmin, M!F!fmax, F!fmax
<1>31. \A a, b : M!F!compare_lt(a, b) = F!compare_lt(a, b)
  BY <1>7, <1>8 DEF M!F!compare_lt, F!compare_lt
<1>32. \A a, b : M!F!compare_eq(a, b) = F!compare_eq(a, b)
  BY <1>4, <1>31 DEF M!F!compare_eq, F!compare_eq
<1>33. \A a, b : M!F!compare_le(a, b) = F!compare_le(a, b)
  BY <1>31, <1>32 DEF M!F!compare_le, F!compare_le
<1>34. \A w : M!F!fclass_bit(w) = F!fclass_bit(w)
  BY <1>1, <1>3, <1>4 DEF M!F!fclass_bit, F!fclass_bit
<1>35. \A op, a, b, c : M!F!Computed(op, a, b, c) = F!Computed(op, a, b, c)
  <2> SUFFICES ASSUME NEW op, NEW a, NEW b, NEW c
               PROVE  M!F!Computed(op, a, b, c) = F!Computed(op, a, b, c)
    OBVIOUS
  <2>1. /\ M!F!ToDouble(a) = F!ToDouble(a) /\ M!F!ToDouble(b) = F!ToDouble(b)
        /\ M!F!ToDouble(c) = F!ToDouble(c) /\ M!F!bits_to_i32(a) = F!bits_to_i32(a)
    BY <1>3, <1>7
  <2>2. \A x, y, z : /\ M!F!Add(x, y) = F!Add(x, y) /\ M!F!Multiply(x, y) = F!Multiply(x, y)
                     /\ M!F!Divide(x, y) = F!Divide(x, y) /\ M!F!SquareRoot(x) = F!SquareRoot(x)
                     /\ M!F!FusedAdd(x, y, z) = F!FusedAdd(x, y, z)
                     /\ M!F!FromInteger(x) = F!FromInteger(x)
                     /\ M!F!Negated(x) = F!Negated(x)
    BY <1>6, <1>16, <1>17, <1>18, <1>19, <1>28
  <2> DEFINE f1 == F!Add(F!ToDouble(a), F!ToDouble(b))
             f2 == F!Add(F!ToDouble(a), F!Negated(F!ToDouble(b)))
             f3 == F!Multiply(F!ToDouble(a), F!ToDouble(b))
             f4 == F!Divide(F!ToDouble(a), F!ToDouble(b))
             f5 == F!SquareRoot(F!ToDouble(a))
             f6 == F!FusedAdd(F!ToDouble(a), F!ToDouble(b), F!ToDouble(c))
             f7 == F!FusedAdd(F!ToDouble(a), F!ToDouble(b), F!Negated(F!ToDouble(c)))
             f8 == F!FusedAdd(F!Negated(F!ToDouble(a)), F!ToDouble(b), F!ToDouble(c))
             f9 == F!FusedAdd(F!Negated(F!ToDouble(a)), F!ToDouble(b), F!Negated(F!ToDouble(c)))
             f10 == F!FromInteger(F!bits_to_i32(a))
             f11 == F!FromInteger(a)
             m1 == M!F!Add(M!F!ToDouble(a), M!F!ToDouble(b))
             m2 == M!F!Add(M!F!ToDouble(a), M!F!Negated(M!F!ToDouble(b)))
             m3 == M!F!Multiply(M!F!ToDouble(a), M!F!ToDouble(b))
             m4 == M!F!Divide(M!F!ToDouble(a), M!F!ToDouble(b))
             m5 == M!F!SquareRoot(M!F!ToDouble(a))
             m6 == M!F!FusedAdd(M!F!ToDouble(a), M!F!ToDouble(b), M!F!ToDouble(c))
             m7 == M!F!FusedAdd(M!F!ToDouble(a), M!F!ToDouble(b), M!F!Negated(M!F!ToDouble(c)))
             m8 == M!F!FusedAdd(M!F!Negated(M!F!ToDouble(a)), M!F!ToDouble(b), M!F!ToDouble(c))
             m9 == M!F!FusedAdd(M!F!Negated(M!F!ToDouble(a)), M!F!ToDouble(b), M!F!Negated(M!F!ToDouble(c)))
             m10 == M!F!FromInteger(M!F!bits_to_i32(a))
             m11 == M!F!FromInteger(a)
  <2>3. F!Computed(op, a, b, c) = CASE op = "FADD_S" -> f1
                [] op = "FSUB_S" -> f2
                [] op = "FMUL_S" -> f3
                [] op = "FDIV_S" -> f4
                [] op = "FSQRT_S" -> f5
                [] op = "FMADD_S" -> f6
                [] op = "FMSUB_S" -> f7
                [] op = "FNMSUB_S" -> f8
                [] op = "FNMADD_S" -> f9
                [] op = "FCVT_S_W" -> f10
                [] op = "FCVT_S_WU" -> f11
    BY Zenon DEF F!Computed
  <2>4. M!F!Computed(op, a, b, c) = CASE op = "FADD_S" -> m1
                [] op = "FSUB_S" -> m2
                [] op = "FMUL_S" -> m3
                [] op = "FDIV_S" -> m4
                [] op = "FSQRT_S" -> m5
                [] op = "FMADD_S" -> m6
                [] op = "FMSUB_S" -> m7
                [] op = "FNMSUB_S" -> m8
                [] op = "FNMADD_S" -> m9
                [] op = "FCVT_S_W" -> m10
                [] op = "FCVT_S_WU" -> m11
    BY Zenon DEF M!F!Computed
  <2>5. /\ m1 = f1 /\ m2 = f2 /\ m3 = f3 /\ m4 = f4 /\ m5 = f5 /\ m6 = f6
        /\ m7 = f7 /\ m8 = f8 /\ m9 = f9 /\ m10 = f10 /\ m11 = f11
    BY <2>1, <2>2
  <2> HIDE DEF m1, m2, m3, m4, m5, m6, m7, m8, m9, m10, m11,
               f1, f2, f3, f4, f5, f6, f7, f8, f9, f10, f11
  <2> QED
    BY <2>3, <2>4, <2>5
<1>36. \A op, a, b, c, rm : M!F!fpu(op, a, b, c, rm) = F!fpu(op, a, b, c, rm)
  <2> SUFFICES ASSUME NEW op, NEW a, NEW b, NEW c, NEW rm
               PROVE  M!F!fpu(op, a, b, c, rm) = F!fpu(op, a, b, c, rm)
    OBVIOUS
  <2>1. \A x : /\ M!F!sign(x) = F!sign(x) /\ M!F!mag(x) = F!mag(x)
               /\ M!F!fclass_bit(x) = F!fclass_bit(x)
               /\ M!F!fcvt_w_s(x, rm) = F!fcvt_w_s(x, rm)
               /\ M!F!fcvt_wu_s(x, rm) = F!fcvt_wu_s(x, rm)
    BY <1>3, <1>27, <1>34
  <2>2. /\ M!F!fmin(a, b) = F!fmin(a, b) /\ M!F!fmax(a, b) = F!fmax(a, b)
        /\ (M!F!compare_eq(a, b) <=> F!compare_eq(a, b))
        /\ (M!F!compare_lt(a, b) <=> F!compare_lt(a, b))
        /\ (M!F!compare_le(a, b) <=> F!compare_le(a, b))
    BY <1>30, <1>31, <1>32, <1>33
  <2>3. /\ M!F!Bits(M!F!sign(b), M!F!mag(a)) = F!Bits(F!sign(b), F!mag(a))
        /\ M!F!Bits(~M!F!sign(b), M!F!mag(a)) = F!Bits(~F!sign(b), F!mag(a))
        /\ M!F!Bits(M!F!sign(a) # M!F!sign(b), M!F!mag(a))
             = F!Bits(F!sign(a) # F!sign(b), F!mag(a))
    BY <1>5, <2>1, Zenon
  <2>4. M!F!round_to_float(M!F!Computed(op, a, b, c), rm) = F!round_to_float(F!Computed(op, a, b, c), rm)
    BY <1>25, <1>35
  <2> QED
    BY <2>1, <2>2, <2>3, <2>4, ZenonT(60) DEF M!F!fpu, F!fpu
<1> QED
  BY <1>21, <1>36

\* The sets of operations, and the tables.
LEMMA TablesAgree ==
  /\ M!Op = Op /\ M!Load = Load /\ M!Store = Store /\ M!VLoad = VLoad /\ M!VStore = VStore
  /\ M!Branch = Branch /\ M!Jump = Jump /\ M!Ctrl = Ctrl /\ M!VSet = VSet
  /\ M!Vector = Vector /\ M!Upper = Upper /\ M!AluImm = AluImm
  /\ M!VectorFloat = VectorFloat /\ M!WORD_BYTES = WORD_BYTES
  /\ \A op, i : M!src_type(op, i) = src_type(op, i)
  /\ \A op : /\ M!exec_type(op) = exec_type(op) /\ M!dst_type(op) = dst_type(op)
             /\ M!op_sew(op) = op_sew(op)
<1>1. /\ M!Op = Op /\ M!Load = Load /\ M!Store = Store /\ M!VLoad = VLoad /\ M!VStore = VStore
      /\ M!Branch = Branch /\ M!Jump = Jump /\ M!Ctrl = Ctrl /\ M!VSet = VSet
      /\ M!Vector = Vector /\ M!Upper = Upper /\ M!AluImm = AluImm
      /\ M!VectorFloat = VectorFloat /\ M!WORD_BYTES = WORD_BYTES
  BY DEF M!Op, Op, M!Load, Load, M!Store, Store, M!VLoad, VLoad, M!VStore, VStore, M!Branch,
         Branch, M!Jump, Jump, M!Ctrl, Ctrl, M!VSet, VSet, M!Vector, Vector, M!Upper, Upper,
         M!AluImm, AluImm, M!VectorFloat, VectorFloat, M!WORD_BYTES, WORD_BYTES,
         M!Alu, Alu, M!Mul, Mul, M!Div, Div, M!Float, Float, M!FAdd, FAdd, M!FMul, FMul,
         M!FMac, FMac, M!FSgn, FSgn, M!FCmp, FCmp, M!VMul, VMul, M!VFMul, VFMul,
         M!VMove, VMove, M!IntLoad, IntLoad, M!IntStore, IntStore
<1>2. \A op, i : M!src_type(op, i) = src_type(op, i)
  BY DEF M!src_type, src_type, M!Load, Load, M!Store, Store, M!VLoad, VLoad, M!VStore, VStore,
         M!Branch, Branch, M!AluImm, AluImm, M!Alu, Alu, M!Mul, Mul, M!Div, Div, M!Float, Float,
         M!FAdd, FAdd, M!FMul, FMul, M!FMac, FMac, M!FSgn, FSgn, M!FCmp, FCmp, M!VMul, VMul,
         M!VFMul, VFMul, M!VMove, VMove, M!IntLoad, IntLoad, M!IntStore, IntStore
<1>3. \A op : M!exec_type(op) = exec_type(op)
  BY DEF M!exec_type, exec_type, M!Load, Load, M!Store, Store, M!VLoad, VLoad, M!VStore, VStore,
         M!Branch, Branch, M!Jump, Jump, M!Ctrl, Ctrl, M!VSet, VSet, M!Vector, Vector,
         M!Upper, Upper, M!AluImm, AluImm, M!Alu, Alu, M!Mul, Mul, M!Div, Div, M!Float, Float,
         M!FAdd, FAdd, M!FMul, FMul, M!FMac, FMac, M!FSgn, FSgn, M!FCmp, FCmp, M!VMul, VMul,
         M!VFMul, VFMul, M!VMove, VMove, M!IntLoad, IntLoad, M!IntStore, IntStore
<1>4. \A op : M!dst_type(op) = dst_type(op)
  BY DEF M!dst_type, dst_type, M!VLoad, VLoad, M!Jump, Jump, M!VSet, VSet, M!Vector, Vector,
         M!Upper, Upper, M!AluImm, AluImm, M!Alu, Alu, M!Mul, Mul, M!Div, Div, M!Float, Float,
         M!FAdd, FAdd, M!FMul, FMul, M!FMac, FMac, M!FSgn, FSgn, M!FCmp, FCmp, M!VMul, VMul,
         M!VFMul, VFMul, M!VMove, VMove, M!IntLoad, IntLoad
<1>5. \A op : M!op_sew(op) = op_sew(op)
  BY DEF M!op_sew, op_sew
<1> QED
  BY <1>1, <1>2, <1>3, <1>4, <1>5

\* Memory and the register files.
LEMMA StoresAgree ==
  /\ M!WordMod = WordMod /\ M!Byte = Byte /\ M!Lane = Lane
  /\ \A n : M!Base(n) = Base(n)
  /\ \A w : M!scalar(w) = scalar(w)
  /\ \A w, n : M!sign_extend(w, n) = sign_extend(w, n)
  /\ \A bytes, n : M!Join(bytes, n) = Join(bytes, n)
  /\ \A m, b : M!Beyond(m, b) = Beyond(m, b)
  /\ \A m, addr, n : M!load(m, addr, n) = load(m, addr, n)
  /\ \A f, t, r, v : M!Written(f, t, r, v) = Written(f, t, r, v)
  /\ \A e : /\ M!element_size(e) = element_size(e) /\ M!access_size(e) = access_size(e)
            /\ (M!InRange(e) <=> InRange(e)) /\ (M!Passes(e) <=> Passes(e))
            /\ (M!IsWild(e) <=> IsWild(e))
  /\ \A e, m : M!Loaded(e, m) = Loaded(e, m) /\ M!Stored(e, m) = Stored(e, m)
<1>1. \A n : M!Base(n) = Base(n)
  BY DEF M!Base, Base
<1>2. M!WordMod = WordMod /\ M!Byte = Byte /\ M!Lane = Lane
  BY <1>1 DEF M!WordMod, WordMod, M!Byte, Byte, M!Lane, Lane
<1>3. \A w : M!scalar(w) = scalar(w)
  BY <1>2 DEF M!scalar, scalar
<1>4. \A w, n : M!sign_extend(w, n) = sign_extend(w, n)
  BY <1>1, <1>2 DEF M!sign_extend, sign_extend
<1>5. \A w, k : M!ByteOf(w, k) = ByteOf(w, k)
  BY <1>1 DEF M!ByteOf, ByteOf
<1>6. \A bytes, n : M!Join(bytes, n) = Join(bytes, n)
  BY <1>1 DEF M!Join, Join
<1>7. \A addr, n : (M!Checked(addr, n) <=> Checked(addr, n))
  BY <1>2 DEF M!Checked, Checked
<1>8. \A addr, n : (M!InMemory(addr, n) <=> InMemory(addr, n))
  BY DEF M!InMemory, InMemory
<1>9. \A addr, n : (M!Wild(addr, n) <=> Wild(addr, n))
  BY <1>7, <1>8 DEF M!Wild, Wild
<1>10. \A m, b : M!Beyond(m, b) = Beyond(m, b)
  BY <1>2 DEF M!Beyond, Beyond
<1>11. \A m, addr, n : M!load(m, addr, n) = load(m, addr, n)
  BY <1>2, <1>6, <1>7 DEF M!load, load
<1>12. \A f, t, r, v : M!Written(f, t, r, v) = Written(f, t, r, v)
  BY <1>3 DEF M!Written, Written
<1>13. \A e : M!element_size(e) = element_size(e) /\ M!access_size(e) = access_size(e)
  <2>1. M!VLoad \cup M!VStore = VLoad \cup VStore
    BY TablesAgree
  <2>2. \A e : M!element_size(e) = element_size(e)
    BY <2>1 DEF M!element_size, element_size
  <2> QED
    BY <2>1, <2>2 DEF M!access_size, access_size
<1>14. \A e : M!elements(e) = elements(e)
  BY TablesAgree DEF M!elements, elements
<1>15. \A e, l : M!element_address(e, l) = element_address(e, l)
  BY <1>2, <1>13 DEF M!element_address, element_address
<1>16. \A e : M!InRange(e) <=> InRange(e)
  BY <1>8, <1>13 DEF M!InRange, InRange
<1>17. \A e : M!Passes(e) <=> Passes(e)
  BY <1>7, <1>13, <1>14, <1>15 DEF M!Passes, Passes
<1>18. \A e : M!IsWild(e) <=> IsWild(e)
  BY <1>9, <1>13, <1>14, <1>15, TablesAgree DEF M!IsWild, IsWild
<1>19. \A op, raw : M!format_load(op, raw) = format_load(op, raw)
  BY <1>4 DEF M!format_load, format_load
<1>20. \A e, m : M!Loaded(e, m) = Loaded(e, m)
  <2> SUFFICES ASSUME NEW e, NEW m PROVE M!Loaded(e, m) = Loaded(e, m)
    OBVIOUS
  <2>1. CASE e.op \in VLoad
    <3> DEFINE n == element_size(e)
               a(l) == [k \in 0..(n-1) |-> load(m, (e.Va + l * n + k) % WordMod, 1)]
               b(l) == [k \in 0..(M!element_size(e)-1) |->
                          M!load(m, (e.Va + l * M!element_size(e) + k) % M!WordMod, 1)]
    <3>1. \A l : a(l) = b(l) /\ Join(a(l), n) = M!Join(b(l), M!element_size(e))
      BY <1>2, <1>6, <1>11, <1>13
    <3>2. Loaded(e, m) = [l \in Lane |-> IF l < e.vl THEN Join(a(l), n) ELSE 0]
      BY <2>1 DEF Loaded
    <3>3. M!Loaded(e, m) = [l \in M!Lane |-> IF l < e.vl THEN M!Join(b(l), M!element_size(e)) ELSE 0]
      BY <2>1, TablesAgree DEF M!Loaded
    <3> HIDE DEF a, b, n
    <3> QED
      BY <1>2, <3>1, <3>2, <3>3
  <2>2. CASE e.op \notin VLoad
    BY <1>3, <1>11, <1>13, <1>19, <2>2, TablesAgree DEF M!Loaded, Loaded
  <2> QED
    BY <2>1, <2>2
<1>21. \A e, m : M!Stored(e, m) = Stored(e, m)
  <2> SUFFICES ASSUME NEW e, NEW m PROVE M!Stored(e, m) = Stored(e, m)
    OBVIOUS
  <2> QED
    BY <1>2, <1>5, <1>7, <1>13, <1>15 DEF M!Stored, Stored
<1> QED
  BY <1>1, <1>2, <1>3, <1>4, <1>6, <1>10, <1>11, <1>12, <1>13, <1>16, <1>17, <1>18, <1>20, <1>21

\* What the units compute.
LEMMA UnitsAgree ==
  /\ \A s : M!vlmax(s) = vlmax(s)
  /\ \A e : (M!Unsupported(e) <=> Unsupported(e)) /\ M!EffectiveAddress(e) = EffectiveAddress(e)
  /\ \A e, n : M!Compute(e, n) = Compute(e, n)
  /\ \A i : M!ToWord(i) = ToWord(i)
<1>1. \A s : M!vlmax(s) = vlmax(s)
  BY DEF M!vlmax, vlmax
<1>2. \A i : M!ToWord(i) = ToWord(i) /\ M!Signed(i) = Signed(i) /\ M!Bool(i) = Bool(i)
  BY StoresAgree DEF M!ToWord, ToWord, M!Signed, Signed, M!Bool, Bool
<1>3. \A a, b, p : M!Bitwise(a, b, p) = Bitwise(a, b, p)
  BY DEF M!Bitwise, Bitwise
<1>4. \A op, a, b : M!alu(op, a, b) = alu(op, a, b)
  <2> SUFFICES ASSUME NEW op, NEW a, NEW b PROVE M!alu(op, a, b) = alu(op, a, b)
    OBVIOUS
  <2> DEFINE f1 == ToWord(a + b)
             f2 == ToWord(a - b)
             f3 == ToWord(a * 2^(b % WordBits))
             f4 == Bool(Signed(a) < Signed(b))
             f5 == Bool(a < b)
             f6 == Bitwise(a, b, {p \in BOOLEAN \X BOOLEAN : p[1] # p[2]})
             f7 == a \div 2^(b % WordBits)
             f8 == ToWord(Signed(a) \div 2^(b % WordBits))
             f9 == Bitwise(a, b, {p \in BOOLEAN \X BOOLEAN : p[1] \/ p[2]})
             f10 == Bitwise(a, b, {p \in BOOLEAN \X BOOLEAN : p[1] /\ p[2]})
             m1 == M!ToWord(a + b)
             m2 == M!ToWord(a - b)
             m3 == M!ToWord(a * 2^(b % WordBits))
             m4 == M!Bool(M!Signed(a) < M!Signed(b))
             m5 == M!Bool(a < b)
             m6 == M!Bitwise(a, b, {p \in BOOLEAN \X BOOLEAN : p[1] # p[2]})
             m7 == a \div 2^(b % WordBits)
             m8 == M!ToWord(M!Signed(a) \div 2^(b % WordBits))
             m9 == M!Bitwise(a, b, {p \in BOOLEAN \X BOOLEAN : p[1] \/ p[2]})
             m10 == M!Bitwise(a, b, {p \in BOOLEAN \X BOOLEAN : p[1] /\ p[2]})
  <2>1. alu(op, a, b) =
        CASE op \in {"ADD", "ADDI", "LUI", "AUIPC"} -> f1
          [] op = "SUB" -> f2
          [] op \in {"SLL", "SLLI"} -> f3
          [] op \in {"SLT", "SLTI"} -> f4
          [] op \in {"SLTU", "SLTIU"} -> f5
          [] op \in {"XOR", "XORI"} -> f6
          [] op \in {"SRL", "SRLI"} -> f7
          [] op \in {"SRA", "SRAI"} -> f8
          [] op \in {"OR", "ORI"} -> f9
          [] op \in {"AND", "ANDI"} -> f10
    BY Zenon DEF alu
  <2>2. M!alu(op, a, b) =
        CASE op \in {"ADD", "ADDI", "LUI", "AUIPC"} -> m1
          [] op = "SUB" -> m2
          [] op \in {"SLL", "SLLI"} -> m3
          [] op \in {"SLT", "SLTI"} -> m4
          [] op \in {"SLTU", "SLTIU"} -> m5
          [] op \in {"XOR", "XORI"} -> m6
          [] op \in {"SRL", "SRLI"} -> m7
          [] op \in {"SRA", "SRAI"} -> m8
          [] op \in {"OR", "ORI"} -> m9
          [] op \in {"AND", "ANDI"} -> m10
    BY Zenon DEF M!alu
  <2>3. /\ m1 = f1 /\ m2 = f2 /\ m3 = f3 /\ m4 = f4 /\ m5 = f5 /\ m6 = f6
        /\ m7 = f7 /\ m8 = f8 /\ m9 = f9 /\ m10 = f10
    BY <1>2, <1>3
  <2> HIDE DEF m1, m2, m3, m4, m5, m6, m7, m8, m9, m10,
             f1, f2, f3, f4, f5, f6, f7, f8, f9, f10
  <2> QED
    BY <2>1, <2>2, <2>3
<1>5. \A x, y : M!Quotient(x, y) = Quotient(x, y)
  BY DEF M!Quotient, Quotient
<1>6. \A op, a, b : M!muldiv(op, a, b) = muldiv(op, a, b)
  <2> SUFFICES ASSUME NEW op, NEW a, NEW b PROVE M!muldiv(op, a, b) = muldiv(op, a, b)
    OBVIOUS
  <2> DEFINE f1 == ToWord(Signed(a) * Signed(b))
             f2 == ToWord((Signed(a) * Signed(b)) \div WordMod)
             f3 == ToWord((Signed(a) * b) \div WordMod)
             f4 == (a * b) \div WordMod
             f5 == IF b = 0 THEN WordMod - 1
                   ELSE IF 2 * a = WordMod /\ Signed(b) = -1 THEN a
                   ELSE ToWord(Quotient(Signed(a), Signed(b)))
             f6 == IF b = 0 THEN a
                   ELSE IF 2 * a = WordMod /\ Signed(b) = -1 THEN 0
                   ELSE ToWord(Signed(a) - Signed(b) * Quotient(Signed(a), Signed(b)))
             f7 == IF b = 0 THEN WordMod - 1 ELSE a \div b
             f8 == IF b = 0 THEN a ELSE a % b
             m1 == M!ToWord(M!Signed(a) * M!Signed(b))
             m2 == M!ToWord((M!Signed(a) * M!Signed(b)) \div M!WordMod)
             m3 == M!ToWord((M!Signed(a) * b) \div M!WordMod)
             m4 == (a * b) \div M!WordMod
             m5 == IF b = 0 THEN M!WordMod - 1
                   ELSE IF 2 * a = M!WordMod /\ M!Signed(b) = -1 THEN a
                   ELSE M!ToWord(M!Quotient(M!Signed(a), M!Signed(b)))
             m6 == IF b = 0 THEN a
                   ELSE IF 2 * a = M!WordMod /\ M!Signed(b) = -1 THEN 0
                   ELSE M!ToWord(M!Signed(a) - M!Signed(b) * M!Quotient(M!Signed(a), M!Signed(b)))
             m7 == IF b = 0 THEN M!WordMod - 1 ELSE a \div b
             m8 == IF b = 0 THEN a ELSE a % b
  <2>1. muldiv(op, a, b) =
        CASE op = "MUL" -> f1
          [] op = "MULH" -> f2
          [] op = "MULHSU" -> f3
          [] op = "MULHU" -> f4
          [] op = "DIV" -> f5
          [] op = "REM" -> f6
          [] op = "DIVU" -> f7
          [] op = "REMU" -> f8
    BY Zenon DEF muldiv
  <2>2. M!muldiv(op, a, b) =
        CASE op = "MUL" -> m1
          [] op = "MULH" -> m2
          [] op = "MULHSU" -> m3
          [] op = "MULHU" -> m4
          [] op = "DIV" -> m5
          [] op = "REM" -> m6
          [] op = "DIVU" -> m7
          [] op = "REMU" -> m8
    BY Zenon DEF M!muldiv
  <2>3. /\ m1 = f1 /\ m2 = f2 /\ m3 = f3 /\ m4 = f4 /\ m5 = f5 /\ m6 = f6
        /\ m7 = f7 /\ m8 = f8
    BY <1>2, <1>5, StoresAgree
  <2> HIDE DEF m1, m2, m3, m4, m5, m6, m7, m8,
             f1, f2, f3, f4, f5, f6, f7, f8
  <2> QED
    BY <2>1, <2>2, <2>3
<1>7. \A op, a, b : M!branch_taken(op, a, b) = branch_taken(op, a, b)
  BY <1>2 DEF M!branch_taken, branch_taken
<1>8. \A op, imm, a, s, n : M!vset_vl(op, imm, a, s, n) = vset_vl(op, imm, a, s, n)
  BY <1>1 DEF M!vset_vl, vset_vl, M!vl_for, vl_for
<1>9. \A w, s : M!wrap(w, s) = wrap(w, s)
  BY StoresAgree DEF M!wrap, wrap
<1>10. \A old, n, s, new : M!Lanewise(old, n, s, new) = Lanewise(old, n, s, new)
  BY <1>2, <1>9, StoresAgree DEF M!Lanewise, Lanewise
<1>11. \A op, imm, Vj, Vk, Vl, n, sew :
         M!vector(op, imm, Vj, Vk, Vl, n, sew) = vector(op, imm, Vj, Vk, Vl, n, sew)
  <2> SUFFICES ASSUME NEW op, NEW imm, NEW Vj, NEW Vk, NEW Vl, NEW n, NEW sew
               PROVE  M!vector(op, imm, Vj, Vk, Vl, n, sew) = vector(op, imm, Vj, Vk, Vl, n, sew)
    OBVIOUS
  <2> DEFINE fs == LET sum[i \in 0..n] == IF i = 0 THEN wrap(Vk[0], sew)
                                          ELSE wrap(sum[i-1] + Vj[i-1], sew)
                   IN  sum[n]
             ms == LET sum[i \in 0..n] == IF i = 0 THEN M!wrap(Vk[0], sew)
                                          ELSE M!wrap(sum[i-1] + Vj[i-1], sew)
                   IN  sum[n]
  <2>4. ms = fs
    BY DEF wrap, M!wrap, Base, M!Base
  <2> DEFINE f1 == Lanewise(Vl, n, sew, [l \in Lane |-> Vj[l] * Vk[l]])
             f2 == Lanewise(Vj, n, sew, [l \in Lane |-> Vj[l] + Vk[l] * Vl[l]])
             f3 == Lanewise(Vj, n, sew, [l \in Lane |-> Vj[l] + Vk[0] * Vl[l]])
             f4 == Lanewise(Vl, n, sew, [l \in Lane |-> imm])
             f5 == Lanewise(Vl, n, sew, [l \in Lane |-> Vj[0]])
             f6 == [Vl EXCEPT ![0] = wrap(Vj[0], sew)]
             f7 == scalar(sign_extend(Vj[0], sew \div 8))
             f8 == Vj
             f9 == [Vl EXCEPT ![0] = fs]
             f10 == Lanewise(Vl, n, 32, [l \in Lane |-> Vj[0]])
             f11 == Lanewise(Vj, n, 32, [l \in Lane |-> F!SingleFma(Vk[l], Vl[l], Vj[l])])
             f12 == Lanewise(Vj, n, 32, [l \in Lane |-> F!SingleFma(Vk[0], Vl[l], Vj[l])])
             m1 == M!Lanewise(Vl, n, sew, [l \in M!Lane |-> Vj[l] * Vk[l]])
             m2 == M!Lanewise(Vj, n, sew, [l \in M!Lane |-> Vj[l] + Vk[l] * Vl[l]])
             m3 == M!Lanewise(Vj, n, sew, [l \in M!Lane |-> Vj[l] + Vk[0] * Vl[l]])
             m4 == M!Lanewise(Vl, n, sew, [l \in M!Lane |-> imm])
             m5 == M!Lanewise(Vl, n, sew, [l \in M!Lane |-> Vj[0]])
             m6 == [Vl EXCEPT ![0] = M!wrap(Vj[0], sew)]
             m7 == M!scalar(M!sign_extend(Vj[0], sew \div 8))
             m8 == Vj
             m9 == [Vl EXCEPT ![0] = ms]
             m10 == M!Lanewise(Vl, n, 32, [l \in M!Lane |-> Vj[0]])
             m11 == M!Lanewise(Vj, n, 32, [l \in M!Lane |-> M!F!SingleFma(Vk[l], Vl[l], Vj[l])])
             m12 == M!Lanewise(Vj, n, 32, [l \in M!Lane |-> M!F!SingleFma(Vk[0], Vl[l], Vj[l])])
  <2>1. vector(op, imm, Vj, Vk, Vl, n, sew) =
        CASE op = "VMUL_VV" -> f1
          [] op = "VMACC_VV" -> f2
          [] op = "VMACC_VX" -> f3
          [] op = "VMV_V_I" -> f4
          [] op = "VMV_V_X" -> f5
          [] op = "VMV_S_X" -> f6
          [] op = "VMV_X_S" -> f7
          [] op = "VMV1R_V" -> f8
          [] op = "VREDSUM_VS" -> f9
          [] op = "VFMV_V_F" -> f10
          [] op = "VFMACC_VV" -> f11
          [] op = "VFMACC_VF" -> f12
    BY Zenon DEF vector
  <2>2. M!vector(op, imm, Vj, Vk, Vl, n, sew) =
        CASE op = "VMUL_VV" -> m1
          [] op = "VMACC_VV" -> m2
          [] op = "VMACC_VX" -> m3
          [] op = "VMV_V_I" -> m4
          [] op = "VMV_V_X" -> m5
          [] op = "VMV_S_X" -> m6
          [] op = "VMV_X_S" -> m7
          [] op = "VMV1R_V" -> m8
          [] op = "VREDSUM_VS" -> m9
          [] op = "VFMV_V_F" -> m10
          [] op = "VFMACC_VV" -> m11
          [] op = "VFMACC_VF" -> m12
    BY Zenon DEF M!vector
  <2>3. /\ m1 = f1 /\ m2 = f2 /\ m3 = f3 /\ m4 = f4 /\ m5 = f5 /\ m6 = f6
        /\ m7 = f7 /\ m8 = f8 /\ m9 = f9 /\ m10 = f10 /\ m11 = f11 /\ m12 = f12
    BY <1>9, <1>10, <2>4, StoresAgree, FloatsAgree
  <2> HIDE DEF m1, m2, m3, m4, m5, m6, m7, m8, m9, m10, m11, m12,
             f1, f2, f3, f4, f5, f6, f7, f8, f9, f10, f11, f12
  <2> QED
    BY <2>1, <2>2, <2>3
<1>12. \A op, pc_, imm, a : M!ctrl_target(op, pc_, imm, a) = ctrl_target(op, pc_, imm, a)
  BY <1>2 DEF M!ctrl_target, ctrl_target
<1>13. \A e, n : M!Compute(e, n) = Compute(e, n)
  <2> SUFFICES ASSUME NEW e, NEW n PROVE M!Compute(e, n) = Compute(e, n)
    OBVIOUS
  <2> DEFINE a    == e.Vj[0]
             fb   == IF e.op \in Upper \cup AluImm THEN ToWord(e.imm) ELSE e.Vk[0]
             mb   == IF e.op \in M!Upper \cup M!AluImm THEN M!ToWord(e.imm) ELSE e.Vk[0]
             base == IF e.op = "LUI" THEN 0 ELSE IF e.op = "AUIPC" THEN e.pc ELSE a
             fl   == IF e.op \in VSet THEN vset_vl(e.op, e.imm, a, e.sew, n) ELSE e.vl
             ml   == IF e.op \in M!VSet THEN M!vset_vl(e.op, e.imm, a, e.sew, n) ELSE e.vl
             f1   == scalar(alu(e.op, base, fb))
             m1   == M!scalar(M!alu(e.op, base, mb))
             f2   == scalar(muldiv(e.op, a, fb))
             m2   == M!scalar(M!muldiv(e.op, a, mb))
             f3   == scalar(ToWord(e.pc + WORD_BYTES))
             m3   == M!scalar(M!ToWord(e.pc + M!WORD_BYTES))
             f4   == scalar(0)
             m4   == M!scalar(0)
             f5   == scalar(fl)
             m5   == M!scalar(ml)
             f6   == scalar(ToWord(F!fpu(e.op, a, e.Vk[0], e.Vl[0], e.rm)))
             m6   == M!scalar(M!ToWord(M!F!fpu(e.op, a, e.Vk[0], e.Vl[0], e.rm)))
             f7   == vector(e.op, e.imm, e.Vj, e.Vk, e.Vl, e.vl, e.sew)
             m7   == M!vector(e.op, e.imm, e.Vj, e.Vk, e.Vl, e.vl, e.sew)
             fv   == CASE exec_type(e.op) = "LOGIC" -> f1 [] exec_type(e.op) = "MULDIV" -> f2
                       [] e.op \in Jump -> f3 [] e.op \in Branch -> f4 [] e.op \in VSet -> f5
                       [] exec_type(e.op) = "FLOAT" -> f6 [] e.op \in Vector \ VSet -> f7
             mv   == CASE M!exec_type(e.op) = "LOGIC" -> m1 [] M!exec_type(e.op) = "MULDIV" -> m2
                       [] e.op \in M!Jump -> m3 [] e.op \in M!Branch -> m4
                       [] e.op \in M!VSet -> m5 [] M!exec_type(e.op) = "FLOAT" -> m6
                       [] e.op \in M!Vector \ M!VSet -> m7
             fj   == e.op \in Jump \/ (e.op \in Branch /\ branch_taken(e.op, a, fb))
             mj   == e.op \in M!Jump \/ (e.op \in M!Branch /\ M!branch_taken(e.op, a, mb))
             ft   == IF e.op \in Ctrl THEN ctrl_target(e.op, e.pc, e.imm, a) ELSE 0
             mt   == IF e.op \in M!Ctrl THEN M!ctrl_target(e.op, e.pc, e.imm, a) ELSE 0
             fn   == IF e.op \in Vector THEN fl ELSE 0
             mn   == IF e.op \in M!Vector THEN ml ELSE 0
             fw   == IF e.op \in Vector THEN e.sew ELSE 0
             mw   == IF e.op \in M!Vector THEN e.sew ELSE 0
  <2>1. Compute(e, n) = [value |-> fv, jumped |-> fj, target |-> ft, vl |-> fn, sew |-> fw]
    BY Zenon DEF Compute
  <2>2. M!Compute(e, n) = [value |-> mv, jumped |-> mj, target |-> mt, vl |-> mn, sew |-> mw]
    BY Zenon DEF M!Compute
  <2>3. mb = fb /\ ml = fl
    BY <1>2, <1>8, TablesAgree
  <2>4. mt = ft /\ mw = fw
    BY <1>12, TablesAgree
  <2> HIDE DEF fb, mb, fl, ml, base, a
  <2>5. mn = fn
    BY <2>3, TablesAgree
  <2>6. mj <=> fj
    BY <1>7, <2>3, TablesAgree
  <2>7. m1 = f1 /\ m2 = f2 /\ m3 = f3 /\ m4 = f4
    BY <1>2, <1>4, <1>6, <2>3, StoresAgree, TablesAgree
  <2>8. m5 = f5 /\ m6 = f6 /\ m7 = f7
    BY <1>2, <1>11, <2>3, StoresAgree, FloatsAgree
  <2> HIDE DEF f1, f2, f3, f4, f5, f6, f7, m1, m2, m3, m4, m5, m6, m7
  <2>9. mv = fv
    BY <2>7, <2>8, TablesAgree
  <2> HIDE DEF fv, mv, fj, mj, ft, mt, fn, mn, fw, mw
  <2>10. mj = fj
    BY <2>6 DEF mj, fj
  <2> QED
    BY <2>1, <2>2, <2>4, <2>5, <2>9, <2>10
<1>14. \A e : (M!Unsupported(e) <=> Unsupported(e)) /\ M!EffectiveAddress(e) = EffectiveAddress(e)
  BY <1>2, TablesAgree DEF M!Unsupported, Unsupported, M!EffectiveAddress, EffectiveAddress
<1> QED
  BY <1>1, <1>2, <1>13, <1>14

-----------------------------------------------------------------------------
(* What a load reads.                                                       *)

\* The sizes of memory and of words.
LEMMA MemoryFacts ==
  /\ WordMod \in Nat /\ WordMod >= 16 /\ MemSize \in Nat \ {0} /\ MemSize <= WordMod
  /\ 0 \in Lane /\ 0 \in Byte
BY WordSizes, MemoryAssumption, CpuAssumption DEF Lane, Byte

\* The elements of an access.
LEMMA ElementFacts ==
  ASSUME NEW e, e \in AnAccess, e.sew = op_sew(e.op)
  PROVE  /\ element_size(e) \in {1, 2, 4}
         /\ e.op \in VLoad \cup VStore => access_size(e) = e.vl * element_size(e) /\ elements(e) = e.vl
         /\ e.op \notin VLoad \cup VStore => access_size(e) = element_size(e) /\ elements(e) = 1
         /\ e.Va \in Nat /\ e.vl \in Nat /\ e.Va < WordMod
<1>1. LP!EntryTyped(e)
  BY AccessIsEntry, AccessesAgree, ClassesAgree DEF LP!EntryTyped
<1>2. element_size(e) \in {1, 2, 4}
  BY <1>1, LP!ElementSize, AccessesAgree, InstanceAssumptions DEF LP!MemoryAssumption
<1>3. e.Va \in Nat /\ e.vl \in Nat /\ e.Va < WordMod
  <2>1. e.Va \in Word /\ e.vl \in VLength
    BY DEF AnAccess
  <2> QED
    BY <2>1, MemoryFacts, VlenFacts, Constants DEF Word, VLength
<1> QED
  BY <1>2, <1>3 DEF access_size, elements

\* What is behind the end of memory does not show where addresses do not wrap.
LEMMA BeyondSame ==
  ASSUME NEW m \in MemState, NEW b, NEW a \in Nat, NEW n \in {1, 2, 4}, a + n - 1 < WordMod
  PROVE  load(Beyond(m, b), a, n) = load(m, a, n)
<1> DEFINE far == Beyond(m, b)
<1>1. DOMAIN m = 0..(MemSize - 1)
  BY DEF MemState
<1>2. \A x \in 0..(MemSize - 1) : far[x] = m[x]
  BY <1>1 DEF Beyond
<1> HIDE DEF far
<1>3. CASE Checked(a, n)
  <2>1. (a + n - 1) % WordMod < MemSize
    BY <1>3 DEF Checked
  <2> DEFINE z == a + n - 1
             w == WordMod
  <2>2. z \in Nat /\ w \in Nat /\ z < w
    BY MemoryFacts
  <2> HIDE DEF z, w
  <2>3. z % w = z
    BY <2>2
  <2>4. z < MemSize
    BY <2>1, <2>3 DEF z, w
  <2>5. ASSUME NEW k \in 0..(n-1) PROVE far[(a + k) % WordMod] = m[(a + k) % WordMod]
    <3> DEFINE y == a + k
    <3>1. y \in Nat /\ y <= z
      BY DEF z
    <3>2. y < WordMod /\ y \in 0..(MemSize - 1)
      BY <2>4, <3>1, <2>2, MemoryFacts DEF w
    <3> HIDE DEF y
    <3>3. y % WordMod = y
      <4> DEFINE v == WordMod
      <4>1. v \in Nat /\ y < v
        BY <3>2, MemoryFacts
      <4> HIDE DEF v
      <4>2. y % v = y
        BY <3>1, <4>1
      <4> QED
        BY <4>2 DEF v
    <3> QED
      BY <1>2, <3>2, <3>3 DEF y
  <2>6. [k \in 0..(n-1) |-> far[(a + k) % WordMod]] = [k \in 0..(n-1) |-> m[(a + k) % WordMod]]
    BY <2>5
  <2>7. /\ load(far, a, n) = Join([k \in 0..(n-1) |-> far[(a + k) % WordMod]], n)
        /\ load(m, a, n) = Join([k \in 0..(n-1) |-> m[(a + k) % WordMod]], n)
    BY <1>3 DEF load
  <2> QED
    BY <2>6, <2>7 DEF far
<1>4. CASE ~Checked(a, n)
  BY <1>4 DEF load, far
<1> QED
  BY <1>3, <1>4

\* One byte, at any address.
LEMMA BeyondByte ==
  ASSUME NEW m \in MemState, NEW b, NEW x \in Int
  PROVE  load(Beyond(m, b), x % WordMod, 1) = load(m, x % WordMod, 1)
<1> DEFINE w == WordMod
<1>1. w \in Nat \ {0}
  BY MemoryFacts
<1> HIDE DEF w
<1>2. x % w \in Nat /\ (x % w) + 1 - 1 < w
  BY <1>1
<1> QED
  BY <1>2, BeyondSame DEF w

\* A load brings back what is in the queue and in memory.
LEMMA ForwardedBeyond ==
  ASSUME NEW q, NEW i, q[i] \in AnAccess, q[i].sew = op_sew(q[i].op), q[i].op \in Load,
         q[i].Va + 3 < WordMod, NEW m \in MemState, NEW b
  PROVE  L!Forwarded(q, i, Beyond(m, b)) = L!Forwarded(q, i, m)
<1> DEFINE e == q[i]
           far == Beyond(m, b)
           n == element_size(e)
<1>1. /\ n \in {1, 2, 4} /\ e.Va \in Nat /\ e.vl \in Nat
      /\ e.op \notin VLoad \cup VStore => access_size(e) = n
  BY ElementFacts
<1>2. CASE e.op \in VLoad
  <2> DEFINE byte(f, x) == L!byte_forward(q, i, x, L!load(f, x % L!WordMod, 1))
             lane(f, l) == L!Join([k \in 0..(L!element_size(e)-1) |->
                              byte(f, e.Va + l * L!element_size(e) + k)], L!element_size(e))
  <2>1. \A f : L!Forwarded(q, i, f) = [l \in L!Lane |-> IF l < e.vl THEN lane(f, l) ELSE 0]
    BY <1>2, ClassesAgree DEF L!Forwarded, L!vload_forward
  <2>2. ASSUME NEW x \in Int PROVE byte(far, x) = byte(m, x)
    BY BeyondByte, AccessesAgree, MemoryAgrees
  <2>3. ASSUME NEW l \in L!Lane PROVE lane(far, l) = lane(m, l)
    <3> DEFINE s == L!element_size(e)
    <3>1. s \in {1, 2, 4} /\ l \in Int
      BY <1>1, AccessesAgree, MemoryAgrees DEF Lane
    <3> HIDE DEF s, byte
    <3>2. \A k \in 0..(s-1) : e.Va + l * s + k \in Int
      BY <1>1, <3>1
    <3>3. \A k \in 0..(s-1) : byte(far, e.Va + l * s + k) = byte(m, e.Va + l * s + k)
      BY <2>2, <3>2
    <3>4. [k \in 0..(s-1) |-> byte(far, e.Va + l * s + k)]
            = [k \in 0..(s-1) |-> byte(m, e.Va + l * s + k)]
      BY <3>3
    <3> QED
      BY <3>4 DEF s
  <2> HIDE DEF lane, far, e
  <2>4. L!Forwarded(q, i, far) = L!Forwarded(q, i, m)
    BY <2>1, <2>3
  <2> QED
    BY <2>4 DEF far
<1>3. CASE e.op \notin VLoad
  <2>1. e.op \notin VStore /\ access_size(e) = n
    BY <1>1, <1>3, AccessOps DEF Store
  <2>2. load(far, e.Va, n) = load(m, e.Va, n)
    <3>1. e.Va + n - 1 < WordMod
      BY <1>1, MemoryFacts
    <3> QED
      BY <1>1, <3>1, BeyondSame
  <2>3. L!load(far, e.Va, L!access_size(e)) = L!load(m, e.Va, L!access_size(e))
    BY <2>1, <2>2, AccessesAgree
  <2> HIDE DEF far, n
  <2>4. L!load_forward(q, i, far) = L!load_forward(q, i, m)
    BY <2>3 DEF L!load_forward
  <2>5. \A f : L!Forwarded(q, i, f) = L!scalar(L!format_load(q[i].op, L!load_forward(q, i, f)))
    BY <1>3, ClassesAgree DEF L!Forwarded
  <2>6. L!Forwarded(q, i, far) = L!Forwarded(q, i, m)
    BY <2>4, <2>5
  <2> QED
    BY <2>6 DEF far
<1> QED
  BY <1>2, <1>3

\* What a load in range reads is in memory.
LEMMA LoadedBeyond ==
  ASSUME NEW e \in AnAccess, e.sew = op_sew(e.op), e.op \in Load, InRange(e),
         NEW m \in MemState, NEW b
  PROVE  Loaded(e, Beyond(m, b)) = Loaded(e, m)
<1> DEFINE far == Beyond(m, b)
           n == element_size(e)
<1>1. /\ n \in {1, 2, 4} /\ e.Va \in Nat /\ e.vl \in Nat
      /\ e.op \notin VLoad \cup VStore => access_size(e) = n
  BY ElementFacts
<1>2. CASE e.op \in VLoad
  <2> DEFINE lane(f, l) == Join([k \in 0..(n-1) |-> load(f, (e.Va + l * n + k) % WordMod, 1)], n)
  <2>1. \A f : Loaded(e, f) = [l \in Lane |-> IF l < e.vl THEN lane(f, l) ELSE 0]
    BY <1>2 DEF Loaded
  <2>2. ASSUME NEW l \in Lane PROVE lane(far, l) = lane(m, l)
    <3>1. ASSUME NEW k \in 0..(n-1)
          PROVE  load(far, (e.Va + l * n + k) % WordMod, 1) = load(m, (e.Va + l * n + k) % WordMod, 1)
      <4>1. e.Va + l * n + k \in Int
        BY <1>1 DEF Lane
      <4> QED
        BY <4>1, BeyondByte
    <3>2. [k \in 0..(n-1) |-> load(far, (e.Va + l * n + k) % WordMod, 1)]
            = [k \in 0..(n-1) |-> load(m, (e.Va + l * n + k) % WordMod, 1)]
      BY <3>1
    <3> QED
      BY <3>2
  <2> HIDE DEF lane, far
  <2>3. Loaded(e, far) = Loaded(e, m)
    BY <2>1, <2>2
  <2> QED
    BY <2>3 DEF far
<1>3. CASE e.op \notin VLoad
  <2>1. e.op \notin VStore /\ access_size(e) = n
    BY <1>1, <1>3, AccessOps DEF Store
  <2>2. e.Va + n - 1 < WordMod
    BY <1>1, <2>1, MemoryFacts DEF InRange, InMemory
  <2>3. load(far, e.Va, n) = load(m, e.Va, n)
    BY <1>1, <2>2, BeyondSame
  <2> HIDE DEF far, n
  <2> QED
    BY <1>3, <2>1, <2>3 DEF Loaded, far
<1> QED
  BY <1>2, <1>3

\* An access in range passes the check, and is not wild.
LEMMA InRangePasses ==
  ASSUME NEW e \in AnAccess, e.sew = op_sew(e.op), InRange(e)
  PROVE  Passes(e) /\ ~IsWild(e)
<1> DEFINE n == element_size(e)
<1>1. /\ n \in {1, 2, 4} /\ e.Va \in Nat /\ elements(e) \in Nat
      /\ access_size(e) = elements(e) * n
  BY ElementFacts
<1> SUFFICES ASSUME NEW l \in 0..(elements(e) - 1)
             PROVE  Checked(element_address(e, l), n) /\ InMemory(element_address(e, l), n)
  BY DEF Passes, IsWild, Wild
<1> DEFINE c == elements(e)
           a == e.Va + l * n
           w == WordMod
<1>2. c * n >= (l + 1) * n /\ l \in Nat /\ c * n \in Nat /\ c * n # 0
  <2>1. c \in Nat /\ l \in 0..(c-1)
    BY <1>1
  <2> HIDE DEF c, n
  <2>2. CASE n = 1
    BY <2>1, <2>2
  <2>3. CASE n = 2
    BY <2>1, <2>3
  <2>4. CASE n = 4
    BY <2>1, <2>4
  <2> QED
    BY <1>1, <2>2, <2>3, <2>4
<1>3. e.Va + c * n - 1 < MemSize
  BY <1>1, <1>2 DEF InRange, InMemory
<1>4. a \in Nat /\ a + n - 1 < MemSize
  <2>1. (l + 1) * n = l * n + n /\ l * n \in Nat
    <3> HIDE DEF n
    <3>1. CASE n = 1
      BY <1>2, <3>1
    <3>2. CASE n = 2
      BY <1>2, <3>2
    <3>3. CASE n = 4
      BY <1>2, <3>3
    <3> QED
      BY <1>1, <3>1, <3>2, <3>3
  <2> DEFINE u == c * n
             v == l * n
             z == (l + 1) * n
  <2>2. z = v + n /\ v \in Nat /\ u >= z /\ u \in Nat /\ e.Va + u - 1 < MemSize
    BY <1>2, <1>3, <2>1
  <2> HIDE DEF u, v, z, n
  <2>3. e.Va + v \in Nat /\ e.Va + v + n - 1 < MemSize
    BY <1>1, <2>2, MemoryFacts
  <2> QED
    BY <2>3 DEF v
<1>5. w \in Nat /\ MemSize <= w /\ MemSize \in Nat
  BY MemoryFacts
<1>6. element_address(e, l) = a % w
  BY DEF element_address
<1> HIDE DEF a, w, n
<1>7. a % w = a /\ (a + n - 1) % w = a + n - 1
  <2>1. a < w /\ a + n - 1 < w /\ a + n - 1 \in Nat
    BY <1>1, <1>4, <1>5
  <2> DEFINE z == a + n - 1
  <2>2. z \in Nat /\ z < w
    BY <2>1
  <2> HIDE DEF z
  <2>3. z % w = z /\ a % w = a
    BY <1>4, <1>5, <2>1, <2>2
  <2> QED
    BY <2>3 DEF z
<1> QED
  BY <1>4, <1>6, <1>7 DEF Checked, InMemory, w

-----------------------------------------------------------------------------
(* The queue in the pipeline: loads see the stores before them.             *)

\* The addresses of a queue lie in the address space, and so do their words.
Fits(q) == \A i \in DOMAIN q : q[i].Va + 3 < WordMod

\* No load of queue q is ahead of a store it depends on, and those that are done have
\* what they would read if the stores before them were written to memory m.
Sees(q, m) == LP!NoLoadAhead(q) /\ LP!LoadsSee(q, m)

\* Queue r is queue q after addresses, data, units that start or units that finish.
Grows(q, r, m) ==
  \A i \in DOMAIN q :
    /\ r[i].tag = q[i].tag /\ r[i].op = q[i].op
    /\ q[i].Qa = NoTag => r[i].Qa = NoTag /\ r[i].Va = q[i].Va /\ r[i].vl = q[i].vl
    /\ q[i].Q = NoTag => r[i].Q = NoTag
    /\ r[i].op \in Load /\ (r[i].issued \/ r[i].done) =>
         q[i].Qa = NoTag /\ LP!can_issue_load(q, i)
    /\ q[i].op \in Store /\ q[i].Q = NoTag => r[i].V = q[i].V
    /\ q[i].op \in Load /\ r[i].done =>
         r[i].V = IF q[i].done THEN q[i].V ELSE LP!Forwarded(q, i, m)

\* A queue of the pipeline is one of the load/store queue's own.
LEMMA QueueAgrees ==
  ASSUME NEW q, NEW size, QueueOK(q, size), Fits(q)
  PROVE  /\ LP!IsQueue(q) /\ q \in Seq(LP!LSQEntry)
         /\ \A k \in DOMAIN q : LP!EntryOK(q[k])
         /\ Len(q) \in Nat /\ DOMAIN q = 1..Len(q)
<1>1. q \in Seq(LP!LSQEntry) /\ Len(q) \in Nat /\ DOMAIN q = 1..Len(q)
  <2>1. q \in Seq(AnAccess) /\ AnAccess \subseteq LP!LSQEntry
    BY AccessIsEntry, AccessesAgree DEF QueueOK
  <2>2. q \in Seq(LP!LSQEntry)
    BY <2>1, SeqDef
  <2> QED
    BY <2>2, LenProperties
<1>2. \A k \in DOMAIN q : LP!EntryOK(q[k])
  BY AccessIsEntry, AccessesAgree, ClassesAgree, MemoryAgrees
     DEF QueueOK, AccessOK, LP!EntryOK, LP!EntryTyped, Fits
<1> QED
  BY <1>1, <1>2 DEF LP!IsQueue

\* What the queue's entries become leaves what its loads see.
LEMMA GrowsSees ==
  ASSUME NEW q, NEW r, NEW size, QueueOK(q, size), QueueOK(r, size), Fits(q), Fits(r),
         DOMAIN r = DOMAIN q, NEW m \in MemState, Grows(q, r, m), Sees(q, m)
  PROVE  Sees(r, m)
<1>1. LP!IsQueue(q) /\ Len(q) \in Nat /\ DOMAIN q = 1..Len(q)
  BY QueueAgrees
<1>2. /\ r \in Seq(LP!LSQEntry) /\ \A k \in DOMAIN r : LP!EntryOK(r[k])
      /\ Len(r) \in Nat /\ DOMAIN r = 1..Len(r)
  BY QueueAgrees
<1>3. Len(r) = Len(q)
  BY <1>1, <1>2
<1>4. LP!Evolved(q, r, m)
  BY <1>2, <1>3, ClassesAgree DEF Grows, LP!Evolved
<1>5. LP!NoLoadAhead(r)
  BY <1>1, <1>4, LP!EvolvedAhead, InstanceAssumptions DEF LP!MemoryAssumption, LP!LsqAssumption
<1>6. LP!LoadsSee(r, m)
  <2>1. MemSize <= LP!WordMod /\ m \in LP!MemState /\ LP!LoadsSee(q, m)
    BY MemoryFacts, MemoryAgrees DEF Sees
  <2> QED
    BY <1>1, <1>4, <2>1, LP!EvolvedSees, InstanceAssumptions
       DEF LP!MemoryAssumption, LP!LsqAssumption
<1> QED
  BY <1>5, <1>6 DEF Sees

\* What has been started in queue r is in queue q, behind the same entries.
StartsAs(q, r) ==
  \A i \in DOMAIN r : r[i].issued \/ r[i].done => i \in DOMAIN q /\ \A k \in 1..i : r[k] = q[k]

\* The queue behind an access says nothing of what it sees.
LEMMA PrefixKeeps ==
  ASSUME NEW q, NEW n \in Nat, DOMAIN q = 1..n, NEW m, Sees(q, m), NEW r, StartsAs(q, r)
  PROVE  Sees(r, m)
<1>1. LP!LoadsSee(r, m)
  <2>1. \A i \in DOMAIN r : r[i].done => i \in DOMAIN q /\ \A k \in 1..i : r[k] = q[k]
    BY DEF StartsAs
  <2> QED
    BY <2>1, LP!PrefixSees, InstanceAssumptions DEF LP!MemoryAssumption, LP!LsqAssumption, Sees
<1>2. LP!NoLoadAhead(r)
  <2> SUFFICES ASSUME NEW i \in DOMAIN r, r[i].op \in LP!Load, r[i].issued \/ r[i].done
               PROVE  r[i].Qa = LP!NoTag /\ LP!can_issue_load(r, i)
    BY DEF LP!NoLoadAhead
  <2>1. i \in DOMAIN q /\ \A k \in 1..i : r[k] = q[k]
    BY DEF StartsAs
  <2>2. i \in Nat /\ i >= 1 /\ r[i] = q[i] /\ \A k \in 1..(i-1) : r[k] = q[k]
    BY <2>1
  <2>3. q[i].Qa = LP!NoTag /\ LP!can_issue_load(q, i)
    BY <2>1, <2>2 DEF Sees, LP!NoLoadAhead
  <2>4. \A a, b, c, d : a = c /\ b = d => (LP!overlaps(a, b) <=> LP!overlaps(c, d))
    OBVIOUS
  <2> QED
    BY <2>2, <2>3, <2>4 DEF LP!can_issue_load
<1> QED
  BY <1>1, <1>2 DEF Sees

\* The head of the queue commits.
LEMMA HeadLeaves ==
  ASSUME MemSize + 4 <= WordMod, NEW q, NEW size, QueueOK(q, size), Fits(q), q # <<>>,
         NEW m \in MemState, Sees(q, m), Head(q).op \in Store => Passes(Head(q))
  PROVE  Sees(Tail(q), IF Head(q).op \in Store THEN Stored(Head(q), m) ELSE m)
<1>1. LP!IsQueue(q) /\ q \in Seq(LP!LSQEntry) /\ Len(q) \in Nat /\ DOMAIN q = 1..Len(q)
  BY QueueAgrees
<1> DEFINE w == IF Head(q).op \in LP!Store THEN LP!Stored(Head(q), m) ELSE m
<1>2. w = IF Head(q).op \in Store THEN Stored(Head(q), m) ELSE m
  BY AccessesAgree, ClassesAgree
<1>3. \A e : LP!Passes(e) <=> Passes(e)
  <2>1. \A e : LP!elements(e) = elements(e)
    BY ClassesAgree DEF LP!elements, elements
  <2> QED
    BY <2>1, AccessesAgree, MemoryAgrees DEF LP!Passes, Passes
<1>4. /\ MemSize + 4 <= LP!WordMod /\ m \in LP!MemState /\ LP!LoadsSee(q, m)
      /\ Head(q).op \in LP!Store => LP!Passes(Head(q))
  BY <1>3, MemoryAgrees, ClassesAgree DEF Sees
<1>5. LP!LoadsSee(Tail(q), w)
  BY <1>1, <1>4, LP!CommitSees, InstanceAssumptions DEF LP!MemoryAssumption, LP!LsqAssumption
<1>6. LP!NoLoadAhead(Tail(q))
  <2> DEFINE n == Len(q)
  <2>1. n >= 1 /\ DOMAIN Tail(q) = 1..(n-1) /\ \A k \in 1..(n-1) : Tail(q)[k] = q[k+1]
    BY <1>1, EmptySeq, HeadTailProperties, LenProperties
  <2> SUFFICES ASSUME NEW i \in 1..(n-1), Tail(q)[i].op \in LP!Load,
                      Tail(q)[i].issued \/ Tail(q)[i].done
               PROVE  Tail(q)[i].Qa = LP!NoTag /\ LP!can_issue_load(Tail(q), i)
    BY <2>1 DEF LP!NoLoadAhead
  <2>2. i + 1 \in DOMAIN q /\ Tail(q)[i] = q[i+1] /\ \A j \in 1..(i-1) : Tail(q)[j] = q[j+1] /\ j + 1 \in 1..i
    BY <1>1, <2>1
  <2>3. q[i+1].Qa = LP!NoTag /\ LP!can_issue_load(q, i+1)
    BY <2>2 DEF Sees, LP!NoLoadAhead
  <2>4. (i + 1) - 1 = i
    OBVIOUS
  <2> QED
    BY <2>2, <2>3, <2>4 DEF LP!can_issue_load
<1> QED
  BY <1>2, <1>5, <1>6 DEF Sees

\* The pipeline's queue lets a load start when the load/store queue of its own does.
LEMMA StartsAgree == \A q, i : L!can_issue(q, i) <=> LP!can_issue(q, i)
<1>1. \A a, b : L!overlaps(a, b) <=> LP!overlaps(a, b)
  BY AccessesAgree DEF L!overlaps, LP!overlaps
<1> QED
  BY <1>1, ClassesAgree DEF L!can_issue, LP!can_issue, L!can_issue_load, LP!can_issue_load

\* Addresses reach the queue.
LEMMA AddressesGrow ==
  ASSUME NEW q, NEW w, NEW fs, NewAddresses(q, w, fs), NEW m, Sees(q, m),
         \A i \in DOMAIN q : \A e \in fs : e.tag = q[i].tag => q[i].Qa # NoTag
  PROVE  Grows(q, w, m)
<1> SUFFICES ASSUME NEW i \in DOMAIN q
             PROVE  /\ w[i].tag = q[i].tag /\ w[i].op = q[i].op
                    /\ q[i].Qa = NoTag => w[i].Qa = NoTag /\ w[i].Va = q[i].Va /\ w[i].vl = q[i].vl
                    /\ q[i].Q = NoTag => w[i].Q = NoTag
                    /\ w[i].op \in Load /\ (w[i].issued \/ w[i].done) =>
                         q[i].Qa = NoTag /\ LP!can_issue_load(q, i)
                    /\ q[i].op \in Store /\ q[i].Q = NoTag => w[i].V = q[i].V
                    /\ q[i].op \in Load /\ w[i].done =>
                         w[i].V = IF q[i].done THEN q[i].V ELSE LP!Forwarded(q, i, m)
  BY DEF Grows
<1>1. /\ w[i].tag = q[i].tag /\ w[i].op = q[i].op /\ w[i].Q = q[i].Q /\ w[i].V = q[i].V
      /\ w[i].issued = q[i].issued /\ w[i].done = q[i].done
      /\ \/ w[i] = q[i]
         \/ \E e \in fs : e.tag = q[i].tag
  BY DEF NewAddresses
<1>2. q[i].Qa = NoTag => w[i] = q[i]
  BY <1>1
<1>3. w[i].op \in Load /\ (w[i].issued \/ w[i].done) => q[i].Qa = NoTag /\ LP!can_issue_load(q, i)
  BY <1>1, ClassesAgree DEF Sees, LP!NoLoadAhead
<1> QED
  BY <1>1, <1>2, <1>3

\* Units finish: loads read what is ahead of them in the queue, then memory.
LEMMA ValuesGrow ==
  ASSUME NEW q, NEW size, QueueOK(q, size), Fits(q), NEW w, NEW tags, NEW m \in MemState, NEW b,
         NewValues(q, w, tags, Beyond(m, b)), Sees(q, m),
         \A i \in DOMAIN q : q[i].tag \in tags => ~q[i].done /\ q[i].issued /\ q[i].Qa = NoTag
  PROVE  Grows(q, w, m)
<1> SUFFICES ASSUME NEW i \in DOMAIN q
             PROVE  /\ w[i].tag = q[i].tag /\ w[i].op = q[i].op
                    /\ q[i].Qa = NoTag => w[i].Qa = NoTag /\ w[i].Va = q[i].Va /\ w[i].vl = q[i].vl
                    /\ q[i].Q = NoTag => w[i].Q = NoTag
                    /\ w[i].op \in Load /\ (w[i].issued \/ w[i].done) =>
                         q[i].Qa = NoTag /\ LP!can_issue_load(q, i)
                    /\ q[i].op \in Store /\ q[i].Q = NoTag => w[i].V = q[i].V
                    /\ q[i].op \in Load /\ w[i].done =>
                         w[i].V = IF q[i].done THEN q[i].V ELSE LP!Forwarded(q, i, m)
  BY DEF Grows
<1>1. /\ w[i].tag = q[i].tag /\ w[i].op = q[i].op /\ w[i].Q = q[i].Q /\ w[i].Qa = q[i].Qa
      /\ w[i].Va = q[i].Va /\ w[i].vl = q[i].vl
      /\ w[i].done = (q[i].done \/ q[i].tag \in tags)
      /\ w[i].issued = (q[i].issued /\ q[i].tag \notin tags)
      /\ w[i].V = IF q[i].tag \in tags /\ q[i].op \in Load THEN L!Forwarded(q, i, Beyond(m, b))
                  ELSE q[i].V
  BY DEF NewValues
<1>2. q[i].tag \in tags => ~q[i].done /\ q[i].issued /\ q[i].Qa = NoTag
  OBVIOUS
<1>3. q[i] \in AnAccess /\ q[i].sew = op_sew(q[i].op) /\ q[i].Va + 3 < WordMod
  BY DEF QueueOK, AccessOK, Fits
<1>4. q[i].op \in Load => L!Forwarded(q, i, Beyond(m, b)) = LP!Forwarded(q, i, m)
  <2> HAVE q[i].op \in Load
  <2>1. L!Forwarded(q, i, Beyond(m, b)) = L!Forwarded(q, i, m)
    BY <1>3, ForwardedBeyond
  <2> QED
    BY <2>1, ForwardingAgrees
<1>5. q[i].op \in Load /\ (q[i].issued \/ q[i].done) => q[i].Qa = NoTag /\ LP!can_issue_load(q, i)
  BY ClassesAgree DEF Sees, LP!NoLoadAhead
<1>6. w[i].op \in Load /\ (w[i].issued \/ w[i].done) => q[i].Qa = NoTag /\ LP!can_issue_load(q, i)
  BY <1>1, <1>2, <1>5
<1>7. q[i].op \in Store => q[i].op \notin Load
  BY AccessOps
<1>8. q[i].op \in Store => w[i].V = q[i].V
  BY <1>1, <1>7
<1>9. ASSUME q[i].op \in Load, w[i].done
      PROVE  w[i].V = IF q[i].done THEN q[i].V ELSE LP!Forwarded(q, i, m)
  <2>1. CASE q[i].tag \in tags
    BY <1>1, <1>2, <1>4, <1>9, <2>1, Zenon
  <2>2. CASE q[i].tag \notin tags
    BY <1>1, <1>9, <2>2, Zenon
  <2> QED
    BY <2>1, <2>2
<1>10. q[i].Q = NoTag => w[i].Q = NoTag
  BY <1>1
<1>11. q[i].Qa = NoTag => w[i].Qa = NoTag /\ w[i].Va = q[i].Va /\ w[i].vl = q[i].vl
  BY <1>1
<1> QED
  BY <1>1, <1>6, <1>8, <1>9, <1>10, <1>11, Zenon

\* Execute: addresses come, then units finish.
LEMMA SeesExecute ==
  ASSUME CpuInv, QueueOK(lsq', config.lsq_size), Fits(lsq), Fits(lsq'), Sees(lsq, mem), Execute
  PROVE  Sees(lsq', mem)
<1> DEFINE a == Addresses
           fs == P!Finishing(paths["LOADSTORE"])
           size == config.lsq_size
           w == lsq'
           tags == Ended
<1>1. /\ QueueOK(lsq, size) /\ QueueOK(a, size) /\ NewAddresses(lsq, a, fs)
      /\ \E found : NewValues(a, w, tags, Beyond(mem, found))
  BY ExecuteQueue
<1>2. PICK found : NewValues(a, w, tags, Beyond(mem, found))
  BY <1>1
<1>3. /\ \A i \in DOMAIN lsq : lsq[i].tag \in tags => ~lsq[i].done /\ lsq[i].issued /\ lsq[i].Qa = NoTag
      /\ \A i \in DOMAIN lsq : \A e \in fs : e.tag = lsq[i].tag => lsq[i].Qa # NoTag
  BY ExecuteEnds
<1>4. mem \in MemState /\ QueueOK(w, size) /\ Fits(w)
  BY DEF CpuInv, ArchOK
<1> HIDE DEF a, fs, size, w, tags
<1>5. DOMAIN a = DOMAIN lsq /\ DOMAIN w = DOMAIN a
  BY <1>1, <1>2 DEF NewAddresses, NewValues
<1>6. Fits(a)
  BY <1>2, <1>4, <1>5 DEF Fits, NewValues
<1>7. Sees(a, mem)
  <2>1. Grows(lsq, a, mem)
    BY <1>1, <1>3, AddressesGrow
  <2> QED
    BY <1>1, <1>4, <1>5, <1>6, <2>1, GrowsSees
<1>8. \A i \in DOMAIN a : a[i].tag \in tags => ~a[i].done /\ a[i].issued /\ a[i].Qa = NoTag
  <2> SUFFICES ASSUME NEW i \in DOMAIN lsq, a[i].tag \in tags
               PROVE  ~a[i].done /\ a[i].issued /\ a[i].Qa = NoTag
    BY <1>5
  <2>1. /\ a[i].tag = lsq[i].tag /\ a[i].done = lsq[i].done /\ a[i].issued = lsq[i].issued
        /\ a[i] = lsq[i] \/ \E e \in fs : e.tag = lsq[i].tag
    BY <1>1 DEF NewAddresses
  <2>2. ~lsq[i].done /\ lsq[i].issued /\ lsq[i].Qa = NoTag
    BY <1>3, <2>1
  <2> QED
    BY <1>3, <2>1, <2>2
<1>9. Grows(a, w, mem)
  BY <1>1, <1>2, <1>4, <1>6, <1>7, <1>8, ValuesGrow
<1>10. Sees(w, mem)
  BY <1>1, <1>4, <1>5, <1>6, <1>7, <1>9, GrowsSees
<1> QED
  BY <1>10 DEF w

\* A result reaches the stores that wait for it.
LEMMA SeesWriteback ==
  ASSUME CpuInv, QueueOK(lsq', config.lsq_size), Fits(lsq), Fits(lsq'), Sees(lsq, mem), WritebackOne
  PROVE  Sees(lsq', mem)
<1> DEFINE x == CHOOSE y \in Completed : \A z \in Completed : y.tag <= z.tag
           q == lsq
           w == lsq'
           size == config.lsq_size
<1>1. Completed # {}
  BY DEF WritebackOne
<1>2. ResultIn(x)
  BY <1>1, ChosenResult
<1>3. w = IF writes_register(x.op) THEN L!Woken(lsq, x.tag, x.result.value) ELSE lsq
  BY DEF WritebackOne
<1> HIDE DEF x
<1>4. QueueWoken(q, w, x)
  <2>1. CASE ~writes_register(x.op)
    BY <1>3, <2>1 DEF QueueWoken
  <2>2. CASE writes_register(x.op)
    BY <1>3, <2>2, ClassesAgree DEF QueueWoken, L!Woken
  <2> QED
    BY <2>1, <2>2
<1>5. QueueOK(q, size) /\ mem \in MemState /\ x.tag # NoTag
  BY <1>2 DEF CpuInv, ArchOK, Served, Serving, ResultIn, NoTag
<1> HIDE DEF q, w, size
<1>6. DOMAIN w = DOMAIN q
  BY <1>4 DEF QueueWoken
<1>7. Grows(q, w, mem)
  <2> SUFFICES ASSUME NEW i \in DOMAIN q
               PROVE  /\ w[i].tag = q[i].tag /\ w[i].op = q[i].op
                      /\ q[i].Qa = NoTag => w[i].Qa = NoTag /\ w[i].Va = q[i].Va /\ w[i].vl = q[i].vl
                      /\ q[i].Q = NoTag => w[i].Q = NoTag
                      /\ w[i].op \in Load /\ (w[i].issued \/ w[i].done) =>
                           q[i].Qa = NoTag /\ LP!can_issue_load(q, i)
                      /\ q[i].op \in Store /\ q[i].Q = NoTag => w[i].V = q[i].V
                      /\ q[i].op \in Load /\ w[i].done =>
                           w[i].V = IF q[i].done THEN q[i].V ELSE LP!Forwarded(q, i, mem)
    BY DEF Grows
  <2>1. AccessOK(q[i])
    BY <1>5 DEF QueueOK
  <2>2. /\ w[i].op = q[i].op /\ w[i].tag = q[i].tag /\ w[i].Qa = q[i].Qa
        /\ w[i].Va = q[i].Va /\ w[i].vl = q[i].vl /\ w[i].done = q[i].done
    BY <1>4, <1>5, <2>1, WokenAccess
  <2>3. (q[i].op \in Store /\ q[i].Q = x.tag) \/ w[i] = q[i]
    BY <1>4 DEF QueueWoken
  <2>4. q[i].op \in Load => w[i] = q[i]
    BY <2>3, AccessOps
  <2>5. q[i].Q = NoTag => w[i] = q[i]
    BY <1>5, <2>3
  <2>6. q[i].op \in Load /\ (q[i].issued \/ q[i].done) => q[i].Qa = NoTag /\ LP!can_issue_load(q, i)
    BY ClassesAgree DEF Sees, LP!NoLoadAhead, q
  <2>7. w[i].op \in Load /\ (w[i].issued \/ w[i].done) => q[i].Qa = NoTag /\ LP!can_issue_load(q, i)
    BY <2>2, <2>4, <2>6
  <2> QED
    BY <2>2, <2>4, <2>5, <2>7
<1>8. Sees(w, mem)
  <2>1. Fits(q) /\ Fits(w) /\ QueueOK(w, size) /\ Sees(q, mem)
    BY DEF q, w, size
  <2> QED
    BY <1>5, <1>6, <1>7, <2>1, GrowsSees
<1> QED
  BY <1>8 DEF w

\* Accesses are started.
LEMMA SeesIssue ==
  ASSUME CpuInv, QueueOK(lsq', config.lsq_size), Fits(lsq), Fits(lsq'), Sees(lsq, mem), Issue
  PROVE  Sees(lsq', mem)
<1> DEFINE q == lsq
           w == lsq'
           size == config.lsq_size
           chosen == L!ToIssue(lsq, config.units["LOADSTORE"] - Cardinality(lsus))
<1>1. w = L!Issued(q, chosen)
  BY DEF Issue
<1>2. \A i \in chosen : LP!can_issue(q, i)
  <2>1. \A i \in chosen : L!can_issue(q, i)
    BY DEF L!ToIssue
  <2> QED
    BY <2>1, StartsAgree
<1>3. QueueOK(q, size) /\ mem \in MemState /\ Fits(q) /\ Fits(w) /\ QueueOK(w, size) /\ Sees(q, mem)
  BY DEF CpuInv, ArchOK, Served, Serving
<1> HIDE DEF q, w, size, chosen
<1>4. /\ DOMAIN w = DOMAIN q
      /\ \A i \in DOMAIN q :
           /\ w[i].tag = q[i].tag /\ w[i].op = q[i].op /\ w[i].Qa = q[i].Qa
           /\ w[i].Va = q[i].Va /\ w[i].vl = q[i].vl /\ w[i].Q = q[i].Q /\ w[i].V = q[i].V
           /\ w[i].done = q[i].done
  BY <1>1, <1>3, IssuedAccesses
<1>5. \A i \in DOMAIN q : w[i].issued => q[i].issued \/ i \in chosen
  <2> SUFFICES ASSUME NEW i \in DOMAIN q PROVE w[i].issued => q[i].issued \/ i \in chosen
    OBVIOUS
  <2>1. w[i] = [q[i] EXCEPT !.issued = q[i].issued \/ i \in chosen] /\ q[i] \in AnAccess
    BY <1>1, <1>3 DEF L!Issued, QueueOK, AccessOK
  <2> QED
    BY <2>1 DEF AnAccess
<1>6. \A i \in DOMAIN q :
        w[i].op \in Load /\ (w[i].issued \/ w[i].done) => q[i].Qa = NoTag /\ LP!can_issue_load(q, i)
  <2> SUFFICES ASSUME NEW i \in DOMAIN q, w[i].op \in Load, w[i].issued \/ w[i].done
               PROVE  q[i].Qa = NoTag /\ LP!can_issue_load(q, i)
    OBVIOUS
  <2>1. CASE i \in chosen
    BY <1>2, <1>4, <2>1, ClassesAgree DEF LP!can_issue
  <2>2. CASE i \notin chosen
    BY <1>3, <1>4, <1>5, <2>2, ClassesAgree DEF Sees, LP!NoLoadAhead
  <2> QED
    BY <2>1, <2>2
<1>7. Grows(q, w, mem)
  BY <1>4, <1>6 DEF Grows
<1>8. Sees(w, mem)
  BY <1>3, <1>4, <1>7, GrowsSees
<1> QED
  BY <1>8 DEF w

\* A new access has not been started.
LEMMA SeesDispatch ==
  ASSUME CpuInv, Sees(lsq, mem), DispatchOne
  PROVE  Sees(lsq', mem)
<1> DEFINE d == Head(decode_q)
           e == RSEntry(d)
           a == L!NewAccess(d.op, e.tag, e.Vk, e.Qk, e.vl)
           n == Len(lsq)
<1>1. lsq' = IF IsAccess(d.op) THEN Append(lsq, a) ELSE lsq
  BY DEF DispatchOne
<1>2. lsq \in Seq(AnAccess) /\ n \in Nat /\ DOMAIN lsq = 1..n
  BY LenProperties DEF CpuInv, Served, Serving, QueueOK
<1>3. ~a.issued /\ ~a.done
  BY DEF L!NewAccess
<1> HIDE DEF d, a
<1>4. CASE IsAccess(d.op)
  <2>1. lsq' = Append(lsq, a)
    BY <1>1, <1>4
  <2>2. /\ DOMAIN lsq' = 1..(n + 1) /\ lsq'[n + 1] = a /\ \A k \in 1..n : lsq'[k] = lsq[k]
    BY <1>2, <2>1
  <2> HIDE DEF n
  <2>3. StartsAs(lsq, lsq')
    <3> SUFFICES ASSUME NEW i \in DOMAIN lsq', lsq'[i].issued \/ lsq'[i].done
                 PROVE  i \in DOMAIN lsq /\ \A k \in 1..i : lsq'[k] = lsq[k]
      BY DEF StartsAs
    <3>1. i # n + 1
      BY <1>3, <2>2
    <3> QED
      BY <1>2, <2>2, <3>1
  <2> QED
    BY <1>2, <2>3, PrefixKeeps
<1>5. CASE ~IsAccess(d.op)
  BY <1>1, <1>5
<1> QED
  BY <1>4, <1>5

\* A flush takes the youngest accesses.
LEMMA SeesFlush ==
  ASSUME CpuInv, Sees(lsq, mem), FlushMispredicted
  PROVE  Sees(lsq', mem)
<1>1. PICK i \in DOMAIN rob : flush(rob[i].tag)
  BY DEF FlushMispredicted
<1> DEFINE tag == rob[i].tag
           q == lsq
           w == FlushAfter(lsq, tag)
           n == Len(q)
           m == Len(w)
<1>2. lsq' = w
  BY <1>1, FlushesAgree DEF flush
<1>3. tag \in Int
  BY RobFacts DEF CpuInv
<1>4. q \in Seq(L!LSQEntry) /\ Tagged(q)
  BY QueueTagged DEF CpuInv, Served, Serving
<1> HIDE DEF tag, q, w
<1>5. /\ Tagged(w) /\ m <= n
      /\ \A j \in DOMAIN w : j \in DOMAIN q /\ w[j] = q[j]
  BY <1>3, <1>4, Kept DEF q, w
<1>6. n \in Nat /\ DOMAIN q = 1..n /\ m \in Nat /\ DOMAIN w = 1..m
  BY <1>4, <1>5 DEF Tagged
<1> HIDE DEF n, m
<1>7. StartsAs(q, w)
  <2> SUFFICES ASSUME NEW j \in DOMAIN w
               PROVE  j \in DOMAIN q /\ \A k \in 1..j : w[k] = q[k]
    BY DEF StartsAs
  <2>1. \A k \in 1..j : k \in DOMAIN w
    BY <1>6
  <2> QED
    BY <1>5, <2>1
<1>8. Sees(q, mem)
  BY DEF q
<1> QED
  BY <1>2, <1>6, <1>7, <1>8, PrefixKeeps

\* The access that commits is the head of the queue.
LEMMA HeadServes ==
  ASSUME CpuInv, rob # <<>>, IsAccess(Head(rob).op), lsq # <<>>
  PROVE  /\ Head(rob) = rob[1] /\ 1 \in DOMAIN rob /\ Head(lsq) = lsq[1] /\ 1 \in DOMAIN lsq
         /\ Head(lsq).tag = Head(rob).tag /\ Head(lsq).op = Head(rob).op
<1>1. /\ Head(lsq) = lsq[1] /\ 1 \in DOMAIN lsq
  BY HeadOfQueue
<1>2. rob \in Seq(R!ROBEntry) /\ Tagged(rob) /\ Serving(config, rob, paths, lsq, lsus)
  BY RobFacts DEF CpuInv, Served
<1>3. Head(rob) = rob[1] /\ 1 \in DOMAIN rob
  BY <1>2, TailOf
<1>4. /\ Tagged(lsq) /\ Entry(rob, lsq[1].tag, lsq[1].op) /\ Entry(lsq, rob[1].tag, rob[1].op)
  <2>1. Entry(rob, rob[1].tag, rob[1].op)
    BY <1>3 DEF Entry
  <2> QED
    BY <1>1, <1>2, <1>3, <2>1, InQueue
<1>5. PICK i \in DOMAIN rob : rob[i].tag = lsq[1].tag /\ rob[i].op = lsq[1].op
  BY <1>4 DEF Entry
<1>6. PICK j \in DOMAIN lsq : lsq[j].tag = rob[1].tag /\ lsq[j].op = rob[1].op
  BY <1>4 DEF Entry
<1>7. rob[1].tag <= rob[i].tag
  BY <1>2, <1>3, <1>5 DEF Tagged, TagsGrow
<1>8. lsq[1].tag <= lsq[j].tag
  BY <1>1, <1>4, <1>6 DEF Tagged, TagsGrow
<1>9. rob[1].tag = lsq[1].tag
  <2>1. rob[1].tag \in Nat /\ lsq[1].tag \in Nat
    BY <1>1, <1>2, <1>3, <1>4 DEF Tagged
  <2> QED
    BY <1>5, <1>6, <1>7, <1>8, <2>1
<1>10. lsq[1].op = rob[1].op
  <2>1. j = 1
    BY <1>1, <1>4, <1>6, <1>9, OneEntry
  <2> QED
    BY <1>6, <2>1
<1> QED
  BY <1>1, <1>3, <1>9, <1>10

\* An access that commits leaves what the others see.
LEMMA SeesCommit ==
  ASSUME MemSize + 4 <= WordMod, CpuInv, Fits(lsq), Sees(lsq, mem), CommitOne
  PROVE  Sees(lsq', mem')
<1>1. /\ rob # <<>> /\ (IsAccess(Head(rob).op) => LsqAnswer = "retire")
      /\ mem' = IF Head(rob).op \in Store THEN Stored(Head(lsq), mem) ELSE mem
      /\ lsq' = IF IsAccess(Head(rob).op) THEN Tail(lsq) ELSE lsq
  BY DEF CommitOne, CanCommit
<1>2. CASE ~IsAccess(Head(rob).op)
  BY <1>1, <1>2 DEF IsAccess
<1>3. CASE IsAccess(Head(rob).op)
  <2>1. lsq # <<>> /\ (Head(lsq).op \in Store => Passes(Head(lsq)))
    BY <1>1, <1>3 DEF LsqAnswer
  <2>2. Head(lsq).op = Head(rob).op
    BY <1>1, <1>3, <2>1, HeadServes
  <2>3. QueueOK(lsq, config.lsq_size) /\ mem \in MemState
    BY DEF CpuInv, Served, Serving, ArchOK
  <2>4. Sees(Tail(lsq), IF Head(lsq).op \in Store THEN Stored(Head(lsq), mem) ELSE mem)
    BY <2>1, <2>3, HeadLeaves
  <2> QED
    BY <1>1, <1>3, <2>2, <2>4
<1> QED
  BY <1>2, <1>3

\* No load of the pipeline gets ahead of a store it depends on, and each has what it
\* should read, after every step.
LEMMA SeesNext ==
  ASSUME MemSize + 4 <= WordMod, CpuInv, [CpuNext]_cpuVars, Fits(lsq), Fits(lsq'),
         Sees(lsq, mem), stage' # "crashed"
  PROVE  Sees(lsq', mem')
<1>1. QueueOK(lsq', config.lsq_size)
  <2>1. CpuInv'
    BY CpuNextInv
  <2>2. config' = config
    BY DEF CpuNext, StartStep, CommitOne, CommitThrows, CommitEnds, WritebackOne, ResolveOne,
           FlushMispredicted, Execute, ExecuteThrows, Issue, DispatchOne, DispatchStalls,
           DispatchInvalid, DecodeAndFetch, CheckHalt, inputVars, cpuVars
  <2> QED
    BY <2>1, <2>2 DEF CpuInv, Served, Serving
<1>2. CASE WritebackOne
  BY <1>1, <1>2, SeesWriteback DEF WritebackOne, archVars
<1>3. CASE Execute
  BY <1>1, <1>3, SeesExecute DEF Execute, archVars
<1>4. CASE Issue
  BY <1>1, <1>4, SeesIssue DEF Issue, archVars
<1>5. CASE DispatchOne
  BY <1>5, SeesDispatch DEF DispatchOne, archVars
<1>6. CASE FlushMispredicted
  BY <1>6, SeesFlush DEF FlushMispredicted, archVars
<1>7. CASE CommitOne
  BY <1>7, SeesCommit
<1>8. CASE StartStep \/ CommitEnds \/ ResolveOne \/ DispatchStalls \/ DispatchInvalid
           \/ DecodeAndFetch \/ CheckHalt \/ UNCHANGED cpuVars
  <2>1. lsq' = lsq /\ mem' = mem
    BY <1>8 DEF StartStep, CommitEnds, ResolveOne, DispatchStalls, DispatchInvalid,
                DecodeAndFetch, CheckHalt, archVars, execVars, cpuVars
  <2> QED
    BY <2>1
<1>9. CASE CommitThrows \/ ExecuteThrows
  BY <1>9 DEF CommitThrows, ExecuteThrows
<1> QED
  BY <1>2, <1>3, <1>4, <1>5, <1>6, <1>7, <1>8, <1>9 DEF CpuNext

\* At first there is nothing to see.
LEMMA SeesInit == CpuInit => Sees(lsq, mem)
<1> SUFFICES ASSUME CpuInit PROVE Sees(lsq, mem)
  OBVIOUS
<1>1. DOMAIN lsq = {}
  <2>1. lsq = <<>>
    BY DEF CpuInit
  <2> QED
    BY <2>1
<1> QED
  BY <1>1 DEF Sees, LP!NoLoadAhead, LP!LoadsSee

-----------------------------------------------------------------------------
(* Each commit is a step of the machine.                                    *)

\* Two accesses that memory does not tell apart.
SameAccess(a, b) ==
  /\ a.op = b.op /\ a.Va = b.Va /\ a.sew = b.sew
  /\ a.op \in VLoad \cup VStore => a.vl = b.vl

\* They reach the same bytes.
LEMMA SameReach ==
  ASSUME NEW a, NEW b, SameAccess(a, b)
  PROVE  /\ element_size(a) = element_size(b) /\ access_size(a) = access_size(b)
         /\ elements(a) = elements(b) /\ \A l : element_address(a, l) = element_address(b, l)
         /\ (Passes(a) <=> Passes(b)) /\ (InRange(a) <=> InRange(b)) /\ (IsWild(a) <=> IsWild(b))
<1>1. element_size(a) = element_size(b)
  BY DEF SameAccess, element_size
<1>2. access_size(a) = access_size(b) /\ elements(a) = elements(b)
  BY <1>1 DEF SameAccess, access_size, elements
<1>3. \A l : element_address(a, l) = element_address(b, l)
  BY <1>1 DEF SameAccess, element_address
<1>4. Passes(a) <=> Passes(b)
  BY <1>1, <1>2, <1>3 DEF Passes
<1>5. InRange(a) <=> InRange(b)
  BY <1>2 DEF SameAccess, InRange
<1>6. IsWild(a) <=> IsWild(b)
  BY <1>1, <1>2, <1>3 DEF SameAccess, IsWild
<1> QED
  BY <1>1, <1>2, <1>3, <1>4, <1>5, <1>6

\* They read the same, and write the same when they have the same data.
LEMMA SameMemory ==
  ASSUME NEW a, NEW b, SameAccess(a, b), NEW m
  PROVE  /\ a.op \in Load => Loaded(a, m) = Loaded(b, m)
         /\ a.V = b.V => Stored(a, m) = Stored(b, m)
<1>1. /\ element_size(a) = element_size(b) /\ access_size(a) = access_size(b)
      /\ \A l : element_address(a, l) = element_address(b, l)
      /\ a.op = b.op /\ a.Va = b.Va
  BY SameReach DEF SameAccess
<1>2. ASSUME a.op \in VLoad PROVE Loaded(a, m) = Loaded(b, m)
  <2> DEFINE n == element_size(a)
             k == element_size(b)
             x(l) == [j \in 0..(n-1) |-> load(m, (a.Va + l * n + j) % WordMod, 1)]
             y(l) == [j \in 0..(k-1) |-> load(m, (b.Va + l * k + j) % WordMod, 1)]
  <2>1. \A l : Join(x(l), n) = Join(y(l), k)
    BY <1>1
  <2>2. Loaded(a, m) = [l \in Lane |-> IF l < a.vl THEN Join(x(l), n) ELSE 0]
    BY <1>2 DEF Loaded
  <2>3. Loaded(b, m) = [l \in Lane |-> IF l < b.vl THEN Join(y(l), k) ELSE 0]
    BY <1>1, <1>2 DEF Loaded
  <2>4. a.vl = b.vl
    BY <1>2 DEF SameAccess
  <2> HIDE DEF x, y, n, k
  <2> QED
    BY <2>1, <2>2, <2>3, <2>4
<1>3. ASSUME a.op \notin VLoad PROVE Loaded(a, m) = Loaded(b, m)
  BY <1>1, <1>3 DEF Loaded
<1>4. ASSUME a.V = b.V PROVE Stored(a, m) = Stored(b, m)
  BY <1>1, <1>4 DEF Stored
<1> QED
  BY <1>2, <1>3, <1>4

\* The oldest instruction finds its operands in the registers.
LEMMA OldestGiven ==
  ASSUME CpuInv, rob # <<>>, NEW g, NEW l, NEW s, NEW t, NEW r
  PROVE  /\ Given(Entries(rob), g, rob[1].tag, t, r) = {IF IsRead(t, r) THEN g[t][r] ELSE scalar(0)}
         /\ GivenConfig(Entries(rob), l, s, rob[1].tag) = {<<l, s>>}
<1>1. Tagged(rob) /\ rob \in Seq(R!ROBEntry) /\ \A i \in DOMAIN rob : rob[i].tag \in Nat
  BY RobFacts DEF CpuInv
<1>2. 1 \in DOMAIN rob /\ \A i \in DOMAIN rob : i \in Nat /\ 1 <= i
  BY <1>1, EmptySeq DEF Tagged
<1>3. \A i \in DOMAIN rob : ~(rob[i].tag < rob[1].tag)
  BY <1>1, <1>2 DEF Tagged, TagsGrow
<1>4. \A e \in Entries(rob) : ~(e.tag < rob[1].tag)
  BY <1>3 DEF Entries
<1>5. Writers(Entries(rob), rob[1].tag, t, r) = {} /\ Setters(Entries(rob), rob[1].tag) = {}
  BY <1>4 DEF Writers, Setters
<1> QED
  BY <1>5 DEF Given, GivenConfig

\* The machine's operand of instruction d is what the oldest instruction is given.
LEMMA OperandMeans ==
  ASSUME NEW d, NEW i, NEW r
  PROVE  M!Operand(d, i, r)
           = IF IsRead(src_type(d.op, i), r) THEN regs[src_type(d.op, i)][r] ELSE scalar(0)
BY TablesAgree, StoresAgree DEF M!Operand, IsRead

\* The machine's next instruction is the one at the head of the re-order buffer.
LEMMA NextInstruction ==
  ASSUME CpuInv, ChainOK, rob # <<>>
  PROVE  /\ Head(rob) = rob[1] /\ rob[1] \in Entries(rob) /\ NextPc = rob[1].pc
         /\ ~M!AtEnd /\ M!Instr = Instr(program, rob[1].pc)
         /\ M!Instr \in Instruction /\ M!Instr.op = rob[1].op /\ M!Instr.rd = rob[1].rd
         /\ M!Instr.op \in Op /\ rob[1].pc \in Word
         /\ IssuedFrom(program, rob[1])
         /\ \E i \in 1..Len(program) : M!Instr = program[i]
<1>1. rob \in Seq(R!ROBEntry) /\ Tagged(rob)
  BY RobFacts DEF CpuInv
<1>2. Head(rob) = rob[1] /\ 1 \in DOMAIN rob
  BY <1>1, TailOf
<1>3. rob[1] \in Entries(rob)
  BY <1>2 DEF Entries
<1>4. NextPc = rob[1].pc
  BY NextPcMeans DEF OldestPc
<1>5. /\ IssuedFrom(program, rob[1])
      /\ Instr(program, rob[1].pc) \in Instruction
      /\ rob[1].op = Instr(program, rob[1].pc).op /\ rob[1].rd = Instr(program, rob[1].pc).rd
      /\ rob[1].op \in Op /\ rob[1].pc \in Word
      /\ \E i \in 1..Len(program) : Instr(program, rob[1].pc) = program[i]
  BY <1>3, CodedOf
<1>6. M!Instr = Instr(program, rob[1].pc)
  BY <1>4, TablesAgree DEF M!Instr, Instr
<1>7. ~M!AtEnd
  <2> DEFINE n == Len(program)
             a == rob[1].pc
  <2>1. n \in Nat /\ a \in Nat /\ a + 4 <= 4 * n
    BY <1>5, ConfigFacts DEF CpuInv, IssuedFrom, WORD_BYTES, Word
  <2>2. M!AtEnd <=> a > 4 * (n - 1)
    BY <1>4, TablesAgree DEF M!AtEnd, WORD_BYTES
  <2> HIDE DEF n, a
  <2> QED
    BY <2>1, <2>2
<1> QED
  BY <1>2, <1>3, <1>4, <1>5, <1>6, <1>7

\* Where it goes from there.
LEMMA NextIs ==
  ASSUME CpuInv, ChainOK, CommitOne
  PROVE  NextPc' = IF rob[1].op \in Ctrl /\ rob[1].result.jumped THEN rob[1].result.target
                   ELSE ToWord(rob[1].pc + WORD_BYTES)
<1>1. rob # <<>> /\ Head(rob).ready /\ stage = "commit"
  BY DEF CommitOne, CanCommit
<1> DEFINE x == rob[1]
<1>2. /\ Head(rob) = x /\ IssuedFrom(program, x)
  BY <1>1, NextInstruction
<1>3. NextPc' = Successor(x)
  BY ChainCommitOne
<1>4. 1 \in DOMAIN rob /\ ResultOK(x.op, x.result)
  <2>1. 1 \in DOMAIN rob
    BY <1>1, RobFacts, EmptySeq DEF CpuInv
  <2> QED
    BY <1>1, <1>2, <2>1 DEF CpuInv, ResultsOK
<1>5. x.op \in Ctrl => x.ctrl_handled
  <2>1. Settles(rob)
    BY <1>1, SettlesRob DEF CpuInv, SettledOutside
  <2>2. \A j \in 1..0 : rob[j].op \in Ctrl => rob[j].ctrl_handled
    OBVIOUS
  <2> QED
    BY <1>1, <1>2, <1>4, <2>1, <2>2 DEF Settles
<1>6. CASE x.op \notin Ctrl
  BY <1>2, <1>3, <1>6 DEF IssuedFrom, Successor
<1>7. CASE x.op \in Ctrl
  <2>1. NextPc' = ToWord(IF x.result.jumped THEN x.result.target ELSE x.pc + WORD_BYTES)
    BY <1>3, <1>5, <1>7, OperationsAgree DEF Successor, R!Target, WORD_BYTES
  <2>2. x.result.target \in Word
    BY <1>4 DEF ResultOK
  <2>3. ToWord(x.result.target) = x.result.target
    BY <2>2, WordSizes DEF ToWord, Word
  <2> QED
    BY <1>7, <2>1, <2>3
<1> QED
  BY <1>6, <1>7

\* What the machine's unit is given for the instruction at the head.
LEMMA ReadyMeans ==
  ASSUME NEW d
  PROVE  M!Ready(d) = [op |-> d.op, pc |-> NextPc, imm |-> d.imm, rm |-> d.rm, vl |-> vl,
                       sew |-> IF d.op \in VSet THEN d.sew ELSE vsew,
                       Vj |-> M!Operand(d, 0, d.rs1), Vk |-> M!Operand(d, 1, d.rs2),
                       Vl |-> M!Operand(d, 2, d.rs3)]
BY TablesAgree DEF M!Ready

\* An access that is done has the address, length and data the machine gives it.
LEMMA HeadAccess ==
  ASSUME CpuInv, ChainOK, DataInv, rob # <<>>, IsAccess(Head(rob).op), lsq # <<>>, Head(lsq).done
  PROVE  /\ SameAccess(Head(lsq), M!MemoryAccess(M!Ready(M!Instr)))
         /\ Head(lsq).op \in Store => Head(lsq).V = M!MemoryAccess(M!Ready(M!Instr)).V
         /\ AccessOK(Head(lsq)) /\ Head(lsq).Qa = NoTag /\ Head(lsq).op = M!Instr.op
<1> DEFINE h == Head(lsq)
           x == rob[1]
           d == M!Instr
           e == M!MemoryAccess(M!Ready(d))
           E == Entries(rob)
<1>1. /\ Head(rob) = x /\ x \in E /\ d = Instr(program, x.pc) /\ d.op = x.op
  BY NextInstruction
<1>2. h = lsq[1] /\ 1 \in DOMAIN lsq /\ h.tag = x.tag /\ h.op = x.op /\ 1 \in DOMAIN rob
  BY <1>1, HeadServes
<1>3. AccessOK(h)
  BY HeadOfQueue
<1>4. h.Qa = NoTag /\ (h.op \in Store => h.Q = NoTag)
  <2>1. h.Q = NoTag
    BY <1>3 DEF AccessOK
  <2>2. h.Qa = NoTag
    <3> SUFFICES ASSUME h.Qa # NoTag PROVE FALSE
      OBVIOUS
    <3> DEFINE p == paths["LOADSTORE"]
    <3>1. Homes(lsq, p, rob) /\ PathOK(p, "LOADSTORE", config.rs_size, config.units["LOADSTORE"], rob)
      BY DEF CpuInv, Served, Serving, ExecType
    <3> HIDE DEF p
    <3>2. h.tag \in P!Waiting(p) \cup P!Running(p)
      BY <1>2, <3>1 DEF Homes
    <3>3. h.tag \in P!Finished(p) \/ ~Pending(rob, h.tag, h.op)
      BY <1>2, <3>1 DEF Homes
    <3>4. h.tag \notin P!Finished(p)
      BY <3>1, <3>2 DEF PathOK, PathDistinct
    <3>5. h.tag \in Held(p)
      BY <3>2 DEF Held
    <3>6. PICK op \in Op : Pending(rob, h.tag, op)
      BY <3>1, <3>5, HeldPending
    <3>7. op = h.op
      <4>1. Entry(rob, h.tag, h.op) /\ Entry(rob, h.tag, op)
        BY <1>1, <1>2, <3>6, PendingIsEntry DEF Entry
      <4> QED
        BY <4>1, OneOperation, RobFacts DEF CpuInv
    <3> QED
      BY <3>3, <3>4, <3>6, <3>7
  <2> QED
    BY <2>1, <2>2
<1>5. AccessData(E, regs, vl, vsew, program, x, h)
  BY <1>1, <1>2 DEF DataInv, DataOK, AccessesData
<1>6. /\ \A t, r : Given(E, regs, x.tag, t, r) = {IF IsRead(t, r) THEN regs[t][r] ELSE scalar(0)}
      /\ GivenConfig(E, vl, vsew, x.tag) = {<<vl, vsew>>}
  BY OldestGiven
<1>7. /\ e = [op |-> d.op, Va |-> EffectiveAddress(M!Ready(d)), V |-> M!Ready(d).Vk,
              vl |-> M!Ready(d).vl, sew |-> op_sew(d.op)]
      /\ M!Ready(d).Vk = M!Operand(d, 1, d.rs2) /\ M!Ready(d).vl = vl
      /\ EffectiveAddress(M!Ready(d)) = ToWord(M!Operand(d, 0, d.rs1)[0] + d.imm)
  <2>1. /\ M!Ready(d).op = d.op /\ M!Ready(d).Vj = M!Operand(d, 0, d.rs1) /\ M!Ready(d).imm = d.imm
        /\ M!Ready(d).Vk = M!Operand(d, 1, d.rs2) /\ M!Ready(d).vl = vl
    BY ReadyMeans
  <2>2. e = [op |-> M!Ready(d).op, Va |-> M!EffectiveAddress(M!Ready(d)), V |-> M!Ready(d).Vk,
             vl |-> M!Ready(d).vl, sew |-> M!op_sew(M!Ready(d).op)]
    BY DEF M!MemoryAccess
  <2> QED
    BY <2>1, <2>2, TablesAgree, UnitsAgree DEF EffectiveAddress
<1> HIDE DEF e, d, x, h, E
<1>8. h.Va = EffectiveAddress(M!Ready(d))
  <2>1. PICK V \in Given(E, regs, x.tag, src_type(d.op, 0), d.rs1) : h.Va = ToWord(V[0] + d.imm)
    BY <1>1, <1>4, <1>5 DEF AccessData
  <2>2. V = M!Operand(d, 0, d.rs1)
    BY <1>6, <2>1, OperandMeans
  <2> QED
    BY <1>7, <2>1, <2>2
<1>9. h.op \in VLoad \cup VStore => h.vl = vl
  <2> HAVE h.op \in VLoad \cup VStore
  <2>1. PICK c \in GivenConfig(E, vl, vsew, x.tag) : h.vl = c[1]
    BY <1>4, <1>5 DEF AccessData
  <2> QED
    BY <1>6, <2>1
<1>10. h.op \in Store => h.V = M!Operand(d, 1, d.rs2)
  <2> HAVE h.op \in Store
  <2>1. Provides(E, regs, x.tag, src_type(d.op, 1), d.rs2, h.V, NoTag)
    BY <1>1, <1>4, <1>5 DEF AccessData
  <2>2. h.V \in Given(E, regs, x.tag, src_type(d.op, 1), d.rs2)
    BY <2>1 DEF Provides
  <2> QED
    BY <1>6, <2>2, OperandMeans
<1>11. h.sew = op_sew(h.op)
  BY <1>3 DEF AccessOK
<1>12. SameAccess(h, e)
  BY <1>1, <1>2, <1>7, <1>8, <1>9, <1>11 DEF SameAccess
<1> QED
  BY <1>1, <1>2, <1>3, <1>4, <1>7, <1>10, <1>12 DEF h, d, e, x

\* What commit does to what the machine keeps.
LEMMA CommitWrites ==
  ASSUME CpuInv, ChainOK, CommitOne
  PROVE  /\ rob # <<>> /\ Head(rob) = rob[1] /\ rob[1].ready
         /\ regs' = Written(regs, dst_type(rob[1].op), rob[1].rd, rob[1].result.value)
         /\ mem' = IF rob[1].op \in Store THEN Stored(Head(lsq), mem) ELSE mem
         /\ vl' = (IF rob[1].op \in VSet THEN rob[1].result.vl ELSE vl)
         /\ vsew' = (IF rob[1].op \in VSet THEN rob[1].result.sew ELSE vsew)
         /\ IsAccess(rob[1].op) => LsqAnswer = "retire"
         /\ stage = "commit" /\ stage' = "commit" /\ program' = program
         /\ instruction_count' = instruction_count + 1
<1>1. rob # <<>>
  BY DEF CommitOne, CanCommit
<1>2. Head(rob) = rob[1]
  BY <1>1, NextInstruction
<1> QED
  BY <1>1, <1>2 DEF CommitOne, CanCommit, inputVars

\* An instruction that does not touch memory.
LEMMA OtherStep ==
  ASSUME CpuInv, ChainOK, DataInv, SetsVl, CommitOne, ~IsAccess(rob[1].op)
  PROVE  M!ExecuteOther(M!Instr)
<1> DEFINE x == rob[1]
           d == M!Instr
           u == M!Ready(d)
           E == Entries(rob)
           V0 == M!Operand(d, 0, d.rs1)
           V1 == M!Operand(d, 1, d.rs2)
           V2 == M!Operand(d, 2, d.rs3)
           res == Compute(u, vl)
<1>1. /\ rob # <<>> /\ x.ready
      /\ regs' = Written(regs, dst_type(x.op), x.rd, x.result.value)
      /\ mem' = IF x.op \in Store THEN Stored(Head(lsq), mem) ELSE mem
      /\ vl' = (IF x.op \in VSet THEN x.result.vl ELSE vl)
      /\ vsew' = (IF x.op \in VSet THEN x.result.sew ELSE vsew)
  BY CommitWrites
<1>2. /\ x \in E /\ d = Instr(program, x.pc) /\ d.op = x.op /\ d.rd = x.rd /\ d.op \in Op
      /\ NextPc = x.pc /\ \E i \in 1..Len(program) : d = program[i]
  BY <1>1, NextInstruction
<1>3. /\ \A t, r : Given(E, regs, x.tag, t, r) = {IF IsRead(t, r) THEN regs[t][r] ELSE scalar(0)}
      /\ GivenConfig(E, vl, vsew, x.tag) = {<<vl, vsew>>}
  BY <1>1, OldestGiven
<1>4. Computed(E, regs, vl, vsew, program, x, x.result)
  BY <1>1, <1>2 DEF DataInv, DataOK, ReadyData
<1>5. PICK c \in IF UsesConfig(d.op) THEN GivenConfig(E, vl, vsew, x.tag) ELSE {<<0, 0>>} :
        Yields(d, x.pc, <<V0, V1, V2>>, c, x.result)
  <2>1. PICK a \in Given(E, regs, x.tag, src_type(d.op, 0), d.rs1),
             b \in Given(E, regs, x.tag, src_type(d.op, 1), d.rs2),
             v \in Given(E, regs, x.tag, src_type(d.op, 2), d.rs3),
             c \in IF UsesConfig(d.op) THEN GivenConfig(E, vl, vsew, x.tag) ELSE {<<0, 0>>} :
             Yields(d, x.pc, <<a, b, v>>, c, x.result)
    BY <1>2, <1>4 DEF Computed
  <2>2. a = V0 /\ b = V1 /\ v = V2
    <3> HIDE DEF d, E, x
    <3> QED
      BY <1>3, <2>1, OperandMeans
  <2> HIDE DEF V0, V1, V2, d, E, x
  <2> QED
    BY <2>1, <2>2
<1>6. u = [op |-> d.op, pc |-> NextPc, imm |-> d.imm, rm |-> d.rm, vl |-> vl,
           sew |-> IF d.op \in VSet THEN d.sew ELSE vsew, Vj |-> V0, Vk |-> V1, Vl |-> V2]
  BY ReadyMeans
<1> HIDE DEF d, E, V0, V1, V2, u
<1>7. /\ u.op = d.op /\ u.pc = x.pc /\ u.imm = d.imm /\ u.rm = d.rm
      /\ u.Vj = V0 /\ u.Vk = V1 /\ u.Vl = V2 /\ u.vl = vl
      /\ u.sew = IF d.op \in VSet THEN d.sew ELSE vsew
  BY <1>2, <1>6
<1>8. UsesConfig(d.op) => u.vl = c[1] /\ u.sew = c[2]
  <2> HAVE UsesConfig(d.op)
  <2>1. c = <<vl, vsew>>
    BY <1>3, <1>5
  <2>2. d.op \notin VSet
    BY DEF UsesConfig
  <2> QED
    BY <1>7, <2>1, <2>2
<1>9. ~(d.op = "VSETVLI" /\ d.imm = -2)
  BY <1>2 DEF SetsVl
<1>10. /\ Compute(u, vl) = Compute(Operated(d, x.pc, <<V0, V1, V2>>, c), 0)
       /\ Unsupported(u) <=> Unsupported(Operated(d, x.pc, <<V0, V1, V2>>, c))
  <2> DEFINE V == <<V0, V1, V2>>
             a == x.pc
             n == vl
  <2>1. V[1] = V0 /\ V[2] = V1 /\ V[3] = V2
    OBVIOUS
  <2>2. ~IsAccess(d.op) /\ d.op \in Op
    BY <1>2
  <2>3. u.Vj = V[1] /\ u.Vk = V[2] /\ u.Vl = V[3] /\ u.pc = a
    BY <1>7, <2>1
  <2>4. d.op \in VSet => u.sew = d.sew
    BY <1>7
  <2> HIDE DEF V, a, n
  <2>5. /\ Compute(u, n) = Compute(Operated(d, a, V, c), 0)
        /\ Unsupported(u) <=> Unsupported(Operated(d, a, V, c))
    <3>1. u.op = d.op /\ u.imm = d.imm /\ u.rm = d.rm
      BY <1>7
    <3> QED
      BY ONLY <1>8, <1>9, <2>2, <2>3, <2>4, <3>1, UnitLooksAt
  <2> QED
    BY <2>5 DEF V, a, n
<1>11. res = x.result /\ ~Unsupported(u)
  BY <1>5, <1>10 DEF Yields
<1>12. M!Compute(u, vl) = res /\ ~M!Unsupported(u)
  BY <1>11, UnitsAgree
<1>13. NextPc' = IF x.op \in Ctrl /\ x.result.jumped THEN x.result.target
                 ELSE ToWord(x.pc + WORD_BYTES)
  BY NextIs
<1>14. res.jumped => x.op \in Ctrl
  BY <1>2, <1>7, ComputeMeans DEF Ctrl
<1> HIDE DEF res
<1>15. NextPc' = IF res.jumped THEN res.target ELSE M!ToWord(NextPc + M!WORD_BYTES)
  BY <1>2, <1>11, <1>13, <1>14, TablesAgree, UnitsAgree
<1>16. regs' = M!Written(regs, M!dst_type(d.op), d.rd, res.value)
  BY <1>1, <1>2, <1>11, TablesAgree, StoresAgree
<1>17. mem' = mem
  BY <1>1 DEF IsAccess
<1>18. IF d.op \in M!VSet THEN vl' = res.vl /\ vsew' = res.sew ELSE UNCHANGED <<vl, vsew>>
  BY <1>1, <1>2, <1>11, TablesAgree
<1> QED
  BY <1>12, <1>15, <1>16, <1>17, <1>18 DEF M!ExecuteOther, u, d

\* The load/store queue's own loads read as the pipeline's do.
LEMMA LoadedAgrees ==
  /\ \A e : LP!InRange(e) <=> InRange(e)
  /\ \A e, m : LP!Loaded(e, m) = Loaded(e, m)
<1>1. \A w : LP!scalar(w) = scalar(w)
  BY MemoryAgrees DEF LP!scalar, scalar
<1>2. \A w, n : LP!sign_extend(w, n) = sign_extend(w, n)
  BY MemoryAgrees DEF LP!sign_extend, sign_extend
<1>3. \A op, raw : LP!format_load(op, raw) = format_load(op, raw)
  BY <1>2 DEF LP!format_load, format_load
<1>4. \A e : LP!InRange(e) <=> InRange(e)
  <2>1. \A addr, n : LP!InMemory(addr, n) <=> InMemory(addr, n)
    BY DEF LP!InMemory, InMemory
  <2> QED
    BY <2>1, AccessesAgree DEF LP!InRange, InRange
<1>5. ASSUME NEW e, NEW m PROVE LP!Loaded(e, m) = Loaded(e, m)
  <2>1. CASE e.op \in VLoad
    <3> DEFINE n == element_size(e)
               k == LP!element_size(e)
               a(l) == [j \in 0..(n-1) |-> load(m, (e.Va + l * n + j) % WordMod, 1)]
               b(l) == [j \in 0..(k-1) |-> LP!load(m, (e.Va + l * k + j) % LP!WordMod, 1)]
    <3>1. \A l : a(l) = b(l) /\ Join(a(l), n) = LP!Join(b(l), k)
      BY AccessesAgree, MemoryAgrees
    <3>2. Loaded(e, m) = [l \in Lane |-> IF l < e.vl THEN Join(a(l), n) ELSE 0]
      BY <2>1 DEF Loaded
    <3>3. LP!Loaded(e, m) = [l \in LP!Lane |-> IF l < e.vl THEN LP!Join(b(l), k) ELSE 0]
      BY <2>1, ClassesAgree DEF LP!Loaded
    <3> HIDE DEF a, b, n, k
    <3> QED
      BY <3>1, <3>2, <3>3, MemoryAgrees
  <2>2. CASE e.op \notin VLoad
    BY <1>1, <1>3, <2>2, AccessesAgree, ClassesAgree DEF LP!Loaded, Loaded
  <2> QED
    BY <2>1, <2>2
<1> QED
  BY <1>4, <1>5

\* The oldest access sees memory as it is.
LEMMA FirstSees ==
  ASSUME NEW q, NEW m \in MemState
  PROVE  LP!Seen(q, 1, m) = m
<1>1. \A a, b : LP!byte_forward(q, 1, a, b) = b
  <2> SUFFICES ASSUME NEW a, NEW b PROVE LP!byte_forward(q, 1, a, b) = b
    OBVIOUS
  <2>1. {j \in 1..(1-1) : q[j].op \in LP!Store /\ LP!covers_byte(q[j], a)} = {}
    OBVIOUS
  <2> QED
    BY <2>1 DEF LP!byte_forward
<1>2. m = [a \in DOMAIN m |-> m[a]]
  BY DEF MemState
<1>3. LP!Seen(q, 1, m) = [a \in DOMAIN m |-> LP!byte_forward(q, 1, a, m[a])]
  BY DEF LP!Seen
<1> QED
  BY <1>1, <1>2, <1>3

\* What commit asks of the head of the queue.
LEMMA HeadRetires ==
  ASSUME CpuInv, ChainOK, CommitOne, IsAccess(rob[1].op)
  PROVE  /\ rob # <<>> /\ Head(rob) = rob[1] /\ rob[1].ready /\ IsAccess(Head(rob).op)
         /\ lsq # <<>> /\ Head(lsq).done /\ Head(lsq) = lsq[1] /\ 1 \in DOMAIN lsq
         /\ Head(lsq).tag = rob[1].tag /\ Head(lsq).op = rob[1].op
         /\ Head(lsq).op \in Store => Passes(Head(lsq))
<1>1. /\ rob # <<>> /\ Head(rob) = rob[1] /\ rob[1].ready /\ LsqAnswer = "retire"
  BY CommitWrites
<1>2. lsq # <<>> /\ Head(lsq).done /\ (Head(lsq).op \in Store => Passes(Head(lsq)))
  BY <1>1 DEF LsqAnswer
<1> QED
  BY <1>1, <1>2, HeadServes

\* An access goes on to the next instruction, and sets neither vl nor sew.
LEMMA AccessGoesOn ==
  ASSUME CpuInv, ChainOK, CommitOne, IsAccess(rob[1].op)
  PROVE  NextPc' = M!ToWord(NextPc + M!WORD_BYTES) /\ vl' = vl /\ vsew' = vsew
<1>1. rob # <<>>
  BY CommitWrites
<1>2. \A op \in Load \cup Store : op \notin Ctrl /\ op \notin VSet
  BY DEF Load, Store, IntLoad, IntStore, VLoad, VStore, Ctrl, Jump, Branch, VSet
<1>3. rob[1].op \notin Ctrl /\ rob[1].op \notin VSet
  BY <1>2 DEF IsAccess
<1>4. NextPc' = ToWord(rob[1].pc + WORD_BYTES) /\ NextPc = rob[1].pc
  BY <1>1, <1>3, NextIs, NextInstruction
<1> QED
  BY <1>3, <1>4, CommitWrites, TablesAgree, UnitsAgree

\* A load commits with what the machine reads.
LEMMA LoadStep ==
  ASSUME CpuInv, ChainOK, DataInv, Sees(lsq, mem), CommitOne, rob[1].op \in Load,
         InRange(Head(lsq))
  PROVE  M!ExecuteLoad(M!Instr)
<1> DEFINE h == Head(lsq)
           x == rob[1]
           d == M!Instr
           e == M!MemoryAccess(M!Ready(d))
<1>1. IsAccess(x.op) /\ x.op \notin Store
  BY AccessOps DEF IsAccess
<1>2. /\ rob # <<>> /\ Head(rob) = x /\ x.ready /\ IsAccess(Head(rob).op)
      /\ lsq # <<>> /\ h.done /\ h = lsq[1] /\ 1 \in DOMAIN lsq /\ h.tag = x.tag /\ h.op = x.op
  BY <1>1, HeadRetires
<1>3. SameAccess(h, e) /\ AccessOK(h)
  BY <1>2, HeadAccess
<1>4. x \in Entries(rob) /\ d.op = x.op /\ d.rd = x.rd
  BY <1>2, NextInstruction
<1>5. x.result.value = h.V
  BY <1>2, <1>4 DEF DataInv, DataOK, BroughtData
<1>6. mem \in MemState
  BY DEF CpuInv, ArchOK
<1>7. h.V = Loaded(h, mem)
  <2>1. h.V = LP!Loaded(h, LP!Seen(lsq, 1, mem))
    <3>1. h.op \in LP!Load /\ LP!InRange(h)
      BY <1>2, ClassesAgree, LoadedAgrees
    <3> QED
      BY <1>2, <3>1 DEF Sees, LP!LoadsSee
  <2> QED
    BY <1>6, <2>1, FirstSees, LoadedAgrees
<1>8. mem' = mem /\ regs' = Written(regs, dst_type(x.op), x.rd, x.result.value)
  BY <1>1, CommitWrites
<1>9. NextPc' = M!ToWord(NextPc + M!WORD_BYTES) /\ vl' = vl /\ vsew' = vsew
  BY <1>1, AccessGoesOn
<1> HIDE DEF h, d, e
<1>10. ~M!IsWild(e) /\ M!Loaded(e, M!Beyond(mem, 0)) = h.V
  <2>1. h \in AnAccess /\ h.sew = op_sew(h.op) /\ h.op \in Load /\ InRange(h)
    BY <1>2, <1>3 DEF AccessOK, h
  <2>2. ~IsWild(h) /\ Loaded(h, Beyond(mem, 0)) = Loaded(h, mem)
    BY <1>6, <2>1, InRangePasses, LoadedBeyond
  <2>3. ~IsWild(e)
    BY <1>3, <2>2, SameReach
  <2>4. Loaded(e, Beyond(mem, 0)) = Loaded(h, Beyond(mem, 0))
    BY <1>3, <2>1, SameMemory
  <2> QED
    BY <1>7, <2>2, <2>3, <2>4, StoresAgree
<1>11. regs' = M!Written(regs, M!dst_type(d.op), d.rd, M!Loaded(e, M!Beyond(mem, 0)))
  BY <1>4, <1>5, <1>8, <1>10, TablesAgree, StoresAgree
<1> QED
  BY <1>8, <1>9, <1>10, <1>11 DEF M!ExecuteLoad, d, e

\* A store commits as the machine's does.
LEMMA StoreStep ==
  ASSUME CpuInv, ChainOK, DataInv, CommitOne, rob[1].op \in Store
  PROVE  M!ExecuteStore(M!Instr)
<1> DEFINE h == Head(lsq)
           x == rob[1]
           d == M!Instr
           e == M!MemoryAccess(M!Ready(d))
<1>1. IsAccess(x.op)
  BY DEF IsAccess
<1>2. /\ rob # <<>> /\ IsAccess(Head(rob).op) /\ lsq # <<>> /\ h.done /\ h.op = x.op /\ Passes(h)
  BY <1>1, HeadRetires
<1>3. SameAccess(h, e) /\ h.V = e.V
  BY <1>2, HeadAccess
<1>4. mem' = Stored(h, mem) /\ regs' = Written(regs, dst_type(x.op), x.rd, x.result.value)
  BY CommitWrites
<1>5. NextPc' = M!ToWord(NextPc + M!WORD_BYTES) /\ vl' = vl /\ vsew' = vsew
  BY <1>1, AccessGoesOn
<1>6. regs' = regs
  <2>1. \A op \in Store : dst_type(op) = "NONE"
    BY DEF Store, IntStore, VStore, dst_type, Alu, AluImm, Upper, Mul, Div, Jump, IntLoad,
           FCmp, VSet, Float, FAdd, FMul, FMac, FSgn, Vector, VMul, VFMul, VMove, VLoad
  <2> QED
    BY <1>4, <2>1 DEF Written
<1> HIDE DEF h, d, e
<1>7. M!Passes(e) /\ mem' = M!Stored(e, mem)
  BY <1>2, <1>3, <1>4, SameReach, SameMemory, StoresAgree
<1> QED
  BY <1>5, <1>6, <1>7 DEF M!ExecuteStore, d, e

\* A load that is about to commit lies within memory.
HeadInRange ==
  rob # <<>> /\ Head(rob).ready /\ Head(rob).op \in Load => InRange(Head(lsq))

\* A commit is the execution of one instruction.
LEMMA CommitStep ==
  ASSUME CpuInv, ChainOK, DataInv, SetsVl, HeadInRange, Sees(lsq, mem), CommitOne
  PROVE  M!MachineNext
<1> DEFINE d == M!Instr
<1>1. /\ rob # <<>> /\ Head(rob) = rob[1] /\ rob[1].ready
      /\ stage = "commit" /\ stage' = "commit" /\ program' = program
      /\ instruction_count' = instruction_count + 1
  BY CommitWrites
<1>2. ~M!AtEnd /\ d.op = rob[1].op /\ d.op \in Op
  BY <1>1, NextInstruction
<1>3. CommittedBranches' = CommittedBranches + (IF d.op \in M!Branch THEN 1 ELSE 0)
  BY <1>2, BranchesCommit, TablesAgree
<1>4. ~(stage = "crashed") /\ (stage' = "crashed") = (stage = "crashed")
  BY <1>1
<1>5. \/ d.op \in M!Load /\ M!ExecuteLoad(d)
      \/ d.op \in M!Store /\ M!ExecuteStore(d)
      \/ d.op \in M!Op \ (M!Load \cup M!Store) /\ M!ExecuteOther(d)
  <2>1. CASE rob[1].op \in Load
    <3>1. InRange(Head(lsq))
      BY <1>1, <2>1 DEF HeadInRange
    <3> QED
      BY <1>2, <2>1, <3>1, LoadStep, TablesAgree
  <2>2. CASE rob[1].op \in Store
    BY <1>2, <2>2, StoreStep, TablesAgree
  <2>3. CASE rob[1].op \notin Load \cup Store
    <3>1. ~IsAccess(rob[1].op)
      BY <2>3 DEF IsAccess
    <3> QED
      BY <1>2, <2>3, <3>1, OtherStep, TablesAgree
  <2> QED
    BY <2>1, <2>2, <2>3
<1> HIDE DEF d
<1>6. M!ExecuteOne(d)
  BY <1>1, <1>3, <1>4, <1>5 DEF M!ExecuteOne
<1> QED
  BY <1>2, <1>4, <1>6 DEF M!MachineNext, d

\* An exception in commit is the machine's store that leaves memory.
LEMMA CommitThrowsStep ==
  ASSUME CpuInv, ChainOK, DataInv, CommitThrows
  PROVE  M!MachineNext
<1> DEFINE h == Head(lsq)
           d == M!Instr
           e == M!MemoryAccess(M!Ready(d))
<1>1. /\ rob # <<>> /\ IsAccess(Head(rob).op) /\ stage = "commit" /\ stage' = "crashed"
      /\ LsqAnswer = "throw" \/ (LsqAnswer = "retire" /\ h.op \in Store /\ IsWild(h))
      /\ mem' = IF h.tag = Head(rob).tag THEN Stored(h, mem) ELSE mem
      /\ UNCHANGED <<program, regs, vl, vsew, instruction_count>>
  BY DEF CommitThrows, CanCommit, inputVars
<1>2. lsq # <<>>
  BY <1>1 DEF LsqAnswer
<1>3. h.tag = Head(rob).tag /\ h.op = Head(rob).op /\ Head(rob) = rob[1]
  BY <1>1, <1>2, HeadServes
<1>4. h.done /\ h.op \in Store /\ (~Passes(h) \/ IsWild(h))
  BY <1>1, <1>2, <1>3 DEF LsqAnswer
<1>5. SameAccess(h, e) /\ h.V = e.V /\ AccessOK(h)
  BY <1>1, <1>2, <1>4, HeadAccess
<1>6. ~CommitOne
  BY <1>1 DEF CommitOne
<1>7. NextPc' = NextPc
  BY <1>6, ChainNext DEF CpuNext
<1>8. CommittedBranches' = CommittedBranches
  BY <1>6, BranchesNext DEF CpuNext, BranchesKept
<1>9. ~M!AtEnd /\ d.op = h.op
  BY <1>1, <1>3, NextInstruction
<1> HIDE DEF h, d, e
<1>10. ~InRange(h)
  BY <1>4, <1>5, InRangePasses DEF AccessOK
<1>11. ~M!InRange(e) /\ mem' = M!Stored(e, mem)
  BY <1>1, <1>3, <1>5, <1>10, SameReach, SameMemory, StoresAgree
<1>12. ~(stage = "crashed") /\ (stage' = "crashed") = TRUE
  BY <1>1
<1>13. M!FaultingStore(d)
  BY <1>1, <1>7, <1>8, <1>11, <1>12 DEF M!FaultingStore, e
<1>14. d.op \in M!Store
  BY <1>4, <1>9, TablesAgree
<1> QED
  BY <1>9, <1>12, <1>13, <1>14 DEF M!MachineNext, d

\* What the theorem supposes of the states of a behaviour: no address is so high
\* that the word behind it wraps; the load at the head lies within memory; no vector
\* unit meets elements it does not support; no flush has forgotten a vset in flight.
Tame ==
  /\ Fits(lsq) /\ HeadInRange
  /\ ~\E e \in P!Finishing(paths["VECTOR"]) : Unsupported(e)
  /\ VsetKnown

\* Execute does not throw then.
LEMMA NothingThrown ==
  ASSUME CpuInv, Tame
  PROVE  ~ExecuteThrows
<1>1. SUFFICES ASSUME WildLoad PROVE FALSE
  BY DEF ExecuteThrows, Tame
<1>2. PICK i \in DOMAIN lsq : lsq[i].op \in Load /\ IsWild(lsq[i])
  BY <1>1 DEF WildLoad
<1> DEFINE e == lsq[i]
<1>3. e \in AnAccess /\ e.sew = op_sew(e.op) /\ e.Va + 3 < WordMod
  BY <1>2 DEF Tame, Fits, CpuInv, Served, Serving, QueueOK, AccessOK
<1>4. e.op \notin VLoad /\ \E l \in 0..(elements(e) - 1) : Wild(element_address(e, l), element_size(e))
  BY <1>2 DEF IsWild
<1> HIDE DEF e
<1>5. e.op \notin VLoad \cup VStore
  <2>1. \A op \in Load : op \notin VStore
    BY DEF Load, VStore, IntLoad, VLoad
  <2> QED
    BY <1>2, <1>4, <2>1 DEF e
<1>6. element_size(e) \in {1, 2, 4} /\ elements(e) = 1 /\ e.Va \in Nat /\ e.Va < WordMod
  BY <1>3, <1>5, ElementFacts
<1>7. Wild(element_address(e, 0), element_size(e))
  <2>1. \A l \in 0..(1 - 1) : l = 0
    OBVIOUS
  <2> QED
    BY <1>4, <1>6, <2>1
<1>8. element_address(e, 0) = e.Va
  <2> DEFINE n == element_size(e)
             a == e.Va
             w == WordMod
  <2>1. n \in Nat /\ a \in Nat /\ a < w /\ w \in Nat
    BY <1>6, MemoryFacts
  <2>2. element_address(e, 0) = (a + 0 * n) % w
    BY DEF element_address
  <2> HIDE DEF n, a, w
  <2>3. a + 0 * n = a /\ a % w = a
    BY <2>1
  <2> QED
    BY <2>2, <2>3 DEF a
<1>9. ~Wild(e.Va, element_size(e))
  <2> DEFINE n == element_size(e)
             a == e.Va
             w == WordMod
  <2>1. n \in {1, 2, 4} /\ a \in Nat /\ a + 3 < w /\ w \in Nat /\ MemSize \in Nat \ {0} /\ MemSize <= w
    BY <1>3, <1>6, MemoryFacts
  <2> SUFFICES ASSUME Wild(a, n) PROVE FALSE
    OBVIOUS
  <2>2. Checked(a, n) /\ ~InMemory(a, n)
    BY DEF Wild
  <2> HIDE DEF n, a, w
  <2> QED
    BY <2>1, <2>2 DEF Checked, InMemory, w
<1> QED
  BY <1>7, <1>8, <1>9

\* No program has `vsetvli x0, x0`: the code keeps the vl that is committed when it
\* executes, whatever the vsets before it will set.
VsetsSetVl == \A p \in Programs : \A i \in DOMAIN p : ~(p[i].op = "VSETVLI" /\ p[i].imm = -2)

\* The inductive invariant of the refinement.
RefinementInv ==
  /\ CpuInv /\ ChainOK /\ DataInv
  /\ stage # "crashed" => Sees(lsq, mem)

\* The program is one of those supposed.
LEMMA ProgramSetsVl ==
  ASSUME VsetsSetVl, CpuInv
  PROVE  SetsVl
<1>1. program \in Programs /\ program \in Seq(Instruction)
  BY ConfigFacts DEF CpuInv, FrontOK
<1>2. DOMAIN program = 1..Len(program)
  BY <1>1, LenProperties
<1> QED
  BY <1>1, <1>2 DEF VsetsSetVl, SetsVl

\* The pipeline starts where the machine does.
LEMMA StartsAsMachine == CpuInit => M!MachineInit
<1> SUFFICES ASSUME CpuInit PROVE M!MachineInit
  OBVIOUS
<1>1. NextPc = 0
  BY ChainInit
<1>2. rob = <<>> /\ branch_count = 0
  BY DEF CpuInit, R!RenameInit
<1>3. CommittedBranches = 0
  <2>1. Counted(rob) = {}
    BY <1>2 DEF Counted
  <2>2. Cardinality(Counted(rob)) = 0
    BY <2>1, FS_EmptySet
  <2> QED
    BY <1>2, <2>2, BranchesMeans
<1>4. vl = M!vlmax(32) /\ vsew = 32 /\ instruction_count = 0 /\ ~(stage = "crashed")
  BY UnitsAgree DEF CpuInit
<1> QED
  BY <1>1, <1>3, <1>4 DEF M!MachineInit

\* Every other step leaves what the machine keeps.
LEMMA OtherStepsHidden ==
  ASSUME CpuInv, ChainOK, [CpuNext]_cpuVars, ~CommitOne, ~CommitThrows, ~ExecuteThrows
  PROVE  UNCHANGED M!machineVars
<1>1. NextPc' = NextPc /\ CommittedBranches' = CommittedBranches
  BY ChainNext, BranchesNext DEF BranchesKept
<1>2. UNCHANGED <<program, regs, vl, vsew, mem, instruction_count>>
  BY DEF CpuNext, StartStep, CommitEnds, WritebackOne, ResolveOne, FlushMispredicted, Execute,
         Issue, DispatchOne, DispatchStalls, DispatchInvalid, DecodeAndFetch, CheckHalt,
         inputVars, archVars, cpuVars
<1>3. (stage' = "crashed") = (stage = "crashed")
  <2>1. CASE UNCHANGED cpuVars
    BY <2>1 DEF cpuVars
  <2>2. CASE CpuNext
    <3>1. stage # "crashed" /\ stage' # "crashed"
      BY <2>2 DEF CpuNext, StartStep, CommitEnds, WritebackOne, ResolveOne, FlushMispredicted,
             Execute, Issue, DispatchOne, DispatchStalls, DispatchInvalid, DecodeAndFetch, CheckHalt
    <3> QED
      BY <3>1
  <2> QED
    BY <2>1, <2>2
<1> QED
  BY <1>1, <1>2, <1>3 DEF M!machineVars

\* Every step is the machine's or hidden from it.
LEMMA StepsAsMachine ==
  ASSUME VsetsSetVl, RefinementInv, Tame, [CpuNext]_cpuVars
  PROVE  [M!MachineNext]_(M!machineVars)
<1>1. CpuInv /\ ChainOK /\ DataInv /\ SetsVl
  BY ProgramSetsVl DEF RefinementInv
<1>2. ~ExecuteThrows
  BY <1>1, NothingThrown
<1>3. CASE CommitOne
  <2>1. Sees(lsq, mem) /\ HeadInRange
    BY <1>3 DEF CommitOne, RefinementInv, Tame
  <2> QED
    BY <1>1, <1>3, <2>1, CommitStep
<1>4. CASE CommitThrows
  BY <1>1, <1>4, CommitThrowsStep
<1>5. CASE ~CommitOne /\ ~CommitThrows
  BY <1>1, <1>2, <1>5, OtherStepsHidden
<1> QED
  BY <1>3, <1>4, <1>5

\* The invariant holds at first and after every step.
LEMMA RefinementKept ==
  ASSUME MemSize + 4 <= WordMod, VsetsSetVl
  PROVE  /\ CpuInit => RefinementInv
         /\ RefinementInv /\ Tame /\ Fits(lsq)' /\ [CpuNext]_cpuVars => RefinementInv'
<1>1. CpuInit => RefinementInv
  BY CpuInitInv, ChainInit, DataInit, SeesInit DEF RefinementInv
<1>2. ASSUME RefinementInv, Tame, Fits(lsq)', [CpuNext]_cpuVars PROVE RefinementInv'
  <2>1. CpuInv /\ ChainOK /\ DataInv /\ SetsVl /\ VsetKnown /\ Fits(lsq) /\ Fits(lsq')
    BY <1>2, ProgramSetsVl DEF RefinementInv, Tame
  <2>2. CpuInv' /\ ChainOK'
    BY <1>2, <2>1, CpuNextInv, ChainNext
  <2>3. DataInv'
    BY <1>2, <2>1, DataNext
  <2>4. stage' # "crashed" => Sees(lsq', mem')
    <3> HAVE stage' # "crashed"
    <3>1. stage # "crashed"
      BY <1>2 DEF CpuNext, StartStep, CommitOne, CommitThrows, CommitEnds, WritebackOne,
             ResolveOne, FlushMispredicted, Execute, ExecuteThrows, Issue, DispatchOne,
             DispatchStalls, DispatchInvalid, DecodeAndFetch, CheckHalt, cpuVars
    <3>2. Sees(lsq, mem)
      BY <1>2, <3>1 DEF RefinementInv
    <3> QED
      BY <1>2, <2>1, <3>2, SeesNext
  <2> QED
    BY <2>2, <2>3, <2>4 DEF RefinementInv, Sees
<1> QED
  BY <1>1, <1>2

\* Every entry of the pipeline is that of program order: what is in flight is the
\* program's, each instruction where the one before it leads, every operand and result
\* is what the older instructions give, and every load sees the older stores.
THEOREM RefinementInvariant ==
  ASSUME MemSize + 4 <= WordMod, VsetsSetVl
  PROVE  CpuSpec /\ []Tame => []RefinementInv
<1>1. CpuInit => RefinementInv
  BY RefinementKept
<1>2. RefinementInv /\ Tame /\ Tame' /\ [CpuNext]_cpuVars => RefinementInv'
  BY RefinementKept DEF Tame
<1> QED
  BY <1>1, <1>2, PTL DEF CpuSpec

\* The pipeline of CPU::step implements the machine that executes one instruction at
\* a time, in every behaviour that is tame.
THEOREM PipelineImplementsMachine ==
  ASSUME MemSize + 4 <= WordMod, VsetsSetVl
  PROVE  CpuSpec /\ []Tame => ImplementsMachine
<1>1. CpuInit => M!MachineInit
  BY StartsAsMachine
<1>2. CpuSpec /\ []Tame => []RefinementInv
  BY RefinementInvariant
<1>3. RefinementInv /\ Tame /\ [CpuNext]_cpuVars => [M!MachineNext]_(M!machineVars)
  BY StepsAsMachine
<1> QED
  BY <1>1, <1>2, <1>3, PTL DEF CpuSpec, ImplementsMachine, M!MachineSpec

-----------------------------------------------------------------------------
(* Programs for which less has to be supposed.                              *)

\* No program has an operation of this set.
Without(ops) == \A p \in Programs : \A i \in DOMAIN p : p[i].op \notin ops

\* Then none is in flight.
LEMMA NoneInFlight ==
  ASSUME NEW ops, Without(ops), CpuInv, ChainOK
  PROVE  /\ \A i \in DOMAIN rob : rob[i].op \notin ops
         /\ \A u \in paths["VECTOR"].units : u.rs.op \notin ops
         /\ \A i \in DOMAIN lsq : lsq[i].op \notin ops
<1>1. \A x \in Entries(rob) : x.op \notin ops
  <2> SUFFICES ASSUME NEW x \in Entries(rob) PROVE x.op \notin ops
    OBVIOUS
  <2>1. PICK i \in 1..Len(program) : x.op = program[i].op
    BY CodedOf
  <2>2. program \in Programs /\ DOMAIN program = 1..Len(program)
    BY ConfigFacts, LenProperties DEF CpuInv, FrontOK
  <2> QED
    BY <2>1, <2>2 DEF Without
<1>2. \A i \in DOMAIN rob : rob[i].op \notin ops
  BY <1>1 DEF Entries
<1>3. \A tag, op : Entry(rob, tag, op) => op \notin ops
  BY <1>2 DEF Entry
<1>4. Serving(config, rob, paths, lsq, lsus) /\ Tagged(rob)
  BY RobFacts DEF CpuInv, Served
<1>5. \A u \in paths["VECTOR"].units : u.rs.op \notin ops
  <2>1. \A tag, op : Pending(rob, tag, op) => op \notin ops
    BY <1>2 DEF Pending
  <2>2. PathServes(paths["VECTOR"], "VECTOR", rob)
    BY <1>4 DEF Serving, PathOK, ExecType
  <2> QED
    BY <2>1, <2>2 DEF PathServes
<1>6. \A i \in DOMAIN lsq : lsq[i].op \notin ops
  BY <1>3, <1>4, InQueue
<1> QED
  BY <1>2, <1>5, <1>6

\* Without vector instructions, nothing has to be supposed of them.
LEMMA ScalarsTame ==
  ASSUME Without(Vec), CpuInv, ChainOK, Fits(lsq), HeadInRange
  PROVE  Tame
<1>1. VSet \subseteq Vec /\ VectorFloat \subseteq Vec
  BY DEF Vec, Vector, VectorFloat, VMove
<1>2. VsetKnown
  BY <1>1, NoneInFlight DEF VsetKnown
<1>3. ~\E e \in P!Finishing(paths["VECTOR"]) : Unsupported(e)
  BY <1>1, NoneInFlight DEF P!Finishing, Unsupported
<1> QED
  BY <1>2, <1>3 DEF Tame

\* Without loads and stores, nothing has to be supposed of addresses.
LEMMA ComputationsTame ==
  ASSUME Without(Vec \cup Load \cup Store), CpuInv, ChainOK
  PROVE  Fits(lsq) /\ HeadInRange /\ Tame
<1>1. Without(Vec)
  BY DEF Without
<1>2. \A i \in DOMAIN lsq : lsq[i].op \notin Load \cup Store
  BY NoneInFlight
<1>3. \A i \in DOMAIN lsq : IsAccess(lsq[i].op)
  BY InQueue, RobFacts DEF CpuInv, Served
<1>4. Fits(lsq)
  BY <1>2, <1>3 DEF Fits, IsAccess
<1>5. HeadInRange
  <2>1. rob # <<>> => 1 \in DOMAIN rob /\ Head(rob) = rob[1]
    BY RobFacts, EmptySeq DEF CpuInv
  <2> QED
    BY <2>1, NoneInFlight DEF HeadInRange
<1> QED
  BY <1>1, <1>4, <1>5, ScalarsTame

\* A pipeline without vector instructions implements the machine as long as no access
\* goes past memory or the address space.
THEOREM ScalarsImplementMachine ==
  ASSUME MemSize + 4 <= WordMod, Without(Vec)
  PROVE  CpuSpec /\ [](Fits(lsq) /\ HeadInRange) => ImplementsMachine
<1> DEFINE InBounds == Fits(lsq) /\ HeadInRange
<1>1. VsetsSetVl
  BY DEF Without, VsetsSetVl, Vec, Vector, VSet
<1>2. CpuInit => RefinementInv /\ M!MachineInit
  BY <1>1, RefinementKept, StartsAsMachine
<1>3. RefinementInv /\ InBounds => Tame
  BY ScalarsTame DEF RefinementInv
<1>4. RefinementInv /\ InBounds /\ InBounds' /\ [CpuNext]_cpuVars => RefinementInv'
  BY <1>1, <1>3, RefinementKept
<1>5. RefinementInv /\ InBounds /\ [CpuNext]_cpuVars => [M!MachineNext]_(M!machineVars)
  BY <1>1, <1>3, StepsAsMachine
<1> HIDE DEF InBounds
<1>6. CpuSpec /\ []InBounds => ImplementsMachine
  BY <1>2, <1>4, <1>5, PTL DEF CpuSpec, ImplementsMachine, M!MachineSpec
<1> QED
  BY <1>6 DEF InBounds

\* And a pipeline without loads and stores does whatever happens: no hypothesis is
\* left about its behaviour.
THEOREM ComputationsImplementMachine ==
  ASSUME MemSize + 4 <= WordMod, Without(Vec \cup Load \cup Store)
  PROVE  CpuSpec => ImplementsMachine
<1>1. Without(Vec)
  BY DEF Without
<1>2. CpuInv /\ ChainOK => Fits(lsq) /\ HeadInRange
  BY ComputationsTame
<1>3. CpuSpec => [](CpuInv /\ ChainOK)
  BY FlightInOrder
<1>4. CpuSpec /\ [](Fits(lsq) /\ HeadInRange) => ImplementsMachine
  BY <1>1, ScalarsImplementMachine
<1> QED
  BY <1>2, <1>3, <1>4, PTL

\* Nothing is forgotten where nothing is predicted.
LEMMA VsetKept ==
  ASSUME Without(Ctrl), CpuInv, ChainOK, VsetKnown, [CpuNext]_cpuVars
  PROVE  VsetKnown'
<1>1. /\ rob \in Seq(R!ROBEntry) /\ Tagged(rob) /\ next_tag \in Nat
      /\ \A i \in DOMAIN rob : rob[i].tag \in Nat
      /\ \A i \in DOMAIN rob : rob[i].op \notin Ctrl
  BY RobFacts, NoneInFlight DEF CpuInv
<1>2. SUFFICES ASSUME RenameStep PROVE VsetKnown'
  <2>1. UNCHANGED renameVars => VsetKnown'
    BY DEF VsetKnown, renameVars
  <2> QED
    BY <1>2, <2>1, StepsAsRename
<1>3. SUFFICES ASSUME vec_tag' = NoTag PROVE \A i \in DOMAIN rob' : rob'[i].op \notin VSet
  BY DEF VsetKnown
<1>4. CASE decode_q # <<>> /\ R!Dispatch(Head(decode_q))
  <2> DEFINE d == Head(decode_q)
             e == R!NewEntry(d, next_tag)
  <2>1. /\ rob' = Append(rob, e)
        /\ vec_tag' = IF d.op \in VSet THEN next_tag ELSE vec_tag
    BY <1>4, OperationsAgree DEF R!Dispatch, R!Allocate
  <2>2. d.op \notin VSet /\ vec_tag = NoTag
    BY <1>1, <1>3, <2>1 DEF NoTag
  <2>3. e.op = d.op
    BY DEF R!NewEntry
  <2> HIDE DEF d, e
  <2>4. \A i \in DOMAIN rob' : (i \in DOMAIN rob /\ rob'[i] = rob[i]) \/ rob'[i] = e
    <3>1. DOMAIN rob = 1..Len(rob) /\ Len(rob) \in Nat
      BY <1>1
    <3>2. DOMAIN rob' = 1..(Len(rob) + 1)
      BY <1>1, <2>1, AppendProperties
    <3>3. \A i \in 1..Len(rob) : Append(rob, e)[i] = rob[i]
      BY <1>1
    <3>4. Append(rob, e)[Len(rob) + 1] = e
      BY <1>1
    <3> QED
      BY <2>1, <3>1, <3>2, <3>3, <3>4
  <2> QED
    BY <2>2, <2>3, <2>4 DEF VsetKnown
<1>5. CASE \E i \in DOMAIN rob, x \in Completed :
             rob[i].tag = x.tag /\ x.result \in R!Result /\ R!Writeback(i, x.result)
  <2>1. PICK i \in DOMAIN rob, x \in Completed : R!Update(i, x.result)
    BY <1>5 DEF R!Writeback
  <2>2. /\ rob' = [rob EXCEPT ![i].ready = TRUE, ![i].result = x.result]
        /\ vec_tag' = vec_tag
    BY <2>1 DEF R!Update
  <2>3. DOMAIN rob' = DOMAIN rob /\ \A j \in DOMAIN rob : rob'[j].op = rob[j].op
    BY <1>1, <2>2 DEF R!ROBEntry
  <2> QED
    BY <1>3, <2>2, <2>3 DEF VsetKnown
<1>6. CASE \E i \in DOMAIN rob : R!Resolve(i) \/ R!Mispredict(i)
  <2>1. PICK i \in DOMAIN rob : R!Resolvable(i)
    BY <1>6 DEF R!Resolve, R!Mispredict
  <2>2. rob[i].op \in R!Ctrl
    BY <2>1 DEF R!Resolvable
  <2> QED
    BY <1>1, <2>2, OperationsAgree
<1>7. CASE R!Commit
  <2>1. /\ rob # <<>> /\ rob' = Tail(rob)
        /\ vec_tag' = IF Head(rob).op \in VSet /\ vec_tag = Head(rob).tag THEN NoTag ELSE vec_tag
    BY <1>7, OperationsAgree DEF R!Commit, R!Retire
  <2>2. /\ Head(rob) = rob[1] /\ 1 \in DOMAIN rob
        /\ \A i \in DOMAIN Tail(rob) : i + 1 \in DOMAIN rob /\ Tail(rob)[i] = rob[i + 1]
                                       /\ i \in Nat \ {0}
    BY <1>1, <2>1, TailOf
  <2>3. CASE vec_tag = NoTag
    BY <2>1, <2>2, <2>3 DEF VsetKnown
  <2>4. CASE vec_tag # NoTag
    <3>1. vec_tag = rob[1].tag
      BY <1>3, <2>1, <2>2, <2>4
    <3>2. PICK i \in DOMAIN rob : /\ vec_tag = rob[i].tag
                                  /\ \A j \in DOMAIN rob : rob[j].op \in VSet => j <= i
      BY <2>4, OperationsAgree DEF CpuInv, RenameInv, R!VecTagYoungest
    <3>3. i = 1
      BY <1>1, <2>2, <3>1, <3>2, OneEntry
    <3> QED
      BY <2>1, <2>2, <3>2, <3>3
  <2> QED
    BY <2>3, <2>4
<1> QED
  BY <1>2, <1>4, <1>5, <1>6, <1>7 DEF RenameStep

\* No vector unit finishes an operation on elements that are not floats.
VectorsSupported == ~\E e \in P!Finishing(paths["VECTOR"]) : Unsupported(e)

\* Vector instructions in a row are right, with their lengths and widths: what is
\* wrong about a vset needs a branch.
THEOREM VectorsImplementMachine ==
  ASSUME MemSize + 4 <= WordMod, VsetsSetVl, Without(Ctrl)
  PROVE  CpuSpec /\ [](Fits(lsq) /\ HeadInRange /\ VectorsSupported) => ImplementsMachine
<1> DEFINE Right == Fits(lsq) /\ HeadInRange /\ VectorsSupported
           Inv   == RefinementInv /\ VsetKnown
<1>1. CpuInit => Inv /\ M!MachineInit
  <2>1. CpuInit => VsetKnown
    BY DEF CpuInit, R!RenameInit, VsetKnown
  <2> QED
    BY <2>1, RefinementKept, StartsAsMachine
<1>2. Inv /\ Right => RefinementInv /\ Tame
  BY DEF Tame, VectorsSupported
<1>3. Inv /\ Right /\ Right' /\ [CpuNext]_cpuVars => Inv'
  BY <1>2, RefinementKept, VsetKept DEF RefinementInv
<1>4. Inv /\ Right /\ [CpuNext]_cpuVars => [M!MachineNext]_(M!machineVars)
  BY <1>2, StepsAsMachine
<1> HIDE DEF Right, Inv
<1>5. CpuSpec /\ []Right => ImplementsMachine
  BY <1>1, <1>3, <1>4, PTL DEF CpuSpec, ImplementsMachine, M!MachineSpec
<1> QED
  BY <1>5 DEF Right
=============================================================================
