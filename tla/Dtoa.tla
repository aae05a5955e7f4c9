-------------------------------- MODULE Dtoa --------------------------------
(***************************************************************************)
(* Digits of a double (util/double-conversion: bignum-dtoa.cc exactly and  *)
(* in any case, fast-dtoa.cc and fixed-dtoa.cc fast and if they can).  The *)
(* digits d with the decimal point at p stand for 0.d * 10^p.              *)
(***************************************************************************)
EXTENDS Ieee, Bignum

CONSTANTS
  MinimalTargetExponent,     (* 60: minus the least exponent of a scaled number *)
  MaximalTargetExponent,     (* 32: minus the greatest one                     *)
  FixedMaxExponent,          (* 20: what FastFixedDtoa can do                  *)
  FixedMaxDigits             (* 20                                             *)

ASSUME TargetAssumption ==
  /\ {MinimalTargetExponent, MaximalTargetExponent, FixedMaxExponent, FixedMaxDigits} \subseteq Nat
  /\ MaximalTargetExponent < MinimalTargetExponent
  /\ 10 * 2^MinimalTargetExponent < 2^DiyFpSize

IsShortest(mode) == mode \in {"shortest", "single"}

\* The double v, and for "single" the float that it is.
FormatOf(mode) == IF mode = "single" THEN Single ELSE Double
NumberOf(mode, v) == IF mode = "single" THEN ToSingle(v) ELSE v
IsEven(mode, v) == Significand(FormatOf(mode), NumberOf(mode, v)) % 2 = 0
----------------------------------------------------------------------------
(* bignum-dtoa.cc: v / 10^power as a ratio of two Bignums, and the distances *)
(* to the boundaries over the same denominator.                              *)
NormalizedExponent(f, e) == e - (SignificandSize(Double) - BitLength(f))
EstimatePower(exponent) == Log10Of2Power(exponent + SignificandSize(Double) - 1)

EstimateOf(mode, v) ==
  LET Of(t, n) == EstimatePower(NormalizedExponent(Significand(t, n), Exponent(t, n)))
  IN Of(FormatOf(mode), NumberOf(mode, v))

\* With deltas everything is twice as large, for a delta is half a unit.
InitialScaledStartValues(f, e, power, deltas, closer) ==
  LET twice == IF deltas THEN 1 ELSE 0
      Ten == AssignPowerUInt16(10, IF power >= 0 THEN power ELSE -power)
      unit == CASE ~deltas -> Zero
                [] e >= 0 -> ShiftLeft(AssignUInt16(1), e)
                [] e < 0 /\ power >= 0 -> AssignUInt16(1)
                [] OTHER -> Ten
      start ==
        CASE e >= 0 ->
               [num |-> ShiftLeft(AssignUInt64(f), e + twice), den |-> ShiftLeft(Ten, twice)]
          [] e < 0 /\ power >= 0 ->
               [num |-> ShiftLeft(AssignUInt64(f), twice), den |-> ShiftLeft(Ten, twice - e)]
          [] OTHER ->
               [num |-> ShiftLeft(MultiplyByUInt64(Ten, f), twice),
                den |-> ShiftLeft(AssignUInt16(1), twice - e)]
      half == IF deltas /\ closer THEN 1 ELSE 0   \* delta_minus is half of delta_plus
  IN [num |-> ShiftLeft(start.num, half), den |-> ShiftLeft(start.den, half),
      minus |-> unit, plus |-> ShiftLeft(unit, half)]

StartValues(mode, v) ==
  LET Of(t, n) ==
        InitialScaledStartValues(Significand(t, n), Exponent(t, n), EstimateOf(mode, v),
          IsShortest(mode), LowerBoundaryIsCloser(t, n))
  IN Of(FormatOf(mode), NumberOf(mode, v))

\* Are we above the denominator with the delta, or at it for an even number?
InDeltaRoomPlus(r, even) ==
  LET c == PlusCompare(r.num, r.plus, r.den) IN IF even THEN c >= 0 ELSE c > 0
InDeltaRoomMinus(r, even) ==
  LET c == Compare(r.num, r.minus) IN IF even THEN c <= 0 ELSE c < 0

Tenfold(r) == [r EXCEPT !.num = Times10(@), !.minus = Times10(@), !.plus = Times10(@)]

FixupMultiply10(r, power, even) ==
  IF InDeltaRoomPlus(r, even) THEN [r |-> r, point |-> power + 1]
  ELSE [r |-> Tenfold(r), point |-> power]

\* GenerateShortestDigits, one turn of the loop: the next digit, and whether
\* the rest can go, rounded down or up.
ShortestDigit(r0, even) ==
  LET With(q) ==
        LET r == [r0 EXCEPT !.num = q.x]
            low == InDeltaRoomMinus(r, even)
            high == InDeltaRoomPlus(r, even)
            half == PlusCompare(r.num, r.num, r.den)
            up == high /\ (low => (half > 0 \/ (half = 0 /\ q.result % 2 = 1)))
        IN IF ~low /\ ~high THEN [digit |-> q.result, last |-> FALSE, r |-> Tenfold(r)]
           ELSE [digit |-> IF up THEN q.result + 1 ELSE q.result, last |-> TRUE, r |-> r]
  IN With(DivideModuloIntBignum(r0.num, r0.den))

\* GenerateCountedDigits: the last of count digits is rounded, half upwards.
CountedDigit(r0, isLast) ==
  LET With(q) ==
        LET r == [r0 EXCEPT !.num = q.x]
        IN IF isLast
           THEN [digit |-> q.result + (IF PlusCompare(r.num, r.num, r.den) >= 0 THEN 1 ELSE 0),
                 last |-> TRUE, r |-> r]
           ELSE [digit |-> q.result, last |-> FALSE, r |-> [r EXCEPT !.num = Times10(@)]]
  IN With(DivideModuloIntBignum(r0.num, r0.den))

\* A digit that became 10 is carried to the left; past the first digit the
\* number becomes a power of ten, a place longer.
Carried(digits, point) ==
  LET Digit(d, acc) == IF d + acc.carry = 10 THEN [out |-> <<0>> \o acc.out, carry |-> 1]
                       ELSE [out |-> <<d + acc.carry>> \o acc.out, carry |-> 0]
      End(acc) == IF acc.carry = 1 THEN [digits |-> [acc.out EXCEPT ![1] = 1], point |-> point + 1]
                  ELSE [digits |-> acc.out, point |-> point]
  IN End(FoldRight(Digit, digits, [out |-> <<>>, carry |-> 0]))

\* BignumToFixed for a number of which at most its first digit is wanted.
FixedOfOneDigit(r, point) ==
  IF PlusCompare(r.num, r.num, Times10(r.den)) >= 0
  THEN [digits |-> <<1>>, point |-> point + 1] ELSE [digits |-> <<>>, point |-> point]
----------------------------------------------------------------------------
(* fast-dtoa.cc: the digits of v times a cached power of ten, as long as    *)
(* the error of one unit leaves no doubt.                                    *)
Failed == [ok |-> FALSE, digits |-> <<>>, kappa |-> 0]

\* The rounding down of the last digit towards w, and the test whether all
\* numbers that v * 10^k may be agree on it.
RoundWeed(digits, kappa, distance, interval, rest0, tenKappa, unit) ==
  LET small == distance - unit
      big == distance + unit
      Towards(acc, i) ==
        IF /\ acc.rest < small
           /\ interval - acc.rest >= tenKappa
           /\ \/ acc.rest + tenKappa < small
              \/ small - acc.rest >= acc.rest + tenKappa - small
        THEN [minus |-> acc.minus + 1, rest |-> acc.rest + tenKappa] ELSE acc
      Doubtful(rest) ==
        /\ rest < big
        /\ interval - rest >= tenKappa
        /\ rest + tenKappa < big \/ big - rest > rest + tenKappa - big
      End(acc) ==
        IF Doubtful(acc.rest) \/ 2 * unit > acc.rest \/ acc.rest > interval - 4 * unit THEN Failed
        ELSE [ok |-> TRUE, kappa |-> kappa,
              digits |-> [digits EXCEPT ![Len(digits)] = @ - acc.minus]]
  IN End(FoldLeft(Towards, [minus |-> 0, rest |-> rest0], [i \in 1 .. 10 |-> i]))

\* A slip: the error of the scaled number is forgotten.
RoundWeedCountedExactly(digits, kappa, rest, tenKappa, unit) ==
  IF tenKappa - rest > rest THEN [ok |-> TRUE, digits |-> digits, kappa |-> kappa]
  ELSE LET up == Carried([digits EXCEPT ![Len(digits)] = @ + 1], kappa)
       IN [ok |-> TRUE, digits |-> up.digits, kappa |-> up.point]
RoundWeedCounted(digits, kappa, rest, tenKappa, unit) ==
  CASE unit >= tenKappa \/ tenKappa - unit <= unit -> Failed
    [] tenKappa - rest > rest /\ tenKappa - 2 * rest >= 2 * unit ->
         [ok |-> TRUE, digits |-> digits, kappa |-> kappa]
    [] rest > unit /\ tenKappa - (rest - unit) <= rest - unit ->
         LET up == Carried([digits EXCEPT ![Len(digits)] = @ + 1], kappa)
         IN [ok |-> TRUE, digits |-> up.digits, kappa |-> up.point]
    [] OTHER -> Failed

\* How many digits n has: BiggestPowerTen gives 10^(that - 1), and 0 for 0.
DecimalLength(n) == CHOOSE k \in 0 .. 9 : n < 10^k /\ (k = 0 \/ n >= 10^(k - 1))

\* Digits before the point of a scaled number, then digits after it, until
\* Stop says what became of them.
GenerateDigits(high, interval, e, Stop(_)) ==
  LET one == 2^(-e)
      Turn(acc, i) ==
        LET divisor == 10^(acc.kappa - 1)
            Integral(rest) ==
              [acc EXCEPT !.digits = Append(@, acc.integrals \div divisor), !.kappa = @ - 1,
                          !.integrals = acc.integrals % divisor,
                          !.rest = rest, !.tenKappa = divisor * one]
            Fractional(f) ==
              [acc EXCEPT !.digits = Append(@, f \div one), !.kappa = @ - 1, !.fractionals = f % one,
                          !.unit = @ * 10, !.interval = @ * 10,
                          !.rest = f % one, !.tenKappa = one]
        IN CASE Stop(acc) -> acc
             [] acc.kappa > 0 -> Integral((acc.integrals % divisor) * one + acc.fractionals)
             [] OTHER -> Fractional(acc.fractionals * 10)
      Start(integrals) ==
        [digits |-> <<>>, kappa |-> DecimalLength(integrals), integrals |-> integrals,
         fractionals |-> high % one, unit |-> 1, interval |-> interval,
         rest |-> high, tenKappa |-> 0]
  IN FoldLeft(Turn, Start(high \div one), [i \in 1 .. DiyFpSize + 4 |-> i])

DigitGen(low, w, high) ==
  LET Stop(acc) == acc.digits # <<>> /\ acc.rest < acc.interval
      End(acc) == RoundWeed(acc.digits, acc.kappa, (high.f + 1 - w.f) * acc.unit,
                            acc.interval, acc.rest, acc.tenKappa, acc.unit)
  IN End(GenerateDigits(high.f + 1, high.f - low.f + 2, w.e, Stop))

DigitGenCounted(w, requested) ==
  LET Stop(acc) == \/ Len(acc.digits) = requested
                   \/ acc.kappa <= 0 /\ acc.fractionals <= acc.unit
      End(acc) == IF Len(acc.digits) # requested THEN Failed
                  ELSE RoundWeedCounted(acc.digits, acc.kappa, acc.rest, acc.tenKappa, acc.unit)
  IN End(GenerateDigits(w.f, 0, w.e, Stop))

Grisu3(mode, v, requested) ==
  LET Scaled3(w, ten) ==
        LET Of(b) == IF mode = "precision" THEN DigitGenCounted(Times(w, ten.power), requested)
                     ELSE DigitGen(Times(b.minus, ten.power), Times(w, ten.power), Times(b.plus, ten.power))
            End(g) == [ok |-> g.ok, digits |-> g.digits,
                       point |-> Len(g.digits) + g.kappa - ten.decimal]
        IN End(Of(NormalizedBoundaries(FormatOf(mode), NumberOf(mode, v))))
      With(w) == Scaled3(w, GetCachedPowerForBinaryExponentRange(
                              -MinimalTargetExponent - (w.e + DiyFpSize)))
  IN With(AsNormalizedDiyFp(v))
----------------------------------------------------------------------------
(* fixed-dtoa.cc: numbers that fit into machine words, digit by digit.       *)
DigitsOf(n) == LET k == DecimalLength(n) IN [i \in 1 .. k |-> (n \div 10^(k - i)) % 10]

RoundUp(digits, point) ==
  IF digits = <<>> THEN [digits |-> <<1>>, point |-> 1]
  ELSE Carried([digits EXCEPT ![Len(digits)] = @ + 1], point)

\* The fraction f * 2^e, times 10 by a factor 5 and a move of its point.
FillFractionals(digits, f, e, count, point) ==
  LET Turn(acc, i) ==
        LET Of(five) == [digits |-> Append(acc.digits, five \div 2^(acc.at - 1)),
                         f |-> five % 2^(acc.at - 1), at |-> acc.at - 1]
        IN IF acc.f = 0 THEN acc ELSE Of(acc.f * 5)
      End(acc) == IF acc.f # 0 /\ acc.f >= 2^(acc.at - 1) THEN RoundUp(acc.digits, point)
                  ELSE [digits |-> acc.digits, point |-> point]
  IN End(FoldLeft(Turn, [digits |-> digits, f |-> f, at |-> -e], [i \in 1 .. count |-> i]))

TrimZeros(x) ==
  LET nonzero == {i \in DOMAIN x.digits : x.digits[i] # 0}
  IN IF nonzero = {} THEN [digits |-> <<>>, point |-> x.point - Len(x.digits)]
     ELSE [digits |-> SubSeq(x.digits, Min(nonzero), Max(nonzero)),
           point |-> x.point - (Min(nonzero) - 1)]

FastFixedDtoa(v, count) ==
  LET f == Significand(Double, v)
      e == Exponent(Double, v)
      Cut(integrals) ==
        FillFractionals(DigitsOf(integrals), f - integrals * 2^(-e), e, count, Len(DigitsOf(integrals)))
      filled == IF e >= 0 THEN [digits |-> DigitsOf(f * 2^e), point |-> Len(DigitsOf(f * 2^e))]
                ELSE Cut(f \div 2^(-e))
      End(x) == [ok |-> TRUE, digits |-> x.digits,
                 point |-> IF x.digits = <<>> THEN -count ELSE x.point]
  IN IF e > FixedMaxExponent \/ count > FixedMaxDigits
     THEN [ok |-> FALSE, digits |-> <<>>, point |-> 0]
     ELSE End(TrimZeros(filled))
=============================================================================
