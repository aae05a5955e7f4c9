------------------------------- MODULE Strtod -------------------------------
(***************************************************************************)
(* The double or float nearest to a decimal number                         *)
(* (util/double-conversion/strtod.cc).  The number is a sequence of digits *)
(* and an exponent: 123 and -1 for 12.3.                                   *)
(***************************************************************************)
EXTENDS Ieee, Bignum

CONSTANTS
  MaxExactDoubleIntegerDecimalDigits,  (* 15: they fit the significand        *)
  ExactPowersOfTenSize,                (* 23: so many powers of ten are exact *)
  MaxDecimalPower,                     (* 309: infinity from there            *)
  MinusMinDecimalPower,                (* 324: 0 from there, minus that       *)
  MaxSignificantDecimalDigits          (* 780                                 *)

ASSUME DecimalAssumption ==
  /\ {MaxExactDoubleIntegerDecimalDigits, ExactPowersOfTenSize, MaxDecimalPower,
      MinusMinDecimalPower, MaxSignificantDecimalDigits} \subseteq Nat
  /\ 10^MaxExactDoubleIntegerDecimalDigits <= 2^SignificandSize(Double)
  /\ 5^(ExactPowersOfTenSize - 1) < 2^SignificandSize(Double)
  /\ UInt64Size = DiyFpSize
----------------------------------------------------------------------------
\* Without the zeros at both ends; a digit 1 stands for all that is cut off.
TrimAndCut(x) ==
  LET nonzero == {i \in DOMAIN x.digits : x.digits[i] # 0}
      Cut(digits, exponent) ==
        IF Len(digits) <= MaxSignificantDecimalDigits THEN [digits |-> digits, exponent |-> exponent]
        ELSE [digits |-> Append(SubSeq(digits, 1, MaxSignificantDecimalDigits - 1), 1),
              exponent |-> exponent + Len(digits) - MaxSignificantDecimalDigits]
  IN IF nonzero = {} THEN [digits |-> <<>>, exponent |-> x.exponent]
     ELSE Cut(SubSeq(x.digits, Min(nonzero), Max(nonzero)),
              x.exponent + Len(x.digits) - Max(nonzero))

\* As many digits as surely fit into a word.
ReadUint64(digits) ==
  LET Digit(acc, digit) ==
        IF acc.n <= (2^UInt64Size - 1) \div 10 - 1
        THEN [n |-> 10 * acc.n + digit, read |-> acc.read + 1] ELSE acc
  IN FoldLeft(Digit, [n |-> 0, read |-> 0], digits)

\* DoubleStrtod: if both parts of the number are exact doubles, then one
\* operation of the processor rounds once.  (With a large power there are two
\* products, the first of them exact.)
RemainingDigits(x) == MaxExactDoubleIntegerDecimalDigits - Len(x.digits)
IsExactOperation(x) ==
  /\ RemainingDigits(x) >= 0
  /\ IF x.exponent < 0 THEN -x.exponent < ExactPowersOfTenSize
     ELSE x.exponent - RemainingDigits(x) < ExactPowersOfTenSize
DoubleStrtod(x) ==
  LET n == ReadUint64(x.digits).n
  IN IF x.exponent < 0 THEN NearestOf(Double, n, 10^(-x.exponent))
     ELSE NearestOf(Double, n * 10^x.exponent, 1)

\* 10^exponent, exactly, for the powers between two cached ones.
AdjustmentPowerOfTen(exponent) == Normalize(DiyFp(10^exponent, 0))

Denominator == 8        \* errors are counted in eighths of a unit
DenominatorLog == 3

\* Rounds a product to the bits a double has at this magnitude; right if the
\* error cannot carry it over the middle.
RoundedInput(input0, error0) ==
  LET count0 == DiyFpSize - SignificandSizeForOrderOfMagnitude(Double, DiyFpSize + input0.e)
      wide == count0 + DenominatorLog - DiyFpSize + 1   \* too many bits for a word
      Of(input, error, count) ==
        LET bits == (input.f % 2^count) * Denominator
            half == 2^(count - 1) * Denominator
            up == IF bits >= half + error THEN 1 ELSE 0
        IN [guess |-> FromDiyFp(DiyFp(input.f \div 2^count + up, input.e + count)),
            right |-> ~(half - error < bits /\ bits < half + error)]
  IN IF wide > 0
     THEN Of(DiyFp(input0.f \div 2^wide, input0.e + wide), error0 \div 2^wide + 1 + Denominator,
             count0 - wide)
     ELSE Of(input0, error0, count0)

\* A slip: the error stays what it was.
NormalizedAlone(input, error) == [input |-> Normalize(input), error |-> error]
\* The error of a factor grows with what normalising shifts.
Normalized(input, error) ==
  LET Of(y) == [input |-> y, error |-> error * 2^(input.e - y.e)] IN Of(Normalize(input))

\* The digits as a DiyFp times a power of ten, with the error made so far.
DiyFpStrtod(x) ==
  LET Round(n) == RoundedInput(n.input, n.error)
      Power(n, ten) ==
        Round(Normalized(Times(n.input, ten.power),
                         n.error + Denominator + (IF n.error = 0 THEN 0 ELSE 1)))
      Adjusted(n, adjustment, ten) ==
        IF adjustment = 0 THEN Power(n, ten)
        ELSE Power([input |-> Times(n.input, AdjustmentPowerOfTen(adjustment)),
                    error |-> IF WordDigits - Len(x.digits) >= adjustment THEN n.error
                              ELSE n.error + Denominator \div 2], ten)
      With(n, exponent) ==
        LET Of(ten) == Adjusted(n, exponent - ten.decimal, ten)
        IN IF exponent < -CachedPowersOffset THEN [guess |-> 0, right |-> TRUE]
           ELSE Of(GetCachedPowerForDecimalExponent(exponent))
      Read(r) ==
        LET rest == Len(x.digits) - r.read
            up == IF rest > 0 /\ x.digits[r.read + 1] >= 5 THEN 1 ELSE 0
        IN With(Normalized(DiyFp(r.n + up, 0), IF rest = 0 THEN 0 ELSE Denominator \div 2),
                x.exponent + rest)
  IN Read(ReadUint64(x.digits))

\* The right double, or it or the one below it, and which of the two.
ComputeGuess(x) ==
  LET OrInfinite(g) == [g EXCEPT !.right = @ \/ g.guess = Infinity(Double)]
  IN CASE x.digits = <<>> -> [guess |-> 0, right |-> TRUE]
       [] x.exponent + Len(x.digits) - 1 >= MaxDecimalPower ->
            [guess |-> Infinity(Double), right |-> TRUE]
       [] x.exponent + Len(x.digits) <= -MinusMinDecimalPower -> [guess |-> 0, right |-> TRUE]
       [] IsExactOperation(x) -> [guess |-> DoubleStrtod(x), right |-> TRUE]
       [] OTHER -> OrInfinite(DiyFpStrtod(x))

\* The two Bignums that tell the decimal number from a boundary.
BufferBignum(x, y) ==
  LET At(b) == IF y.e > 0 THEN b ELSE ShiftLeft(b, -y.e)
  IN At(MultiplyByPowerOfTen(AssignDecimalString(x.digits), IF x.exponent >= 0 THEN x.exponent ELSE 0))
DiyFpBignum(x, y) ==
  LET At(b) == IF y.e > 0 THEN ShiftLeft(b, y.e) ELSE b
  IN At(MultiplyByPowerOfTen(AssignUInt64(y.f), IF x.exponent >= 0 THEN 0 ELSE -x.exponent))
CompareBufferWithDiyFp(x, y) == Compare(BufferBignum(x, y), DiyFpBignum(x, y))

\* What is left to do after the guess: nothing, or one of two neighbours.
StrtodCandidates(g) ==
  [low |-> g.guess, high |-> IF g.right THEN g.guess ELSE NextDouble(Double, g.guess),
   boundary |-> UpperBoundary(Double, g.guess)]

\* A float may be rounded twice: a double that is half-way between two
\* floats says nothing of the number it stands for, so the doubles around it
\* are looked at.
StrtofCandidates(g) ==
  LET next == NextDouble(Double, g.guess)
      f1 == ToSingle(PreviousDouble(Double, g.guess))
      f4 == ToSingle(IF g.right THEN next ELSE NextDouble(Double, next))
      float == ToSingle(g.guess)
      half == NearestOf(Double, 1, 2 * 2^(-DenormalExponent(Single)))
  IN IF ToDouble(float) = g.guess \/ f1 = f4
     THEN [low |-> float, high |-> float, boundary |-> UpperBoundary(Single, float)]
     ELSE [low |-> f1, high |-> f4,
           boundary |-> IF f1 = 0 THEN AsDiyFp(Double, half) ELSE UpperBoundary(Single, f1)]

\* At the middle the even one is taken.
Decided(x, c) ==
  LET By(comparison) ==
        IF comparison < 0 \/ (comparison = 0 /\ c.low % 2 = 0) THEN c.low ELSE c.high
  IN By(CompareBufferWithDiyFp(x, c.boundary))
=============================================================================
