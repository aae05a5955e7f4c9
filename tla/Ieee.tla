-------------------------------- MODULE Ieee --------------------------------
(***************************************************************************)
(* Floating point numbers as util/double-conversion takes them apart       *)
(* (ieee.h, diy-fp.h, cached-powers.cc).  A format t is [phys, ebits]: the *)
(* bits of the significand that are stored and of the exponent.  A double  *)
(* or float is the number its bits are: sign, exponent, significand.       *)
(***************************************************************************)
EXTENDS Integers, Sequences

CONSTANTS
  DoublePhysicalSize, DoubleExponentBits,   (* 52 and 11 in the program    *)
  SinglePhysicalSize, SingleExponentBits,   (* 23 and 8                    *)
  DiyFpSize,                                (* 64, the bits of a uint64    *)
  CachedPowersOffset,                       (* 348                         *)
  DecimalExponentDistance,                  (* 8                           *)
  MaxDecimalExponent                        (* 340                         *)

ASSUME FormatAssumption ==
  /\ {DoublePhysicalSize, DoubleExponentBits, SinglePhysicalSize, SingleExponentBits}
       \subseteq Nat \ {0}
  /\ DoublePhysicalSize >= SinglePhysicalSize + 2
  /\ DoubleExponentBits > SingleExponentBits
  /\ DiyFpSize >= DoublePhysicalSize + 1 + 4

ASSUME PowersAssumption ==
  /\ {CachedPowersOffset, DecimalExponentDistance, MaxDecimalExponent} \subseteq Nat
  /\ DecimalExponentDistance > 0
  /\ (CachedPowersOffset + MaxDecimalExponent) % DecimalExponentDistance = 0

Double == [phys |-> DoublePhysicalSize, ebits |-> DoubleExponentBits]
Single == [phys |-> SinglePhysicalSize, ebits |-> SingleExponentBits]

\* How many binary digits n has.
BitLength(n) == CHOOSE b \in 0 .. 31 : n < 2^b /\ (b = 0 \/ n >= 2^(b - 1))
CeilDiv(a, b) == -((-a) \div b)
----------------------------------------------------------------------------
(* Class Double and class Single.                                            *)
HiddenBit(t) == 2^t.phys
SignificandSize(t) == t.phys + 1
SignMask(t) == 2^(t.phys + t.ebits)
ExponentBias(t) == 2^(t.ebits - 1) - 1 + t.phys
DenormalExponent(t) == 1 - ExponentBias(t)
MaxExponent(t) == 2^t.ebits - 1 - ExponentBias(t)
Infinity(t) == (2^t.ebits - 1) * HiddenBit(t)
NaN(t) == Infinity(t) + HiddenBit(t) \div 2

Negative(t, d) == d >= SignMask(t)
Negated(t, d) == (d + SignMask(t)) % (2 * SignMask(t))
ExponentBits(t, d) == (d % SignMask(t)) \div HiddenBit(t)
SignificandBits(t, d) == d % HiddenBit(t)

IsDenormal(t, d) == ExponentBits(t, d) = 0
IsSpecial(t, d) == ExponentBits(t, d) = 2^t.ebits - 1
IsNan(t, d) == IsSpecial(t, d) /\ SignificandBits(t, d) # 0

Exponent(t, d) ==
  IF IsDenormal(t, d) THEN DenormalExponent(t) ELSE ExponentBits(t, d) - ExponentBias(t)
Significand(t, d) ==
  SignificandBits(t, d) + (IF IsDenormal(t, d) THEN 0 ELSE HiddenBit(t))

NextDouble(t, d) ==
  CASE d = Infinity(t) -> d
    [] Negative(t, d) -> IF Significand(t, d) = 0 THEN 0 ELSE d - 1
    [] OTHER -> d + 1

PreviousDouble(t, d) ==
  CASE d = Negated(t, Infinity(t)) -> d
    [] Negative(t, d) -> d + 1
    [] OTHER -> IF Significand(t, d) = 0 THEN SignMask(t) ELSE d - 1

UpperBoundary(t, d) == [f |-> Significand(t, d) * 2 + 1, e |-> Exponent(t, d) - 1]

LowerBoundaryIsCloser(t, d) ==
  SignificandBits(t, d) = 0 /\ Exponent(t, d) # DenormalExponent(t)

SignificandSizeForOrderOfMagnitude(t, order) ==
  CASE order >= DenormalExponent(t) + SignificandSize(t) -> SignificandSize(t)
    [] order <= DenormalExponent(t) -> 0
    [] OTHER -> order - DenormalExponent(t)
----------------------------------------------------------------------------
(* DiyFp: f * 2^e with an f of DiyFpSize bits.                               *)
DiyFp(f, e) == [f |-> f, e |-> e]
AsDiyFp(t, d) == DiyFp(Significand(t, d), Exponent(t, d))

Normalize(x) ==
  LET Shifted(n) == DiyFp(x.f * 2^n, x.e - n) IN Shifted(DiyFpSize - BitLength(x.f))
AsNormalizedDiyFp(d) == Normalize(AsDiyFp(Double, d))

\* The upper half of the product, rounded.
Times(x, y) ==
  DiyFp((x.f * y.f + 2^(DiyFpSize - 1)) \div 2^DiyFpSize, x.e + y.e + DiyFpSize)

NormalizedBoundaries(t, d) ==
  LET Low == IF LowerBoundaryIsCloser(t, d)
             THEN DiyFp(Significand(t, d) * 4 - 1, Exponent(t, d) - 2)
             ELSE DiyFp(Significand(t, d) * 2 - 1, Exponent(t, d) - 1)
      Of(plus, minus) == [plus |-> plus, minus |-> DiyFp(minus.f * 2^(minus.e - plus.e), plus.e)]
  IN Of(Normalize(UpperBoundary(t, d)), Low)

\* DiyFpToUint64: bits that do not fit are dropped, not rounded.
FromDiyFp(x) ==
  LET over == BitLength(x.f) - SignificandSize(Double)
      Of(f, e) ==
        LET under == SignificandSize(Double) - BitLength(f)
            up == IF under < e - DenormalExponent(Double) THEN under
                  ELSE e - DenormalExponent(Double)
            Bits(g, h) == IF g < HiddenBit(Double) THEN g
                          ELSE (h + ExponentBias(Double)) * HiddenBit(Double) + (g % HiddenBit(Double))
        IN CASE e >= MaxExponent(Double) -> Infinity(Double)
             [] e < DenormalExponent(Double) -> 0
             [] OTHER -> Bits(f * 2^up, e - up)
  IN IF over > 0 THEN Of(x.f \div 2^over, x.e + over) ELSE Of(x.f, x.e)
----------------------------------------------------------------------------
(* PowersOfTenCache: every DecimalExponentDistance-th power of ten, rounded. *)
CachedPower(k) ==
  LET Rounded(n, d, e) ==     \* n / d * 2^e
        LET Num(s) == IF s >= 0 THEN n * 2^s ELSE n
            Den(s) == IF s >= 0 THEN d ELSE d * 2^(-s)
            Fits(s) == /\ Num(s) < Den(s) * 2^DiyFpSize
                       /\ Num(s) >= Den(s) * 2^(DiyFpSize - 1)
            Of(s) == DiyFp(Num(s) \div Den(s)
                             + (IF 2 * (Num(s) % Den(s)) >= Den(s) THEN 1 ELSE 0), e - s)
        IN Of(CHOOSE s \in {DiyFpSize + BitLength(d) - BitLength(n) - i : i \in {0, 1}} : Fits(s))
  IN IF k >= 0 THEN Rounded(5^k, 1, k) ELSE Rounded(1, 5^(-k), k)

IndexedPower(index) == DecimalExponentDistance * index - CachedPowersOffset

\* 30103 / 100000 for the logarithm of 2: the smallest k with 10^k >= 2^n.
Log10Of2Power(n) == CeilDiv(n * 30103, 100000)

GetCachedPowerForBinaryExponentRange(min) ==
  LET k == Log10Of2Power(min + DiyFpSize - 1)
      Of(dec) == [power |-> CachedPower(dec), decimal |-> dec]
  IN Of(IndexedPower((CachedPowersOffset + k - 1) \div DecimalExponentDistance + 1))

GetCachedPowerForDecimalExponent(requested) ==
  LET Of(dec) == [power |-> CachedPower(dec), decimal |-> dec]
  IN Of(IndexedPower((requested + CachedPowersOffset) \div DecimalExponentDistance))
----------------------------------------------------------------------------
(* What the processor does: the number of format t nearest to n / m, the    *)
(* even one of two.                                                          *)
NearestOf(t, n, m) ==
  LET Scaled(e) == IF e >= 0 THEN <<n, m * 2^e>> ELSE <<n * 2^(-e), m>>
      Fits(e) == LET q == Scaled(e) IN q[1] < q[2] * 2^SignificandSize(t)
      Rounded(e) ==
        LET q == Scaled(e)
            f == q[1] \div q[2]
            twice == 2 * (q[1] % q[2])
        IN IF twice > q[2] \/ (twice = q[2] /\ f % 2 = 1) THEN f + 1 ELSE f
      Bits(f, e) == IF f < HiddenBit(t) THEN f
                    ELSE (e + ExponentBias(t)) * HiddenBit(t) + f - HiddenBit(t)
      exponents == {e \in DenormalExponent(t) .. MaxExponent(t) - 1 : Fits(e)}
  IN IF exponents = {} THEN Infinity(t)
     ELSE LET Of(e) == Bits(Rounded(e), e)
          IN Of(CHOOSE e \in exponents : \A h \in exponents : e <= h)

\* static_cast<float>(d) and static_cast<double>(s) of numbers >= 0.
ToSingle(d) ==
  CASE IsSpecial(Double, d) -> Infinity(Single)
    [] Exponent(Double, d) >= 0 ->
         NearestOf(Single, Significand(Double, d) * 2^Exponent(Double, d), 1)
    [] OTHER -> NearestOf(Single, Significand(Double, d), 2^(-Exponent(Double, d)))
ToDouble(s) ==
  CASE IsSpecial(Single, s) -> Infinity(Double)
    [] s = 0 -> 0
    [] OTHER -> FromDiyFp(AsDiyFp(Single, s))
=============================================================================
