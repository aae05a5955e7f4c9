------------------------------- MODULE Bignum -------------------------------
(***************************************************************************)
(* Class Bignum (util/double-conversion/bignum.cc): natural numbers too    *)
(* large for a machine word.  A number is [d, e]: its bigits, the least    *)
(* significant first (the used part of bigits_; the rest of the buffer is  *)
(* 0), and how many bigits of 0 come before them (exponent_).              *)
(***************************************************************************)
EXTENDS Integers, Sequences, SequencesExt, FiniteSetsExt

CONSTANTS
  BigitSize,        (* 28 in the program *)
  ChunkSize,        (* 32                *)
  UInt64Size,       (* 64                *)
  BigitCapacity     (* 128               *)

ASSUME BigitAssumption ==
  /\ {BigitSize, ChunkSize, UInt64Size, BigitCapacity} \subseteq Nat \ {0}
  /\ BigitSize < UInt64Size \div 2
  /\ BigitSize + 1 < ChunkSize

Base == 2^BigitSize
UInt32Size == UInt64Size \div 2

Zero == [d |-> <<>>, e |-> 0]
BigitLength(x) == Len(x.d) + x.e
BigitAt(x, i) == IF i >= BigitLength(x) \/ i < x.e THEN 0 ELSE x.d[i - x.e + 1]
IsClamped(x) == x.d = <<>> \/ Last(x.d) # 0

\* What the number is, if it is small enough.
ValueOf(x) == FoldRight(LAMBDA bigit, v : v * Base + bigit, x.d, 0) * Base^x.e

\* EnsureCapacity ends the program for a number with more.
WithinCapacity(x) == Len(x.d) <= BigitCapacity
----------------------------------------------------------------------------
Clamp(x) ==
  LET Cut(n) == IF n = 0 THEN Zero ELSE [x EXCEPT !.d = SubSeq(x.d, 1, n)]
  IN IF IsClamped(x) THEN IF x.d = <<>> THEN Zero ELSE x
     ELSE Cut(Max({i \in DOMAIN x.d : x.d[i] # 0} \cup {0}))

\* The bigits of a word.
Bigits(v) ==
  LET count == CHOOSE n \in 0 .. UInt64Size :
                 /\ n = 0 => v = 0
                 /\ n > 0 => \E k \in (n - 1) * BigitSize .. n * BigitSize - 1 :
                               v >= 2^k /\ v < 2^(k + 1)
  IN [i \in 1 .. count |-> (v \div Base^(i - 1)) % Base]

AssignUInt16(v) == [d |-> IF v = 0 THEN <<>> ELSE <<v>>, e |-> 0]
AssignUInt64(v) == [d |-> Bigits(v), e |-> 0]

\* Zeros of the exponent become bigits, until there are no more than other has.
Align(x, other) ==
  IF x.e > other.e
  THEN [d |-> [i \in 1 .. x.e - other.e |-> 0] \o x.d, e |-> other.e]
  ELSE x

\* Every bigit times a factor, with the carry.
Scaled(d, factor) ==
  LET Bigit(acc, bigit) ==
        LET Of(product) == [out |-> Append(acc.out, product % Base), carry |-> product \div Base]
        IN Of(factor * bigit + acc.carry)
      End(acc) == acc.out \o Bigits(acc.carry)
  IN End(FoldLeft(Bigit, [out |-> <<>>, carry |-> 0], d))

\* A slip: the carry out of the highest bigit is lost.
ShiftLeftNarrow(x, amount) ==
  IF x.d = <<>> THEN x
  ELSE [d |-> SubSeq(Scaled(x.d, 2^(amount % BigitSize)), 1, Len(x.d)),
        e |-> x.e + amount \div BigitSize]
ShiftLeft(x, amount) ==
  IF x.d = <<>> THEN x
  ELSE [d |-> Scaled(x.d, 2^(amount % BigitSize)), e |-> x.e + amount \div BigitSize]

MultiplyByUInt32(x, factor) ==
  IF factor = 0 \/ x.d = <<>> THEN Zero ELSE [x EXCEPT !.d = Scaled(x.d, factor)]
Times10(x) == MultiplyByUInt32(x, 10)

\* The factor in two halves, so that no product is wider than a word.
MultiplyByUInt64(x, factor) ==
  LET low == factor % 2^UInt32Size
      high == factor \div 2^UInt32Size
      Bigit(acc, bigit) ==
        LET Of(tmp) ==
              [out |-> Append(acc.out, tmp % Base),
               carry |-> acc.carry \div Base + tmp \div Base
                           + high * bigit * 2^(UInt32Size - BigitSize)]
        IN Of((acc.carry % Base) + low * bigit)
      End(acc) == [x EXCEPT !.d = acc.out \o Bigits(acc.carry)]
  IN IF factor = 0 \/ x.d = <<>> THEN Zero
     ELSE End(FoldLeft(Bigit, [out |-> <<>>, carry |-> 0], x.d))

\* The largest powers of 5 in a word and in half of one: 27 and 13.
FivesIn(bits) == CHOOSE n \in 0 .. bits : 5^n < 2^bits /\ 5^(n + 1) >= 2^bits
Repeated(v, n) == [i \in 1 .. n |-> v]

MultiplyByPowerOfTen(x, exponent) ==
  LET long == FivesIn(UInt64Size)
      short == FivesIn(UInt32Size)
      By64(y, f) == MultiplyByUInt64(y, f)
      By32(y, f) == MultiplyByUInt32(y, f)
      rest == exponent % long
  IN IF exponent = 0 \/ x.d = <<>> THEN x
     ELSE ShiftLeft(
            FoldLeft(By32,
                     FoldLeft(By64, x, Repeated(5^long, exponent \div long)),
                     Repeated(5^short, rest \div short)
                       \o (IF rest % short > 0 THEN <<5^(rest % short)>> ELSE <<>>)),
            exponent)

AddBignum(x0, other) ==
  LET Of(x) ==
        LET offset == other.e - x.e
            count == Max({Len(x.d), offset + Len(other.d)})
            Bigit(acc, i) ==
              LET sum == (IF i <= Len(x.d) THEN x.d[i] ELSE 0)
                         + BigitAt(other, i - 1 + x.e) + acc.carry
              IN [out |-> Append(acc.out, sum % Base), carry |-> sum \div Base]
            End(acc) == [x EXCEPT !.d = acc.out \o Bigits(acc.carry)]
        IN End(FoldLeft(Bigit, [out |-> <<>>, carry |-> 0], [i \in 1 .. count |-> i]))
  IN IF other.d = <<>> THEN x0 ELSE Of(Align(x0, other))

\* A difference of chunks wraps around; its highest bit is the borrow.
ChunkMinus(a, b) == (a - b) % 2^ChunkSize
HighBit(chunk) == chunk \div 2^(ChunkSize - 1)

SubtractBignum(x0, other) ==
  LET Of(x) ==
        LET Bigit(acc, i) ==
              LET difference == ChunkMinus(x.d[i], BigitAt(other, i - 1 + x.e) + acc.borrow)
              IN [out |-> Append(acc.out, difference % Base), borrow |-> HighBit(difference)]
            End(acc) == Clamp([x EXCEPT !.d = acc.out])
        IN End(FoldLeft(Bigit, [out |-> <<>>, borrow |-> 0], [i \in 1 .. Len(x.d) |-> i]))
  IN Of(Align(x0, other))

\* Above other's bigits the loop counts twice for each it borrows from, and
\* when nothing is left to borrow it returns without Clamp.
SubtractTimes(x, other, factor) ==
  LET diff == other.e - x.e
      Low(acc, i) ==
        LET remove == acc.borrow + factor * BigitAt(other, i - 1 + x.e)
            difference == ChunkMinus(x.d[i], remove % Base)
        IN [acc EXCEPT !.out = Append(@, difference % Base),
                       !.borrow = HighBit(difference) + remove \div Base]
      High(acc, i) ==
        CASE acc.skip -> [acc EXCEPT !.out = Append(@, x.d[i]), !.skip = FALSE]
          [] acc.borrow = 0 -> [acc EXCEPT !.out = Append(@, x.d[i]), !.returned = TRUE]
          [] OTHER -> LET difference == ChunkMinus(x.d[i], acc.borrow)
                      IN [acc EXCEPT !.out = Append(@, difference % Base),
                                     !.borrow = HighBit(difference), !.skip = TRUE]
      Bigit(acc, i) == IF i <= diff + Len(other.d) THEN Low(acc, i) ELSE High(acc, i)
      End(acc) == IF acc.returned THEN [x EXCEPT !.d = acc.out] ELSE Clamp([x EXCEPT !.d = acc.out])
      One(y, i) == SubtractBignum(y, other)
  IN IF factor < 3 THEN FoldLeft(One, x, [i \in 1 .. factor |-> i])
     ELSE End(FoldLeft(Bigit, [out |-> <<>>, borrow |-> 0, skip |-> FALSE, returned |-> FALSE],
                       [i \in 1 .. Len(x.d) |-> i]))

\* Comba multiplication: a column of products at a time.
Square(x) ==
  LET n == Len(x.d)
      Column(c) == MapThenSumSet(LAMBDA i : x.d[i] * x.d[c + 1 - i],
                                 {i \in 1 .. n : c + 1 - i \in 1 .. n})
      Bigit(acc, c) ==
        LET Of(sum) == [out |-> Append(acc.out, sum % Base), sum |-> sum \div Base]
        IN Of(acc.sum + Column(c))
      End(acc) == Clamp([d |-> acc.out, e |-> 2 * x.e])
  IN End(FoldLeft(Bigit, [out |-> <<>>, sum |-> 0], [c \in 1 .. 2 * n |-> c]))

\* base^power: squared and multiplied in one word while it has room for the
\* next square, then as a Bignum; the factors of 2 are shifted in at the end.
AssignPowerUInt16(base, power) ==
  LET shifts == CHOOSE s \in 0 .. 16 : base % 2^s = 0 /\ base % 2^(s + 1) # 0
      odd == base \div 2^shifts
      bits == CHOOSE b \in 1 .. 16 : odd < 2^b /\ odd >= 2^(b - 1)
      top == CHOOSE b \in 0 .. 16 : power < 2^(b + 1) /\ power >= 2^b
      Big(acc) ==
        CASE acc.isBig -> acc.big
          [] acc.delayed -> MultiplyByUInt32(AssignUInt64(acc.word), odd)
          [] OTHER -> AssignUInt64(acc.word)
      Bit(acc, b) ==
        LET set == (power \div 2^b) % 2 = 1
            Word(square) ==
              CASE ~set -> [acc EXCEPT !.word = square]
                [] square < 2^(UInt64Size - bits) -> [acc EXCEPT !.word = square * odd]
                [] OTHER -> [acc EXCEPT !.word = square, !.delayed = TRUE]
            Large(square) == [acc EXCEPT !.isBig = TRUE,
                                !.big = IF set THEN MultiplyByUInt32(square, odd) ELSE square]
        IN IF ~acc.isBig /\ acc.word < 2^UInt32Size THEN Word(acc.word * acc.word)
           ELSE Large(Square(Big(acc)))
  IN IF power = 0 THEN AssignUInt16(1)
     ELSE ShiftLeft(Big(FoldLeft(Bit, [word |-> odd, delayed |-> FALSE, isBig |-> FALSE, big |-> Zero],
                                 [i \in 1 .. top |-> top - i])),
                    shifts * power)

\* The digits are read as many at a time as a word holds: 19.
WordDigits == CHOOSE n \in 0 .. UInt64Size : 10^n <= 2^UInt64Size /\ 10^(n + 1) > 2^UInt64Size
ReadUInt64(digits) == FoldLeft(LAMBDA v, digit : 10 * v + digit, 0, digits)

AssignDecimalString(digits) ==
  LET full == Len(digits) \div WordDigits
      Add(x, part) == AddBignum(MultiplyByPowerOfTen(x, Len(part)), AssignUInt64(ReadUInt64(part)))
  IN Clamp(FoldLeft(Add, Zero,
             [i \in 1 .. full + 1 |->
                SubSeq(digits, (i - 1) * WordDigits + 1, Min({i * WordDigits, Len(digits)}))]))
----------------------------------------------------------------------------
Indices(from, to) == [i \in 1 .. from - to + 1 |-> from + 1 - i]

Compare(a, b) ==
  LET At(result, i) ==
        CASE result # 0 \/ BigitAt(a, i) = BigitAt(b, i) -> result
          [] BigitAt(a, i) < BigitAt(b, i) -> -1
          [] OTHER -> 1
  IN CASE BigitLength(a) < BigitLength(b) -> -1
       [] BigitLength(a) > BigitLength(b) -> 1
       [] OTHER -> FoldLeft(At, 0, Indices(BigitLength(a) - 1, Min({a.e, b.e})))

\* Compare(a + b, c) without the sum, from the highest bigit: what c has more
\* is carried down, and once that is more than 1 no bigit below can make it up.
PlusCompare(a0, b0, c) ==
  LET At(acc, i) ==
        IF acc.known THEN acc
        ELSE LET Of(rest) ==
                   CASE rest < 0 -> [known |-> TRUE, result |-> 1, borrow |-> 0]
                     [] rest > 1 -> [known |-> TRUE, result |-> -1, borrow |-> 0]
                     [] OTHER -> [acc EXCEPT !.borrow = rest * Base]
             IN Of(BigitAt(c, i) + acc.borrow - BigitAt(a0, i) - BigitAt(b0, i))
      End(acc) == CASE acc.known -> acc.result [] acc.borrow = 0 -> 0 [] OTHER -> -1
      Ordered(a, b) ==
        CASE BigitLength(a) + 1 < BigitLength(c) -> -1
          [] BigitLength(a) > BigitLength(c) -> 1
          [] a.e >= BigitLength(b) /\ BigitLength(a) < BigitLength(c) -> -1
          [] OTHER -> End(FoldLeft(At, [known |-> FALSE, result |-> 0, borrow |-> 0],
                            Indices(BigitLength(c) - 1, Min({a.e, b.e, c.e}))))
  IN IF BigitLength(a0) < BigitLength(b0) THEN Ordered(b0, a0) ELSE Ordered(a0, b0)

\* The quotient, known to be small, and the remainder.
DivideModuloIntBignum(x0, other) ==
  LET Shorten(acc, i) ==      \* multiples of other until both have one length
        IF BigitLength(acc.x) <= BigitLength(other) THEN acc
        ELSE [result |-> acc.result + Last(acc.x.d), x |-> SubtractTimes(acc.x, other, Last(acc.x.d))]
      Correct(acc, i) ==      \* while (LessEqual(other, *this))
        IF Compare(other, acc.x) <= 0
        THEN [result |-> acc.result + 1, x |-> SubtractBignum(acc.x, other)] ELSE acc
      Estimate(acc) ==
        LET top == Last(acc.x.d)
            otherTop == Last(other.d)
            short == top \div otherTop
            guess == top \div (otherTop + 1)
            Less == [result |-> acc.result + guess, x |-> SubtractTimes(acc.x, other, guess)]
        IN CASE Len(other.d) = 1 ->
                  [result |-> acc.result + short,
                   x |-> Clamp([acc.x EXCEPT !.d[Len(acc.x.d)] = top - otherTop * short])]
             [] otherTop * (guess + 1) > top -> Less
             [] OTHER -> FoldLeft(Correct, Less, [i \in 1 .. Base |-> i])
  IN IF BigitLength(x0) < BigitLength(other) THEN [result |-> 0, x |-> x0]
     ELSE Estimate(FoldLeft(Shorten, [result |-> 0, x |-> Align(x0, other)], [i \in 1 .. Base |-> i]))
=============================================================================
