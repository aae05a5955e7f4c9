------------------------------ MODULE Decimals ------------------------------
(***************************************************************************)
(* Numbers to text and back: DoubleToStringConverter as FakeOFStream uses  *)
(* it and StringToDoubleConverter as FilePiece and the hypergraph reader   *)
(* do (util/double-conversion/double-conversion.cc).  A call that the fast *)
(* algorithms decide is one step; a call they do not is a step a digit, or *)
(* a guess and a comparison.  Text is a sequence of characters.            *)
(***************************************************************************)
EXTENDS Dtoa, Strtod

CONSTANTS
  DecimalInShortestLow, DecimalInShortestHigh,   (* 6 (for -6) and 21          *)
  MaxLeadingPaddingZeroes,                       (* 6                          *)
  MaxFixedDigitsBeforePoint, MaxFixedDigitsAfterPoint,  (* 60 and 60           *)
  MaxExponentialDigits, MaxPrecisionDigits,      (* 120 and 120                *)
  Base10MaximalLength,                           (* 17                         *)
  MaxSignificantDigits,                          (* 772                        *)
  MaxParsedExponent,                             (* INT_MAX / 2                *)
  MaxDigits, MaxNumber, MaxExponent10            (* bounds of the calls tried  *)

VARIABLES
  step,        \* how far the call is
  job,         \* what was called
  ratio,       \* BignumDtoa's numerator, denominator and deltas
  digits, point,
  text,
  decimal,     \* the scanned number: negative, digits and exponent
  candidates,  \* Strtod's guess and the number after it
  result       \* the number read and the characters it took

vars == <<step, job, ratio, digits, point, text, decimal, candidates, result>>

NoRatio == [num |-> Zero, den |-> Zero, minus |-> Zero, plus |-> Zero]
NoDecimal == [negative |-> FALSE, x |-> [digits |-> <<>>, exponent |-> 0], processed |-> 0]
NoCandidates == [low |-> 0, high |-> 0, boundary |-> DiyFp(0, 0)]
NoResult == [n |-> 0, processed |-> 0]
NoJob == [op |-> "none"]

Idle ==
  /\ step = "idle" /\ job = NoJob /\ ratio = NoRatio /\ digits = <<>> /\ point = 0
  /\ text = <<>> /\ decimal = NoDecimal /\ candidates = NoCandidates /\ result = NoResult
----------------------------------------------------------------------------
(* The converters the program makes.                                         *)
FakeOFStream == [uniqueZero |-> FALSE, positiveSign |-> FALSE,
                 infinity |-> <<"i", "n", "f">>, nan |-> <<"N", "a", "N">>]
EcmaScriptConverter == [uniqueZero |-> TRUE, positiveSign |-> TRUE,
                        infinity |-> <<"I", "n", "f", "i", "n", "i", "t", "y">>,
                        nan |-> <<"N", "a", "N">>]
FilePiece == [junk |-> TRUE, leading |-> TRUE,
              infinity |-> <<"i", "n", "f">>, nan |-> <<"N", "a", "N">>]
HypergraphReader == [junk |-> FALSE, leading |-> FALSE,
                     infinity |-> <<"i", "n", "f">>, nan |-> <<"n", "a", "n">>]
----------------------------------------------------------------------------
(* Writing.                                                                  *)
Characters == <<"0", "1", "2", "3", "4", "5", "6", "7", "8", "9">>
Chars(ds) == [i \in DOMAIN ds |-> Characters[ds[i] + 1]]
Zeros(n) == [i \in 1 .. n |-> "0"]
IntegerText(n) == IF n = 0 THEN <<"0">> ELSE Chars(DigitsOf(n))

Sign(converter, n) ==
  IF Negative(Double, n) /\ (n # SignMask(Double) \/ ~converter.uniqueZero) THEN <<"-">> ELSE <<>>

HandleSpecialValues(converter, n) ==
  IF IsNan(Double, n) THEN converter.nan
  ELSE (IF Negative(Double, n) THEN <<"-">> ELSE <<>>) \o converter.infinity

CreateExponentialRepresentation(converter, ds, exponent) ==
  LET After == IF Len(ds) = 1 THEN <<>> ELSE <<".">> \o Chars(Tail(ds))
      Signed == CASE exponent < 0 -> <<"-">> \o IntegerText(-exponent)
                  [] converter.positiveSign -> <<"+">> \o IntegerText(exponent)
                  [] OTHER -> IntegerText(exponent)
  IN Chars(<<Head(ds)>>) \o After \o <<"e">> \o Signed

\* A slip: no zeros between the point and the first digit.
CreateDecimalUnpadded(ds, p, after) ==
  CASE p <= 0 -> <<"0", ".">> \o Chars(ds)
    [] p >= Len(ds) -> Chars(ds) \o Zeros(p - Len(ds))
    [] OTHER -> Chars(SubSeq(ds, 1, p)) \o <<".">> \o Chars(SubSeq(ds, p + 1, Len(ds)))
CreateDecimalRepresentation(ds, p, after) ==
  LET Point(fraction) == IF after > 0 THEN <<".">> \o fraction ELSE <<>>
  IN CASE p <= 0 -> <<"0">> \o Point(Zeros(-p) \o Chars(ds) \o Zeros(after + p - Len(ds)))
       [] p >= Len(ds) -> Chars(ds) \o Zeros(p - Len(ds)) \o Point(Zeros(after))
       [] OTHER -> Chars(SubSeq(ds, 1, p))
                     \o Point(Chars(SubSeq(ds, p + 1, Len(ds))) \o Zeros(after - (Len(ds) - p)))

AtLeast0(n) == IF n < 0 THEN 0 ELSE n
Filled(ds, n) == ds \o [i \in 1 .. AtLeast0(n - Len(ds)) |-> 0]

\* ToShortestIeeeNumber, ToFixed, ToExponential and ToPrecision.
Representation(j, ds, p) ==
  LET exponential(filled) == CreateExponentialRepresentation(j.converter, filled, p - 1)
  IN CASE j.op = "ToShortest" ->
            IF -DecimalInShortestLow <= p - 1 /\ p - 1 < DecimalInShortestHigh
            THEN CreateDecimalRepresentation(ds, p, AtLeast0(Len(ds) - p)) ELSE exponential(ds)
       [] j.op = "ToFixed" -> CreateDecimalRepresentation(ds, p, j.count)
       [] j.op = "ToExponential" ->
            exponential(IF j.mode = "shortest" THEN ds ELSE Filled(ds, j.count))
       [] j.op = "ToPrecision" ->
            IF -p + 1 > MaxLeadingPaddingZeroes \/ p - j.count > 0
            THEN exponential(Filled(ds, j.count))
            ELSE CreateDecimalRepresentation(ds, p, AtLeast0(j.count - p))

\* What the calls refuse.  The digits of ToExponential count from the first.
Refused(j) ==
  CASE j.op = "ToFixed" ->
         \/ j.count > MaxFixedDigitsAfterPoint
         \/ Significand(Double, j.v) * 2^AtLeast0(Exponent(Double, j.v))
              >= 10^MaxFixedDigitsBeforePoint * 2^AtLeast0(-Exponent(Double, j.v))
    [] j.op = "ToExponential" -> j.mode = "precision" /\ j.count > MaxExponentialDigits + 1
    [] j.op = "ToPrecision" -> j.count \notin 1 .. MaxPrecisionDigits
    [] OTHER -> FALSE

Fast(j) ==
  IF j.mode = "fixed" THEN FastFixedDtoa(j.v, j.count) ELSE Grisu3(j.mode, j.v, j.count)

\* The number n in one of the ways, v without its sign.
Writing(op, mode, n, count, converter) ==
  [op |-> op, mode |-> mode, n |-> n, v |-> n % SignMask(Double), count |-> count,
   converter |-> converter, reader |-> FilePiece, double |-> mode # "single"]

Doubles == 0 .. Infinity(Double)
Signed(n) == {n, Negated(Double, n)}
Floats == {ToDouble(s) : s \in 0 .. Infinity(Single)}
Writings ==
  {Writing("ToShortest", "shortest", n, 0, c) :
     n \in UNION {Signed(d) : d \in Doubles \cup {NaN(Double)}},
     c \in {FakeOFStream, EcmaScriptConverter}}
  \cup {Writing("ToShortest", "single", n, 0, FakeOFStream) : n \in UNION {Signed(d) : d \in Floats}}
  \cup {Writing("ToExponential", "shortest", n, 0, EcmaScriptConverter) : n \in Doubles}
  \cup {Writing("ToFixed", "fixed", n, k, FakeOFStream) : n \in Doubles, k \in 0 .. MaxDigits}
  \cup {Writing(op, "precision", n, k, FakeOFStream) :
          op \in {"ToExponential", "ToPrecision"}, n \in Doubles, k \in 1 .. MaxDigits}
  \cup {Writing("BignumDtoa", mode, n, k, FakeOFStream) :
          mode \in {"shortest", "fixed", "precision"}, n \in Doubles \ {0, Infinity(Double)},
          k \in {1, MaxDigits - 1}}
  \cup {Writing("BignumDtoa", "single", n, 0, FakeOFStream) : n \in Floats \ {0, Infinity(Double)}}

Estimate == EstimateOf(job.mode, job.v)
Even == IsEven(job.mode, job.v)

Ascii(ds, p) == step' = "ascii" /\ digits' = ds /\ point' = p
\* BignumDtoa: a number of which no digit is wanted has none.
BignumDtoa(j) ==
  LET estimate == EstimateOf(j.mode, j.v)
  IN IF j.mode = "fixed" /\ -estimate - 1 > j.count
     THEN Ascii(<<>>, -j.count) /\ UNCHANGED ratio
     ELSE /\ step' = "scaled" /\ ratio' = StartValues(j.mode, j.v)
          /\ UNCHANGED <<digits, point>>

DoubleToAscii(j) ==
  LET By(fast) == IF fast.ok THEN Ascii(fast.digits, fast.point) /\ UNCHANGED ratio
                  ELSE BignumDtoa(j)
  IN IF j.v = 0 THEN Ascii(<<0>>, 1) /\ UNCHANGED ratio ELSE By(Fast(j))

Write(j) ==
  /\ step = "idle"
  /\ job' = j
  /\ CASE j.op = "BignumDtoa" -> BignumDtoa(j) /\ UNCHANGED text
       [] IsSpecial(Double, j.v) ->
            /\ step' = "text" /\ text' = HandleSpecialValues(j.converter, j.n)
            /\ UNCHANGED <<ratio, digits, point>>
       [] Refused(j) -> step' = "refused" /\ UNCHANGED <<ratio, digits, point, text>>
       [] OTHER -> DoubleToAscii(j) /\ UNCHANGED text
  /\ UNCHANGED <<decimal, candidates, result>>

FixUp ==
  LET To(x) ==
        CASE job.mode = "fixed" /\ -x.point > job.count -> Ascii(<<>>, -job.count)
          [] job.mode = "fixed" /\ -x.point = job.count ->
               LET one == FixedOfOneDigit(x.r, x.point) IN Ascii(one.digits, one.point)
          [] OTHER -> step' = "digits" /\ digits' = <<>> /\ point' = x.point
  IN /\ step = "scaled"
     /\ LET x == FixupMultiply10(ratio, Estimate, Even) IN ratio' = x.r /\ To(x)
     /\ UNCHANGED <<job, text, decimal, candidates, result>>

NextDigit ==
  LET needed == IF job.mode = "fixed" THEN point + job.count ELSE job.count
      Next1 == IF IsShortest(job.mode) THEN ShortestDigit(ratio, Even)
               ELSE CountedDigit(ratio, Len(digits) + 1 = needed)
      To(d) ==
        /\ ratio' = d.r
        /\ IF ~d.last THEN digits' = Append(digits, d.digit) /\ UNCHANGED <<step, point>>
           ELSE IF IsShortest(job.mode) THEN Ascii(Append(digits, d.digit), point)
           ELSE LET c == Carried(Append(digits, d.digit), point) IN Ascii(c.digits, c.point)
  IN /\ step = "digits"
     /\ To(Next1)
     /\ UNCHANGED <<job, text, decimal, candidates, result>>

Format ==
  /\ step = "ascii" /\ job.op # "BignumDtoa"
  /\ step' = "text"
  /\ text' = Sign(job.converter, job.n) \o Representation(job, digits, point)
  /\ UNCHANGED <<job, ratio, digits, point, decimal, candidates, result>>
----------------------------------------------------------------------------
(* Reading.                                                                  *)
DigitChars == {Characters[i] : i \in 1 .. 10}
DigitOf(c) == CHOOSE d \in 0 .. 9 : Characters[d + 1] = c

\* Where the run of characters of a set that begins at i ends.
Past(s, i, set) == Min({j \in i .. Len(s) : s[j] \notin set} \cup {Max({i, Len(s) + 1})})
CharAt(s, i) == IF i <= Len(s) THEN s[i] ELSE "end"
Junk(processed) == [done |-> TRUE, n |-> NaN(Double), processed |-> processed]

\* The number after "e" or "E" at i: none, if there are no digits, but the
\* letter and the sign have been passed.
ExponentPart(s, i) ==
  LET hasSign == CharAt(s, i + 1) \in {"+", "-"}
      from == IF hasSign THEN i + 2 ELSE i + 1
      to == Past(s, from, DigitChars)
      Digit(num, c) ==
        IF num >= MaxParsedExponent \div 10
           /\ ~(num = MaxParsedExponent \div 10 /\ DigitOf(c) <= MaxParsedExponent % 10)
        THEN MaxParsedExponent ELSE num * 10 + DigitOf(c)
      num == FoldLeft(Digit, 0, SubSeq(s, from, to - 1))
  IN IF CharAt(s, i) \notin {"e", "E"} THEN [ok |-> TRUE, num |-> 0, end |-> i]
     ELSE [ok |-> to > from, num |-> IF CharAt(s, i + 1) = "-" THEN -num ELSE num, end |-> to]

\* StringToIeee up to Strtod: digits, exponent and where the number ended.
\* More digits than are significant go, the lowest one left saying whether
\* any of them was not 0.
ScanDigits(s, converter, from, negative, asSign) ==
  LET first == Past(s, from, {"0"})
      afterInt == Past(s, first, DigitChars)
      hasPoint == CharAt(s, afterInt) = "."
      noInt == afterInt = first
      firstFrac == IF ~hasPoint THEN afterInt
                   ELSE IF noInt THEN Past(s, afterInt + 1, {"0"}) ELSE afterInt + 1
      end == IF hasPoint THEN Past(s, firstFrac, DigitChars) ELSE afterInt
      all == SubSeq(s, first, afterInt - 1) \o SubSeq(s, firstFrac, end - 1)
      kept == Min({Len(all), MaxSignificantDigits})
      dropped == \E i \in kept + 1 .. Len(all) : all[i] # "0"
      keptFrac == AtLeast0(kept - (afterInt - first))
      exponent0 == (IF hasPoint THEN -(firstFrac - (afterInt + 1)) ELSE 0) - keptFrac
                     + AtLeast0((afterInt - first) - kept)
      Value(exponent, to) ==
        [done |-> FALSE, processed |-> to - 1, negative |-> negative,
         x |-> [digits |-> [i \in 1 .. kept |-> DigitOf(all[i])] \o (IF dropped THEN <<1>> ELSE <<>>),
                exponent |-> exponent0 + exponent - (IF dropped THEN 1 ELSE 0)]]
      With(part) ==
        IF \/ ~converter.junk /\ (~part.ok \/ part.end <= Len(s)) THEN Junk(0)
        ELSE Value(IF part.ok THEN part.num ELSE 0, part.end)
      leadingZero == first > from
  IN CASE \/ leadingZero /\ first > Len(s)
          \/ hasPoint /\ noInt /\ firstFrac > Len(s) /\ firstFrac > afterInt + 1 ->
            [done |-> TRUE, n |-> asSign, processed |-> Len(s)]
       [] ~leadingZero /\ all = <<>> /\ (hasPoint => firstFrac = afterInt + 1) -> Junk(0)
       [] OTHER -> With(ExponentPart(s, end))

Scanned(s, converter) ==
  LET start == IF converter.leading THEN Past(s, 1, {" "}) ELSE 1
      negative == CharAt(s, start) = "-"
      from == IF CharAt(s, start) \in {"+", "-"} THEN start + 1 ELSE start
      As(n) == IF negative THEN Negated(Double, n) ELSE n
      Symbol(symbol, n) ==
        LET end == from + Len(symbol)
        IN IF \/ SubSeq(s, from, Min({end - 1, Len(s)})) # symbol
              \/ ~converter.junk /\ end <= Len(s)
           THEN Junk(0) ELSE [done |-> TRUE, n |-> As(n), processed |-> end - 1]
  IN CASE start > Len(s) -> Junk(start - 1)
       [] from > Len(s) -> Junk(0)
       [] CharAt(s, from) = converter.infinity[1] -> Symbol(converter.infinity, Infinity(Double))
       [] CharAt(s, from) = converter.nan[1] -> Symbol(converter.nan, NaN(Double))
       [] OTHER -> ScanDigits(s, converter, from, negative, As(0))

\* A text from outside, by its parts; a dot and an exponent may be missing.
TextOf(p) ==
  p.lead \o p.sign \o p.word \o Chars(p.int)
    \o (IF p.point THEN <<".">> \o Chars(p.frac) ELSE <<>>)
    \o (IF p.exp = <<>> THEN <<>> ELSE <<"e">> \o p.exp) \o p.tail

Reading(lead, sign, word, int, point0, frac, exp, tail, reader, double) ==
  [op |-> "Read", reader |-> reader, double |-> double, lead |-> lead, sign |-> sign,
   word |-> word, int |-> int, point |-> point0, frac |-> frac, exp |-> exp, tail |-> tail]
ExponentText(e) == IF e < 0 THEN <<"-">> \o IntegerText(-e) ELSE IntegerText(e)
Plain(x, reader, double) ==
  Reading(<<>>, <<>>, <<>>, x.digits, FALSE, <<>>, ExponentText(x.exponent), <<>>, reader, double)
Fraction(x, reader, double) ==
  Reading(<<>>, <<>>, <<>>, <<>>, TRUE, x.digits, ExponentText(x.exponent + Len(x.digits)), <<>>,
          reader, double)

\* The middle between a number and the next, exactly, and next to it.
Middle(t, c) ==
  LET Of(b) == IF b.e >= 0 THEN [digits |-> DigitsOf(b.f * 2^b.e), exponent |-> 0]
               ELSE [digits |-> DigitsOf(b.f * 5^(-b.e)), exponent |-> b.e]
  IN Of(UpperBoundary(t, c))
Above(x, zeros) == [digits |-> x.digits \o [i \in 1 .. zeros |-> 0] \o <<1>>,
                    exponent |-> x.exponent - zeros - 1]
Below(x) == [digits |-> [x.digits EXCEPT ![Len(x.digits)] = @ - 1] \o <<9>>,
             exponent |-> x.exponent - 1]
Middles == {Middle(Double, c) : c \in 0 .. Infinity(Double) - 1}
             \cup {Middle(Single, c) : c \in 0 .. Infinity(Single) - 1}
NearMiddles == Middles \cup {Above(x, 1) : x \in Middles} \cup {Above(x, MaxSignificantDigits) : x \in Middles}
                 \cup {Below(x) : x \in {y \in Middles : Last(y.digits) > 0}}

Readings ==
  {Plain([digits |-> DigitsOf(n), exponent |-> e], FilePiece, double) :
     n \in 1 .. MaxNumber, e \in -MaxExponent10 .. MaxExponent10, double \in BOOLEAN}
  \cup {Plain(x, FilePiece, double) : x \in NearMiddles, double \in BOOLEAN}
  \cup {Fraction(x, HypergraphReader, double) : x \in NearMiddles, double \in BOOLEAN}
  \cup {Reading(lead, sign, <<>>, int, point0, IF point0 THEN frac ELSE <<>>, exp, tail, reader, TRUE) :
          lead \in {<<>>, <<" ">>}, sign \in {<<>>, <<"+">>, <<"-">>, <<"-", " ">>},
          int \in {<<>>, <<0>>, <<0, 0, 7>>, <<1, 2>>}, point0 \in BOOLEAN,
          frac \in {<<>>, <<0>>, <<0, 5>>},
          exp \in {<<>>, <<"0", "1">>, <<"-", "2">>, <<"+", "9", "9">>},
          tail \in {<<>>, <<" ">>, <<"x">>, <<"e">>, <<"e", "+">>, <<"e", "-", "x">>},
          reader \in {FilePiece, HypergraphReader}}
  \cup {Reading(<<>>, sign, word, <<>>, FALSE, <<>>, <<>>, tail, reader, TRUE) :
          sign \in {<<>>, <<"-">>}, tail \in {<<>>, <<"x">>},
          word \in {<<"i", "n", "f">>, <<"i", "n">>, <<"n", "a", "n">>, <<"N", "a", "N">>},
          reader \in {FilePiece, HypergraphReader}}

Read(j) ==
  /\ step = "idle"
  /\ job' = j /\ step' = "text" /\ text' = TextOf(j)
  /\ UNCHANGED <<ratio, digits, point, decimal, candidates, result>>

\* StringToDouble, StringToFloat: a float is a number of format Single.
Target == IF job.double THEN Double ELSE Single
Special(n) == IF job.double THEN n
              ELSE CASE IsNan(Double, n) -> NaN(Single)
                     [] Negative(Double, n) -> Negated(Single, ToSingle(n % SignMask(Double)))
                     [] OTHER -> ToSingle(n)
Scan ==
  /\ step = "text"
  /\ LET s == Scanned(text, job.reader)
     IN IF s.done THEN /\ step' = "done" /\ UNCHANGED decimal
                       /\ result' = [n |-> Special(s.n), processed |-> s.processed]
        ELSE /\ step' = "scanned" /\ UNCHANGED result
             /\ decimal' = [negative |-> s.negative, x |-> TrimAndCut(s.x), processed |-> s.processed]
  /\ UNCHANGED <<job, ratio, digits, point, text, candidates>>

Returned(n) == result' = [n |-> IF decimal.negative THEN Negated(Target, n) ELSE n,
                          processed |-> decimal.processed]
Guess ==
  LET To(c) == IF c.low = c.high THEN step' = "done" /\ Returned(c.low) /\ UNCHANGED candidates
               ELSE step' = "doubtful" /\ candidates' = c /\ UNCHANGED result
  IN /\ step = "scanned"
     /\ To(IF job.double THEN StrtodCandidates(ComputeGuess(decimal.x))
           ELSE StrtofCandidates(ComputeGuess(decimal.x)))
     /\ UNCHANGED <<job, ratio, digits, point, text, decimal>>

Decide ==
  /\ step = "doubtful"
  /\ step' = "done" /\ Returned(Decided(decimal.x, candidates))
  /\ UNCHANGED <<job, ratio, digits, point, text, decimal, candidates>>

Return ==
  /\ step \in {"done", "refused"} \/ (step = "ascii" /\ job.op = "BignumDtoa")
  /\ step' = "idle" /\ job' = NoJob /\ ratio' = NoRatio /\ digits' = <<>> /\ point' = 0
  /\ text' = <<>> /\ decimal' = NoDecimal /\ candidates' = NoCandidates /\ result' = NoResult

Init == Idle
Next ==
  \/ \E j \in Writings : Write(j)
  \/ \E j \in Readings : Read(j)
  \/ FixUp \/ NextDigit \/ Format \/ Scan \/ Guess \/ Decide \/ Return
Spec == Init /\ [][Next]_vars
----------------------------------------------------------------------------
(* What a reader or writer is right about.                                   *)
Integer(ds) == FoldLeft(LAMBDA n, d : 10 * n + d, 0, ds)
\* 10^n and 2^n as the numerator or, for a negative n, the denominator.
Up(b, n) == b^AtLeast0(n)

\* The order of two decimal numbers, digit by digit.
Leading(x) ==
  LET nonzero == {i \in DOMAIN x.digits : x.digits[i] # 0}
      From(i) == [d |-> SubSeq(x.digits, i, Len(x.digits)), p |-> Len(x.digits) - (i - 1) + x.exponent]
  IN IF nonzero = {} THEN [d |-> <<>>, p |-> 0] ELSE From(Min(nonzero))
Order(x, y) ==
  LET At(ds, i) == IF i <= Len(ds) THEN ds[i] ELSE 0
      Of(a, b) ==
        LET differ == {i \in 1 .. Max({Len(a.d), Len(b.d)}) : At(a.d, i) # At(b.d, i)}
            i == Min(differ)
        IN CASE a.d = <<>> \/ b.d = <<>> -> Len(a.d) - Len(b.d)
             [] a.p # b.p -> a.p - b.p
             [] differ = {} -> 0
             [] OTHER -> At(a.d, i) - At(b.d, i)
  IN Of(Leading(x), Leading(y))

\* n is the number of format t nearest to x, the even one of two.
IsNearest(t, x, n) ==
  /\ n > 0 => LET c == Order(x, Middle(t, n - 1)) IN c > 0 \/ (c = 0 /\ n % 2 = 0)
  /\ n < Infinity(t) => LET c == Order(x, Middle(t, n)) IN c < 0 \/ (c = 0 /\ n % 2 = 0)

\* v / 10^q as numerator and denominator.
Quotient(t, n, q) ==
  LET Of(f, e) == [num |-> f * Up(2, e) * Up(10, -q), den |-> Up(2, -e) * Up(10, q)]
  IN Of(Significand(t, n), Exponent(t, n))

\* The numbers BignumDtoa or Strtod is at work with.
Bignums == IF step = "doubtful"
           THEN {BufferBignum(decimal.x, candidates.boundary), DiyFpBignum(decimal.x, candidates.boundary)}
           ELSE {ratio.num, ratio.den, ratio.minus, ratio.plus}

\* BignumDtoa goes on with the exact rest of the number: digits so far plus
\* numerator / denominator is v, and the deltas are half the distances to the
\* numbers below and above.  No Bignum, there or in Strtod's comparison,
\* outgrows its buffer, which would end the program.
RemainderIsExact ==
  /\ \A b \in Bignums : IsClamped(b) /\ WithinCapacity(b)
  /\ step \in {"scaled", "digits"} =>
    LET t == FormatOf(job.mode)
        n == NumberOf(job.mode, job.v)
        e == Exponent(t, n)
        place == IF step = "scaled" THEN Estimate ELSE point - Len(digits) - 1
        den == ValueOf(ratio.den)
        whole == Significand(t, n) * Up(2, e) * (den \div Up(2, -e))      \* v * den
        unit == Up(2, e) * (den \div Up(2, -e))
    IN /\ (10 * Integer(digits) * den + ValueOf(ratio.num)) * Up(10, place) = whole * Up(10, -place)
       /\ IsShortest(job.mode) =>
            /\ 2 * ValueOf(ratio.plus) * Up(10, place) = unit * Up(10, -place)
            /\ ValueOf(ratio.plus) = ValueOf(ratio.minus) * (IF LowerBoundaryIsCloser(t, n) THEN 2 ELSE 1)

\* The decimals with the last digit at 10^q on both sides of a number.
Around(t, n, q) ==
  LET x == Quotient(t, n, q)
  IN {[digits |-> DigitsOf(x.num \div x.den + i), exponent |-> q] : i \in {0, 1}}
Distance(t, n, x) ==
  LET y == Quotient(t, n, x.exponent)
      d == Integer(x.digits) * y.den - y.num
  IN IF d < 0 THEN -d ELSE d

\* Whatever algorithm wrote the digits: the shortest ones read back as the
\* number, no decimal with fewer digits would, and none with as many is closer;
\* counted ones are the number rounded at its last wanted place.
PrintedIsRight ==
  step = "ascii" /\ job.v # 0 =>
    LET t == FormatOf(job.mode)
        n == NumberOf(job.mode, job.v)
        last == point - Len(digits)
        printed == [digits |-> digits, exponent |-> last]
        Shortest ==
          /\ IsNearest(t, printed, n)
          /\ \A q \in last + 1 .. point + 1 : \A x \in Around(t, n, q) : ~IsNearest(t, x, n)
          /\ \A x \in Around(t, n, last) :
               IsNearest(t, x, n) => Distance(t, n, printed) <= Distance(t, n, x)
          /\ Len(digits) <= Base10MaximalLength
        place == IF job.mode = "fixed" THEN -job.count
                 ELSE (CHOOSE p \in -MinusMinDecimalPower .. MaxDecimalPower : /\ Quotient(t, n, p).num >= Quotient(t, n, p).den
                                              /\ Quotient(t, n, p + 1).num < Quotient(t, n, p + 1).den)
                        + 1 - job.count
        Rounded(x) == (2 * x.num + x.den) \div (2 * x.den)
        Counted ==
          /\ Order(printed, [digits |-> DigitsOf(Rounded(Quotient(t, n, place))), exponent |-> place]) = 0
          /\ job.mode = "precision" => Len(digits) = job.count
    IN /\ \A i \in DOMAIN digits : digits[i] \in 0 .. 9
       /\ digits # <<>> => digits[1] # 0
       /\ IF IsShortest(job.mode) THEN Shortest ELSE Counted

IsLiteral(j) == /\ j.lead = <<>> \/ j.reader.leading
                /\ Len(j.sign) < 2
                /\ j.tail = <<>> \/ j.reader.junk
                /\ j.word = <<>> => j.int \o j.frac # <<>>
ExponentOf(j) ==
  LET magnitude == Integer([i \in 1 .. Len(j.exp) |-> IF j.exp[i] \in {"+", "-"} THEN 0 ELSE DigitOf(j.exp[i])])
  IN (IF j.exp # <<>> /\ j.exp[1] = "-" THEN -magnitude ELSE magnitude) - Len(j.frac)

\* A text that begins with a number, for FilePiece, or is one, for the
\* hypergraph reader, is read as the nearest double or float, in one rounding,
\* however many digits it has; any other text is no number.
ReadIsNearest ==
  step = "done" /\ job.op = "Read" =>
    LET magnitude == result.n % SignMask(Target)
        negative == job.sign = <<"-">>
    IN CASE \/ ~IsLiteral(job)
            \/ job.word # <<>> /\ job.word # job.reader.infinity ->
              IsNan(Target, result.n)
         [] OTHER ->
              /\ Negative(Target, result.n) = negative
              /\ IF job.word # <<>> THEN magnitude = Infinity(Target)
                 ELSE /\ magnitude <= Infinity(Target)
                      /\ IsNearest(Target, [digits |-> job.int \o job.frac, exponent |-> ExponentOf(job)],
                                   magnitude)

\* What FakeOFStream writes of a double or of a float FilePiece reads back, the
\* sign of 0 and the special values, too, and it reads all of it.
WrittenIsReadBack ==
  step = "done" /\ job.op # "Read" /\ IsShortest(job.mode)
      /\ (IsSpecial(Double, job.v) => job.converter = FakeOFStream) =>
    /\ result.processed = Len(text)
    /\ IF IsNan(Double, job.n) THEN IsNan(Target, result.n)
       ELSE /\ NumberOf(job.mode, job.v) = result.n % SignMask(Target)
            /\ Negative(Target, result.n)
                 = (Negative(Double, job.n) /\ (job.v # 0 \/ ~job.converter.uniqueZero))

\* double-conversion.h of the characters a number took: "Trailing junk is never
\* included."
JunkIsNotProcessed ==
  step = "done" /\ job.op = "Read" /\ ~IsNan(Target, result.n)
    => result.processed = Len(text) - Len(job.tail)
=============================================================================
