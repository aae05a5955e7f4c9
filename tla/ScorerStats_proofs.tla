---------------------- MODULE ScorerStats_proofs ----------------------
(***************************************************************************)
(* What the statistics of BLEU, PER, WER, CDER, HAMMING and KENDALL are,   *)
(* for texts, references and vocabularies of any size: what is counted is  *)
(* what the words say, errors are least, and alignments give orders.       *)
(***************************************************************************)
EXTENDS BleuStats, WordErrors, Folding

-----------------------------------------------------------------------------
(* Numbers.                                                                  *)

\* What holds at 0 and is passed on from each number to the next.
LEMMA StepsReach ==
  ASSUME NEW n \in Nat, NEW R, 0 \in R, \A i \in 1 .. n : i - 1 \in R => i \in R
  PROVE  \A i \in 0 .. n : i \in R
<1> DEFINE B == {i \in 0 .. n : i \notin R}
<1> SUFFICES ASSUME B # {} PROVE FALSE
  OBVIOUS
<1>1. PICK i \in B : \A l \in B : i <= l
  <2>1. B \subseteq Nat
    OBVIOUS
  <2> HIDE DEF B
  <2> QED
    BY <2>1, LeastNat
<1>2. i # 0 /\ i \in 0 .. n /\ i \notin R
  OBVIOUS
<1>3. i \in 1 .. n /\ i - 1 \in 0 .. n /\ ~(i <= i - 1)
  BY <1>2
<1>4. i - 1 \in R
  BY <1>1, <1>3
<1> QED
  BY <1>2, <1>3, <1>4

\* The least of natural numbers.
LEMMA MinOfNaturals ==
  ASSUME NEW T, T \subseteq Nat, T # {}
  PROVE  Min(T) \in T /\ \A y \in T : Min(T) <= y
<1>1. \E x \in T : \A y \in T : x <= y
  BY LeastNat
<1> QED
  BY <1>1 DEF Min

\* Of two numbers.
LEMMA MaxOfTwo ==
  ASSUME NEW x \in Nat, NEW y \in Nat
  PROVE  Max({x, y}) = IF x <= y THEN y ELSE x
<1>1. \A z \in {x, y} : z \in Int
  OBVIOUS
<1>2. CASE x <= y
  <2>1. y \in {x, y} /\ \A z \in {x, y} : z <= y
    BY <1>2
  <2> QED
    BY <1>1, <1>2, <2>1, MaxIs
<1>3. CASE ~(x <= y)
  <2>1. x \in {x, y} /\ \A z \in {x, y} : z <= x
    BY <1>3
  <2> QED
    BY <1>1, <1>3, <2>1, MaxIs
<1> QED
  BY <1>2, <1>3

\* A quotient is the number of whole parts.
LEMMA QuotientOfParts ==
  ASSUME NEW a \in Nat, NEW c \in Nat \ {0}
  PROVE  a \div c \in Nat /\ (a \div c) * c <= a /\ a < ((a \div c) + 1) * c
<1>1. a \div c \in Nat /\ c * (a \div c) <= a /\ a < c * (a \div c) + c
  OBVIOUS
<1>2. ASSUME NEW q \in Nat PROVE q * c = c * q /\ (q + 1) * c = c * q + c
  OBVIOUS
<1> QED
  BY <1>1, <1>2

\* Of a fold that keeps nothing in particular.
Whatever(x) == TRUE

-----------------------------------------------------------------------------
(* Codes and words.                                                          *)

\* A vocabulary has each word once.
IsVocabulary(v, W) == v \in Seq(W) /\ \A i, j \in 1 .. Len(v) : v[i] = v[j] => i = j

\* Whether it has all words of a text.
Known(v, s) == \A i \in DOMAIN s : s[i] \in ToSet(v)

\* The code of a word is its place, from 0 on.
LEMMA CodeIs ==
  ASSUME NEW W, NEW v, IsVocabulary(v, W), NEW w
  PROVE  /\ w \in ToSet(v) => Code(v, w) \in 0 .. Len(v) - 1 /\ v[Code(v, w) + 1] = w
         /\ w \notin ToSet(v) => Code(v, w) = -1
         /\ Code(v, w) \in Int
<1> DEFINE I == {i \in 1 .. Len(v) : v[i] = w}
<1>1. Code(v, w) = (IF I # {} THEN Min(I) ELSE 0) - 1
  BY DEF Code, SelectInSeq
<1>2. v \in Seq(W) /\ Len(v) \in Nat /\ (w \in ToSet(v) <=> I # {})
  <2>1. v \in Seq(W)
    BY DEF IsVocabulary
  <2>2. Len(v) \in Nat /\ DOMAIN v = 1 .. Len(v)
    BY <2>1
  <2> QED
    BY <2>1, <2>2 DEF ToSet
<1>3. CASE I # {}
  <2>1. I \subseteq Nat
    BY <1>2
  <2>2. Min(I) \in I
    <3> HIDE DEF I
    <3> QED
      BY <1>3, <2>1, MinOfNaturals
  <2> DEFINE m == Min(I)
  <2> HIDE DEF m
  <2>3. m \in 1 .. Len(v) /\ v[m] = w
    BY <2>2 DEF m
  <2>4. Code(v, w) = m - 1 /\ m - 1 + 1 = m /\ m - 1 \in 0 .. Len(v) - 1
    BY <1>1, <1>2, <1>3, <2>3 DEF m
  <2> QED
    BY <1>2, <1>3, <2>3, <2>4
<1>4. CASE I = {}
  BY <1>1, <1>2, <1>4
<1> QED
  BY <1>3, <1>4

\* Words of different codes.
LEMMA CodesDiffer ==
  ASSUME NEW W, NEW v, IsVocabulary(v, W), NEW x, NEW y \in ToSet(v)
  PROVE  Code(v, x) = Code(v, y) <=> x = y
<1>1. Code(v, y) \in 0 .. Len(v) - 1 /\ v[Code(v, y) + 1] = y
  BY CodeIs
<1>2. CASE x \in ToSet(v)
  <2>1. v[Code(v, x) + 1] = x
    BY <1>2, CodeIs
  <2> QED
    BY <1>1, <2>1
<1>3. CASE x \notin ToSet(v)
  <2>1. Code(v, x) = -1
    BY <1>3, CodeIs
  <2>2. Code(v, y) # -1
    BY <1>1
  <2> QED
    BY <1>3, <2>1, <2>2
<1> QED
  BY <1>2, <1>3

\* A vocabulary after words came to it: it knows them and keeps all places.
GrownWith(u, v, words, W) ==
  /\ IsVocabulary(u, W)
  /\ Len(v) <= Len(u) /\ \A i \in 1 .. Len(v) : u[i] = v[i]
  /\ ToSet(u) = ToSet(v) \cup {words[i] : i \in DOMAIN words}

LEMMA EncodeGrows ==
  ASSUME NEW W, NEW v, IsVocabulary(v, W), NEW w \in W
  PROVE  /\ IsVocabulary(Encode(v, w), W)
         /\ Len(v) <= Len(Encode(v, w)) /\ \A i \in 1 .. Len(v) : Encode(v, w)[i] = v[i]
         /\ ToSet(Encode(v, w)) = ToSet(v) \cup {w}
<1>1. v \in Seq(W) /\ Len(v) \in Nat /\ DOMAIN v = 1 .. Len(v)
      /\ \A i, j \in 1 .. Len(v) : v[i] = v[j] => i = j
  BY DEF IsVocabulary
<1>2. CASE w \in ToSet(v)
  <2>1. Encode(v, w) = v /\ ToSet(v) \cup {w} = ToSet(v)
    BY <1>2 DEF Encode
  <2> QED
    BY <1>1, <2>1
<1>3. CASE w \notin ToSet(v)
  <2> DEFINE u == Append(v, w)
             n == Len(v) + 1
  <2>1. Encode(v, w) = u
    BY <1>3 DEF Encode
  <2>2. u \in Seq(W) /\ Len(u) = n /\ u[n] = w /\ \A i \in 1 .. Len(v) : u[i] = v[i]
    BY <1>1
  <2>3. DOMAIN u = 1 .. n /\ n \in Nat
    BY <1>1, <2>2
  <2> HIDE DEF u
  <2>4. 1 .. n = (1 .. Len(v)) \cup {n} /\ n \notin 1 .. Len(v)
    BY <1>1
  <2>5. \A i \in 1 .. Len(v) : v[i] # w
    BY <1>1, <1>3 DEF ToSet
  <2> HIDE DEF n
  <2>6. ToSet(u) = ToSet(v) \cup {w}
    BY <1>1, <2>2, <2>3, <2>4 DEF ToSet
  <2>7. \A i, j \in 1 .. n : u[i] = u[j] => i = j
    BY <1>1, <2>2, <2>4, <2>5
  <2>8. Len(v) <= Len(u)
    BY <1>1, <2>2 DEF n
  <2> QED
    BY <2>1, <2>2, <2>6, <2>7, <2>8 DEF IsVocabulary
<1> QED
  BY <1>2, <1>3

WordEncoded(v, w, p) == Encode(v, w)

EncodeFold == INSTANCE Folding WITH Op <- WordEncoded, Good <- Whatever

LEMMA VocabularyGrows ==
  ASSUME NEW W, NEW v, IsVocabulary(v, W), NEW words \in Seq(W)
  PROVE  GrownWith(FoldLeft(Encode, v, words), v, words, W)
<1> DEFINE n == Len(words)
           all == EncodeFold!Folded(words, v, 0)
           Upto(i) == {words[k] : k \in 1 .. i}
<1>1. FoldLeft(Encode, v, words) = all
  BY DEF FoldLeft, MapThenFoldSet, Max, EncodeFold!Folded, EncodeFold!FoldsFrom, EncodeFold!Max,
         WordEncoded
<1>2. n \in Nat /\ DOMAIN words = 1 .. n /\ Len(v) \in Nat
  BY DEF IsVocabulary
<1>3. PICK g : /\ g[0] = v
               /\ \A i \in 1 .. n : g[i] = Encode(g[i - 1], words[i])
               /\ all = g[n]
  <2>1. EncodeFold!IsFold(n, words, v, 0, all)
    BY <1>2, EncodeFold!FoldSteps
  <2> HIDE DEF all, n
  <2> QED
    BY <2>1 DEF EncodeFold!IsFold, WordEncoded
<1> HIDE DEF all
<1> DEFINE Right(u, i) == /\ IsVocabulary(u, W)
                          /\ Len(v) <= Len(u) /\ \A k \in 1 .. Len(v) : u[k] = v[k]
                          /\ ToSet(u) = ToSet(v) \cup Upto(i)
           R == {i \in 0 .. n : Right(g[i], i)}
<1>4. 0 \in R
  <2>1. Upto(0) = {} /\ Len(v) <= Len(v) /\ 0 \in 0 .. n
    BY <1>2
  <2> HIDE DEF Upto
  <2>2. Right(v, 0)
    BY <2>1
  <2> HIDE DEF Right
  <2> QED
    BY <1>3, <2>1, <2>2
<1>5. ASSUME NEW i \in 1 .. n, i - 1 \in R PROVE i \in R
  <2> DEFINE u == g[i - 1]
             x == Encode(u, words[i])
  <2>1. Right(u, i - 1) /\ i \in 0 .. n /\ words[i] \in W /\ Len(u) \in Nat /\ Len(x) \in Int
    <3>1. Right(u, i - 1) /\ i \in 0 .. n /\ words[i] \in W
      BY <1>2, <1>5
    <3>2. IsVocabulary(u, W)
      BY <3>1
    <3>3. IsVocabulary(x, W)
      BY <3>1, <3>2, EncodeGrows
    <3> QED
      BY <3>1, <3>2, <3>3 DEF IsVocabulary
  <2>2. /\ IsVocabulary(x, W)
        /\ Len(u) <= Len(x) /\ \A k \in 1 .. Len(u) : x[k] = u[k]
        /\ ToSet(x) = ToSet(u) \cup {words[i]}
    <3>1. IsVocabulary(u, W) /\ words[i] \in W
      BY <2>1
    <3> HIDE DEF u
    <3> QED
      BY <3>1, EncodeGrows
  <2>3. Upto(i) = Upto(i - 1) \cup {words[i]}
    <3>1. 1 .. i = (1 .. i - 1) \cup {i}
      BY <1>2
    <3> QED
      BY <3>1
  <2> HIDE DEF Upto, u, x
  <2>4. Right(x, i)
    <3>1. Len(v) <= Len(x)
      BY <1>2, <2>1, <2>2
    <3>2. \A k \in 1 .. Len(v) : k \in 1 .. Len(u)
      BY <1>2, <2>1
    <3>3. \A k \in 1 .. Len(v) : x[k] = v[k]
      BY <2>1, <2>2, <3>2
    <3>4. ToSet(x) = ToSet(v) \cup Upto(i)
      BY <2>1, <2>2, <2>3
    <3> QED
      BY <2>2, <3>1, <3>3, <3>4
  <2>5. g[i] = x
    BY <1>3 DEF x, u
  <2> HIDE DEF Right
  <2> QED
    BY <2>1, <2>4, <2>5
<1> HIDE DEF R
<1>6. n \in R
  <2>1. \A i \in 0 .. n : i \in R
    BY <1>2, <1>4, <1>5, StepsReach
  <2> QED
    BY <1>2, <2>1
<1>7. Right(g[n], n) /\ Upto(n) = {words[i] : i \in DOMAIN words}
  BY <1>2, <1>6 DEF R
<1> HIDE DEF Upto
<1> QED
  BY <1>1, <1>3, <1>7 DEF GrownWith

\* Codes tell words apart, a word that is not known has the code -1 and no
\* other, and the code of a word stays when other lines bring new words: what
\* scorers compare by codes they compare by words, in whatever order the lines
\* came (Vocabulary::Encode, Scorer::TokenizeAndEncode).
THEOREM CodesTellWords ==
  ASSUME NEW W, NEW v, IsVocabulary(v, W), NEW words \in Seq(W),
         NEW u, u = FoldLeft(Encode, v, words)
  PROVE  /\ IsVocabulary(u, W)
         /\ ToSet(u) = ToSet(v) \cup ToSet(words)
         /\ \A w \in ToSet(v) : Code(u, w) = Code(v, w)
         /\ \A x, y \in ToSet(u) : Code(u, x) = Code(u, y) => x = y
         /\ \A w : w \in ToSet(u) <=> Code(u, w) # -1
<1>1. GrownWith(u, v, words, W)
  BY VocabularyGrows
<1>2. /\ IsVocabulary(u, W) /\ u \in Seq(W) /\ v \in Seq(W)
      /\ ToSet(u) = ToSet(v) \cup ToSet(words)
  BY <1>1 DEF GrownWith, IsVocabulary, ToSet
<1>3. ASSUME NEW w \in ToSet(v) PROVE Code(u, w) = Code(v, w)
  <2>1. Code(v, w) \in 0 .. Len(v) - 1 /\ v[Code(v, w) + 1] = w
    BY CodeIs
  <2>2. Code(u, w) \in 0 .. Len(u) - 1 /\ u[Code(u, w) + 1] = w
    <3>1. w \in ToSet(u)
      BY <1>2
    <3> QED
      BY <1>2, <3>1, CodeIs
  <2>3. Len(v) <= Len(u) /\ \A i \in 1 .. Len(v) : u[i] = v[i]
    BY <1>1 DEF GrownWith
  <2>4. Len(v) \in Nat /\ Len(u) \in Nat
    BY <1>2
  <2>5. Code(v, w) + 1 \in 1 .. Len(v) /\ Code(v, w) + 1 \in 1 .. Len(u)
        /\ Code(u, w) + 1 \in 1 .. Len(u)
    BY <2>1, <2>2, <2>3, <2>4
  <2>6. u[Code(v, w) + 1] = u[Code(u, w) + 1]
    BY <2>1, <2>2, <2>3, <2>5
  <2>7. Code(v, w) + 1 = Code(u, w) + 1
    BY <1>2, <2>5, <2>6 DEF IsVocabulary
  <2> QED
    BY <2>1, <2>2, <2>7
<1>4. \A x, y \in ToSet(u) : Code(u, x) = Code(u, y) => x = y
  BY <1>2, CodesDiffer
<1>5. ASSUME NEW w PROVE w \in ToSet(u) <=> Code(u, w) # -1
  <2>1. w \in ToSet(u) => Code(u, w) \in 0 .. Len(u) - 1
    BY <1>2, CodeIs
  <2>2. w \notin ToSet(u) => Code(u, w) = -1
    BY <1>2, CodeIs
  <2> QED
    BY <2>1, <2>2
<1> QED
  BY <1>2, <1>3, <1>4, <1>5

\* The vocabulary and the codes after a line.
LEMMA LineIsEncoded ==
  ASSUME NEW scorer, NEW v, NEW line, Preprocessable(scorer, line),
         NEW words, words = WordsOf(scorer, Preprocessed(scorer, line)),
         NEW u, u = FoldLeft(Encode, v, words)
  PROVE  EncodeLine(scorer, v, line) = Returned(u, Codes(u, words))
BY DEF EncodeLine, TokenizeAndEncode

\* The codes of known words are what they were.
LEMMA CodesStay ==
  ASSUME NEW W, NEW v, IsVocabulary(v, W), NEW words \in Seq(W), NEW s \in Seq(W), Known(v, s),
         NEW u, u = FoldLeft(Encode, v, words)
  PROVE  /\ IsVocabulary(u, W) /\ Known(u, s) /\ Known(u, words)
         /\ Codes(u, s) = Codes(v, s)
<1>1. /\ IsVocabulary(u, W)
      /\ ToSet(u) = ToSet(v) \cup ToSet(words)
      /\ \A w \in ToSet(v) : Code(u, w) = Code(v, w)
  BY CodesTellWords
<1>2. Known(u, s) /\ Known(u, words)
  BY <1>1 DEF Known, ToSet
<1>3. \A i \in DOMAIN s : Code(u, s[i]) = Code(v, s[i])
  BY <1>1 DEF Known
<1>4. Codes(u, s) = Codes(v, s)
  BY <1>3 DEF Codes
<1> QED
  BY <1>1, <1>2, <1>4

-----------------------------------------------------------------------------
(* Spans and what is covered, in codes and in words.                         *)

\* The words of a span.
LEMMA SpanIs ==
  ASSUME NEW T, NEW s \in Seq(T), NEW n \in Nat \ {0}, NEW i \in Spots(s, n)
  PROVE  /\ Span(s, i, n) \in Seq(T) /\ Len(Span(s, i, n)) = n
         /\ \A k \in 1 .. n : i + k - 1 \in 1 .. Len(s) /\ Span(s, i, n)[k] = s[i + k - 1]
<1>1. i \in 1 .. Len(s) - n + 1 /\ Len(s) \in Nat
  BY DEF Spots
<1> DEFINE m == i + n - 1
           t == SubSeq(s, i, m)
<1>2. i \in Int /\ m \in Int /\ i <= m /\ m - i + 1 = n /\ m <= Len(s) /\ i >= 1
  BY <1>1
<1>3. \A k \in i .. m : s[k] \in T
  BY <1>1, <1>2
<1> HIDE DEF m
<1>4. /\ t \in Seq(T) /\ Len(t) = IF i <= m THEN m - i + 1 ELSE 0
      /\ \A k \in 1 .. m - i + 1 : t[k] = s[i + k - 1]
  BY <1>2, <1>3, SubSeqProperties
<1>5. Span(s, i, n) = t
  BY DEF Span, m
<1> HIDE DEF t
<1>6. \A k \in 1 .. n : i + k - 1 \in 1 .. Len(s)
  BY <1>1
<1> QED
  BY <1>2, <1>4, <1>5, <1>6

\* The span of one word.
LEMMA SpanOfOne ==
  ASSUME NEW T, NEW s \in Seq(T), NEW i \in 1 .. Len(s)
  PROVE  Span(s, i, 1) = <<s[i]>>
<1>1. i \in Nat /\ Len(s) \in Nat /\ i + 1 - 1 = i
  OBVIOUS
<1>2. Span(s, i, 1) = SubSeq(s, i, i)
  BY <1>1 DEF Span
<1>3. /\ SubSeq(s, i, i) \in Seq(T)
      /\ Len(SubSeq(s, i, i)) = 1
      /\ SubSeq(s, i, i)[1] = s[i]
  <2>1. /\ i \in Int /\ i <= i /\ i - i + 1 = 1 /\ i + 1 - 1 = i /\ 1 .. 1 = {1}
        /\ \A k \in i .. i : s[k] \in T
    BY <1>1
  <2>2. /\ SubSeq(s, i, i) \in Seq(T)
        /\ Len(SubSeq(s, i, i)) = IF i <= i THEN i - i + 1 ELSE 0
        /\ \A k \in 1 .. i - i + 1 : SubSeq(s, i, i)[k] = s[i + k - 1]
    BY <2>1, SubSeqProperties
  <2>3. 1 \in 1 .. i - i + 1
    BY <2>1
  <2> QED
    BY <2>1, <2>2, <2>3
<1> DEFINE u == SubSeq(s, i, i)
<1> HIDE DEF u
<1>4. ASSUME u \in Seq(T), Len(u) = 1, u[1] = s[i] PROVE u = <<s[i]>>
  BY <1>4
<1> QED
  BY <1>2, <1>3, <1>4 DEF u

\* Where something occurs is finitely often.
LEMMA OccurrencesAreFinite ==
  ASSUME NEW T, NEW s \in Seq(T), NEW n \in Int
  PROVE  /\ IsFiniteSet(Spots(s, n)) /\ Spots(s, n) \subseteq Nat
         /\ \A g : Len(g) = n => /\ IsFiniteSet(Occurrences(s, g))
                                 /\ Cardinality(Occurrences(s, g)) \in Nat
<1>1. Len(s) \in Nat
  OBVIOUS
<1>2. IsFiniteSet(Spots(s, n)) /\ Spots(s, n) \subseteq Nat
  <2>1. 1 \in Int /\ Len(s) - n + 1 \in Int /\ 1 .. Len(s) - n + 1 \subseteq Nat
    BY <1>1
  <2> QED
    BY <2>1, FS_Interval DEF Spots
<1>3. ASSUME NEW g, Len(g) = n
      PROVE  IsFiniteSet(Occurrences(s, g)) /\ Cardinality(Occurrences(s, g)) \in Nat
  <2>1. Occurrences(s, g) \subseteq Spots(s, n)
    BY <1>3 DEF Occurrences
  <2>2. IsFiniteSet(Occurrences(s, g))
    BY <1>2, <2>1, FS_Subset
  <2> QED
    BY <2>2, FS_CardinalityType
<1> QED
  BY <1>2, <1>3

\* The places up to one of them, in a set of places.
LEMMA UptoIsRank ==
  ASSUME NEW D, D \subseteq Nat, IsFiniteSet(D), NEW i \in D
  PROVE  Cardinality({j \in D : j <= i}) = Rank(D, i) + 1
<1> DEFINE P == {j \in D : j < i}
<1>1. {j \in D : j <= i} = P \cup {i} /\ i \notin P /\ P \subseteq D
  <2>1. ~(i < i) /\ i <= i /\ \A j \in D : j <= i <=> j < i \/ j = i
    OBVIOUS
  <2> QED
    BY <2>1, Zenon
<1>2. Rank(D, i) = Cardinality(P)
  BY DEF Rank
<1> HIDE DEF P
<1>3. IsFiniteSet(P)
  BY <1>1, FS_Subset
<1>4. Cardinality(P \cup {i}) = Cardinality(P) + 1
  BY <1>1, <1>3, FS_AddElement
<1> QED
  BY <1>1, <1>2, <1>4

\* Texts as codes are as long as in words, and so are their spans.
LEMMA SpanOfCodes ==
  ASSUME NEW W, NEW v, IsVocabulary(v, W), NEW s \in Seq(W)
  PROVE  /\ Codes(v, s) \in Seq(Int) /\ Len(Codes(v, s)) = Len(s)
         /\ \A n : Spots(Codes(v, s), n) = Spots(s, n)
         /\ \A n \in Nat \ {0} : \A i \in Spots(s, n) :
              Span(Codes(v, s), i, n) = Codes(v, Span(s, i, n))
<1>1. /\ DOMAIN s = 1 .. Len(s) /\ Len(s) \in Nat
      /\ Codes(v, s) = [i \in 1 .. Len(s) |-> Code(v, s[i])]
  BY DEF Codes
<1>2. \A i \in 1 .. Len(s) : Code(v, s[i]) \in Int
  BY CodeIs
<1>3. Codes(v, s) \in Seq(Int) /\ Len(Codes(v, s)) = Len(s)
  BY <1>1, <1>2
<1>4. \A n : Spots(Codes(v, s), n) = Spots(s, n)
  BY <1>3 DEF Spots
<1>5. ASSUME NEW n \in Nat \ {0}, NEW i \in Spots(s, n)
      PROVE  Span(Codes(v, s), i, n) = Codes(v, Span(s, i, n))
  <2> DEFINE a == Span(Codes(v, s), i, n)
             b == Span(s, i, n)
             c == Codes(v, b)
  <2>1. /\ b \in Seq(W) /\ Len(b) = n
        /\ \A k \in 1 .. n : i + k - 1 \in 1 .. Len(s) /\ b[k] = s[i + k - 1]
    BY SpanIs
  <2>2. i \in Spots(Codes(v, s), n)
    BY <1>4
  <2>3. /\ a \in Seq(Int) /\ Len(a) = n
        /\ \A k \in 1 .. n : a[k] = Codes(v, s)[i + k - 1]
    BY <1>3, <2>2, SpanIs
  <2>4. DOMAIN b = 1 .. n /\ DOMAIN a = 1 .. n
    BY <2>1, <2>3
  <2> HIDE DEF a, b
  <2>5. c = [k \in 1 .. n |-> Code(v, b[k])]
    BY <2>4 DEF Codes
  <2>6. \A k \in 1 .. n : a[k] = Code(v, b[k])
    BY <1>1, <2>1, <2>3
  <2>7. a = [k \in 1 .. n |-> a[k]]
    BY <2>3, <2>4
  <2> QED
    BY <2>5, <2>6, <2>7 DEF a, b
<1> QED
  BY <1>3, <1>4, <1>5

\* Texts with known words are the same when their codes are.
LEMMA SameCodes ==
  ASSUME NEW W, NEW v, IsVocabulary(v, W), NEW a \in Seq(W), NEW b \in Seq(W),
         Len(a) = Len(b), Known(v, a) \/ Known(v, b)
  PROVE  Codes(v, a) = Codes(v, b) <=> a = b
<1>1. DOMAIN a = 1 .. Len(a) /\ DOMAIN b = 1 .. Len(a)
  OBVIOUS
<1>2. SUFFICES ASSUME Codes(v, a) = Codes(v, b) PROVE a = b
  OBVIOUS
<1>3. ASSUME NEW i \in 1 .. Len(a) PROVE a[i] = b[i]
  <2>1. Codes(v, a)[i] = Code(v, a[i]) /\ Codes(v, b)[i] = Code(v, b[i])
    BY <1>1 DEF Codes
  <2>2. a[i] \in ToSet(v) \/ b[i] \in ToSet(v)
    BY <1>1 DEF Known
  <2>3. Code(v, a[i]) = Code(v, b[i])
    BY <1>2, <2>1
  <2> QED
    BY <2>2, <2>3, CodesDiffer
<1> QED
  BY <1>1, <1>3

\* Something known occurs where its codes do, and so does all of a known text.
LEMMA OccurrencesOfCodes ==
  ASSUME NEW W, NEW v, IsVocabulary(v, W), NEW s \in Seq(W), NEW n \in Nat \ {0},
         NEW g \in Seq(W), Len(g) = n, Known(v, s) \/ Known(v, g)
  PROVE  Occurrences(Codes(v, s), Codes(v, g)) = Occurrences(s, g)
<1>1. Len(Codes(v, g)) = n /\ Spots(Codes(v, s), n) = Spots(s, n)
  BY SpanOfCodes
<1>2. ASSUME NEW i \in Spots(s, n)
      PROVE  Span(Codes(v, s), i, n) = Codes(v, g) <=> Span(s, i, n) = g
  <2> DEFINE b == Span(s, i, n)
  <2>1. Span(Codes(v, s), i, n) = Codes(v, b)
    BY SpanOfCodes
  <2>2. /\ b \in Seq(W) /\ Len(b) = n
        /\ \A k \in 1 .. n : i + k - 1 \in 1 .. Len(s) /\ b[k] = s[i + k - 1]
    BY SpanIs
  <2>3. DOMAIN b = 1 .. n /\ DOMAIN s = 1 .. Len(s)
    BY <2>2
  <2> HIDE DEF b
  <2>4. Known(v, s) => Known(v, b)
    BY <2>2, <2>3 DEF Known
  <2>5. Codes(v, b) = Codes(v, g) <=> b = g
    BY <2>2, <2>4, SameCodes
  <2> QED
    BY <2>1, <2>5 DEF b
<1> QED
  BY <1>1, <1>2 DEF Occurrences

\* What is covered in codes is covered in words.
LEMMA CoveredOfCodes ==
  ASSUME NEW W, NEW v, IsVocabulary(v, W), NEW words \in Seq(W), NEW texts \in Seq(Seq(W)),
         \A f \in DOMAIN texts : Known(v, texts[f]), NEW n \in Nat \ {0},
         NEW told, DOMAIN told = DOMAIN texts,
         \A f \in DOMAIN texts : told[f] = Codes(v, texts[f])
  PROVE  Covered(Codes(v, words), told, n) = Covered(words, texts, n)
<1> DEFINE codes == Codes(v, words)
<1>1. Spots(codes, n) = Spots(words, n)
  BY SpanOfCodes
<1>2. ASSUME NEW i \in Spots(words, n)
      PROVE  i \in Covered(codes, told, n) <=> i \in Covered(words, texts, n)
  <2> DEFINE g == Span(words, i, n)
             h == Codes(v, g)
  <2>1. Span(codes, i, n) = h
    BY SpanOfCodes
  <2>2. g \in Seq(W) /\ Len(g) = n
    BY SpanIs
  <2>3. codes \in Seq(Int) /\ Len(h) = n
    BY <2>2, SpanOfCodes
  <2>4. \A f \in DOMAIN texts : Occurrences(told[f], h) = Occurrences(texts[f], g)
    <3>1. ASSUME NEW f \in DOMAIN texts PROVE Occurrences(told[f], h) = Occurrences(texts[f], g)
      <4>1. texts[f] \in Seq(W) /\ told[f] = Codes(v, texts[f])
        OBVIOUS
      <4> HIDE DEF g
      <4> QED
        BY <2>2, <4>1, OccurrencesOfCodes
    <3> QED
      BY <3>1
  <2>5. i \in Covered(words, texts, n) <=>
          \E f \in DOMAIN texts : Cardinality({j \in Occurrences(words, g) : j <= i})
                                    <= Cardinality(Occurrences(texts[f], g))
    BY DEF Covered
  <2>6. i \in Covered(codes, told, n) <=>
          \E f \in DOMAIN texts : Cardinality({j \in Occurrences(codes, h) : j <= i})
                                    <= Cardinality(Occurrences(told[f], h))
    <3> HIDE DEF h, codes
    <3> QED
      BY <1>1, <2>1 DEF Covered
  <2> HIDE DEF g, h, codes
  <2>7. CASE Known(v, g)
    <3>1. Occurrences(codes, h) = Occurrences(words, g)
      BY <2>2, <2>7, OccurrencesOfCodes DEF codes, h
    <3> QED
      BY <2>4, <2>5, <2>6, <3>1
  <2>8. CASE ~Known(v, g)
    <3>1. \A f \in DOMAIN texts : Cardinality(Occurrences(texts[f], g)) = 0
      <4>1. ASSUME NEW f \in DOMAIN texts, NEW j \in Spots(texts[f], n), Span(texts[f], j, n) = g
            PROVE  Known(v, g)
        <5>1. texts[f] \in Seq(W) /\ DOMAIN (texts[f]) = 1 .. Len(texts[f]) /\ Known(v, texts[f])
          OBVIOUS
        <5>2. \A k \in 1 .. n : j + k - 1 \in 1 .. Len(texts[f]) /\ g[k] = texts[f][j + k - 1]
          <6> DEFINE t == texts[f]
          <6>1. t \in Seq(W) /\ j \in Spots(t, n) /\ Span(t, j, n) = g
            BY <4>1
          <6> HIDE DEF t
          <6>2. \A k \in 1 .. n : j + k - 1 \in 1 .. Len(t) /\ g[k] = t[j + k - 1]
            BY <6>1, SpanIs
          <6> QED
            BY <6>2 DEF t
        <5>3. DOMAIN g = 1 .. n
          BY <2>2
        <5> QED
          BY <5>1, <5>2, <5>3 DEF Known
      <4>2. \A f \in DOMAIN texts : Occurrences(texts[f], g) = {}
        BY <2>2, <2>8, <4>1 DEF Occurrences
      <4> QED
        BY <4>2, FS_EmptySet
    <3>2. ASSUME NEW T, NEW s \in Seq(T), NEW x, Len(x) = n, i \in Occurrences(s, x)
          PROVE  Cardinality({j \in Occurrences(s, x) : j <= i}) \in Nat \ {0}
      <4> DEFINE O == Occurrences(s, x)
      <4>1. IsFiniteSet(O) /\ O \subseteq Nat
        <5>1. n \in Int
          OBVIOUS
        <5>2. IsFiniteSet(O) /\ Spots(s, n) \subseteq Nat
          BY <3>2, <5>1, OccurrencesAreFinite
        <5>3. O \subseteq Spots(s, n)
          BY <3>2 DEF Occurrences
        <5> QED
          BY <5>2, <5>3
      <4> HIDE DEF O
      <4>2. i \in O
        BY <3>2 DEF O
      <4>3. Rank(O, i) \in 0 .. Cardinality(O) - 1
        BY <4>1, <4>2, RanksAreAll
      <4>4. Cardinality({j \in O : j <= i}) = Rank(O, i) + 1
        BY <4>1, <4>2, UptoIsRank
      <4> QED
        BY <4>3, <4>4 DEF O
    <3>3. i \in Occurrences(words, g)
      BY <2>2 DEF Occurrences, g
    <3>4. i \in Occurrences(codes, h)
      BY <1>1, <2>1, <2>3 DEF Occurrences
    <3>5. Cardinality({j \in Occurrences(words, g) : j <= i}) \in Nat \ {0}
      BY <2>2, <3>2, <3>3
    <3>6. Cardinality({j \in Occurrences(codes, h) : j <= i}) \in Nat \ {0}
      BY <2>3, <3>2, <3>4
    <3> QED
      BY <2>4, <2>5, <2>6, <3>1, <3>5, <3>6
  <2> QED
    BY <2>7, <2>8
<1>3. /\ Covered(codes, told, n) \subseteq Spots(words, n)
      /\ Covered(words, texts, n) \subseteq Spots(words, n)
  BY <1>1 DEF Covered
<1> QED
  BY <1>2, <1>3

-----------------------------------------------------------------------------
(* Counting up to a limit.                                                   *)

\* Of the places of one thing the first ones are counted, up to a limit.
LEMMA FirstOnesAreCounted ==
  ASSUME NEW D, D \subseteq Nat, IsFiniteSet(D), NEW k \in Nat
  PROVE  LET C == {i \in D : Cardinality({j \in D : j <= i}) <= k}
         IN /\ IsFiniteSet(C) /\ Cardinality(D) \in Nat
            /\ Cardinality(C) = IF k <= Cardinality(D) THEN k ELSE Cardinality(D)
<1> DEFINE C == {i \in D : Cardinality({j \in D : j <= i}) <= k}
           n == Cardinality(D)
           m == IF k <= n THEN k ELSE n
           T == 0 .. m - 1
           R == [i \in C |-> Rank(D, i)]
<1>1. /\ n \in Nat
      /\ \A p \in D : Rank(D, p) \in 0 .. n - 1
      /\ \A p, q \in D : Rank(D, p) = Rank(D, q) => p = q
      /\ \A r \in 0 .. n - 1 : \E p \in D : Rank(D, p) = r
  BY RanksAreAll
<1>2. \A i \in D : i \in C <=> Rank(D, i) < k
  <2>1. ASSUME NEW i \in D PROVE i \in C <=> Rank(D, i) < k
    <3>1. Cardinality({j \in D : j <= i}) = Rank(D, i) + 1
      BY UptoIsRank
    <3>2. Rank(D, i) \in Nat
      BY <1>1
    <3>3. i \in C <=> Rank(D, i) + 1 <= k
      BY <3>1
    <3> QED
      BY <3>2, <3>3
  <2> QED
    BY <2>1
<1>3. C \subseteq D /\ IsFiniteSet(C)
  <2>1. C \subseteq D
    OBVIOUS
  <2> HIDE DEF C
  <2> QED
    BY <2>1, FS_Subset
<1> HIDE DEF C, n
<1>4. m \in Nat /\ \A r : r \in T <=> r \in 0 .. n - 1 /\ r < k
  BY <1>1
<1>5. IsFiniteSet(T) /\ Cardinality(T) = m
  <2>1. 0 \in Int /\ m - 1 \in Int
    BY <1>4
  <2> HIDE DEF m
  <2>2. /\ IsFiniteSet(0 .. m - 1)
        /\ Cardinality(0 .. m - 1) = IF 0 > m - 1 THEN 0 ELSE (m - 1) - 0 + 1
    BY <2>1, FS_Interval
  <2> QED
    BY <1>4, <2>2
<1> HIDE DEF T, m
<1>6. R \in [C -> T] /\ \A p, q \in C : R[p] = R[q] => p = q
  <2>1. \A i \in C : Rank(D, i) \in T
    BY <1>1, <1>2, <1>3, <1>4
  <2> QED
    BY <1>1, <1>3, <2>1
<1>7. \A r \in T : \E p \in C : R[p] = r
  <2>1. ASSUME NEW r \in T PROVE \E p \in C : R[p] = r
    <3>1. r \in 0 .. n - 1 /\ r < k
      BY <1>4
    <3>2. PICK p \in D : Rank(D, p) = r
      BY <1>1, <3>1
    <3>3. p \in C
      BY <1>2, <3>1, <3>2
    <3> QED
      BY <3>2, <3>3
  <2> QED
    BY <2>1
<1> HIDE DEF R
<1>8. R \in Injection(C, T)
  BY <1>6, Fun_IsInj
<1>9. R \in Surjection(C, T)
  BY <1>6, <1>7, Fun_IsSurj
<1>10. Cardinality(C) = Cardinality(T)
  BY <1>5, <1>8, <1>9, FS_Injection
<1> QED
  BY <1>1, <1>3, <1>5, <1>10 DEF C, n, m

\* The places of each thing in a set of places.
PlacesOf(D, f, c) == {i \in D : f[i] = c}

\* Every place is one of one thing.
LEMMA PlacesAddUp ==
  ASSUME NEW D, IsFiniteSet(D), NEW f, NEW K, IsFiniteSet(K),
         NEW g, \A c \in K : g[c] = Cardinality(PlacesOf(D, f, c))
  PROVE  SumFunctionOnSet(g, K) = Cardinality({i \in D : f[i] \in K})
<1> DEFINE In(T) == {i \in D : f[i] \in T}
           B == {T \in SUBSET K : SumFunctionOnSet(g, T) # Cardinality(In(T))}
<1>2. ASSUME NEW T PROVE IsFiniteSet(In(T)) /\ Cardinality(In(T)) \in Nat
  <2>1. In(T) \subseteq D
    OBVIOUS
  <2> HIDE DEF In
  <2>2. IsFiniteSet(In(T))
    BY <2>1, FS_Subset
  <2> QED
    BY <2>2, FS_CardinalityType
<1>3. \A c \in K : g[c] \in Int
  <2>1. ASSUME NEW c \in K PROVE g[c] \in Int
    <3>1. PlacesOf(D, f, c) = In({c})
      BY DEF PlacesOf
    <3> HIDE DEF In
    <3> QED
      BY <1>2, <3>1
  <2> QED
    BY <2>1
<1>4. SUFFICES ASSUME B # {} PROVE FALSE
  <2>1. K \in SUBSET K
    OBVIOUS
  <2>2. SumFunctionOnSet(g, K) = Cardinality(In(K))
    <3> HIDE DEF In
    <3> QED
      BY <2>1
  <2> HIDE DEF In
  <2> QED
    BY <2>2 DEF In
<1>5. PICK T \in B : \A U \in B : U \subseteq T => U = T
  <2>1. B \subseteq SUBSET K
    OBVIOUS
  <2> HIDE DEF B
  <2> QED
    BY <1>4, <2>1, SmallestSet
<1>6. T \subseteq K /\ SumFunctionOnSet(g, T) # Cardinality(In(T)) /\ IsFiniteSet(T)
  BY FS_Subset
<1>7. CASE T = {}
  <2>1. SumFunctionOnSet(g, {}) = 0
    BY SumOfZeros, FS_EmptySet
  <2>2. In({}) = {}
    OBVIOUS
  <2>3. Cardinality(In({})) = 0
    BY <2>2, FS_EmptySet
  <2> HIDE DEF In
  <2> QED
    BY <1>6, <1>7, <2>1, <2>3
<1>8. CASE T # {}
  <2>1. PICK c \in T : TRUE
    BY <1>8
  <2> DEFINE U == T \ {c}
  <2>2. U \in SUBSET K /\ U \subseteq T /\ U # T
    BY <1>6, <2>1
  <2>3. SumFunctionOnSet(g, U) = Cardinality(In(U))
    <3> HIDE DEF In, U
    <3> QED
      BY <1>5, <2>2
  <2>4. \A x \in T : g[x] \in Int
    BY <1>3, <1>6
  <2>5. SumFunctionOnSet(g, T) = g[c] + SumFunctionOnSet(g, U)
    BY <1>6, <2>1, <2>4, SumWithout
  <2>6. In(T) = In({c}) \cup In(U) /\ In({c}) \cap In(U) = {}
    BY <2>1
  <2>7. g[c] = Cardinality(In({c}))
    <3>1. PlacesOf(D, f, c) = In({c})
      BY DEF PlacesOf
    <3> HIDE DEF In
    <3> QED
      BY <1>6, <2>1, <3>1
  <2> HIDE DEF In, U
  <2>8. /\ IsFiniteSet(In({c})) /\ IsFiniteSet(In(U))
        /\ Cardinality(In({c})) \in Nat /\ Cardinality(In(U)) \in Nat
    BY <1>2
  <2>9. Cardinality(In({c}) \cup In(U))
          = Cardinality(In({c})) + Cardinality(In(U)) - Cardinality(In({c}) \cap In(U))
    BY <2>8, FS_Union
  <2>10. Cardinality(In({c}) \cap In(U)) = 0
    BY <2>6, FS_EmptySet
  <2> QED
    BY <1>6, <2>3, <2>5, <2>6, <2>7, <2>8, <2>9, <2>10
<1> QED
  BY <1>7, <1>8

\* Each place counts as long as there are no more of its thing up to there than
\* the limit for that thing.
CountedPlaces(D, f, limit) ==
  {i \in D : Cardinality({j \in D : f[j] = f[i] /\ j <= i}) <= limit[f[i]]}

LEMMA LimitsAddUp ==
  ASSUME NEW D, D \subseteq Nat, IsFiniteSet(D), NEW f, NEW K, IsFiniteSet(K),
         \A i \in D : f[i] \in K, NEW limit, \A c \in K : limit[c] \in Nat,
         NEW g, \A c \in K : g[c] = Min({Cardinality(PlacesOf(D, f, c)), limit[c]})
  PROVE  SumFunctionOnSet(g, K) = Cardinality(CountedPlaces(D, f, limit))
<1> DEFINE C == CountedPlaces(D, f, limit)
<1>1. C \subseteq D /\ IsFiniteSet(C) /\ \A i \in C : f[i] \in K
  <2>1. C \subseteq D
    BY DEF CountedPlaces
  <2> HIDE DEF C
  <2>2. IsFiniteSet(C)
    BY <2>1, FS_Subset
  <2> QED
    BY <2>1, <2>2
<1>2. ASSUME NEW c \in K PROVE g[c] = Cardinality(PlacesOf(C, f, c))
  <2> DEFINE E == PlacesOf(D, f, c)
             F == {i \in E : Cardinality({j \in E : j <= i}) <= limit[c]}
             n == Cardinality(E)
             k == limit[c]
  <2>1. E \subseteq D
    BY DEF PlacesOf
  <2>2. IsFiniteSet(E) /\ E \subseteq Nat /\ k \in Nat
    <3> HIDE DEF E
    <3> QED
      BY <2>1, FS_Subset
  <2>3. PlacesOf(C, f, c) = F
    <3>1. \A i \in E : f[i] = c /\ i \in D
      BY DEF PlacesOf
    <3>2. ASSUME NEW i \in E PROVE {j \in D : f[j] = f[i] /\ j <= i} = {j \in E : j <= i}
      BY <3>1 DEF PlacesOf
    <3>3. \A i \in E : i \in C <=> i \in F
      BY <3>1, <3>2 DEF CountedPlaces
    <3>4. PlacesOf(C, f, c) = {i \in E : i \in C}
      BY <1>1 DEF PlacesOf
    <3> HIDE DEF C, E
    <3> QED
      BY <3>3, <3>4
  <2> HIDE DEF E
  <2>4. n \in Nat /\ Cardinality(F) = IF k <= n THEN k ELSE n
    BY <2>2, FirstOnesAreCounted
  <2>5. g[c] = Min({n, k})
    BY DEF E
  <2> HIDE DEF F, n, k
  <2>6. Min({n, k}) = IF k <= n THEN k ELSE n
    <3>1. \E x \in {n, k} : \A y \in {n, k} : x <= y
      BY <2>2, <2>4
    <3>2. Min({n, k}) \in {n, k} /\ \A y \in {n, k} : Min({n, k}) <= y
      BY <3>1 DEF Min
    <3> QED
      BY <2>2, <2>4, <3>2
  <2> QED
    BY <2>3, <2>4, <2>5, <2>6
<1> HIDE DEF C
<1> QED
  <2>1. {i \in C : f[i] \in K} = C
    BY <1>1
  <2> HIDE DEF C
  <2>2. SumFunctionOnSet(g, K) = Cardinality({i \in C : f[i] \in K})
    BY <1>1, <1>2, PlacesAddUp
  <2> QED
    BY <2>1, <2>2 DEF C

-----------------------------------------------------------------------------
(* BLEU.                                                                     *)

\* The n-grams of a text are counted as often as they occur in it.
LEMMA NgramsAreCounted ==
  ASSUME NEW T, NEW s \in Seq(T), NEW order \in Nat
  PROVE  LET C == CountNgrams(s, order)
         IN /\ \A n \in 1 .. order : \A i \in Spots(s, n) : Span(s, i, n) \in DOMAIN C
            /\ \A g \in DOMAIN C : /\ Len(g) \in 1 .. order
                                   /\ C[g] = Cardinality(Occurrences(s, g))
                                   /\ \E i \in Spots(s, Len(g)) : Span(s, i, Len(g)) = g
            /\ \A g : Len(g) \in 1 .. order =>
                 Lookup(C, g) = Cardinality(Occurrences(s, g)) /\ Lookup(C, g) \in Nat
<1> DEFINE C == CountNgrams(s, order)
           U == UNION {{Span(s, i, n) : i \in Spots(s, n)} : n \in 1 .. order}
<1>1. /\ DOMAIN C = U
      /\ \A g \in U : C[g] = Cardinality(Occurrences(s, g))
  BY DEF CountNgrams, Occurrences, Spots
<1> HIDE DEF C
<1>2. ASSUME NEW n \in 1 .. order, NEW i \in Spots(s, n) PROVE Span(s, i, n) \in U
  OBVIOUS
<1>3. ASSUME NEW g \in U
      PROVE  Len(g) \in 1 .. order /\ \E i \in Spots(s, Len(g)) : Span(s, i, Len(g)) = g
  <2>1. PICK n \in 1 .. order : \E i \in Spots(s, n) : Span(s, i, n) = g
    OBVIOUS
  <2> PICK i \in Spots(s, n) : Span(s, i, n) = g
    BY <2>1
  <2>2. n \in Nat \ {0}
    OBVIOUS
  <2>3. Len(g) = n
    BY <2>2, SpanIs
  <2> QED
    BY <2>1, <2>3
<1> HIDE DEF U
<1>4. ASSUME NEW g, Len(g) \in 1 .. order
      PROVE  Lookup(C, g) = Cardinality(Occurrences(s, g)) /\ Lookup(C, g) \in Nat
  <2>1. Len(g) \in Int
    BY <1>4
  <2>2. Cardinality(Occurrences(s, g)) \in Nat
    BY <2>1, OccurrencesAreFinite
  <2>3. CASE g \in U
    BY <1>1, <2>2, <2>3 DEF Lookup
  <2>4. CASE g \notin U
    <3>1. Occurrences(s, g) = {}
      BY <1>2, <1>4, <2>4 DEF Occurrences
    <3>2. Cardinality(Occurrences(s, g)) = 0
      BY <3>1, FS_EmptySet
    <3> QED
      BY <1>1, <2>4, <3>2 DEF Lookup
  <2> QED
    BY <2>3, <2>4
<1> QED
  BY <1>1, <1>2, <1>3, <1>4 DEF C

\* What is merged of all texts so far: the most any of them has, and the lengths.
MostOf(r, texts, m) ==
  /\ r.lengths \in Seq(Nat) /\ Len(r.lengths) = m
  /\ \A f \in 1 .. m : r.lengths[f] = Len(texts[f])
  /\ \A g : Len(g) \in 1 .. Order =>
       /\ Lookup(r.counts, g) \in Nat
       /\ \A f \in 1 .. m : Cardinality(Occurrences(texts[f], g)) <= Lookup(r.counts, g)
       /\ \/ Lookup(r.counts, g) = 0
          \/ \E f \in 1 .. m : Lookup(r.counts, g) = Cardinality(Occurrences(texts[f], g))

LEMMA MergingKeepsTheMost ==
  ASSUME NEW T, NEW texts \in Seq(Seq(T)), NEW m \in 1 .. Len(texts), NEW r,
         MostOf(r, texts, m - 1)
  PROVE  MostOf(Merged(r, texts[m]), texts, m)
<1> DEFINE s == texts[m]
           more == CountNgrams(s, Order)
           new == Merged(r, s)
<1>1. s \in Seq(T) /\ Order \in Nat /\ Len(s) \in Nat
  BY OrderAssumption
<1>2. new.counts = MergeCounts(r.counts, more) /\ new.lengths = Append(r.lengths, Len(s))
  BY DEF Merged
<1>3. m - 1 \in Nat /\ 1 .. m = (1 .. m - 1) \cup {m}
  OBVIOUS
<1>4. /\ new.lengths \in Seq(Nat) /\ Len(new.lengths) = m
      /\ \A f \in 1 .. m : new.lengths[f] = Len(texts[f])
  <2>1. /\ r.lengths \in Seq(Nat) /\ Len(r.lengths) = m - 1
        /\ \A f \in 1 .. m - 1 : r.lengths[f] = Len(texts[f])
    BY DEF MostOf
  <2> DEFINE a == r.lengths
             b == new.lengths
             l == Len(s)
  <2>2. b = Append(a, l) /\ l \in Nat /\ a \in Seq(Nat) /\ Len(a) = m - 1
    BY <1>1, <1>2, <2>1
  <2>3. \A f \in 1 .. m - 1 : a[f] = Len(texts[f])
    BY <2>1
  <2>4. l = Len(texts[m])
    OBVIOUS
  <2> HIDE DEF a, b, l
  <2>5. /\ b \in Seq(Nat) /\ Len(b) = m /\ b[m] = l
        /\ \A f \in 1 .. m - 1 : b[f] = a[f]
    BY <1>3, <2>2
  <2>6. \A f \in 1 .. m : b[f] = Len(texts[f])
    BY <1>3, <2>3, <2>4, <2>5
  <2> QED
    BY <2>5, <2>6 DEF b
<1> HIDE DEF new, more, s
<1>5. ASSUME NEW g, Len(g) \in 1 .. Order
      PROVE  /\ Lookup(new.counts, g) \in Nat
             /\ \A f \in 1 .. m : Cardinality(Occurrences(texts[f], g)) <= Lookup(new.counts, g)
             /\ \/ Lookup(new.counts, g) = 0
                \/ \E f \in 1 .. m : Lookup(new.counts, g) = Cardinality(Occurrences(texts[f], g))
  <2> DEFINE x == Lookup(r.counts, g)
             y == Cardinality(Occurrences(s, g))
  <2>1. Lookup(more, g) = y /\ y \in Nat
    BY <1>1, <1>5, NgramsAreCounted DEF more
  <2>2. /\ x \in Nat
        /\ \A f \in 1 .. m - 1 : Cardinality(Occurrences(texts[f], g)) <= x
        /\ x = 0 \/ \E f \in 1 .. m - 1 : x = Cardinality(Occurrences(texts[f], g))
    BY <1>5 DEF MostOf
  <2>3. Lookup(new.counts, g) = IF x <= y THEN y ELSE x
    <3>1. CASE g \in DOMAIN r.counts \cup DOMAIN more
      <4>1. Lookup(new.counts, g) = Max({x, Lookup(more, g)})
        BY <1>2, <3>1 DEF Lookup, MergeCounts
      <4> HIDE DEF x, y
      <4> QED
        BY <2>1, <2>2, <4>1, MaxOfTwo
    <3>2. CASE g \notin DOMAIN r.counts \cup DOMAIN more
      <4>1. x = 0 /\ Lookup(more, g) = 0 /\ Lookup(new.counts, g) = 0
        BY <1>2, <3>2 DEF Lookup, MergeCounts
      <4> HIDE DEF x, y
      <4> QED
        BY <2>1, <4>1
    <3> QED
      BY <3>1, <3>2
  <2>4. y = Cardinality(Occurrences(texts[m], g))
    BY DEF s
  <2>5. m \in 1 .. m
    OBVIOUS
  <2>6. \A f \in 1 .. m - 1 : Cardinality(Occurrences(texts[f], g)) \in Nat
    <3>1. \A f \in 1 .. m - 1 : texts[f] \in Seq(T)
      OBVIOUS
    <3>2. Len(g) \in Int
      BY <1>5
    <3> QED
      BY <3>1, <3>2, OccurrencesAreFinite
  <2> HIDE DEF x, y
  <2>7. CASE x <= y
    <3>1. /\ Lookup(new.counts, g) = y
          /\ \A f \in 1 .. m - 1 : Cardinality(Occurrences(texts[f], g)) <= y
      BY <2>1, <2>2, <2>3, <2>6, <2>7
    <3> QED
      BY <1>3, <2>1, <2>4, <2>5, <3>1
  <2>8. CASE ~(x <= y)
    <3>1. Lookup(new.counts, g) = x /\ y <= x
      BY <2>1, <2>2, <2>3, <2>8
    <3>2. \A f \in 1 .. m : Cardinality(Occurrences(texts[f], g)) <= x
      BY <1>3, <2>2, <2>4, <3>1
    <3>3. x = 0 \/ \E f \in 1 .. m : x = Cardinality(Occurrences(texts[f], g))
      BY <1>3, <2>2
    <3> QED
      BY <2>2, <3>1, <3>2, <3>3
  <2> QED
    BY <2>7, <2>8
<1> QED
  BY <1>4, <1>5 DEF MostOf, new, s

MergedIn(r, codes, p) == Merged(r, codes)
MergeFold == INSTANCE Folding WITH Op <- MergedIn, Good <- Whatever

\* The reference sentence that texts of several files make.
LEMMA MergedAreMost ==
  ASSUME NEW T, NEW texts \in Seq(Seq(T))
  PROVE  MostOf(FoldLeft(Merged, Reference, texts), texts, Len(texts))
<1> DEFINE n == Len(texts)
           ref == MergeFold!Folded(texts, Reference, 0)
<1>1. FoldLeft(Merged, Reference, texts) = ref
  BY DEF FoldLeft, MapThenFoldSet, Max, MergeFold!Folded, MergeFold!FoldsFrom, MergeFold!Max,
         MergedIn
<1>2. n \in Nat /\ DOMAIN texts = 1 .. n
  OBVIOUS
<1>3. PICK g : /\ g[0] = Reference
               /\ \A i \in 1 .. n : g[i] = Merged(g[i - 1], texts[i])
               /\ ref = g[n]
  <2>1. MergeFold!IsFold(n, texts, Reference, 0, ref)
    BY <1>2, MergeFold!FoldSteps
  <2> HIDE DEF ref, n
  <2> QED
    BY <2>1 DEF MergeFold!IsFold, MergedIn
<1> HIDE DEF ref
<1> DEFINE R == {i \in 0 .. n : MostOf(g[i], texts, i)}
<1>4. 0 \in R
  <2>1. MostOf(Reference, texts, 0)
    BY DEF MostOf, Reference, Lookup
  <2> QED
    BY <1>2, <1>3, <2>1
<1>5. ASSUME NEW i \in 1 .. n, i - 1 \in R PROVE i \in R
  <2>1. MostOf(g[i - 1], texts, i - 1) /\ i \in 0 .. n
    BY <1>2, <1>5
  <2>2. MostOf(Merged(g[i - 1], texts[i]), texts, i)
    BY <2>1, MergingKeepsTheMost
  <2> QED
    BY <1>3, <2>1, <2>2
<1> HIDE DEF R
<1>6. \A i \in 0 .. n : i \in R
  BY <1>2, <1>4, <1>5, StepsReach
<1> QED
  BY <1>1, <1>2, <1>3, <1>6 DEF R

ClippedCount(zero, g, p) ==
  IF p.k % 2 = 1 THEN Min({p.counts[g], Lookup(p.refCounts, g)}) ELSE p.counts[g]

ClipSum == INSTANCE Folding WITH Op <- ClippedCount, Good <- Whatever

\* The statistics of an order are sums over the n-grams of that order.
LEMMA ClippedAre ==
  ASSUME NEW counts, NEW refCounts, NEW n \in 1 .. Order
  PROVE  LET K == {g \in DOMAIN counts : Len(g) = n}
         IN /\ Clipped(counts, refCounts)[2 * n - 1]
                 = SumFunctionOnSet([g \in K |-> Min({counts[g], Lookup(refCounts, g)})], K)
            /\ Clipped(counts, refCounts)[2 * n] = SumFunctionOnSet([g \in K |-> counts[g]], K)
<1> DEFINE K == {g \in DOMAIN counts : Len(g) = n}
           p(k) == [k |-> k, counts |-> counts, refCounts |-> refCounts]
           In(k) == {g \in DOMAIN counts : Len(g) = (k + 1) \div 2}
<1>1. ASSUME NEW k \in 1 .. 2 * Order
      PROVE  Clipped(counts, refCounts)[k]
               = SumFunctionOnSet([g \in In(k) |-> ClippedCount(0, g, p(k))], In(k))
  <2> DEFINE q == p(k)
             S == In(k)
             h == [g \in S |-> ClippedCount(0, g, q)]
  <2>1. q.k = k /\ q.counts = counts /\ q.refCounts = refCounts
    OBVIOUS
  <2>2. Clipped(counts, refCounts)[k]
          = MapThenSumSet(LAMBDA g : IF k % 2 = 1 THEN Min({counts[g], Lookup(refCounts, g)})
                                     ELSE counts[g], S)
    BY DEF Clipped
  <2> HIDE DEF q
  <2>3. MapThenSumSet(LAMBDA g : IF k % 2 = 1 THEN Min({counts[g], Lookup(refCounts, g)})
                                 ELSE counts[g], S)
          = ClipSum!MappedSum(S, q)
    BY <2>1 DEF MapThenSumSet, MapThenFoldSet, ClipSum!MappedSum, ClipSum!MappedFrom,
                ClipSum!Pick, ClippedCount
  <2>4. ClipSum!MappedSum(S, q) = ClipSum!SumFunctionOnSet(h, S)
    BY ClipSum!MappedSumIs
  <2> HIDE DEF h, S
  <2>5. ClipSum!SumFunctionOnSet(h, S) = SumFunctionOnSet(h, S)
    BY DEF ClipSum!SumFunctionOnSet, ClipSum!FoldFunctionOnSet, ClipSum!MapThenFoldSet,
           SumFunctionOnSet, FoldFunctionOnSet, MapThenFoldSet
  <2> QED
    BY <2>2, <2>3, <2>4, <2>5 DEF h, S, q
<1>2. /\ 2 * n - 1 \in 1 .. 2 * Order /\ 2 * n \in 1 .. 2 * Order
      /\ (2 * n - 1 + 1) \div 2 = n /\ (2 * n + 1) \div 2 = n
      /\ (2 * n - 1) % 2 = 1 /\ (2 * n) % 2 = 0
  BY OrderAssumption
<1>3. In(2 * n - 1) = K /\ In(2 * n) = K
  BY <1>2
<1>4. [g \in K |-> ClippedCount(0, g, p(2 * n - 1))]
        = [g \in K |-> Min({counts[g], Lookup(refCounts, g)})]
  BY <1>2 DEF ClippedCount
<1>5. [g \in K |-> ClippedCount(0, g, p(2 * n))] = [g \in K |-> counts[g]]
  BY <1>2 DEF ClippedCount
<1>6. Clipped(counts, refCounts)[2 * n - 1]
        = SumFunctionOnSet([g \in In(2 * n - 1) |-> ClippedCount(0, g, p(2 * n - 1))],
                           In(2 * n - 1))
  BY <1>1, <1>2
<1>7. Clipped(counts, refCounts)[2 * n]
        = SumFunctionOnSet([g \in In(2 * n) |-> ClippedCount(0, g, p(2 * n))], In(2 * n))
  BY <1>1, <1>2
<1> HIDE DEF p, In, K
<1> QED
  BY <1>3, <1>4, <1>5, <1>6, <1>7 DEF K

\* What is right of an order is clipped to the most of any text.
LEMMA CountsAreClipped ==
  ASSUME NEW T, NEW texts \in Seq(Seq(T)), NEW codes \in Seq(T), NEW n \in 1 .. Order,
         NEW r, MostOf(r, texts, Len(texts))
  PROVE  LET C == CountNgrams(codes, Order)
         IN /\ Clipped(C, r.counts)[2 * n - 1] = Cardinality(Covered(codes, texts, n))
            /\ Clipped(C, r.counts)[2 * n] = Cardinality(Spots(codes, n))
<1> DEFINE C == CountNgrams(codes, Order)
           D == Spots(codes, n)
           f == [i \in D |-> Span(codes, i, n)]
           K == {g \in DOMAIN C : Len(g) = n}
           limit == [g \in K |-> Lookup(r.counts, g)]
           odd == [g \in K |-> Min({C[g], Lookup(r.counts, g)})]
           even == [g \in K |-> C[g]]
<1>1. Order \in Nat /\ n \in Nat \ {0} /\ n \in Int
  BY OrderAssumption
<1>2. IsFiniteSet(D) /\ D \subseteq Nat
  BY <1>1, OccurrencesAreFinite
<1>3. /\ \A i \in D : f[i] \in DOMAIN C
      /\ \A g \in K : C[g] = Cardinality(Occurrences(codes, g))
      /\ \A g \in K : \E i \in D : f[i] = g
  <2> HIDE DEF C
  <2>1. /\ \A i \in D : Span(codes, i, n) \in DOMAIN C
        /\ \A g \in DOMAIN C : /\ C[g] = Cardinality(Occurrences(codes, g))
                               /\ \E i \in Spots(codes, Len(g)) : Span(codes, i, Len(g)) = g
    BY <1>1, NgramsAreCounted DEF C
  <2> HIDE DEF D
  <2> QED
    BY <2>1 DEF D
<1>4. \A i \in D : f[i] = Span(codes, i, n) /\ Len(f[i]) = n /\ f[i] \in K
  <2>1. \A i \in D : Len(Span(codes, i, n)) = n
    BY <1>1, SpanIs
  <2> HIDE DEF C, D
  <2> QED
    BY <1>3, <2>1
<1> HIDE DEF C, D, f
<1>5. IsFiniteSet(K)
  <2>1. K = {f[i] : i \in D}
    BY <1>3, <1>4
  <2> HIDE DEF K
  <2> QED
    BY <1>2, <2>1, ValuesAreFinite
<1>6. ASSUME NEW g \in K PROVE Occurrences(codes, g) = PlacesOf(D, f, g)
  <2>1. Len(g) = n
    OBVIOUS
  <2>2. Occurrences(codes, g) = {i \in D : Span(codes, i, n) = g}
    BY <2>1 DEF Occurrences, D
  <2> QED
    BY <1>4, <2>2 DEF PlacesOf
<1>7. ASSUME NEW g \in K
      PROVE  /\ limit[g] \in Nat
             /\ \A t \in DOMAIN texts : Cardinality(Occurrences(texts[t], g)) <= limit[g]
             /\ \/ limit[g] = 0
                \/ \E t \in DOMAIN texts : limit[g] = Cardinality(Occurrences(texts[t], g))
  <2>1. Len(g) \in 1 .. Order /\ DOMAIN texts = 1 .. Len(texts)
    OBVIOUS
  <2>2. limit[g] = Lookup(r.counts, g)
    OBVIOUS
  <2> HIDE DEF limit
  <2> QED
    BY <2>1, <2>2 DEF MostOf
<1>8. SumFunctionOnSet(even, K) = Cardinality(D)
  <2>1. \A g \in K : even[g] = Cardinality(PlacesOf(D, f, g))
    BY <1>3, <1>6
  <2>2. \A i \in D : f[i] \in K
    BY <1>4
  <2>3. IsFiniteSet(D)
    BY <1>2
  <2>4. {i \in D : f[i] \in K} = D
    BY <2>2
  <2> HIDE DEF even, K
  <2>5. SumFunctionOnSet(even, K) = Cardinality({i \in D : f[i] \in K})
    BY <1>5, <2>1, <2>3, PlacesAddUp
  <2> QED
    BY <2>4, <2>5
<1>9. SumFunctionOnSet(odd, K) = Cardinality(CountedPlaces(D, f, limit))
  <2>1. \A g \in K : odd[g] = Min({Cardinality(PlacesOf(D, f, g)), limit[g]})
    BY <1>3, <1>6
  <2>2. \A i \in D : f[i] \in K
    BY <1>4
  <2>3. \A g \in K : limit[g] \in Nat
    BY <1>7
  <2> HIDE DEF odd, K, limit
  <2> QED
    BY <1>2, <1>5, <2>1, <2>2, <2>3, LimitsAddUp
<1>10. ASSUME NEW i \in D
       PROVE  i \in CountedPlaces(D, f, limit) <=> i \in Covered(codes, texts, n)
  <2> DEFINE g == f[i]
             O == Occurrences(codes, g)
             c == Cardinality({j \in O : j <= i})
             Of(t) == Cardinality(Occurrences(texts[t], g))
  <2>1. g \in K /\ Len(g) = n /\ g = Span(codes, i, n)
    BY <1>4
  <2>2. O = {j \in D : f[j] = f[i]}
    BY <1>6, <2>1 DEF PlacesOf
  <2>3. {j \in D : f[j] = f[i] /\ j <= i} = {j \in O : j <= i}
    BY <2>2
  <2>4. i \in CountedPlaces(D, f, limit) <=> c <= limit[g]
    <3> HIDE DEF O, limit
    <3> QED
      BY <2>3 DEF CountedPlaces
  <2>5. c \in Nat /\ c >= 1
    <3>1. O \subseteq Nat /\ IsFiniteSet(O) /\ i \in O
      <4>1. O \subseteq D /\ i \in O
        BY <2>2
      <4> HIDE DEF O
      <4> QED
        BY <1>2, <4>1, FS_Subset
    <3> HIDE DEF O
    <3>2. Rank(O, i) \in Nat
      <4>1. Rank(O, i) \in 0 .. Cardinality(O) - 1
        BY <3>1, RanksAreAll
      <4> QED
        BY <4>1
    <3>3. c = Rank(O, i) + 1
      BY <3>1, UptoIsRank
    <3> HIDE DEF c
    <3> QED
      BY <3>2, <3>3
  <2>6. i \in Covered(codes, texts, n) <=> \E t \in DOMAIN texts : c <= Of(t)
    BY <2>1 DEF Covered, D
  <2>7. /\ limit[g] \in Nat
        /\ \A t \in DOMAIN texts : Of(t) <= limit[g]
        /\ limit[g] = 0 \/ \E t \in DOMAIN texts : limit[g] = Of(t)
    BY <1>7, <2>1
  <2>8. \A t \in DOMAIN texts : Of(t) \in Nat
    <3>1. \A t \in DOMAIN texts : texts[t] \in Seq(T)
      OBVIOUS
    <3> HIDE DEF g
    <3> QED
      BY <1>1, <2>1, <3>1, OccurrencesAreFinite
  <2> DEFINE l == limit[g]
  <2> HIDE DEF g, O, c, Of, limit, l
  <2>9. c <= l <=> \E t \in DOMAIN texts : c <= Of(t)
    BY <2>5, <2>7, <2>8 DEF l
  <2> QED
    BY <2>4, <2>6, <2>9 DEF l
<1>11. CountedPlaces(D, f, limit) = Covered(codes, texts, n)
  <2>1. CountedPlaces(D, f, limit) \subseteq D
    BY DEF CountedPlaces
  <2>2. Covered(codes, texts, n) \subseteq D
    BY DEF Covered, D
  <2> HIDE DEF limit
  <2> QED
    BY <1>10, <2>1, <2>2
<1>12. /\ Clipped(C, r.counts)[2 * n - 1] = SumFunctionOnSet(odd, K)
       /\ Clipped(C, r.counts)[2 * n] = SumFunctionOnSet(even, K)
  BY ClippedAre
<1> HIDE DEF odd, even, K, limit
<1> QED
  BY <1>8, <1>9, <1>11, <1>12 DEF C, D

\* What the model's sum over all lengths is.
LengthOf(zero, f, texts) == Len(texts[f])
LengthAdded(sum, l, p) == sum + l

LengthSum == INSTANCE Folding WITH Op <- LengthOf, Good <- Whatever
LengthFold == INSTANCE Folding WITH Op <- LengthAdded, Good <- Whatever

LEMMA LengthsAddUp ==
  ASSUME NEW T, NEW texts \in Seq(Seq(T)), NEW a \in Seq(Nat), Len(a) = Len(texts),
         \A f \in 1 .. Len(texts) : a[f] = Len(texts[f])
  PROVE  /\ FoldLeft(+, 0, a) = MapThenSumSet(LAMBDA f : Len(texts[f]), DOMAIN texts)
         /\ FoldLeft(+, 0, a) \in Nat
<1> DEFINE n == Len(texts)
           D == DOMAIN texts
           h == [f \in D |-> Len(texts[f])]
           sum == LengthFold!Folded(a, 0, 0)
<1>1. n \in Nat /\ D = 1 .. n /\ DOMAIN a = 1 .. n /\ \A f \in D : a[f] \in Nat
  OBVIOUS
<1>2. MapThenSumSet(LAMBDA f : Len(texts[f]), D) = SumFunctionOnSet(h, D)
  <2> HIDE DEF D
  <2>1. MapThenSumSet(LAMBDA f : Len(texts[f]), D) = LengthSum!MappedSum(D, texts)
    BY DEF MapThenSumSet, MapThenFoldSet, LengthSum!MappedSum, LengthSum!MappedFrom,
           LengthSum!Pick, LengthOf
  <2>2. LengthSum!MappedSum(D, texts)
          = LengthSum!SumFunctionOnSet([f \in D |-> LengthOf(0, f, texts)], D)
    BY LengthSum!MappedSumIs
  <2>3. h = [f \in D |-> LengthOf(0, f, texts)]
    BY DEF LengthOf
  <2>4. LengthSum!SumFunctionOnSet(h, D) = SumFunctionOnSet(h, D)
    <3> HIDE DEF h
    <3> QED
      BY DEF LengthSum!SumFunctionOnSet, LengthSum!FoldFunctionOnSet, LengthSum!MapThenFoldSet,
             SumFunctionOnSet, FoldFunctionOnSet, MapThenFoldSet
  <2> HIDE DEF h
  <2> QED
    BY <2>1, <2>2, <2>3, <2>4
<1>3. FoldLeft(+, 0, a) = sum
  BY DEF FoldLeft, MapThenFoldSet, Max, LengthFold!Folded, LengthFold!FoldsFrom, LengthFold!Max,
         LengthAdded
<1>4. PICK g : /\ g[0] = 0
               /\ \A i \in 1 .. n : g[i] = g[i - 1] + a[i]
               /\ sum = g[n]
  <2>1. LengthFold!IsFold(n, a, 0, 0, sum)
    BY <1>1, LengthFold!FoldSteps
  <2> HIDE DEF sum, n
  <2> QED
    BY <2>1 DEF LengthFold!IsFold, LengthAdded
<1>5. \A f \in D : h[f] \in Nat /\ h[f] = a[f]
  BY <1>1
<1> HIDE DEF sum, h, D, n
<1> DEFINE R == {i \in 0 .. n : g[i] = SumFunctionOnSet(h, 1 .. i) /\ g[i] \in Nat}
<1>6. 0 \in R
  <2>1. 1 .. 0 = {} /\ 0 \in 0 .. n
    BY <1>1
  <2>2. SumFunctionOnSet(h, {}) = 0
    BY SumOfZeros, FS_EmptySet
  <2> QED
    BY <1>4, <2>1, <2>2
<1>7. ASSUME NEW i \in 1 .. n, i - 1 \in R PROVE i \in R
  <2>1. /\ g[i - 1] = SumFunctionOnSet(h, 1 .. i - 1) /\ g[i - 1] \in Nat
        /\ i \in 1 .. i /\ (1 .. i) \ {i} = 1 .. i - 1 /\ i \in 0 .. n
        /\ 1 .. i \subseteq D /\ i \in Nat
    BY <1>1, <1>7
  <2>2. IsFiniteSet(1 .. i)
    BY <2>1, FS_Interval
  <2>3. \A f \in 1 .. i : h[f] \in Int
    BY <1>5, <2>1
  <2>4. SumFunctionOnSet(h, 1 .. i) = h[i] + SumFunctionOnSet(h, (1 .. i) \ {i})
    BY <2>1, <2>2, <2>3, SumWithout
  <2>5. h[i] \in Nat /\ h[i] = a[i] /\ g[i] = g[i - 1] + a[i]
    BY <1>4, <1>5, <2>1
  <2>6. SumFunctionOnSet(h, (1 .. i) \ {i}) = g[i - 1]
    BY <2>1
  <2>7. g[i] = SumFunctionOnSet(h, 1 .. i) /\ g[i] \in Nat
    <3> DEFINE x == SumFunctionOnSet(h, (1 .. i) \ {i})
               y == SumFunctionOnSet(h, 1 .. i)
    <3>1. x = g[i - 1] /\ y = h[i] + x
      BY <2>4, <2>6
    <3> HIDE DEF x, y
    <3>2. g[i - 1] \in Nat
      BY <2>1
    <3>3. g[i] = y /\ g[i] \in Nat
      BY <2>5, <3>1, <3>2
    <3> QED
      BY <3>3 DEF y
  <2> QED
    BY <2>1, <2>7
<1> HIDE DEF R
<1>8. \A i \in 0 .. n : i \in R
  BY <1>1, <1>6, <1>7, StepsReach
<1>9. g[n] = SumFunctionOnSet(h, 1 .. n) /\ g[n] \in Nat
  BY <1>1, <1>8 DEF R
<1> QED
  BY <1>1, <1>2, <1>3, <1>4, <1>9 DEF D

\* The length that is taken of the references is what the strategy asks for.
LEMMA LengthIsFitting ==
  ASSUME NEW T, NEW texts \in Seq(Seq(T)), texts # <<>>, NEW words \in Seq(T),
         NEW scorer, scorer.reflen \in {"average", "closest", "shortest"},
         NEW r, r.lengths \in Seq(Nat), Len(r.lengths) = Len(texts),
         \A f \in 1 .. Len(texts) : r.lengths[f] = Len(texts[f])
  PROVE  FittingLength(scorer, words, texts, CalcReferenceLength(scorer, r, Len(words)))
<1> DEFINE a == r.lengths
           n == Len(texts)
           L == {Len(texts[f]) : f \in DOMAIN texts}
           length == Len(words)
           Diff(l) == IF l > length THEN l - length ELSE length - l
<1>1. /\ n \in Nat \ {0} /\ DOMAIN texts = 1 .. n /\ length \in Nat
      /\ \A f \in 1 .. n : Len(texts[f]) \in Nat
  <2>1. n # 0
    OBVIOUS
  <2> QED
    BY <2>1
<1>2. a \in Seq(Nat) /\ Len(a) = n /\ \A f \in 1 .. n : a[f] = Len(texts[f])
  OBVIOUS
<1> HIDE DEF a, length
<1>3. ToSet(a) = L
  <2>1. DOMAIN a = 1 .. n
    BY <1>2
  <2> QED
    BY <1>1, <1>2, <2>1 DEF ToSet
<1>4. L # {} /\ L \subseteq Nat
  <2>1. 1 \in 1 .. n
    BY <1>1
  <2> HIDE DEF n
  <2> QED
    BY <1>1, <2>1
<1>5. CASE scorer.reflen = "closest"
  <2> DEFINE M == {Diff(l) : l \in L}
             least == Min(M)
             B == {l \in L : Diff(l) = least}
             c == Min(B)
  <2> HIDE DEF L
  <2>1. \A l \in L : l \in Nat /\ Diff(l) \in Nat
    BY <1>1, <1>4
  <2> HIDE DEF Diff
  <2>2. M \subseteq Nat /\ M # {}
    BY <1>4, <2>1
  <2>3. least \in M /\ \A y \in M : least <= y
    <3> HIDE DEF M
    <3> QED
      BY <2>2, MinOfNaturals
  <2> HIDE DEF least
  <2>4. B \subseteq Nat /\ B # {}
    BY <2>1, <2>3
  <2>5. c \in B /\ \A y \in B : c <= y
    <3> HIDE DEF B
    <3> QED
      BY <2>4, MinOfNaturals
  <2> HIDE DEF c
  <2>6. /\ c \in L
        /\ \A l \in L : Diff(c) < Diff(l) \/ (Diff(c) = Diff(l) /\ c <= l)
    <3>1. ASSUME NEW l \in L PROVE Diff(c) < Diff(l) \/ (Diff(c) = Diff(l) /\ c <= l)
      <4>1. Diff(c) = least /\ least <= Diff(l) /\ Diff(l) \in Nat /\ Diff(c) \in Nat
        BY <2>1, <2>3, <2>5
      <4>2. Diff(l) = least => c <= l
        BY <2>5
      <4> QED
        BY <4>1, <4>2
    <3> QED
      BY <2>5, <3>1
  <2>7. CalcReferenceLength(scorer, r, length) = c
    <3>1. CalcReferenceLength(scorer, r, length) = CalcClosest(r, length)
      BY <1>5 DEF CalcReferenceLength
    <3>2. CalcClosest(r, length)
            = Min({l \in ToSet(a) : Diff(l) = Min({Diff(k) : k \in ToSet(a)})})
      BY DEF CalcClosest, Diff, a
    <3> QED
      BY <1>3, <3>1, <3>2 DEF c, least
  <2> QED
    BY <1>5, <2>6, <2>7 DEF FittingLength, Diff, L, length
<1>6. CASE scorer.reflen = "shortest"
  <2>1. CalcReferenceLength(scorer, r, length) = Min(L)
    BY <1>3, <1>6 DEF CalcReferenceLength, a
  <2> HIDE DEF L
  <2>2. Min(L) \in L /\ \A l \in L : Min(L) <= l
    BY <1>4, MinOfNaturals
  <2> QED
    BY <1>6, <2>1, <2>2 DEF FittingLength, L, length
<1>7. CASE scorer.reflen = "average"
  <2> DEFINE total == FoldLeft(+, 0, a)
             q == total \div n
  <2>1. total = MapThenSumSet(LAMBDA f : Len(texts[f]), DOMAIN texts) /\ total \in Nat
    BY <1>2, LengthsAddUp
  <2>2. CalcReferenceLength(scorer, r, length) = q
    BY <1>2, <1>7 DEF CalcReferenceLength, CalcAverage, a
  <2>3. Cardinality(DOMAIN texts) = n
    <3>1. 1 \in Int /\ n \in Int /\ ~(1 > n) /\ n - 1 + 1 = n
      BY <1>1
    <3> QED
      BY <1>1, <3>1, FS_Interval
  <2> HIDE DEF total, n
  <2>4. q * n <= total /\ total < (q + 1) * n
    BY <1>1, <2>1, QuotientOfParts
  <2> HIDE DEF q
  <2> QED
    BY <1>7, <2>1, <2>2, <2>3, <2>4 DEF FittingLength, length
<1> QED
  BY <1>5, <1>6, <1>7 DEF length

\* The reference sentence that the texts of several files make.
ReferenceOf(v, texts) == FoldLeft(Merged, Reference, [f \in DOMAIN texts |-> Codes(v, texts[f])])

\* The statistics of codes are those of the words.
LEMMA SentenceStatsAreOfWords ==
  ASSUME NEW W, NEW v, IsVocabulary(v, W), NEW scorer,
         scorer.reflen \in {"average", "closest", "shortest"},
         NEW texts \in Seq(Seq(W)), texts # <<>>, \A f \in DOMAIN texts : Known(v, texts[f]),
         NEW words \in Seq(W)
  PROVE  BleuOfWords(scorer, SentenceStats(scorer, ReferenceOf(v, texts), Codes(v, words)),
                     words, texts)
<1> DEFINE told == [f \in DOMAIN texts |-> Codes(v, texts[f])]
           codes == Codes(v, words)
           r == ReferenceOf(v, texts)
           counts == Clipped(CountNgrams(codes, Order), r.counts)
           length == CalcReferenceLength(scorer, r, Len(codes))
           stats == Append(counts, length)
           m == 2 * Order
<1>2. codes \in Seq(Int) /\ Len(codes) = Len(words) /\ \A n : Spots(codes, n) = Spots(words, n)
  BY SpanOfCodes
<1>3. /\ told \in Seq(Seq(Int)) /\ Len(told) = Len(texts)
      /\ \A f \in 1 .. Len(texts) : Len(told[f]) = Len(texts[f])
  <2>1. ASSUME NEW f \in DOMAIN texts
        PROVE  Codes(v, texts[f]) \in Seq(Int) /\ Len(Codes(v, texts[f])) = Len(texts[f])
    <3>1. texts[f] \in Seq(W)
      OBVIOUS
    <3> QED
      BY <3>1, SpanOfCodes
  <2>2. DOMAIN texts = 1 .. Len(texts) /\ Len(texts) \in Nat
    OBVIOUS
  <2>3. told \in [1 .. Len(texts) -> Seq(Int)]
    BY <2>1, <2>2
  <2>4. told \in Seq(Seq(Int)) /\ Len(told) = Len(texts)
    BY <2>2, <2>3
  <2> QED
    BY <2>1, <2>2, <2>4
<1>4. MostOf(r, told, Len(told))
  <2>1. r = FoldLeft(Merged, Reference, told)
    BY DEF ReferenceOf
  <2> HIDE DEF told, r
  <2> QED
    BY <1>3, <2>1, MergedAreMost
<1>5. /\ m \in Nat /\ stats[m + 1] = length
      /\ \A k \in 1 .. m : stats[k] = counts[k]
  <2>1. m \in Nat
    BY OrderAssumption
  <2>2. counts = [k \in 1 .. m |-> counts[k]]
    BY DEF Clipped
  <2> DEFINE V == {counts[k] : k \in 1 .. m} \cup {length}
  <2> HIDE DEF counts, length, m
  <2>3. counts \in [1 .. m -> V] /\ length \in V
    BY <2>2
  <2> HIDE DEF V
  <2>4. counts \in Seq(V) /\ Len(counts) = m
    BY <2>1, <2>3
  <2> QED
    BY <2>1, <2>3, <2>4, AppendProperties
<1>6. FittingLength(scorer, words, texts, length)
  <2>1. /\ r.lengths \in Seq(Nat) /\ Len(r.lengths) = Len(texts)
        /\ \A f \in 1 .. Len(texts) : r.lengths[f] = Len(texts[f])
    <3> HIDE DEF r, told
    <3> QED
      BY <1>3, <1>4 DEF MostOf
  <2> HIDE DEF r, codes
  <2>2. length = CalcReferenceLength(scorer, r, Len(words))
    BY <1>2
  <2>3. FittingLength(scorer, words, texts, CalcReferenceLength(scorer, r, Len(words)))
    <3> HIDE DEF length
    <3>1. r.lengths \in Seq(Nat)
      BY <2>1
    <3>2. Len(r.lengths) = Len(texts)
      BY <2>1
    <3>3. \A f \in 1 .. Len(texts) : r.lengths[f] = Len(texts[f])
      BY <2>1
    <3>4. texts # <<>> /\ scorer.reflen \in {"average", "closest", "shortest"}
      OBVIOUS
    <3> QED
      BY <3>1, <3>2, <3>3, <3>4, LengthIsFitting
  <2> QED
    BY <2>2, <2>3
<1>7. ASSUME NEW n \in 1 .. Order
      PROVE  /\ stats[2 * n - 1] = Cardinality(Covered(words, texts, n))
             /\ stats[2 * n] = Cardinality(Spots(words, n))
  <2>1. n \in Nat \ {0} /\ 2 * n - 1 \in 1 .. m /\ 2 * n \in 1 .. m
    BY OrderAssumption
  <2>2. Covered(codes, told, n) = Covered(words, texts, n)
    <3>1. DOMAIN told = DOMAIN texts /\ \A f \in DOMAIN texts : told[f] = Codes(v, texts[f])
      OBVIOUS
    <3> HIDE DEF told
    <3> QED
      BY <2>1, <3>1, CoveredOfCodes
  <2> HIDE DEF codes, r, told
  <2>3. /\ counts[2 * n - 1] = Cardinality(Covered(codes, told, n))
        /\ counts[2 * n] = Cardinality(Spots(codes, n))
    BY <1>2, <1>3, <1>4, CountsAreClipped
  <2> HIDE DEF counts, stats, m
  <2> QED
    BY <1>2, <1>5, <2>1, <2>2, <2>3
<1>8. SentenceStats(scorer, r, codes) = stats
  BY DEF SentenceStats
<1> HIDE DEF stats, length, counts, r, codes, told
<1> QED
  BY <1>5, <1>6, <1>7, <1>8 DEF r, codes, BleuOfWords

\* What BLEU counts of a line is what its words say, for lines, vocabularies
\* and numbers of references of any size and each order: the right n-grams are
\* clipped to the most any reference has of them, each that there is counts as
\* guessed, and the length is the one the strategy asks for, whatever codes
\* the vocabulary gave the words and although words that are not in any
\* reference share one code (BleuScorer::prepareStats, Reference).
THEOREM BleuStatsAreOfWords ==
  ASSUME NEW W, NEW vocab, IsVocabulary(vocab, W), NEW scorer, NEW refs, NEW sid \in Nat, NEW line,
         scorer.reflen \in {"average", "closest", "shortest"},
         Len(refs) \in Nat, sid <= Len(refs),
         NEW texts \in Seq(Seq(W)), texts # <<>>, \A f \in DOMAIN texts : Known(vocab, texts[f]),
         refs[sid] = ReferenceOf(vocab, texts),
         Preprocessable(scorer, line),
         NEW words \in Seq(W), words = WordsOf(scorer, Preprocessed(scorer, line))
  PROVE  LET prepared == BleuPrepare(scorer, vocab, refs, sid, line)
         IN /\ prepared.ok /\ prepared.vocab = vocab
            /\ BleuOfWords(scorer, prepared.value, words, texts)
<1> DEFINE stats == SentenceStats(scorer, ReferenceOf(vocab, texts), Codes(vocab, words))
           prepared == BleuPrepare(scorer, vocab, refs, sid, line)
<1>1. prepared.ok /\ prepared.vocab = vocab /\ prepared.value = stats
  <2>1. ~(sid > Len(refs))
    OBVIOUS
  <2>2. prepared = Returned(vocab, stats)
    BY <2>1 DEF BleuPrepare, TokenizeAndEncodeTesting, Returned
  <2> HIDE DEF prepared
  <2> QED
    BY <2>2 DEF Returned
<1>2. BleuOfWords(scorer, stats, words, texts)
  BY SentenceStatsAreOfWords
<1> HIDE DEF stats, prepared
<1> QED
  BY <1>1, <1>2 DEF prepared

-----------------------------------------------------------------------------
(* PER.                                                                      *)

CommonCount(zero, c, p) == Min({Count(p.ref, c), Count(p.test, c)})

CommonSum == INSTANCE Folding WITH Op <- CommonCount, Good <- Whatever

\* PER's words in common are those of the line that have their like in the
\* reference, each word of the reference once; the lengths are those of both:
\* for lines and references of any length (PerScorer::prepareStats).
LEMMA PerCountsCodesOnce ==
  ASSUME NEW S, NEW scorer, NEW vocab, NEW refs, NEW sid \in Nat, NEW line, Len(refs) \in Nat,
         sid <= Len(refs), NEW ref \in Seq(S), refs[sid] = ref,
         NEW u, NEW test \in Seq(S), EncodeLine(scorer, vocab, line) = Returned(u, test)
  PROVE  PerPrepare(scorer, vocab, refs, sid, line)
           = Returned(u, <<Cardinality(Covered(test, <<ref>>, 1)), Len(test), Len(ref)>>)
<1> DEFINE encoded == EncodeLine(scorer, vocab, line)
           D == 1 .. Len(test)
           K == ToSet(test)
           p == [ref |-> ref, test |-> test]
           g == [c \in K |-> CommonCount(0, c, p)]
           limit == [c \in K |-> Count(ref, c)]
<1>1. PerPrepare(scorer, vocab, refs, sid, line)
        = Returned(u, <<CommonSum!MappedSum(K, p), Len(test), Len(ref)>>)
  <2>1. ~(sid > Len(refs)) /\ encoded.ok /\ encoded.vocab = u /\ encoded.value = test
    BY DEF Returned
  <2>2. p.ref = ref /\ p.test = test
    OBVIOUS
  <2> HIDE DEF p
  <2>3. CommonSum!MappedSum(K, p)
          = MapThenSumSet(LAMBDA c : Min({Count(ref, c), Count(test, c)}), K)
    BY <2>2 DEF MapThenSumSet, MapThenFoldSet, CommonSum!MappedSum, CommonSum!MappedFrom,
                CommonSum!Pick, CommonCount
  <2> QED
    BY <2>1, <2>3 DEF PerPrepare
<1>2. CommonSum!MappedSum(K, p) = SumFunctionOnSet(g, K)
  <2>1. CommonSum!MappedSum(K, p) = CommonSum!SumFunctionOnSet(g, K)
    BY CommonSum!MappedSumIs
  <2> HIDE DEF g, K, p
  <2>2. CommonSum!SumFunctionOnSet(g, K) = SumFunctionOnSet(g, K)
    BY DEF CommonSum!SumFunctionOnSet, CommonSum!FoldFunctionOnSet, CommonSum!MapThenFoldSet,
           SumFunctionOnSet, FoldFunctionOnSet, MapThenFoldSet
  <2> QED
    BY <2>1, <2>2
<1>3. /\ D \subseteq Nat /\ IsFiniteSet(D) /\ IsFiniteSet(K) /\ DOMAIN test = D
      /\ \A i \in D : test[i] \in K
  <2>1. IsFiniteSet(D) /\ D \subseteq Nat /\ DOMAIN test = D
    <3>1. test \in Seq(S)
      OBVIOUS
    <3>2. Len(test) \in Nat /\ DOMAIN test = 1 .. Len(test)
      BY <3>1
    <3>3. IsFiniteSet(1 .. Len(test))
      BY <3>2, FS_Interval
    <3> QED
      BY <3>2, <3>3
  <2>2. K = {test[i] : i \in D}
    BY <2>1 DEF ToSet
  <2> HIDE DEF D, K
  <2>3. IsFiniteSet(K)
    BY <2>1, <2>2, ValuesAreFinite
  <2> QED
    BY <2>1, <2>2, <2>3
<1>4. ASSUME NEW codes \in Seq(S), NEW c
      PROVE  Count(codes, c) \in Nat /\ IsFiniteSet({i \in DOMAIN codes : codes[i] = c})
  <2>1. IsFiniteSet(DOMAIN codes)
    <3>1. DOMAIN codes = 1 .. Len(codes)
      OBVIOUS
    <3> QED
      BY <3>1, FS_Interval
  <2>2. IsFiniteSet({i \in DOMAIN codes : codes[i] = c})
    BY <2>1, FS_Subset
  <2> QED
    BY <2>2, FS_CardinalityType DEF Count
<1>5. \A c \in K : g[c] = Min({Cardinality(PlacesOf(D, test, c)), limit[c]})
  <2>1. ASSUME NEW c \in K PROVE g[c] = Min({Count(ref, c), Count(test, c)})
    BY DEF CommonCount
  <2>2. ASSUME NEW c PROVE Count(test, c) = Cardinality(PlacesOf(D, test, c))
    <3> HIDE DEF D
    <3> QED
      BY <1>3 DEF Count, PlacesOf
  <2>3. ASSUME NEW x, NEW y PROVE {x, y} = {y, x}
    OBVIOUS
  <2> HIDE DEF g, D
  <2> QED
    BY <2>1, <2>2, <2>3
<1>6. SumFunctionOnSet(g, K) = Cardinality(CountedPlaces(D, test, limit))
  <2>1. \A c \in K : limit[c] \in Nat
    BY <1>4
  <2> HIDE DEF g, D, K, limit
  <2>2. D \subseteq Nat /\ IsFiniteSet(D) /\ IsFiniteSet(K)
    BY <1>3
  <2>3. \A i \in D : test[i] \in K
    BY <1>3
  <2> QED
    BY <1>5, <2>1, <2>2, <2>3, LimitsAddUp
<1>7. CountedPlaces(D, test, limit) = Covered(test, <<ref>>, 1)
  <2>1. ASSUME NEW i \in D PROVE Span(test, i, 1) = <<test[i]>>
    BY SpanOfOne
  <2>2. Spots(test, 1) = D /\ Len(ref) \in Nat
    BY DEF Spots
  <2>3. ASSUME NEW codes \in Seq(S), NEW c \in S
        PROVE  Occurrences(codes, <<c>>) = {j \in DOMAIN codes : codes[j] = c}
    <3>1. Spots(codes, 1) = DOMAIN codes
      BY DEF Spots
    <3>2. ASSUME NEW j \in DOMAIN codes PROVE Span(codes, j, 1) = <<codes[j]>>
      BY SpanOfOne
    <3>3. Len(<<c>>) = 1
      OBVIOUS
    <3>4. \A j \in DOMAIN codes : <<codes[j]>> = <<c>> <=> codes[j] = c
      OBVIOUS
    <3> QED
      BY <3>1, <3>2, <3>3, <3>4 DEF Occurrences
  <2>4. ASSUME NEW i \in D
        PROVE  i \in CountedPlaces(D, test, limit) <=> i \in Covered(test, <<ref>>, 1)
    <3> DEFINE c == test[i]
               O == Occurrences(test, <<c>>)
    <3>1. c \in S /\ c \in K
      BY <1>3
    <3>2. {j \in D : test[j] = c /\ j <= i} = {j \in O : j <= i}
      BY <1>3, <2>3, <3>1
    <3>3. limit[c] = Cardinality(Occurrences(ref, <<c>>))
      BY <2>3, <3>1 DEF Count
    <3>4. i \in Covered(test, <<ref>>, 1) <=>
            Cardinality({j \in O : j <= i}) <= Cardinality(Occurrences(ref, <<c>>))
      <4>1. DOMAIN <<ref>> = {1} /\ <<ref>>[1] = ref
        OBVIOUS
      <4>2. Span(test, i, 1) = <<c>>
        BY <2>1
      <4> HIDE DEF D, c
      <4> QED
        BY <2>2, <4>1, <4>2 DEF Covered
    <3> HIDE DEF D, O, limit
    <3> QED
      BY <3>2, <3>3, <3>4 DEF CountedPlaces
  <2>5. CountedPlaces(D, test, limit) \subseteq D /\ Covered(test, <<ref>>, 1) \subseteq D
    BY <2>2 DEF CountedPlaces, Covered
  <2> HIDE DEF D, limit
  <2> QED
    BY <2>4, <2>5
<1> QED
  BY <1>1, <1>2, <1>6, <1>7

\* PER counts each word of the reference for at most as many words of the line
\* as the reference has of it, whatever their order and their codes, for lines
\* and vocabularies of any length (PerScorer::prepareStats).
THEOREM PerCountsWordsOnce ==
  ASSUME NEW W, NEW vocab, IsVocabulary(vocab, W), NEW scorer, NEW refs, NEW sid \in Nat, NEW line,
         Len(refs) \in Nat, sid <= Len(refs),
         NEW text \in Seq(W), Known(vocab, text), refs[sid] = Codes(vocab, text),
         Preprocessable(scorer, line),
         NEW words \in Seq(W), words = WordsOf(scorer, Preprocessed(scorer, line))
  PROVE  LET prepared == PerPrepare(scorer, vocab, refs, sid, line)
         IN /\ prepared.ok /\ IsVocabulary(prepared.vocab, W)
            /\ prepared.value = <<Cardinality(Covered(words, <<text>>, 1)), Len(words), Len(text)>>
<1> DEFINE u == FoldLeft(Encode, vocab, words)
           encoded == EncodeLine(scorer, vocab, line)
           texts == <<text>>
<1>1. encoded = Returned(u, Codes(u, words))
  <2> HIDE DEF u, encoded
  <2> QED
    BY LineIsEncoded DEF u, encoded
<1>2. encoded.ok /\ encoded.vocab = u /\ encoded.value = Codes(u, words)
  BY <1>1 DEF Returned
<1>3. IsVocabulary(u, W) /\ Known(u, text) /\ refs[sid] = Codes(u, text)
  <2> HIDE DEF u
  <2> QED
    BY CodesStay DEF u
<1> HIDE DEF u, encoded
<1>4. /\ Codes(u, words) \in Seq(Int) /\ Codes(u, text) \in Seq(Int)
      /\ Len(Codes(u, words)) = Len(words) /\ Len(Codes(u, text)) = Len(text)
  BY <1>3, SpanOfCodes
<1>5. PerPrepare(scorer, vocab, refs, sid, line)
        = Returned(u, <<Cardinality(Covered(Codes(u, words), <<refs[sid]>>, 1)),
                        Len(Codes(u, words)), Len(refs[sid])>>)
  <2>1. EncodeLine(scorer, vocab, line) = Returned(u, Codes(u, words))
    BY <1>1 DEF encoded
  <2> QED
    BY <1>3, <1>4, <2>1, PerCountsCodesOnce
<1>6. Covered(Codes(u, words), <<Codes(u, text)>>, 1) = Covered(words, texts, 1)
  <2>1. texts \in Seq(Seq(W)) /\ DOMAIN texts = {1} /\ texts[1] = text
    OBVIOUS
  <2> DEFINE told == <<Codes(u, text)>>
  <2>2. DOMAIN told = DOMAIN texts /\ \A f \in DOMAIN texts : told[f] = Codes(u, texts[f])
    BY <2>1
  <2>3. \A f \in DOMAIN texts : Known(u, texts[f])
    BY <1>3, <2>1
  <2> HIDE DEF texts, told
  <2>4. 1 \in Nat \ {0}
    OBVIOUS
  <2> QED
    <3>1. Covered(Codes(u, words), told, 1) = Covered(words, texts, 1)
      BY <1>3, <2>1, <2>2, <2>3, <2>4, CoveredOfCodes
    <3> QED
      BY <3>1 DEF told
<1> HIDE DEF texts
<1> QED
  BY <1>3, <1>4, <1>5, <1>6 DEF Returned, texts

-----------------------------------------------------------------------------
(* The edits of WER and CDER.                                                *)

\* The table of Edits, from its values for shorter beginnings.
EditsFrom(a, b, lev) ==
  [p \in (0 .. Len(a)) \X (0 .. Len(b)) |->
     LET i == p[1]
         j == p[2]
     IN IF i = 0 \/ j = 0 THEN i + j
        ELSE IF a[i] = b[j] THEN lev[<<i - 1, j - 1>>]
        ELSE 1 + Min({lev[<<i - 1, j>>], lev[<<i, j - 1>>], lev[<<i - 1, j - 1>>]})]

\* The table is there.
LEMMA EditsExist ==
  ASSUME NEW a, NEW b, Len(a) \in Nat, Len(b) \in Nat
  PROVE  \E lev : lev = EditsFrom(a, b, lev)
<1> DEFINE D == (0 .. Len(a)) \X (0 .. Len(b))
           Entry(f, p) ==
             LET i == p[1]
                 j == p[2]
             IN IF i = 0 \/ j = 0 THEN i + j
                ELSE IF a[i] = b[j] THEN f[<<i - 1, j - 1>>]
                ELSE 1 + Min({f[<<i - 1, j>>], f[<<i, j - 1>>], f[<<i - 1, j - 1>>]})
           Upto(k) == \E f : \A p \in D : p[1] + p[2] < k => f[p] = Entry(f, p)
           n == Len(a) + Len(b) + 1
           B == {k \in 0 .. n : ~Upto(k)}
<1>1. \A p \in D : p[1] \in Nat /\ p[2] \in Nat /\ p[1] + p[2] \in Nat /\ p[1] + p[2] < n
  OBVIOUS
<1>2. ASSUME NEW f, NEW h, NEW k \in Nat, NEW p \in D, p[1] + p[2] <= k,
             \A q \in D : q[1] + q[2] < k => h[q] = f[q]
      PROVE  Entry(h, p) = Entry(f, p)
  <2>1. CASE p[1] = 0 \/ p[2] = 0
    BY <2>1
  <2>2. CASE ~(p[1] = 0 \/ p[2] = 0)
    <3>1. /\ <<p[1] - 1, p[2]>> \in D /\ <<p[1], p[2] - 1>> \in D /\ <<p[1] - 1, p[2] - 1>> \in D
          /\ p[1] - 1 + p[2] < k /\ p[1] + (p[2] - 1) < k /\ p[1] - 1 + (p[2] - 1) < k
      <4>1. p[1] \in 0 .. Len(a) /\ p[2] \in 0 .. Len(b) /\ p[1] # 0 /\ p[2] # 0
        BY <2>2
      <4>2. p[1] + p[2] <= k
        BY <1>2
      <4> HIDE DEF Entry, B, Upto, n
      <4>3. p[1] - 1 \in 0 .. Len(a) /\ p[2] - 1 \in 0 .. Len(b)
        BY <4>1
      <4>4. p[1] - 1 + p[2] < k /\ p[1] + (p[2] - 1) < k /\ p[1] - 1 + (p[2] - 1) < k
        BY <4>1, <4>2
      <4> QED
        BY <4>1, <4>3, <4>4
    <3>2. /\ h[<<p[1] - 1, p[2]>>] = f[<<p[1] - 1, p[2]>>]
          /\ h[<<p[1], p[2] - 1>>] = f[<<p[1], p[2] - 1>>]
          /\ h[<<p[1] - 1, p[2] - 1>>] = f[<<p[1] - 1, p[2] - 1>>]
      BY <1>2, <3>1
    <3> QED
      BY <3>2
  <2> QED
    BY <2>1, <2>2
<1>3. Upto(n)
  <2> SUFFICES ASSUME B # {} PROVE FALSE
    <3>1. n \in 0 .. n
      OBVIOUS
    <3> HIDE DEF Upto
    <3> QED
      BY <3>1
  <2>1. PICK k \in B : \A l \in B : k <= l
    <3>1. B \subseteq Nat
      OBVIOUS
    <3> HIDE DEF B
    <3> QED
      BY <3>1, LeastNat
  <2>2. k \in 0 .. n /\ ~Upto(k)
    BY <2>1
  <2>3. CASE k = 0
    <3>1. ASSUME NEW p \in D PROVE ~(p[1] + p[2] < 0)
      <4>1. p[1] + p[2] \in Nat
        BY <1>1
      <4> QED
        BY <4>1
    <3>2. Upto(0)
      BY <3>1
    <3> QED
      BY <2>2, <2>3, <3>2
  <2>4. CASE k # 0
    <3>1. k - 1 \in 0 .. n /\ ~(k <= k - 1) /\ k - 1 \in Nat
      BY <2>2, <2>4
    <3>2. Upto(k - 1)
      <4> HIDE DEF Upto
      <4> QED
        BY <2>1, <3>1
    <3>3. PICK f : \A p \in D : p[1] + p[2] < k - 1 => f[p] = Entry(f, p)
      BY <3>2
    <3> DEFINE h == [p \in D |-> IF p[1] + p[2] < k - 1 THEN f[p] ELSE Entry(f, p)]
    <3> HIDE DEF Entry, D
    <3>4. \A p \in D : h[p] = IF p[1] + p[2] < k - 1 THEN f[p] ELSE Entry(f, p)
      OBVIOUS
    <3>5. ASSUME NEW p \in D, p[1] + p[2] < k PROVE h[p] = Entry(h, p)
      <4>1. p[1] + p[2] <= k - 1
        BY <1>1, <2>2, <3>5
      <4>2. \A q \in D : q[1] + q[2] < k - 1 => h[q] = f[q]
        BY <3>4
      <4> HIDE DEF h
      <4>3. Entry(h, p) = Entry(f, p)
        BY <1>2, <3>1, <4>1, <4>2
      <4> QED
        BY <3>3, <3>4, <4>3
    <3> HIDE DEF h
    <3>6. Upto(k)
      BY <3>5
    <3> QED
      BY <2>2, <3>6
  <2> QED
    BY <2>3, <2>4
<1>4. PICK f : \A p \in D : f[p] = Entry(f, p)
  BY <1>1, <1>3
<1> DEFINE lev == [p \in D |-> f[p]]
<1>5. ASSUME NEW p \in D PROVE f[p] = Entry(lev, p)
  <2>1. p[1] + p[2] <= p[1] + p[2] /\ p[1] + p[2] \in Nat
    BY <1>1
  <2>2. \A q \in D : lev[q] = f[q]
    OBVIOUS
  <2> HIDE DEF lev, Entry, D
  <2>3. Entry(lev, p) = Entry(f, p)
    BY <1>2, <2>1, <2>2
  <2> QED
    BY <1>4, <2>3
<1>6. lev = [p \in D |-> Entry(lev, p)]
  <2> HIDE DEF Entry, D
  <2> QED
    BY <1>5
<1> HIDE DEF lev
<1>7. lev = EditsFrom(a, b, lev)
  BY <1>6 DEF EditsFrom
<1> QED
  BY <1>7

\* What Edits gives is the last entry of such a table.
LEMMA EditsAreChosen ==
  ASSUME NEW a, NEW b, Len(a) \in Nat, Len(b) \in Nat
  PROVE  \E lev : lev = EditsFrom(a, b, lev) /\ Edits(a, b) = lev[<<Len(a), Len(b)>>]
<1>1. Edits(a, b) = (CHOOSE lev : lev = EditsFrom(a, b, lev))[<<Len(a), Len(b)>>]
  BY DEF Edits, EditsFrom
<1> DEFINE c == CHOOSE lev : lev = EditsFrom(a, b, lev)
<1>2. c = EditsFrom(a, b, c)
  BY EditsExist
<1> HIDE DEF c
<1>3. Edits(a, b) = c[<<Len(a), Len(b)>>]
  BY <1>1 DEF c
<1> QED
  BY <1>2, <1>3


\* The least of three numbers.
IsLeast(v, x, y, z) == v \in {x, y, z} /\ v <= x /\ v <= y /\ v <= z

LEMMA MinOfThree ==
  ASSUME NEW x \in Int, NEW y \in Int, NEW z \in Int
  PROVE  IsLeast(Min({x, y, z}), x, y, z)
<1>1. \E v \in {x, y, z} : \A w \in {x, y, z} : v <= w
  OBVIOUS
<1>2. /\ Min({x, y, z}) \in {x, y, z}
      /\ \A w \in {x, y, z} : Min({x, y, z}) <= w
  BY <1>1 DEF Min
<1> QED
  BY <1>2 DEF IsLeast

\* The least of no more is no more.
LEMMA LeastIsMonotone ==
  ASSUME NEW x \in Nat, NEW y \in Nat, NEW z \in Nat, NEW v, IsLeast(v, x, y, z),
         NEW a \in Nat, NEW b \in Nat, NEW c \in Nat, NEW w, IsLeast(w, a, b, c),
         x <= a, y <= b, z <= c
  PROVE  v <= w /\ (x = a /\ y = b /\ z = c => v = w)
BY DEF IsLeast

\* What a word costs at the place of another.
Unlike(v, w) == IF v = w THEN 0 ELSE 1

\* The neighbours in the table differ by at most one, which is why equal words
\* can be passed without looking at the neighbours.
Near(lev, i, j) ==
  /\ lev[<<i, j>>] \in Nat
  /\ i > 0 => lev[<<i, j>>] <= lev[<<i - 1, j>>] + 1 /\ lev[<<i - 1, j>>] <= lev[<<i, j>>] + 1
  /\ j > 0 => lev[<<i, j>>] <= lev[<<i, j - 1>>] + 1 /\ lev[<<i, j - 1>>] <= lev[<<i, j>>] + 1

LEMMA TableIsNear ==
  ASSUME NEW a, NEW b, Len(a) \in Nat, Len(b) \in Nat, NEW lev, lev = EditsFrom(a, b, lev)
  PROVE  \A i \in 0 .. Len(a), j \in 0 .. Len(b) : Near(lev, i, j)
<1> DEFINE n == Len(a) + Len(b)
           Upto(k) == \A i \in 0 .. Len(a), j \in 0 .. Len(b) : i + j = k => Near(lev, i, j)
           B == {k \in 0 .. n : ~Upto(k)}
<1>1. ASSUME NEW i \in 0 .. Len(a), NEW j \in 0 .. Len(b)
      PROVE  lev[<<i, j>>] = IF i = 0 \/ j = 0 THEN i + j
                             ELSE IF a[i] = b[j] THEN lev[<<i - 1, j - 1>>]
                             ELSE 1 + Min({lev[<<i - 1, j>>], lev[<<i, j - 1>>],
                                           lev[<<i - 1, j - 1>>]})
  <2>1. <<i, j>> \in (0 .. Len(a)) \X (0 .. Len(b)) /\ <<i, j>>[1] = i /\ <<i, j>>[2] = j
    OBVIOUS
  <2> QED
    BY <2>1 DEF EditsFrom
<1>2. SUFFICES ASSUME B # {} PROVE FALSE
  <2>1. ASSUME NEW i \in 0 .. Len(a), NEW j \in 0 .. Len(b) PROVE i + j \in 0 .. n
    OBVIOUS
  <2>2. \A k \in 0 .. n : Upto(k)
    <3> HIDE DEF Upto
    <3> QED
      OBVIOUS
  <2> QED
    BY <2>1, <2>2
<1>3. PICK k \in B : \A l \in B : k <= l
  <2>1. B \subseteq Nat
    OBVIOUS
  <2> HIDE DEF B
  <2> QED
    BY <1>2, <2>1, LeastNat
<1>4. PICK i \in 0 .. Len(a), j \in 0 .. Len(b) : i + j = k /\ ~Near(lev, i, j)
  BY <1>3
<1>5. ASSUME NEW x \in 0 .. Len(a), NEW y \in 0 .. Len(b), x + y < i + j
      PROVE  Near(lev, x, y)
  <2>1. x + y \in 0 .. n /\ ~(k <= x + y)
    BY <1>4, <1>5
  <2>2. Upto(x + y)
    <3> HIDE DEF Upto
    <3> QED
      BY <1>3, <2>1
  <2> QED
    BY <2>2
<1>6. CASE i = 0 \/ j = 0
  <2>1. lev[<<i, j>>] = i + j
    BY <1>1, <1>6
  <2>2. ASSUME i > 0 PROVE lev[<<i - 1, j>>] = i - 1 + j
    <3>1. i - 1 \in 0 .. Len(a) /\ j = 0
      BY <1>6, <2>2
    <3> QED
      BY <1>1, <3>1, Zenon
  <2>3. ASSUME j > 0 PROVE lev[<<i, j - 1>>] = i + (j - 1)
    <3>1. j - 1 \in 0 .. Len(b) /\ i = 0
      BY <1>6, <2>3
    <3> QED
      BY <1>1, <3>1, Zenon
  <2>4. Near(lev, i, j)
    BY <2>1, <2>2, <2>3 DEF Near
  <2> QED
    BY <1>4, <2>4
<1>7. CASE ~(i = 0 \/ j = 0)
  <2> DEFINE c == lev[<<i - 1, j - 1>>]
             u == lev[<<i - 1, j>>]
             l == lev[<<i, j - 1>>]
  <2>1. i - 1 \in 0 .. Len(a) /\ j - 1 \in 0 .. Len(b) /\ i > 0 /\ j > 0
    BY <1>7
  <2>2. Near(lev, i - 1, j - 1) /\ Near(lev, i - 1, j) /\ Near(lev, i, j - 1)
    BY <1>5, <2>1
  <2>3. /\ c \in Nat /\ u \in Nat /\ l \in Nat
        /\ u <= c + 1 /\ c <= u + 1 /\ l <= c + 1 /\ c <= l + 1
    BY <2>1, <2>2 DEF Near
  <2>4. CASE a[i] = b[j]
    <3>1. lev[<<i, j>>] = c
      BY <1>1, <1>7, <2>4
    <3> QED
      BY <1>4, <2>3, <3>1 DEF Near
  <2>5. CASE a[i] # b[j]
    <3>1. lev[<<i, j>>] = 1 + Min({u, l, c})
      BY <1>1, <1>7, <2>5
    <3> HIDE DEF c, u, l
    <3>2. IsLeast(Min({u, l, c}), u, l, c)
      BY <2>3, MinOfThree
    <3> DEFINE v == Min({u, l, c})
    <3> HIDE DEF v
    <3>3. v \in {u, l, c} /\ v <= u /\ v <= l /\ v <= c
      BY <3>2 DEF IsLeast, v
    <3>4. 1 + v \in Nat /\ 1 + v <= u + 1 /\ u <= 1 + v + 1 /\ 1 + v <= l + 1 /\ l <= 1 + v + 1
      BY <2>3, <3>3
    <3>5. lev[<<i, j>>] = 1 + v
      BY <3>1 DEF v
    <3>6. Near(lev, i, j)
      BY <3>4, <3>5 DEF Near, u, l
    <3> QED
      BY <1>4, <3>6
  <2> QED
    BY <2>4, <2>5
<1> QED
  BY <1>6, <1>7

\* The table as CderScorer fills it: the least of a deletion, an insertion and
\* a substitution.
LEMMA TableIsLeast ==
  ASSUME NEW a, NEW b, Len(a) \in Nat, Len(b) \in Nat, NEW lev, lev = EditsFrom(a, b, lev)
  PROVE  /\ \A i \in 0 .. Len(a), j \in 0 .. Len(b) : lev[<<i, j>>] \in Nat
         /\ \A i \in 0 .. Len(a) : lev[<<i, 0>>] = i
         /\ \A j \in 0 .. Len(b) : lev[<<0, j>>] = j
         /\ \A i \in 1 .. Len(a), j \in 1 .. Len(b) :
              IsLeast(lev[<<i, j>>], lev[<<i - 1, j>>] + 1, lev[<<i, j - 1>>] + 1,
                      lev[<<i - 1, j - 1>>] + Unlike(a[i], b[j]))
<1>1. ASSUME NEW i \in 0 .. Len(a), NEW j \in 0 .. Len(b)
      PROVE  lev[<<i, j>>] = IF i = 0 \/ j = 0 THEN i + j
                             ELSE IF a[i] = b[j] THEN lev[<<i - 1, j - 1>>]
                             ELSE 1 + Min({lev[<<i - 1, j>>], lev[<<i, j - 1>>],
                                           lev[<<i - 1, j - 1>>]})
  <2>1. <<i, j>> \in (0 .. Len(a)) \X (0 .. Len(b)) /\ <<i, j>>[1] = i /\ <<i, j>>[2] = j
    OBVIOUS
  <2> QED
    BY <2>1 DEF EditsFrom
<1>2. \A i \in 0 .. Len(a), j \in 0 .. Len(b) : Near(lev, i, j)
  BY TableIsNear
<1>3. \A i \in 0 .. Len(a), j \in 0 .. Len(b) : lev[<<i, j>>] \in Nat
  BY <1>2 DEF Near
<1>4. ASSUME NEW i \in 0 .. Len(a) PROVE lev[<<i, 0>>] = i
  <2>1. 0 \in 0 .. Len(b) /\ i + 0 = i
    OBVIOUS
  <2> QED
    BY <1>1, <2>1, Zenon
<1>5. ASSUME NEW j \in 0 .. Len(b) PROVE lev[<<0, j>>] = j
  <2>1. 0 \in 0 .. Len(a) /\ 0 + j = j
    OBVIOUS
  <2> QED
    BY <1>1, <2>1, Zenon
<1>6. ASSUME NEW i \in 1 .. Len(a), NEW j \in 1 .. Len(b)
      PROVE  IsLeast(lev[<<i, j>>], lev[<<i - 1, j>>] + 1, lev[<<i, j - 1>>] + 1,
                     lev[<<i - 1, j - 1>>] + Unlike(a[i], b[j]))
  <2> DEFINE c == lev[<<i - 1, j - 1>>]
             u == lev[<<i - 1, j>>]
             l == lev[<<i, j - 1>>]
  <2>1. /\ i - 1 \in 0 .. Len(a) /\ j - 1 \in 0 .. Len(b) /\ i > 0 /\ j > 0 /\ i \in 0 .. Len(a)
        /\ j \in 0 .. Len(b) /\ ~(i = 0 \/ j = 0)
    OBVIOUS
  <2>2. Near(lev, i - 1, j) /\ Near(lev, i, j - 1)
    BY <1>2, <2>1
  <2>3. /\ c \in Nat /\ u \in Nat /\ l \in Nat /\ c <= u + 1 /\ c <= l + 1
    BY <1>3, <2>1, <2>2 DEF Near
  <2>4. CASE a[i] = b[j]
    <3>1. lev[<<i, j>>] = c
      BY <1>1, <2>1, <2>4
    <3>2. Unlike(a[i], b[j]) = 0
      BY <2>4 DEF Unlike
    <3> QED
      BY <2>3, <3>1, <3>2 DEF IsLeast
  <2>5. CASE a[i] # b[j]
    <3>1. lev[<<i, j>>] = 1 + Min({u, l, c})
      BY <1>1, <2>1, <2>5
    <3>2. Unlike(a[i], b[j]) = 1
      BY <2>5 DEF Unlike
    <3> HIDE DEF c, u, l
    <3>3. IsLeast(Min({u, l, c}), u, l, c)
      BY <2>3, MinOfThree
    <3>4. IsLeast(1 + Min({u, l, c}), u + 1, l + 1, c + 1)
      BY <2>3, <3>3 DEF IsLeast
    <3> QED
      BY <3>1, <3>2, <3>4 DEF c, u, l
  <2> QED
    BY <2>4, <2>5
<1> QED
  BY <1>3, <1>4, <1>5, <1>6


\* The loops of computeCD: the costs of a row, and the rows.
CostAdded(acc, i, p) ==
  Append(acc, Min({acc[i] + 1, p.row[i + 1] + 1,
                   p.row[i] + (IF p.cand[i] = p.word THEN 0 ELSE 1)}))

RowAdded(row, word, p) == NextRow(p.cand, row, word, p.longJumps)

CostFold == INSTANCE Folding WITH Op <- CostAdded, Good <- Whatever
RowFold == INSTANCE Folding WITH Op <- RowAdded, Good <- Whatever

\* A row before jumps.
AreCosts(cand, row, word, costs) ==
  /\ costs \in [1 .. Len(cand) + 1 -> Nat]
  /\ costs[1] = row[1] + 1
  /\ \A t \in 1 .. Len(cand) :
       IsLeast(costs[t + 1], costs[t] + 1, row[t + 1] + 1, row[t] + Unlike(cand[t], word))

\* A row with jumps: no cost is more, and what is less is one more than a cost.
AreJumped(costs, new, longJumps) ==
  /\ new \in [DOMAIN costs -> Nat]
  /\ ~longJumps => new = costs
  /\ \A i \in DOMAIN costs : /\ new[i] <= costs[i]
                             /\ new[i] = costs[i] \/ \E t \in DOMAIN costs : new[i] = 1 + costs[t]

LEMMA CostsAreLeast ==
  ASSUME NEW cand, Len(cand) \in Nat, NEW row \in [1 .. Len(cand) + 1 -> Nat], NEW word
  PROVE  AreCosts(cand, row, word,
                  CostFold!Folded(Integers1To(Len(cand)), <<row[1] + 1>>,
                                  [cand |-> cand, row |-> row, word |-> word]))
<1> DEFINE m == Len(cand)
           p == [cand |-> cand, row |-> row, word |-> word]
           seq == Integers1To(m)
<1>1. DOMAIN seq = 1 .. m /\ \A i \in 1 .. m : seq[i] = i
  BY DEF Integers1To
<1>2. p.cand = cand /\ p.row = row /\ p.word = word
  OBVIOUS
<1>3. PICK g : /\ g[0] = <<row[1] + 1>>
               /\ \A i \in 1 .. m : g[i] = CostAdded(g[i - 1], seq[i], p)
               /\ CostFold!Folded(seq, <<row[1] + 1>>, p) = g[m]
  <2>1. CostFold!IsFold(m, seq, <<row[1] + 1>>, p, CostFold!Folded(seq, <<row[1] + 1>>, p))
    <3> HIDE DEF seq, p
    <3> QED
      BY <1>1, CostFold!FoldSteps
  <2> HIDE DEF seq, p
  <2> QED
    BY <2>1 DEF CostFold!IsFold
<1>4. ASSUME NEW i \in 1 .. m
      PROVE  g[i] = Append(g[i - 1], Min({g[i - 1][i] + 1, row[i + 1] + 1,
                                          row[i] + Unlike(cand[i], word)}))
  BY <1>1, <1>2, <1>3 DEF CostAdded, Unlike
<1> HIDE DEF p, seq
<1> DEFINE Right(i) ==
             /\ g[i] \in Seq(Nat) /\ Len(g[i]) = i + 1 /\ g[i][1] = row[1] + 1
             /\ \A t \in 1 .. i :
                  IsLeast(g[i][t + 1], g[i][t] + 1, row[t + 1] + 1, row[t] + Unlike(cand[t], word))
           B == {i \in 0 .. m : ~Right(i)}
<1>5. Right(0)
  <2>1. row[1] \in Nat
    OBVIOUS
  <2> QED
    BY <1>3, <2>1
<1>6. ASSUME NEW i \in 1 .. m, Right(i - 1) PROVE Right(i)
  <2> DEFINE old == g[i - 1]
             v == Min({old[i] + 1, row[i + 1] + 1, row[i] + Unlike(cand[i], word)})
  <2>1. /\ old \in Seq(Nat) /\ Len(old) = i /\ old[1] = row[1] + 1
        /\ \A t \in 1 .. i - 1 :
             IsLeast(old[t + 1], old[t] + 1, row[t + 1] + 1, row[t] + Unlike(cand[t], word))
    BY <1>6
  <2>2. g[i] = Append(old, v)
    BY <1>4
  <2> HIDE DEF old
  <2>3. old[i] \in Nat /\ row[i + 1] \in Nat /\ row[i] \in Nat /\ Unlike(cand[i], word) \in Nat
    <3>1. i \in 1 .. Len(old) /\ i \in 1 .. m + 1 /\ i + 1 \in 1 .. m + 1
      BY <2>1
    <3>2. Unlike(cand[i], word) \in Nat
      BY DEF Unlike
    <3>3. old[i] \in Nat
      BY <2>1, <3>1
    <3> QED
      BY <3>1, <3>2, <3>3
  <2>4. IsLeast(v, old[i] + 1, row[i + 1] + 1, row[i] + Unlike(cand[i], word))
    <3> DEFINE x == old[i] + 1
               y == row[i + 1] + 1
               z == row[i] + Unlike(cand[i], word)
    <3>1. x \in Int /\ y \in Int /\ z \in Int
      BY <2>3
    <3> HIDE DEF x, y, z
    <3>2. IsLeast(Min({x, y, z}), x, y, z)
      BY <3>1, MinOfThree
    <3> QED
      BY <3>2 DEF x, y, z
  <2>5. v \in Nat
    BY <2>3, <2>4 DEF IsLeast
  <2> HIDE DEF v
  <2>6. /\ g[i] \in Seq(Nat) /\ Len(g[i]) = i + 1 /\ g[i][i + 1] = v
        /\ \A t \in 1 .. i : g[i][t] = old[t]
    BY <2>1, <2>2, <2>5
  <2>7. ASSUME NEW t \in 1 .. i
        PROVE  IsLeast(g[i][t + 1], g[i][t] + 1, row[t + 1] + 1, row[t] + Unlike(cand[t], word))
    <3>1. CASE t = i
      BY <2>4, <2>6, <3>1
    <3>2. CASE t # i
      <4>1. t \in 1 .. i - 1 /\ t + 1 \in 1 .. i
        BY <3>2
      <4>2. g[i][t] = old[t] /\ g[i][t + 1] = old[t + 1]
        BY <2>6, <4>1
      <4> QED
        BY <2>1, <4>1, <4>2
    <3> QED
      BY <3>1, <3>2
  <2>8. g[i][1] = row[1] + 1
    BY <2>1, <2>6
  <2> QED
    BY <2>6, <2>7, <2>8
<1>7. Right(m)
  <2> SUFFICES ASSUME B # {} PROVE FALSE
    <3>1. m \in 0 .. m
      OBVIOUS
    <3> HIDE DEF Right
    <3> QED
      BY <3>1
  <2>1. PICK i \in B : \A l \in B : i <= l
    <3>1. B \subseteq Nat
      OBVIOUS
    <3> HIDE DEF B
    <3> QED
      BY <3>1, LeastNat
  <2> HIDE DEF Right
  <2>2. i \in 0 .. m /\ ~Right(i) /\ i # 0
    BY <1>5, <2>1
  <2>3. i \in 1 .. m /\ i - 1 \in 0 .. m /\ ~(i <= i - 1)
    BY <2>2
  <2>4. Right(i - 1)
    BY <2>1, <2>3
  <2> QED
    BY <1>6, <2>2, <2>3, <2>4
<1>8. g[m] \in [1 .. m + 1 -> Nat]
  BY <1>7
<1> QED
  BY <1>3, <1>7, <1>8 DEF AreCosts, seq, p

LEMMA NextRowIs ==
  ASSUME NEW cand, Len(cand) \in Nat, NEW row \in [1 .. Len(cand) + 1 -> Nat], NEW word,
         NEW longJumps \in BOOLEAN
  PROVE  \E costs : /\ AreCosts(cand, row, word, costs)
                    /\ AreJumped(costs, NextRow(cand, row, word, longJumps), longJumps)
<1> DEFINE costs == CostFold!Folded(Integers1To(Len(cand)), <<row[1] + 1>>,
                                    [cand |-> cand, row |-> row, word |-> word])
           jump == 1 + Min(ToSet(costs))
           new == IF longJumps THEN [i \in DOMAIN costs |-> Min({costs[i], jump})] ELSE costs
<1>1. AreCosts(cand, row, word, costs)
  BY CostsAreLeast
<1>2. NextRow(cand, row, word, longJumps) = new
  BY DEF NextRow, FoldLeft, MapThenFoldSet, Max, CostFold!Folded,
         CostFold!FoldsFrom, CostFold!Max, CostAdded
<1> HIDE DEF costs
<1>3. costs \in [1 .. Len(cand) + 1 -> Nat]
  BY <1>1 DEF AreCosts
<1>4. 1 \in 1 .. Len(cand) + 1 /\ DOMAIN costs = 1 .. Len(cand) + 1
  BY <1>3
<1>5. PICK t \in DOMAIN costs : Min(ToSet(costs)) = costs[t]
  <2>1. ToSet(costs) \subseteq Nat /\ ToSet(costs) # {}
    BY <1>3, <1>4 DEF ToSet
  <2>2. Min(ToSet(costs)) \in ToSet(costs)
    BY <2>1, MinOfNaturals
  <2> QED
    BY <2>2 DEF ToSet
<1>6. jump = 1 + costs[t] /\ jump \in Nat
  BY <1>3, <1>5
<1> HIDE DEF jump
<1>7. ASSUME NEW i \in DOMAIN costs
      PROVE  LET v == Min({costs[i], jump}) IN v \in Nat /\ v <= costs[i] /\ v \in {costs[i], jump}
  <2>1. {costs[i], jump} \subseteq Nat /\ {costs[i], jump} # {} /\ costs[i] \in {costs[i], jump}
    BY <1>3, <1>6
  <2>2. /\ Min({costs[i], jump}) \in {costs[i], jump}
        /\ \A y \in {costs[i], jump} : Min({costs[i], jump}) <= y
    BY <2>1, MinOfNaturals
  <2> QED
    BY <2>1, <2>2
<1>8. CASE longJumps
  <2>1. new = [i \in DOMAIN costs |-> Min({costs[i], jump})]
    BY <1>8 DEF jump
  <2> HIDE DEF new
  <2>2. new \in [DOMAIN costs -> Nat]
    BY <1>7, <2>1
  <2>3. \A i \in DOMAIN costs : new[i] <= costs[i] /\ (new[i] = costs[i] \/ new[i] = 1 + costs[t])
    BY <1>6, <1>7, <2>1
  <2>4. AreJumped(costs, new, longJumps)
    BY <1>8, <2>2, <2>3 DEF AreJumped
  <2> QED
    BY <1>1, <1>2, <2>4 DEF new
<1>9. CASE ~longJumps
  <2>1. new = costs
    BY <1>9
  <2>2. AreJumped(costs, costs, longJumps)
    BY <1>3, <1>4, <1>9 DEF AreJumped
  <2> QED
    BY <1>1, <1>2, <2>1, <2>2
<1> QED
  BY <1>8, <1>9


\* The words that are missing of the first k of a reference.
Missed(cand, ref, k) == {w \in {ref[t] : t \in 1 .. k} : w \notin ToSet(cand)}

LEMMA MissedGrows ==
  ASSUME NEW cand, NEW ref, NEW k \in Nat
  PROVE  /\ Cardinality(Missed(cand, ref, k)) \in Nat
         /\ k = 0 => Cardinality(Missed(cand, ref, k)) = 0
         /\ k > 0 => /\ Cardinality(Missed(cand, ref, k))
                          <= Cardinality(Missed(cand, ref, k - 1)) + 1
                     /\ ref[k] \in ToSet(cand) =>
                          Missed(cand, ref, k) = Missed(cand, ref, k - 1)
<1>1. ASSUME NEW j \in Nat
      PROVE  IsFiniteSet(Missed(cand, ref, j)) /\ Cardinality(Missed(cand, ref, j)) \in Nat
  <2> DEFINE f == [t \in 1 .. j |-> ref[t]]
  <2>1. IsFiniteSet(1 .. j)
    BY FS_Interval
  <2>2. IsFiniteSet({f[t] : t \in 1 .. j})
    BY <2>1, ValuesAreFinite
  <2>3. Missed(cand, ref, j) \subseteq {f[t] : t \in 1 .. j}
    BY DEF Missed
  <2>4. IsFiniteSet(Missed(cand, ref, j))
    BY <2>2, <2>3, FS_Subset
  <2> QED
    BY <2>4, FS_CardinalityType
<1>2. CASE k = 0
  <2>1. Missed(cand, ref, 0) = {}
    BY DEF Missed
  <2> QED
    BY <1>1, <1>2, <2>1, FS_EmptySet
<1>3. CASE k > 0
  <2>1. k - 1 \in Nat /\ 1 .. k = (1 .. k - 1) \cup {k}
    BY <1>3
  <2>2. {ref[t] : t \in 1 .. k} = {ref[t] : t \in 1 .. k - 1} \cup {ref[k]}
    BY <2>1
  <2>3. CASE ref[k] \in ToSet(cand)
    <3>1. Missed(cand, ref, k) = Missed(cand, ref, k - 1)
      BY <2>2, <2>3 DEF Missed
    <3> QED
      BY <1>1, <1>3, <2>1, <3>1
  <2>4. CASE ref[k] \notin ToSet(cand)
    <3> DEFINE M == Missed(cand, ref, k - 1)
    <3>1. Missed(cand, ref, k) = M \cup {ref[k]}
      BY <2>2, <2>4 DEF Missed
    <3>2. IsFiniteSet(M) /\ Cardinality(M) \in Nat
      BY <1>1, <2>1
    <3> HIDE DEF M
    <3>3. Cardinality(M \cup {ref[k]}) <= Cardinality(M) + 1
      BY <3>2, FS_AddElement
    <3> QED
      BY <1>1, <1>3, <2>4, <3>1, <3>3 DEF M
  <2> QED
    BY <2>3, <2>4
<1> QED
  BY <1>2, <1>3

\* The cost of i words of the candidate against k of the reference.
IsCost(cand, ref, lev, exact, i, k, cost) ==
  /\ cost \in Nat /\ cost <= lev[<<i, k>>]
  /\ exact => cost = lev[<<i, k>>]
  /\ Cardinality(Missed(cand, ref, k)) <= cost
  /\ cost = 0 => i = k /\ \A t \in 1 .. k : cand[t] = ref[t]

AreRowCosts(cand, ref, lev, exact, k, row) ==
  /\ row \in [1 .. Len(cand) + 1 -> Nat]
  /\ \A i \in 0 .. Len(cand) : IsCost(cand, ref, lev, exact, i, k, row[i + 1])

LEMMA CostsOfNextRow ==
  ASSUME NEW cand, Len(cand) \in Nat, DOMAIN cand = 1 .. Len(cand),
         NEW ref, Len(ref) \in Nat, NEW lev, lev = EditsFrom(cand, ref, lev),
         NEW exact \in BOOLEAN, NEW k \in 1 .. Len(ref), NEW row,
         AreRowCosts(cand, ref, lev, exact, k - 1, row),
         NEW costs, AreCosts(cand, row, ref[k], costs)
  PROVE  AreRowCosts(cand, ref, lev, exact, k, costs)
<1> DEFINE m == Len(cand)
           Right(i) == IsCost(cand, ref, lev, exact, i, k, costs[i + 1])
           B == {i \in 0 .. m : ~Right(i)}
           missed == Cardinality(Missed(cand, ref, k))
           before == Cardinality(Missed(cand, ref, k - 1))
<1>1. /\ costs \in [1 .. m + 1 -> Nat] /\ costs[1] = row[1] + 1
      /\ \A t \in 1 .. m :
           IsLeast(costs[t + 1], costs[t] + 1, row[t + 1] + 1, row[t] + Unlike(cand[t], ref[k]))
  BY DEF AreCosts
<1>2. /\ row \in [1 .. m + 1 -> Nat]
      /\ \A i \in 0 .. m : IsCost(cand, ref, lev, exact, i, k - 1, row[i + 1])
  BY DEF AreRowCosts
<1>3. /\ \A i \in 0 .. m, j \in 0 .. Len(ref) : lev[<<i, j>>] \in Nat
      /\ \A j \in 0 .. Len(ref) : lev[<<0, j>>] = j
      /\ \A i \in 1 .. m, j \in 1 .. Len(ref) :
           IsLeast(lev[<<i, j>>], lev[<<i - 1, j>>] + 1, lev[<<i, j - 1>>] + 1,
                   lev[<<i - 1, j - 1>>] + Unlike(cand[i], ref[j]))
  BY TableIsLeast
<1>4. k \in Nat /\ k > 0 /\ k - 1 \in Nat /\ k \in 0 .. Len(ref) /\ k - 1 \in 0 .. Len(ref)
  OBVIOUS
<1>5. /\ missed \in Nat /\ before \in Nat /\ missed <= before + 1
      /\ ref[k] \in ToSet(cand) => missed = before
  BY <1>4, MissedGrows
<1> HIDE DEF missed, before, m
<1>6. Right(0)
  <2>1. IsCost(cand, ref, lev, exact, 0, k - 1, row[1])
    <3>1. 0 \in 0 .. m /\ 0 + 1 = 1
      BY DEF m
    <3> QED
      BY <1>2, <3>1
  <2>2. lev[<<0, k - 1>>] = k - 1 /\ lev[<<0, k>>] = k
    BY <1>3, <1>4
  <2>3. row[1] \in Nat /\ row[1] <= k - 1 /\ (exact => row[1] = k - 1) /\ before <= row[1]
    BY <2>1, <2>2 DEF IsCost, before
  <2>4. /\ costs[1] \in Nat /\ costs[1] <= k /\ (exact => costs[1] = k) /\ missed <= costs[1]
        /\ costs[1] # 0
    BY <1>1, <1>4, <1>5, <2>3
  <2>5. 0 + 1 = 1
    OBVIOUS
  <2> QED
    BY <2>2, <2>4, <2>5 DEF IsCost, missed
<1>7. ASSUME NEW i \in 1 .. m, Right(i - 1) PROVE Right(i)
  <2> DEFINE u == Unlike(cand[i], ref[k])
             x == costs[i]
             y == row[i + 1]
             z == row[i]
  <2>1. i \in 0 .. m /\ i - 1 \in 0 .. m /\ i - 1 + 1 = i /\ m \in Nat
    BY DEF m
  <2>2. IsCost(cand, ref, lev, exact, i - 1, k, x)
    BY <1>7, <2>1
  <2>3. IsCost(cand, ref, lev, exact, i, k - 1, y)
    BY <1>2, <2>1
  <2>4. IsCost(cand, ref, lev, exact, i - 1, k - 1, z)
    <3>1. IsCost(cand, ref, lev, exact, i - 1, k - 1, row[i - 1 + 1])
      BY <1>2, <2>1, Zenon
    <3> QED
      BY <2>1, <3>1
  <2>5. IsLeast(costs[i + 1], x + 1, y + 1, z + u)
    BY <1>1
  <2>6. IsLeast(lev[<<i, k>>], lev[<<i - 1, k>>] + 1, lev[<<i, k - 1>>] + 1,
                lev[<<i - 1, k - 1>>] + u)
    BY <1>3
  <2>7. u \in {0, 1} /\ (u = 0 => cand[i] = ref[k])
    BY DEF Unlike
  <2>8. u = 0 => missed = before
    <3>1. i \in DOMAIN cand
      BY DEF m
    <3>2. cand[i] \in ToSet(cand)
      BY <3>1 DEF ToSet
    <3> QED
      BY <1>5, <2>7, <3>2
  <2> HIDE DEF u, x, y, z
  <2>9. /\ x \in Nat /\ y \in Nat /\ z \in Nat
        /\ missed <= x /\ before <= y /\ before <= z
        /\ z = 0 => i - 1 = k - 1 /\ \A t \in 1 .. k - 1 : cand[t] = ref[t]
    BY <2>2, <2>3, <2>4 DEF IsCost, missed, before
  <2>10. /\ x <= lev[<<i - 1, k>>] /\ y <= lev[<<i, k - 1>>] /\ z <= lev[<<i - 1, k - 1>>]
         /\ exact => /\ x = lev[<<i - 1, k>>] /\ y = lev[<<i, k - 1>>]
                     /\ z = lev[<<i - 1, k - 1>>]
    BY <2>2, <2>3, <2>4 DEF IsCost
  <2>11. /\ lev[<<i - 1, k>>] \in Nat /\ lev[<<i, k - 1>>] \in Nat /\ lev[<<i - 1, k - 1>>] \in Nat
         /\ lev[<<i, k>>] \in Nat
    BY <1>3, <1>4, <2>1
  <2>12. costs[i + 1] \in Nat /\ missed <= costs[i + 1]
    BY <1>5, <2>5, <2>7, <2>8, <2>9 DEF IsLeast
  <2>13. costs[i + 1] <= lev[<<i, k>>] /\ (exact => costs[i + 1] = lev[<<i, k>>])
    <3> DEFINE a == lev[<<i - 1, k>>]
               b == lev[<<i, k - 1>>]
               c == lev[<<i - 1, k - 1>>]
    <3>1. /\ a \in Nat /\ b \in Nat /\ c \in Nat /\ x <= a /\ y <= b /\ z <= c
          /\ exact => x = a /\ y = b /\ z = c
      BY <2>10, <2>11
    <3>2. IsLeast(lev[<<i, k>>], a + 1, b + 1, c + u)
      BY <2>6
    <3> HIDE DEF a, b, c
    <3>3. /\ x + 1 \in Nat /\ y + 1 \in Nat /\ z + u \in Nat
          /\ a + 1 \in Nat /\ b + 1 \in Nat /\ c + u \in Nat
          /\ x + 1 <= a + 1 /\ y + 1 <= b + 1 /\ z + u <= c + u
          /\ exact => x + 1 = a + 1 /\ y + 1 = b + 1 /\ z + u = c + u
      BY <2>7, <2>9, <3>1
    <3> QED
      BY <2>5, <3>2, <3>3, LeastIsMonotone
  <2>14. ASSUME costs[i + 1] = 0 PROVE i = k /\ \A t \in 1 .. k : cand[t] = ref[t]
    <3>1. z = 0 /\ u = 0
      BY <2>5, <2>7, <2>9, <2>14 DEF IsLeast
    <3>2. i = k
      BY <1>4, <2>1, <2>9, <3>1
    <3>3. ASSUME NEW t \in 1 .. k PROVE cand[t] = ref[t]
      <4>1. t = k \/ t \in 1 .. k - 1
        OBVIOUS
      <4> QED
        BY <2>7, <2>9, <3>1, <3>2, <4>1
    <3> QED
      BY <3>2, <3>3
  <2> QED
    BY <2>12, <2>13, <2>14 DEF IsCost, missed
<1>8. \A i \in 0 .. m : Right(i)
  <2> SUFFICES ASSUME B # {} PROVE FALSE
    <3> HIDE DEF Right
    <3> QED
      OBVIOUS
  <2>1. m \in Nat
    BY DEF m
  <2>2. PICK i \in B : \A l \in B : i <= l
    <3>1. B \subseteq Nat
      BY <2>1
    <3> HIDE DEF B
    <3> QED
      BY <3>1, LeastNat
  <2> HIDE DEF Right
  <2>3. i \in 0 .. m /\ ~Right(i) /\ i # 0
    BY <1>6, <2>2
  <2>4. i \in 1 .. m /\ i - 1 \in 0 .. m /\ ~(i <= i - 1)
    BY <2>1, <2>3
  <2>5. Right(i - 1)
    BY <2>2, <2>4
  <2> QED
    BY <1>7, <2>3, <2>4, <2>5
<1> QED
  BY <1>1, <1>8 DEF AreRowCosts, m


\* A jump changes nothing of what is known of the costs of a row.
LEMMA JumpsKeepCosts ==
  ASSUME NEW cand, Len(cand) \in Nat, NEW ref, NEW lev, NEW exact \in BOOLEAN, NEW k \in Nat,
         NEW costs, AreRowCosts(cand, ref, lev, exact, k, costs),
         \A i \in 0 .. Len(cand) : lev[<<i, k>>] \in Nat,
         NEW new, AreJumped(costs, new, ~exact)
  PROVE  AreRowCosts(cand, ref, lev, exact, k, new)
<1> DEFINE m == Len(cand)
           missed == Cardinality(Missed(cand, ref, k))
<1>1. /\ costs \in [1 .. m + 1 -> Nat]
      /\ \A i \in 0 .. m : IsCost(cand, ref, lev, exact, i, k, costs[i + 1])
  BY DEF AreRowCosts
<1>2. /\ new \in [1 .. m + 1 -> Nat]
      /\ exact => new = costs
      /\ \A t \in 1 .. m + 1 :
           /\ new[t] <= costs[t]
           /\ new[t] = costs[t] \/ \E l \in 1 .. m + 1 : new[t] = 1 + costs[l]
  BY <1>1 DEF AreJumped
<1>3. missed \in Nat
  BY MissedGrows
<1>4. ASSUME NEW l \in 1 .. m + 1 PROVE missed <= costs[l]
  <2>1. l - 1 \in 0 .. m /\ l - 1 + 1 = l
    OBVIOUS
  <2>2. IsCost(cand, ref, lev, exact, l - 1, k, costs[l - 1 + 1])
    BY <1>1, <2>1, Zenon
  <2> QED
    BY <2>1, <2>2 DEF IsCost
<1>5. ASSUME NEW i \in 0 .. m PROVE IsCost(cand, ref, lev, exact, i, k, new[i + 1])
  <2>1. i + 1 \in 1 .. m + 1
    OBVIOUS
  <2>2. IsCost(cand, ref, lev, exact, i, k, costs[i + 1])
    BY <1>1
  <2>3. CASE new[i + 1] = costs[i + 1]
    BY <2>2, <2>3
  <2>4. CASE new[i + 1] # costs[i + 1]
    <3>1. PICK l \in 1 .. m + 1 : new[i + 1] = 1 + costs[l]
      BY <1>2, <2>1, <2>4
    <3>2. costs[l] \in Nat /\ missed <= costs[l] /\ costs[i + 1] \in Nat
      BY <1>1, <1>4, <2>1
    <3>3. ~exact
      BY <1>2, <2>4
    <3>4. /\ new[i + 1] \in Nat /\ new[i + 1] <= costs[i + 1] /\ new[i + 1] # 0
          /\ missed <= new[i + 1]
      BY <1>2, <1>3, <2>1, <3>1, <3>2
    <3>5. costs[i + 1] <= lev[<<i, k>>] /\ lev[<<i, k>>] \in Nat
      BY <2>2 DEF IsCost
    <3>6. new[i + 1] <= lev[<<i, k>>]
      BY <3>2, <3>4, <3>5
    <3> QED
      BY <3>3, <3>4, <3>6 DEF IsCost, missed
  <2> QED
    BY <2>3, <2>4
<1> QED
  BY <1>2, <1>5 DEF AreRowCosts

\* The costs before any word of the reference.
LEMMA CostsOfFirstRow ==
  ASSUME NEW cand, Len(cand) \in Nat, NEW ref, Len(ref) \in Nat,
         NEW lev, lev = EditsFrom(cand, ref, lev), NEW longJumps \in BOOLEAN
  PROVE  AreRowCosts(cand, ref, lev, ~longJumps, 0, FirstRow(cand, longJumps))
<1> DEFINE m == Len(cand)
           row == FirstRow(cand, longJumps)
<1>1. row = [i \in 1 .. m + 1 |-> IF longJumps /\ i > 1 THEN 1 ELSE i - 1]
  BY DEF FirstRow
<1>2. \A i \in 0 .. m : lev[<<i, 0>>] = i
  BY TableIsLeast
<1>3. Cardinality(Missed(cand, ref, 0)) = 0
  BY MissedGrows
<1> HIDE DEF row
<1>4. ASSUME NEW i \in 0 .. m PROVE IsCost(cand, ref, lev, ~longJumps, i, 0, row[i + 1])
  <2>1. i + 1 \in 1 .. m + 1 /\ i \in Nat
    OBVIOUS
  <2>2. row[i + 1] = IF longJumps /\ i > 0 THEN 1 ELSE i
    BY <1>1, <2>1
  <2>3. lev[<<i, 0>>] = i
    BY <1>2
  <2> QED
    BY <1>3, <2>1, <2>2, <2>3 DEF IsCost
<1>5. row \in [1 .. m + 1 -> Nat]
  <2>1. ASSUME NEW i \in 1 .. m + 1 PROVE row[i] \in Nat
    BY <1>1
  <2> QED
    BY <1>1, <2>1
<1> QED
  BY <1>4, <1>5 DEF AreRowCosts, row

\* The cost computeCD ends with.
LEMMA ComputeCDIs ==
  ASSUME NEW S, NEW cand \in Seq(S), NEW ref \in Seq(S), NEW longJumps \in BOOLEAN,
         NEW lev, lev = EditsFrom(cand, ref, lev)
  PROVE  /\ ComputeCD(cand, ref, longJumps) = <<ComputeCD(cand, ref, longJumps)[1], Len(ref)>>
         /\ IsCost(cand, ref, lev, ~longJumps, Len(cand), Len(ref),
                   ComputeCD(cand, ref, longJumps)[1])
<1> DEFINE m == Len(cand)
           n == Len(ref)
           p == [cand |-> cand, longJumps |-> longJumps]
           first == FirstRow(cand, longJumps)
           last == RowFold!Folded(ref, first, p)
<1>1. /\ m \in Nat /\ n \in Nat /\ DOMAIN cand = 1 .. m /\ DOMAIN ref = 1 .. n
      /\ p.cand = cand /\ p.longJumps = longJumps
  OBVIOUS
<1>2. ComputeCD(cand, ref, longJumps) = <<Last(last), n>>
  BY DEF ComputeCD, FoldLeft, MapThenFoldSet, Max, RowFold!Folded,
         RowFold!FoldsFrom, RowFold!Max, RowAdded
<1>3. PICK g : /\ g[0] = first
               /\ \A k \in 1 .. n : g[k] = RowAdded(g[k - 1], ref[k], p)
               /\ last = g[n]
  <2>1. RowFold!IsFold(n, ref, first, p, last)
    <3> HIDE DEF p, first
    <3> QED
      BY <1>1, RowFold!FoldSteps
  <2> HIDE DEF p, first, last
  <2> QED
    BY <2>1 DEF RowFold!IsFold
<1>4. \A k \in 1 .. n : g[k] = NextRow(cand, g[k - 1], ref[k], longJumps)
  BY <1>3 DEF RowAdded
<1> HIDE DEF p, last
<1> DEFINE Right(k) == AreRowCosts(cand, ref, lev, ~longJumps, k, g[k])
           B == {k \in 0 .. n : ~Right(k)}
<1>5. Right(0)
  BY <1>1, <1>3, CostsOfFirstRow
<1>6. ASSUME NEW k \in 1 .. n, Right(k - 1) PROVE Right(k)
  <2> DEFINE row == g[k - 1]
             new == g[k]
  <2>1. AreRowCosts(cand, ref, lev, ~longJumps, k - 1, row)
    BY <1>6
  <2>2. row \in [1 .. m + 1 -> Nat]
    BY <2>1 DEF AreRowCosts
  <2>3. new = NextRow(cand, row, ref[k], longJumps)
    BY <1>4
  <2> HIDE DEF row, new
  <2>4. PICK costs : AreCosts(cand, row, ref[k], costs) /\ AreJumped(costs, new, longJumps)
    BY <1>1, <2>2, <2>3, NextRowIs
  <2>5. AreRowCosts(cand, ref, lev, ~longJumps, k, costs)
    <3>1. (~longJumps) \in BOOLEAN
      OBVIOUS
    <3> QED
      BY <1>1, <2>1, <2>4, <3>1, CostsOfNextRow
  <2>6. /\ AreJumped(costs, new, ~(~longJumps)) /\ k \in Nat /\ k \in 0 .. n
        /\ (~longJumps) \in BOOLEAN
    BY <2>4
  <2>7. \A i \in 0 .. m : lev[<<i, k>>] \in Nat
    <3>1. \A i \in 0 .. m, j \in 0 .. n : lev[<<i, j>>] \in Nat
      BY <1>1, TableIsLeast
    <3> QED
      BY <2>6, <3>1
  <2>8. AreRowCosts(cand, ref, lev, ~longJumps, k, new)
    BY <1>1, <2>5, <2>6, <2>7, JumpsKeepCosts
  <2> QED
    BY <2>8 DEF new
<1>7. Right(n)
  <2> SUFFICES ASSUME B # {} PROVE FALSE
    <3>1. n \in 0 .. n
      OBVIOUS
    <3> HIDE DEF Right
    <3> QED
      BY <3>1
  <2>1. PICK k \in B : \A l \in B : k <= l
    <3>1. B \subseteq Nat
      OBVIOUS
    <3> HIDE DEF B
    <3> QED
      BY <3>1, LeastNat
  <2> HIDE DEF Right
  <2>2. k \in 0 .. n /\ ~Right(k) /\ k # 0
    BY <1>5, <2>1
  <2>3. k \in 1 .. n /\ k - 1 \in 0 .. n /\ ~(k <= k - 1)
    BY <1>1, <2>2
  <2>4. Right(k - 1)
    BY <2>1, <2>3
  <2> QED
    BY <1>6, <2>2, <2>3, <2>4
<1> HIDE DEF first
<1>8. /\ last \in [1 .. m + 1 -> Nat]
      /\ \A i \in 0 .. m : IsCost(cand, ref, lev, ~longJumps, i, n, last[i + 1])
  BY <1>3, <1>7 DEF AreRowCosts
<1>9. Last(last) = last[m + 1]
  <2>1. last \in Seq(Nat) /\ Len(last) = m + 1
    BY <1>1, <1>8
  <2> QED
    BY <2>1 DEF Last
<1>10. m \in 0 .. m
  BY <1>1
<1> QED
  BY <1>2, <1>8, <1>9, <1>10

\* No edits are needed for the same words.
LEMMA NoEditsOfSame ==
  ASSUME NEW S, NEW cand \in Seq(S), NEW lev, lev = EditsFrom(cand, cand, lev)
  PROVE  lev[<<Len(cand), Len(cand)>>] = 0
<1> DEFINE m == Len(cand)
           B == {i \in 0 .. m : lev[<<i, i>>] # 0}
<1>1. /\ m \in Nat
      /\ \A i, j \in 0 .. m : lev[<<i, j>>] \in Nat
      /\ \A i \in 0 .. m : lev[<<i, 0>>] = i
      /\ \A i, j \in 1 .. m :
           IsLeast(lev[<<i, j>>], lev[<<i - 1, j>>] + 1, lev[<<i, j - 1>>] + 1,
                   lev[<<i - 1, j - 1>>] + Unlike(cand[i], cand[j]))
  BY TableIsLeast
<1> HIDE DEF m
<1>2. SUFFICES ASSUME B # {} PROVE FALSE
  <2>1. m \in 0 .. m
    BY <1>1
  <2> QED
    BY <2>1 DEF m
<1>3. PICK i \in B : \A l \in B : i <= l
  <2>1. B \subseteq Nat
    BY <1>1
  <2> HIDE DEF B
  <2> QED
    BY <1>2, <2>1, LeastNat
<1>4. i \in 0 .. m /\ lev[<<i, i>>] # 0 /\ lev[<<i, i>>] \in Nat
  BY <1>1
<1>5. i # 0
  BY <1>1, <1>4
<1>6. i \in 1 .. m /\ i - 1 \in 0 .. m /\ ~(i <= i - 1)
  BY <1>1, <1>4, <1>5
<1>7. lev[<<i - 1, i - 1>>] = 0
  BY <1>3, <1>6
<1>8. lev[<<i, i>>] <= lev[<<i - 1, i - 1>>] + Unlike(cand[i], cand[i])
  BY <1>1, <1>6 DEF IsLeast
<1>9. Unlike(cand[i], cand[i]) = 0
  BY DEF Unlike
<1> QED
  BY <1>4, <1>7, <1>8, <1>9

\* WER counts the edits, no more and no less: the rows computeCD fills with the
\* least of a deletion, an insertion and a substitution end with the least
\* number of words to put in, leave out or replace, for sentences of any length
\* (CderScorer::computeCD without long jumps).
THEOREM WerIsEditDistance ==
  ASSUME NEW S, NEW cand \in Seq(S), NEW ref \in Seq(S)
  PROVE  ComputeCD(cand, ref, FALSE) = <<Edits(cand, ref), Len(ref)>>
<1>1. Len(cand) \in Nat /\ Len(ref) \in Nat
  OBVIOUS
<1>2. PICK lev : lev = EditsFrom(cand, ref, lev) /\ Edits(cand, ref) = lev[<<Len(cand), Len(ref)>>]
  BY <1>1, EditsAreChosen
<1>3. /\ ComputeCD(cand, ref, FALSE) = <<ComputeCD(cand, ref, FALSE)[1], Len(ref)>>
      /\ IsCost(cand, ref, lev, ~FALSE, Len(cand), Len(ref), ComputeCD(cand, ref, FALSE)[1])
  BY <1>2, ComputeCDIs
<1>4. ComputeCD(cand, ref, FALSE)[1] = lev[<<Len(cand), Len(ref)>>]
  BY <1>3 DEF IsCost
<1> QED
  BY <1>2, <1>3, <1>4

\* CDER, whose long jumps may save edits, is no more than the edits, no less
\* than the words of the reference that the candidate does not have, and 0 for
\* the words of the reference alone, for sentences of any length
\* (CderScorer::computeCD with long jumps).
THEOREM CderIsBetween ==
  ASSUME NEW S, NEW cand \in Seq(S), NEW ref \in Seq(S)
  PROVE  LET cd == ComputeCD(cand, ref, TRUE)
         IN /\ cd = <<cd[1], Len(ref)>> /\ cd[1] \in Nat
            /\ Missing(cand, ref) <= cd[1]
            /\ cd[1] <= Edits(cand, ref)
            /\ cand = ref <=> cd[1] = 0
<1> DEFINE m == Len(cand)
           n == Len(ref)
           cost == ComputeCD(cand, ref, TRUE)[1]
<1>1. m \in Nat /\ n \in Nat /\ DOMAIN cand = 1 .. m /\ DOMAIN ref = 1 .. n
  OBVIOUS
<1>2. PICK lev : lev = EditsFrom(cand, ref, lev) /\ Edits(cand, ref) = lev[<<m, n>>]
  BY <1>1, EditsAreChosen
<1>3. /\ ComputeCD(cand, ref, TRUE) = <<cost, n>>
      /\ IsCost(cand, ref, lev, ~TRUE, m, n, cost)
  BY <1>2, ComputeCDIs
<1> HIDE DEF cost
<1>4. /\ cost \in Nat /\ cost <= lev[<<m, n>>]
      /\ Cardinality(Missed(cand, ref, n)) <= cost
      /\ cost = 0 => m = n /\ \A t \in 1 .. n : cand[t] = ref[t]
  BY <1>3 DEF IsCost
<1>5. Missing(cand, ref) = Cardinality(Missed(cand, ref, n))
  <2>1. ToSet(ref) = {ref[t] : t \in 1 .. n}
    BY <1>1 DEF ToSet
  <2> QED
    BY <2>1 DEF Missing, Missed
<1>6. ASSUME cost = 0 PROVE cand = ref
  <2>1. m = n /\ \A t \in 1 .. n : cand[t] = ref[t]
    BY <1>4, <1>6
  <2> QED
    BY <1>1, <2>1
<1>7. ASSUME cand = ref PROVE cost = 0
  <2>1. lev[<<m, n>>] = 0
    BY <1>2, <1>7, NoEditsOfSame
  <2> QED
    BY <1>4, <2>1
<1> QED
  BY <1>2, <1>3, <1>4, <1>5, <1>6, <1>7 DEF cost


\* The loop over the references in prepareStats.
BestKept(a, b, p) == IF Truncated(b) > Truncated(a) THEN b ELSE a

BestOf(seq) == FirstOf(seq, LAMBDA b, a : Truncated(b) > Truncated(a))

BestFold == INSTANCE Folding WITH Op <- BestKept, Good <- Whatever

\* What is kept of a list is one of the best.
LEMMA FirstOfIsBest ==
  ASSUME NEW n \in Nat, n > 0, NEW seq, DOMAIN seq = 1 .. n, seq \in Seq(ToSet(seq)),
         \A k \in 1 .. n : Truncated(seq[k]) \in Int
  PROVE  \E k \in 1 .. n :
           /\ BestOf(seq) = seq[k]
           /\ \A l \in 1 .. n : Truncated(seq[l]) <= Truncated(seq[k])
<1> DEFINE rest == Tail(seq)
           best == BestFold!Folded(rest, Head(seq), 0)
<1>1. BestOf(seq) = best
  BY DEF BestOf, FirstOf, FoldLeft, MapThenFoldSet, Max, BestFold!Folded,
         BestFold!FoldsFrom, BestFold!Max, BestKept
<1>2. /\ n - 1 \in Nat /\ DOMAIN rest = 1 .. n - 1
      /\ \A i \in 1 .. n - 1 : rest[i] = seq[i + 1]
      /\ Head(seq) = seq[1]
  <2>1. Len(seq) = n /\ seq # <<>>
    OBVIOUS
  <2> QED
    BY <2>1
<1> HIDE DEF rest
<1>3. PICK g : /\ g[0] = seq[1]
               /\ \A i \in 1 .. n - 1 : g[i] = BestKept(g[i - 1], seq[i + 1], 0)
               /\ best = g[n - 1]
  <2>1. BestFold!IsFold(n - 1, rest, Head(seq), 0, best)
    BY <1>2, BestFold!FoldSteps
  <2>2. PICK g : /\ g[0] = Head(seq)
                 /\ \A i \in 1 .. n - 1 : g[i] = BestKept(g[i - 1], rest[i], 0)
                 /\ best = g[n - 1]
    <3> HIDE DEF best
    <3> QED
      BY <2>1 DEF BestFold!IsFold
  <2> HIDE DEF best
  <2> QED
    BY <1>2, <2>2
<1> HIDE DEF best
<1> DEFINE T(k) == Truncated(seq[k])
           Right(i) == \E k \in 1 .. i + 1 : g[i] = seq[k] /\ \A l \in 1 .. i + 1 : T(l) <= T(k)
           B == {i \in 0 .. n - 1 : ~Right(i)}
<1>4. Right(0)
  <2>1. 1 \in 1 .. n /\ 1 \in 1 .. 0 + 1 /\ \A l \in 1 .. 0 + 1 : l = 1
    BY <1>2
  <2>2. T(1) \in Int
    BY <2>1
  <2>3. T(1) <= T(1)
    BY <2>2
  <2> HIDE DEF T
  <2> QED
    BY <1>3, <2>1, <2>3
<1>5. ASSUME NEW i \in 1 .. n - 1, Right(i - 1) PROVE Right(i)
  <2>1. /\ i - 1 + 1 = i /\ i + 1 \in 1 .. n
        /\ 1 .. i + 1 = (1 .. i) \cup {i + 1} /\ 1 .. i \subseteq 1 .. n
    BY <1>2
  <2>2. PICK k \in 1 .. i : g[i - 1] = seq[k] /\ \A l \in 1 .. i : T(l) <= T(k)
    BY <1>5, <2>1
  <2>3. /\ \A l \in 1 .. i + 1 : T(l) \in Int
        /\ k \in 1 .. i + 1 /\ i + 1 \in 1 .. i + 1
    BY <2>1
  <2>4. g[i] = IF T(i + 1) > T(k) THEN seq[i + 1] ELSE seq[k]
    BY <1>3, <2>2 DEF BestKept
  <2> HIDE DEF T
  <2>5. CASE T(i + 1) > T(k)
    <3>1. \A l \in 1 .. i + 1 : T(l) <= T(i + 1)
      BY <2>1, <2>2, <2>3, <2>5
    <3> QED
      BY <2>3, <2>4, <2>5, <3>1
  <2>6. CASE ~(T(i + 1) > T(k))
    <3>1. \A l \in 1 .. i + 1 : T(l) <= T(k)
      BY <2>1, <2>2, <2>3, <2>6
    <3> QED
      BY <2>3, <2>4, <2>6, <3>1
  <2> QED
    BY <2>5, <2>6
<1>6. Right(n - 1)
  <2> SUFFICES ASSUME B # {} PROVE FALSE
    <3>1. n - 1 \in 0 .. n - 1
      BY <1>2
    <3> HIDE DEF Right
    <3> QED
      BY <3>1
  <2>1. PICK i \in B : \A l \in B : i <= l
    <3>1. B \subseteq Nat
      OBVIOUS
    <3> HIDE DEF B
    <3> QED
      BY <3>1, LeastNat
  <2> HIDE DEF Right
  <2>2. i \in 0 .. n - 1 /\ ~Right(i) /\ i # 0
    BY <1>4, <2>1
  <2>3. i \in 1 .. n - 1 /\ i - 1 \in 0 .. n - 1 /\ ~(i <= i - 1)
    BY <1>2, <2>2
  <2>4. Right(i - 1)
    BY <2>1, <2>3
  <2> QED
    BY <1>5, <2>2, <2>3, <2>4
<1>7. n - 1 + 1 = n
  OBVIOUS
<1> QED
  BY <1>1, <1>3, <1>6, <1>7

\* The score of a sentence against a reference is an integer.
LEMMA ErrorsAreTruncated ==
  ASSUME NEW S, NEW cand \in Seq(S), NEW ref \in Seq(S), NEW longJumps \in BOOLEAN
  PROVE  Truncated(ComputeCD(cand, ref, longJumps)) \in Int
<1> DEFINE cd == ComputeCD(cand, ref, longJumps)
<1>1. Len(cand) \in Nat /\ Len(ref) \in Nat
  OBVIOUS
<1>2. PICK lev : lev = EditsFrom(cand, ref, lev)
  BY <1>1, EditsAreChosen
<1>3. /\ cd = <<cd[1], Len(ref)>>
      /\ IsCost(cand, ref, lev, ~longJumps, Len(cand), Len(ref), cd[1])
  BY <1>2, ComputeCDIs
<1> HIDE DEF cd
<1>4. cd[1] \in Nat
  BY <1>3 DEF IsCost
<1>5. cd[2] \in Nat
  BY <1>1, <1>3
<1>6. Truncated(cd) \in Int
  BY <1>4, <1>5 DEF Truncated
<1> QED
  BY <1>6 DEF cd

\* The errors that prepareStats returns are those against a reference, and no
\* reference gives a higher score.
IsBestKept(scorer, vocab, refs, sid, line, u, test, longJumps) ==
  \E rid \in DOMAIN refs :
    /\ CderPrepare(scorer, vocab, refs, sid, line)
         = Returned(u, ComputeCD(test, refs[rid][sid], longJumps))
    /\ \A other \in DOMAIN refs :
         Truncated(ComputeCD(test, refs[other][sid], longJumps))
           <= Truncated(ComputeCD(test, refs[rid][sid], longJumps))

\* prepareStats keeps the errors against a reference whose score is the best.
LEMMA BestReferenceIsKept ==
  ASSUME NEW S, NEW scorer, NEW vocab, NEW refs, NEW sid, NEW line,
         Len(refs) \in Nat, Len(refs) > 0, DOMAIN refs = 1 .. Len(refs),
         \A rid \in DOMAIN refs : refs[rid][sid] \in Seq(S),
         NEW u, NEW test \in Seq(S), EncodeLine(scorer, vocab, line) = Returned(u, test),
         NEW longJumps \in BOOLEAN, longJumps = (scorer.type = "CDER")
  PROVE  IsBestKept(scorer, vocab, refs, sid, line, u, test, longJumps)
<1> DEFINE encoded == EncodeLine(scorer, vocab, line)
           Errors(rid) == ComputeCD(test, refs[rid][sid], longJumps)
           n == Len(refs)
           seq == [rid \in DOMAIN refs |-> Errors(rid)]
           best == BestOf(seq)
<1>1. CderPrepare(scorer, vocab, refs, sid, line) = Returned(u, best)
  <2>1. encoded.ok /\ encoded.vocab = u /\ encoded.value = test
    BY DEF Returned
  <2> QED
    BY <2>1 DEF CderPrepare, BestOf
<1>3. ASSUME NEW rid \in DOMAIN refs PROVE Truncated(Errors(rid)) \in Int
  <2> DEFINE ref == refs[rid][sid]
  <2>1. ref \in Seq(S)
    OBVIOUS
  <2> HIDE DEF ref
  <2>2. Truncated(ComputeCD(test, ref, longJumps)) \in Int
    BY <2>1, ErrorsAreTruncated
  <2> QED
    BY <2>2 DEF ref
<1>4. /\ n \in Nat /\ n > 0 /\ DOMAIN seq = 1 .. n
      /\ \A rid \in 1 .. n : seq[rid] = Errors(rid)
  OBVIOUS
<1>5. seq \in Seq(ToSet(seq))
  <2> HIDE DEF Errors
  <2>1. seq = [rid \in 1 .. n |-> Errors(rid)]
    OBVIOUS
  <2>2. seq \in [1 .. n -> ToSet(seq)]
    BY <2>1 DEF ToSet
  <2> QED
    BY <1>4, <2>2
<1> HIDE DEF seq, Errors
<1>6. \A rid \in 1 .. n : Truncated(seq[rid]) \in Int
  BY <1>3, <1>4
<1>7. PICK rid \in 1 .. n :
        best = seq[rid] /\ \A other \in 1 .. n : Truncated(seq[other]) <= Truncated(seq[rid])
  BY <1>4, <1>5, <1>6, FirstOfIsBest
<1>8. /\ best = Errors(rid)
      /\ \A other \in 1 .. n : Truncated(Errors(other)) <= Truncated(Errors(rid))
  BY <1>4, <1>7
<1> HIDE DEF best
<1> QED
  BY <1>1, <1>8 DEF Errors, IsBestKept

\* Errors against known words are the same in codes and in words.
LEMMA ErrorsOfCodes ==
  ASSUME NEW W, NEW v, IsVocabulary(v, W), NEW a \in Seq(W), NEW b \in Seq(W), Known(v, b),
         NEW longJumps \in BOOLEAN,
         NEW cd, cd = ComputeCD(Codes(v, a), Codes(v, b), longJumps)
  PROVE  /\ cd = <<cd[1], Len(b)>> /\ cd[1] \in Nat
         /\ Missing(a, b) <= cd[1] /\ cd[1] <= Edits(a, b)
         /\ ~longJumps => cd[1] = Edits(a, b)
         /\ cd[1] = 0 <=> a = b
<1> DEFINE m == Len(a)
           n == Len(b)
           x == Codes(v, a)
           y == Codes(v, b)
<1>1. /\ m \in Nat /\ n \in Nat /\ DOMAIN a = 1 .. m /\ DOMAIN b = 1 .. n
      /\ x \in Seq(Int) /\ y \in Seq(Int) /\ Len(x) = m /\ Len(y) = n
  BY SpanOfCodes
<1>2. /\ \A i \in 1 .. m : x[i] = Code(v, a[i])
      /\ \A j \in 1 .. n : y[j] = Code(v, b[j]) /\ b[j] \in ToSet(v)
  BY <1>1 DEF Codes, Known
<1> HIDE DEF x, y
<1>3. \A i \in 1 .. m : \A j \in 1 .. n : x[i] = y[j] <=> a[i] = b[j]
  BY <1>2, CodesDiffer
<1>4. PICK lev : lev = EditsFrom(a, b, lev) /\ Edits(a, b) = lev[<<m, n>>]
  BY <1>1, EditsAreChosen
<1>5. lev = EditsFrom(x, y, lev)
  <2> DEFINE D == (0 .. m) \X (0 .. n)
             Less(p) == 1 + Min({lev[<<p[1] - 1, p[2]>>], lev[<<p[1], p[2] - 1>>],
                                 lev[<<p[1] - 1, p[2] - 1>>]})
             E(p) == IF p[1] = 0 \/ p[2] = 0 THEN p[1] + p[2]
                     ELSE IF a[p[1]] = b[p[2]] THEN lev[<<p[1] - 1, p[2] - 1>>] ELSE Less(p)
             F(p) == IF p[1] = 0 \/ p[2] = 0 THEN p[1] + p[2]
                     ELSE IF x[p[1]] = y[p[2]] THEN lev[<<p[1] - 1, p[2] - 1>>] ELSE Less(p)
  <2>1. lev = [p \in D |-> E(p)]
    BY <1>4 DEF EditsFrom
  <2>2. EditsFrom(x, y, lev) = [p \in D |-> F(p)]
    BY <1>1 DEF EditsFrom
  <2> HIDE DEF Less, m, n
  <2>3. ASSUME NEW p \in D PROVE E(p) = F(p)
    <3>1. p[1] \in 0 .. m /\ p[2] \in 0 .. n
      OBVIOUS
    <3>2. CASE p[1] = 0 \/ p[2] = 0
      BY <3>2
    <3>3. CASE ~(p[1] = 0 \/ p[2] = 0)
      <4>1. p[1] \in 1 .. m /\ p[2] \in 1 .. n
        BY <1>1, <3>1, <3>3
      <4>2. x[p[1]] = y[p[2]] <=> a[p[1]] = b[p[2]]
        BY <1>3, <4>1
      <4> QED
        BY <3>3, <4>2
    <3> QED
      BY <3>2, <3>3
  <2> HIDE DEF D, E, F
  <2>4. [p \in D |-> E(p)] = [p \in D |-> F(p)]
    BY <2>3
  <2> QED
    BY <2>1, <2>2, <2>4
<1>6. /\ cd = <<cd[1], n>>
      /\ IsCost(x, y, lev, ~longJumps, m, n, cd[1])
  <2>1. cd = ComputeCD(x, y, longJumps)
    BY DEF x, y
  <2> HIDE DEF m, n
  <2> QED
    BY <1>1, <1>5, <2>1, ComputeCDIs
<1>7. /\ cd[1] \in Nat /\ cd[1] <= lev[<<m, n>>]
      /\ ~longJumps => cd[1] = lev[<<m, n>>]
      /\ Cardinality(Missed(x, y, n)) <= cd[1]
      /\ cd[1] = 0 => m = n /\ \A t \in 1 .. n : x[t] = y[t]
  BY <1>6 DEF IsCost
<1>8. cd[1] = 0 => a = b
  <2>1. SUFFICES ASSUME cd[1] = 0 PROVE a = b
    OBVIOUS
  <2>2. m = n /\ \A t \in 1 .. n : a[t] = b[t]
    BY <1>3, <1>7, <2>1
  <2> QED
    BY <1>1, <2>2
<1>9. a = b => cd[1] = 0
  <2>1. SUFFICES ASSUME a = b PROVE cd[1] = 0
    OBVIOUS
  <2>2. lev[<<m, m>>] = 0 /\ m = n
    BY <1>4, <2>1, NoEditsOfSame
  <2>3. lev[<<m, n>>] = 0
    BY <2>2
  <2>4. cd[1] \in Nat /\ cd[1] <= 0
    BY <1>7, <2>3
  <2> QED
    BY <2>4
<1>10. Missing(a, b) <= Cardinality(Missed(x, y, n)) /\ Missing(a, b) \in Nat
  <2> DEFINE M == {w \in ToSet(b) : w \notin ToSet(a)}
             N == Missed(x, y, n)
             f == [w \in M |-> Code(v, w)]
  <2>1. Missing(a, b) = Cardinality(M)
    BY DEF Missing
  <2>2. \A w \in M : /\ w \in ToSet(v) /\ \E j \in 1 .. n : b[j] = w
                     /\ \A i \in 1 .. m : a[i] # w
    BY <1>1, <1>2 DEF ToSet
  <2> HIDE DEF M
  <2>3. ASSUME NEW w \in M PROVE Code(v, w) \in N
    <3>1. PICK j \in 1 .. n : b[j] = w
      BY <2>2
    <3>2. Code(v, w) = y[j]
      BY <1>2, <3>1
    <3>3. ASSUME NEW i \in 1 .. m PROVE x[i] # y[j]
      BY <1>3, <2>2, <3>1
    <3>4. DOMAIN x = 1 .. m
      BY <1>1
    <3>5. y[j] \notin ToSet(x)
      BY <3>3, <3>4 DEF ToSet
    <3> QED
      BY <3>2, <3>5 DEF Missed
  <2>4. f \in [M -> N]
    BY <2>3
  <2>5. \A w, z \in M : f[w] = f[z] => w = z
    BY <2>2, CodesDiffer
  <2>6. IsFiniteSet(N)
    <3>1. IsFiniteSet(1 .. n)
      BY <1>1, FS_Interval
    <3>2. IsFiniteSet({y[t] : t \in 1 .. n})
      BY <3>1, ValuesAreFinite
    <3>3. N \subseteq {y[t] : t \in 1 .. n}
      BY DEF Missed
    <3> HIDE DEF N
    <3> QED
      BY <3>2, <3>3, FS_Subset
  <2> HIDE DEF f, N
  <2>7. f \in Injection(M, N)
    BY <2>4, <2>5, Fun_IsInj
  <2>8. IsFiniteSet(M) /\ Cardinality(M) <= Cardinality(N)
    BY <2>6, <2>7, FS_Injection
  <2> QED
    BY <2>1, <2>8, FS_CardinalityType DEF N
<1>11. Cardinality(Missed(x, y, n)) \in Int
  <2>1. IsFiniteSet(1 .. n)
    BY <1>1, FS_Interval
  <2>2. IsFiniteSet({y[t] : t \in 1 .. n})
    BY <2>1, ValuesAreFinite
  <2>3. Missed(x, y, n) \subseteq {y[t] : t \in 1 .. n}
    BY DEF Missed
  <2>4. IsFiniteSet(Missed(x, y, n))
    BY <2>2, <2>3, FS_Subset
  <2> QED
    BY <2>4, FS_CardinalityType
<1> QED
  BY <1>4, <1>6, <1>7, <1>8, <1>9, <1>10, <1>11

\* Of all references WER and CDER count the errors against one whose score is
\* the best there is, and these errors are least: WER's are the edits between
\* the words of the line and of that reference, CDER's no more than those and
\* no less than the words the line lacks, and both are 0 for the words of the
\* reference only; for lines, vocabularies and numbers of references of any
\* size and whatever the codes of the words are (CderScorer::prepareStats).
THEOREM ErrorsAreOfBestReference ==
  ASSUME NEW W, NEW vocab, IsVocabulary(vocab, W), NEW scorer, NEW refs, NEW sid, NEW line,
         NEW texts \in Seq(Seq(W)), texts # <<>>, \A f \in DOMAIN texts : Known(vocab, texts[f]),
         Len(refs) = Len(texts), DOMAIN refs = DOMAIN texts,
         \A f \in DOMAIN texts : refs[f][sid] = Codes(vocab, texts[f]),
         Preprocessable(scorer, line),
         NEW words \in Seq(W), words = WordsOf(scorer, Preprocessed(scorer, line)),
         NEW prepared, prepared = CderPrepare(scorer, vocab, refs, sid, line),
         NEW Errors, Errors = [f \in DOMAIN texts |->
                                 ComputeCD(Codes(prepared.vocab, words),
                                           Codes(prepared.vocab, texts[f]), scorer.type = "CDER")]
  PROVE  /\ prepared.ok /\ IsVocabulary(prepared.vocab, W)
         /\ \E f \in DOMAIN texts :
              /\ prepared.value = Errors[f]
              /\ \A g \in DOMAIN texts : Truncated(Errors[g]) <= Truncated(Errors[f])
         /\ \A f \in DOMAIN texts :
              /\ Errors[f][2] = Len(texts[f])
              /\ Missing(words, texts[f]) <= Errors[f][1]
              /\ Errors[f][1] <= Edits(words, texts[f])
              /\ scorer.type # "CDER" => Errors[f][1] = Edits(words, texts[f])
              /\ Errors[f][1] = 0 <=> words = texts[f]
<1> DEFINE u == FoldLeft(Encode, vocab, words)
           test == Codes(u, words)
           jumps == scorer.type = "CDER"
           E(f) == ComputeCD(test, refs[f][sid], jumps)
<1>1. EncodeLine(scorer, vocab, line) = Returned(u, test)
  <2> HIDE DEF u
  <2> QED
    BY LineIsEncoded DEF u
<1>2. /\ IsVocabulary(u, W)
      /\ \A f \in DOMAIN texts : Known(u, texts[f]) /\ refs[f][sid] = Codes(u, texts[f])
  <2>1. ASSUME NEW f \in DOMAIN texts
        PROVE  /\ IsVocabulary(u, W) /\ Known(u, texts[f])
               /\ refs[f][sid] = Codes(u, texts[f])
    <3> DEFINE s == texts[f]
    <3>1. s \in Seq(W) /\ Known(vocab, s) /\ refs[f][sid] = Codes(vocab, s)
      OBVIOUS
    <3> HIDE DEF s, u
    <3>2. IsVocabulary(u, W) /\ Known(u, s) /\ Codes(u, s) = Codes(vocab, s)
      BY <3>1, CodesStay DEF u
    <3> QED
      BY <3>1, <3>2 DEF s
  <2>2. IsVocabulary(u, W)
    <3> HIDE DEF u
    <3> QED
      BY CodesTellWords DEF u
  <2> QED
    BY <2>1, <2>2
<1> HIDE DEF u
<1>3. /\ test \in Seq(Int) /\ \A f \in DOMAIN texts : refs[f][sid] \in Seq(Int)
      /\ Len(refs) \in Nat /\ Len(refs) > 0 /\ DOMAIN refs = 1 .. Len(refs)
  <2>1. ASSUME NEW f \in DOMAIN texts PROVE refs[f][sid] \in Seq(Int)
    <3>1. texts[f] \in Seq(W)
      OBVIOUS
    <3>2. Codes(u, texts[f]) \in Seq(Int)
      BY <1>2, <3>1, SpanOfCodes
    <3> QED
      BY <1>2, <3>2
  <2>2. test \in Seq(Int)
    BY <1>2, SpanOfCodes
  <2>3. Len(texts) \in Nat /\ Len(texts) > 0 /\ DOMAIN texts = 1 .. Len(texts)
    OBVIOUS
  <2> QED
    BY <2>1, <2>2, <2>3
<1> HIDE DEF test, jumps
<1>4. PICK best \in DOMAIN texts :
        /\ prepared = Returned(u, E(best))
        /\ \A other \in DOMAIN texts : Truncated(E(other)) <= Truncated(E(best))
  <2>1. jumps \in BOOLEAN /\ jumps = (scorer.type = "CDER")
    BY DEF jumps
  <2>2. DOMAIN refs = DOMAIN texts
    OBVIOUS
  <2> HIDE DEF E
  <2>3. IsBestKept(scorer, vocab, refs, sid, line, u, test, jumps)
    <3>1. \A rid \in DOMAIN refs : refs[rid][sid] \in Seq(Int)
      BY <1>3, <2>2
    <3> QED
      BY <1>1, <1>3, <2>1, <3>1, BestReferenceIsKept
  <2> QED
    BY <2>2, <2>3 DEF E, IsBestKept
<1>5. prepared.ok /\ prepared.vocab = u /\ prepared.value = E(best)
  BY <1>4 DEF Returned
<1>6. \A f \in DOMAIN texts : Errors[f] = E(f)
  BY <1>2, <1>5 DEF test, jumps
<1>7. ASSUME NEW f \in DOMAIN texts
      PROVE  /\ E(f) = <<E(f)[1], Len(texts[f])>>
             /\ Missing(words, texts[f]) <= E(f)[1]
             /\ E(f)[1] <= Edits(words, texts[f])
             /\ ~jumps => E(f)[1] = Edits(words, texts[f])
             /\ E(f)[1] = 0 <=> words = texts[f]
  <2> DEFINE s == texts[f]
             e == E(f)
  <2>1. s \in Seq(W) /\ Known(u, s) /\ e = ComputeCD(Codes(u, words), Codes(u, s), jumps)
    BY <1>2 DEF test
  <2>2. jumps \in BOOLEAN
    BY DEF jumps
  <2> HIDE DEF s, e
  <2>3. /\ e = <<e[1], Len(s)>> /\ e[1] \in Nat
        /\ Missing(words, s) <= e[1] /\ e[1] <= Edits(words, s)
        /\ ~jumps => e[1] = Edits(words, s)
        /\ e[1] = 0 <=> words = s
    BY <1>2, <2>1, <2>2, ErrorsOfCodes
  <2> QED
    BY <2>3 DEF s, e
<1> HIDE DEF E
<1>8. \A f \in DOMAIN texts : E(f)[2] = Len(texts[f])
  BY <1>7
<1> QED
  BY <1>2, <1>4, <1>5, <1>6, <1>7, <1>8 DEF jumps

-----------------------------------------------------------------------------
(* The order of HAMMING and KENDALL.                                         *)

\* The step of Permutation::set for a source word.
TargetAdded(acc, s, pairs) ==
  Append(acc, IF {p[2] : p \in {q \in ToSet(pairs) : q[1] = s}} # {}
              THEN Min({p[2] : p \in {q \in ToSet(pairs) : q[1] = s}})
              ELSE IF acc = <<>> THEN 0 ELSE Last(acc))

AreNumbers(acc) == acc \in Seq(Nat)

TargetFold == INSTANCE Folding WITH Op <- TargetAdded, Good <- AreNumbers

\* Every source word has a target position.
LEMMA TargetsAre ==
  ASSUME NEW pairs, ToSet(pairs) \subseteq Nat \X Nat, NEW length \in Nat
  PROVE  Targets(pairs, length) \in [1 .. length -> Nat]
<1> DEFINE seq == [s \in 1 .. length |-> s - 1]
           last == TargetFold!Folded(seq, <<>>, pairs)
<1>1. Targets(pairs, length) = last
  BY DEF Targets, FoldLeft, MapThenFoldSet, Max, TargetFold!Folded,
         TargetFold!FoldsFrom, TargetFold!Max, TargetAdded
<1>2. ASSUME NEW acc \in Seq(Nat), NEW s
      PROVE  /\ TargetAdded(acc, s, pairs) \in Seq(Nat)
             /\ Len(TargetAdded(acc, s, pairs)) = Len(acc) + 1
  <2> DEFINE of == {p[2] : p \in {q \in ToSet(pairs) : q[1] = s}}
             v == IF of # {} THEN Min(of) ELSE IF acc = <<>> THEN 0 ELSE Last(acc)
  <2>1. of \subseteq Nat
    OBVIOUS
  <2>2. of # {} => Min(of) \in Nat
    <3> HIDE DEF of
    <3>1. of # {} => \E x \in of : \A y \in of : x <= y
      BY <2>1, LeastNat
    <3>2. of # {} => Min(of) \in of
      BY <3>1 DEF Min
    <3> QED
      BY <2>1, <3>2
  <2> HIDE DEF of
  <2>3. acc # <<>> => Last(acc) \in Nat
    BY DEF Last
  <2>4. v \in Nat
    BY <2>2, <2>3
  <2>5. TargetAdded(acc, s, pairs) = Append(acc, v)
    BY DEF TargetAdded, of
  <2> HIDE DEF v
  <2> QED
    BY <2>4, <2>5
<1>3. DOMAIN seq = 1 .. length
  OBVIOUS
<1>4. PICK g : /\ g[0] = <<>>
               /\ \A i \in 1 .. length : g[i] = TargetAdded(g[i - 1], seq[i], pairs)
               /\ last = g[length]
  <2>1. TargetFold!IsFold(length, seq, <<>>, pairs, last)
    <3> HIDE DEF seq
    <3> QED
      BY <1>3, TargetFold!FoldSteps
  <2> HIDE DEF seq, last
  <2> QED
    BY <2>1 DEF TargetFold!IsFold
<1> HIDE DEF seq, last
<1> DEFINE Right(i) == g[i] \in Seq(Nat) /\ Len(g[i]) = i
           B == {i \in 0 .. length : ~Right(i)}
<1>5. Right(length)
  <2> SUFFICES ASSUME B # {} PROVE FALSE
    <3>1. length \in 0 .. length
      OBVIOUS
    <3> HIDE DEF Right
    <3> QED
      BY <3>1
  <2>1. PICK i \in B : \A l \in B : i <= l
    <3>1. B \subseteq Nat
      OBVIOUS
    <3> HIDE DEF B
    <3> QED
      BY <3>1, LeastNat
  <2>2. Right(0)
    BY <1>4
  <2>3. i \in 0 .. length /\ ~Right(i) /\ i # 0
    <3> HIDE DEF Right
    <3> QED
      BY <2>1, <2>2
  <2>4. i \in 1 .. length /\ i - 1 \in 0 .. length /\ ~(i <= i - 1)
    BY <2>3
  <2>5. Right(i - 1)
    <3> HIDE DEF Right
    <3> QED
      BY <2>1, <2>4
  <2>6. g[i] = TargetAdded(g[i - 1], seq[i], pairs)
    BY <1>4, <2>4
  <2>7. g[i] \in Seq(Nat) /\ Len(g[i]) = i - 1 + 1
    BY <1>2, <2>5, <2>6
  <2> QED
    BY <2>3, <2>4, <2>7
<1>6. last \in Seq(Nat) /\ Len(last) = length
  BY <1>4, <1>5
<1>7. last \in [1 .. length -> Nat]
  BY <1>6
<1> QED
  BY <1>1, <1>7

\* A source word comes before another: by its target, then by its own place.
Before(targets, t, s) == targets[t] < targets[s] \/ (targets[t] = targets[s] /\ t < s)

LEMMA PlacesAscend ==
  ASSUME NEW n \in Nat, NEW targets \in [1 .. n -> Nat], NEW s \in 1 .. n
  PROVE  /\ Ranked(targets)[s] \in 0 .. n - 1
         /\ \A t \in 1 .. n : Before(targets, t, s) => Ranked(targets)[t] < Ranked(targets)[s]
<1> DEFINE P(x) == {t \in 1 .. n : Before(targets, t, x)}
<1>1. IsFiniteSet(1 .. n) /\ Cardinality(1 .. n) = n
  BY FS_Interval
<1>2. ASSUME NEW x \in 1 .. n
      PROVE  /\ Ranked(targets)[x] = Cardinality(P(x)) /\ IsFiniteSet(P(x))
             /\ Cardinality(P(x)) \in Nat
  <2>1. P(x) = {t \in DOMAIN targets :
                  (targets[t] < targets[x]) \/ (targets[t] = targets[x] /\ t < x)}
    BY DEF Before
  <2>2. P(x) \subseteq 1 .. n
    OBVIOUS
  <2>3. Ranked(targets)[x] = Cardinality(P(x))
    BY <2>1 DEF Ranked
  <2> HIDE DEF P
  <2>4. IsFiniteSet(P(x))
    BY <1>1, <2>2, FS_Subset
  <2> QED
    BY <2>3, <2>4, FS_CardinalityType
<1>3. Cardinality(P(s)) < n
  <2>1. P(s) \in SUBSET (1 .. n) /\ s \notin P(s)
    BY DEF Before
  <2> HIDE DEF P
  <2>2. Cardinality(P(s)) <= n /\ Cardinality(P(s)) # n
    BY <1>1, <2>1, FS_Subset
  <2> QED
    BY <1>2, <2>2
<1>4. ASSUME NEW t \in 1 .. n, Before(targets, t, s)
      PROVE  Cardinality(P(t)) < Cardinality(P(s))
  <2>1. t \in P(s) /\ t \notin P(t)
    BY <1>4 DEF Before
  <2>2. ASSUME NEW x \in P(t) PROVE x \in P(s)
    <3>1. /\ x \in 1 .. n /\ Before(targets, x, t) /\ targets[x] \in Nat /\ targets[t] \in Nat
          /\ targets[s] \in Nat
      OBVIOUS
    <3>2. Before(targets, x, s)
      BY <1>4, <3>1 DEF Before
    <3> QED
      BY <3>1, <3>2
  <2> HIDE DEF P
  <2>3. P(t) \in SUBSET P(s) /\ P(t) # P(s)
    BY <2>1, <2>2
  <2>4. Cardinality(P(t)) <= Cardinality(P(s)) /\ Cardinality(P(t)) # Cardinality(P(s))
    BY <1>2, <2>1, <2>3, FS_Subset
  <2> QED
    BY <1>2, <2>4
<1> HIDE DEF P
<1> QED
  BY <1>2, <1>3, <1>4

\* A permutation of the places from 0 on.
IsOrder(array, n) ==
  /\ array \in [1 .. n -> 0 .. n - 1]
  /\ \A s, t \in 1 .. n : array[s] = array[t] => s = t
  /\ \A r \in 0 .. n - 1 : \E s \in 1 .. n : array[s] = r

LEMMA RankedIsOrder ==
  ASSUME NEW n \in Nat, NEW targets \in [1 .. n -> Nat]
  PROVE  IsOrder(Ranked(targets), n)
<1> DEFINE R == Ranked(targets)
           T == 0 .. n - 1
<1>1. DOMAIN R = 1 .. n /\ R = [s \in 1 .. n |-> R[s]]
  BY DEF Ranked
<1>2. \A s \in 1 .. n : R[s] \in T
  BY PlacesAscend
<1>3. R \in [1 .. n -> T]
  BY <1>1, <1>2
<1>4. ASSUME NEW s \in 1 .. n, NEW t \in 1 .. n, R[s] = R[t] PROVE s = t
  <2>1. ~Before(targets, s, t) /\ ~Before(targets, t, s)
    <3>1. /\ Before(targets, t, s) => R[t] < R[s]
          /\ Before(targets, s, t) => R[s] < R[t]
      BY PlacesAscend
    <3>2. R[s] \in Int /\ R[t] \in Int
      BY <1>2
    <3> HIDE DEF R
    <3> QED
      BY <1>4, <3>1, <3>2
  <2>2. targets[s] \in Nat /\ targets[t] \in Nat
    OBVIOUS
  <2> QED
    BY <2>1, <2>2 DEF Before
<1>5. IsFiniteSet(T) /\ Cardinality(T) = n /\ IsFiniteSet(1 .. n) /\ Cardinality(1 .. n) = n
  <2>1. 0 \in Int /\ n - 1 \in Int /\ 1 \in Int /\ n \in Int
    OBVIOUS
  <2>2. /\ IsFiniteSet(0 .. n - 1)
        /\ Cardinality(0 .. n - 1) = IF 0 > n - 1 THEN 0 ELSE (n - 1) - 0 + 1
    BY <2>1, FS_Interval
  <2>3. /\ IsFiniteSet(1 .. n)
        /\ Cardinality(1 .. n) = IF 1 > n THEN 0 ELSE n - 1 + 1
    BY <2>1, FS_Interval
  <2> QED
    BY <2>2, <2>3
<1> HIDE DEF R, T
<1>6. R \in Injection(1 .. n, T)
  BY <1>3, <1>4, Fun_IsInj
<1>7. R \in Surjection(1 .. n, T)
  BY <1>5, <1>6, FS_Injection
<1>8. \A r \in T : \E s \in 1 .. n : R[s] = r
  BY <1>7, Fun_SurjectionProperties
<1> QED
  BY <1>3, <1>4, <1>8 DEF IsOrder, R, T

\* The inverse of a permutation is one, and gives each place back.
LEMMA InverseIsOrder ==
  ASSUME NEW n \in Nat, NEW array, IsOrder(array, n)
  PROVE  /\ IsOrder(Invert(array), n)
         /\ \A s \in 1 .. n : Invert(array)[array[s] + 1] = s - 1
<1> DEFINE Of(r) == CHOOSE s \in DOMAIN array : array[s] = r - 1
           inv == Invert(array)
<1>1. /\ array \in [1 .. n -> 0 .. n - 1]
      /\ \A s, t \in 1 .. n : array[s] = array[t] => s = t
      /\ \A r \in 0 .. n - 1 : \E s \in 1 .. n : array[s] = r
  BY DEF IsOrder
<1>2. inv = [r \in 1 .. n |-> Of(r) - 1]
  BY <1>1 DEF Invert
<1>3. ASSUME NEW r \in 1 .. n PROVE Of(r) \in 1 .. n /\ array[Of(r)] = r - 1
  <2>1. r - 1 \in 0 .. n - 1
    OBVIOUS
  <2>2. \E s \in DOMAIN array : array[s] = r - 1
    BY <1>1, <2>1
  <2>3. Of(r) \in DOMAIN array /\ array[Of(r)] = r - 1
    BY <2>2
  <2> HIDE DEF Of
  <2> QED
    BY <1>1, <2>3
<1> HIDE DEF Of, inv
<1>4. ASSUME NEW s \in 1 .. n PROVE array[s] + 1 \in 1 .. n /\ inv[array[s] + 1] = s - 1
  <2>1. array[s] \in 0 .. n - 1
    BY <1>1
  <2>2. PICK r \in 1 .. n : r = array[s] + 1
    BY <2>1
  <2>3. Of(r) \in 1 .. n /\ array[Of(r)] = r - 1 /\ r - 1 = array[s]
    BY <1>3, <2>1, <2>2
  <2>4. Of(r) = s
    BY <1>1, <2>3
  <2>5. inv[r] = s - 1
    BY <1>2, <2>4
  <2> QED
    BY <2>2, <2>5
<1>5. inv \in [1 .. n -> 0 .. n - 1]
  <2>1. ASSUME NEW r \in 1 .. n PROVE Of(r) - 1 \in 0 .. n - 1
    BY <1>3
  <2> QED
    BY <1>2, <2>1
<1>6. ASSUME NEW q \in 1 .. n, NEW r \in 1 .. n, inv[q] = inv[r] PROVE q = r
  <2>1. Of(q) \in 1 .. n /\ Of(r) \in 1 .. n /\ array[Of(q)] = q - 1 /\ array[Of(r)] = r - 1
    BY <1>3
  <2>2. Of(q) - 1 = Of(r) - 1
    BY <1>2, <1>6
  <2>3. Of(q) = Of(r)
    BY <2>1, <2>2
  <2>4. q - 1 = r - 1
    BY <2>1, <2>3
  <2> QED
    BY <2>4
<1>7. ASSUME NEW p \in 0 .. n - 1 PROVE \E r \in 1 .. n : inv[r] = p
  <2>1. PICK s \in 1 .. n : s = p + 1
    OBVIOUS
  <2>2. array[s] + 1 \in 1 .. n /\ inv[array[s] + 1] = s - 1
    BY <1>4
  <2>3. s - 1 = p
    BY <2>1
  <2> QED
    BY <2>2, <2>3
<1> QED
  BY <1>4, <1>5, <1>6, <1>7 DEF IsOrder, inv

\* The order of a translation is a permutation of the source words, whatever
\* the alignment: every word has a place of its own, the words keep the order
\* of their least targets, and those that share a target their own; turning the
\* permutation round twice gives it back (Permutation::set, checkValid and
\* invert).
THEOREM AlignmentsGiveOrders ==
  ASSUME NEW pairs, ToSet(pairs) \subseteq Nat \X Nat, NEW length \in Nat, NEW targetLength
  PROVE  LET array == Permutation(pairs, length, targetLength).array
             least == Targets(pairs, length)
         IN /\ array \in [1 .. length -> 0 .. length - 1]
            /\ CheckValid(array) /\ CheckValid(Invert(array))
            /\ Invert(Invert(array)) = array
            /\ \A s, t \in 1 .. length :
                 least[s] < least[t] \/ (least[s] = least[t] /\ s < t) => array[s] < array[t]
<1> DEFINE array == Ranked(Targets(pairs, length))
           least == Targets(pairs, length)
           inv == Invert(array)
<1>1. Permutation(pairs, length, targetLength).array = array
  BY DEF Permutation
<1>2. least \in [1 .. length -> Nat]
  BY TargetsAre
<1>3. IsOrder(array, length)
  BY <1>2, RankedIsOrder
<1>4. \A s, t \in 1 .. length : Before(least, s, t) => array[s] < array[t]
  BY <1>2, PlacesAscend
<1> HIDE DEF array, least
<1>5. IsOrder(inv, length) /\ \A s \in 1 .. length : inv[array[s] + 1] = s - 1
  BY <1>3, InverseIsOrder
<1> HIDE DEF inv
<1>6. /\ IsOrder(Invert(inv), length)
      /\ \A r \in 1 .. length : Invert(inv)[inv[r] + 1] = r - 1
  BY <1>5, InverseIsOrder
<1>7. ASSUME NEW a, IsOrder(a, length) PROVE CheckValid(a)
  <2>1. /\ a \in [1 .. length -> 0 .. length - 1]
        /\ \A r \in 0 .. length - 1 : \E s \in 1 .. length : a[s] = r
    BY <1>7 DEF IsOrder
  <2>2. Len(a) = length
    BY <2>1
  <2> QED
    BY <2>1, <2>2 DEF CheckValid
<1>8. Invert(inv) = array
  <2>1. /\ array \in [1 .. length -> 0 .. length - 1]
        /\ Invert(inv) \in [1 .. length -> 0 .. length - 1]
    BY <1>3, <1>6 DEF IsOrder
  <2>2. ASSUME NEW s \in 1 .. length PROVE Invert(inv)[s] = array[s]
    <3>1. PICK r \in 1 .. length : r = array[s] + 1
      BY <2>1
    <3>2. inv[r] = s - 1
      BY <1>5, <3>1
    <3>3. Invert(inv)[inv[r] + 1] = r - 1
      BY <1>6
    <3>4. inv[r] + 1 = s /\ r - 1 = array[s]
      BY <2>1, <3>1, <3>2
    <3> QED
      BY <3>3, <3>4
  <2> HIDE DEF inv
  <2> QED
    BY <2>1, <2>2
<1>9. array \in [1 .. length -> 0 .. length - 1]
  BY <1>3 DEF IsOrder
<1> QED
  BY <1>1, <1>3, <1>4, <1>5, <1>7, <1>8, <1>9 DEF Before, least, inv
=======================================================================
