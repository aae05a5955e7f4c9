------------------------------- MODULE Words -------------------------------
(***************************************************************************)
(* From a line of text to word codes (mert/Scorer.cpp, Vocabulary.cpp,     *)
(* Ngram.h).  A token is the tuple of its factors and a line a sequence of *)
(* tokens.  All scorers of a program share one vocabulary; it is the       *)
(* sequence of its words, whose codes are their places from 0 on.          *)
(***************************************************************************)
EXTENDS Integers, Sequences, FiniteSets, SequencesExt

CONSTANTS
  LowerCase(_),              (* tolower, of a factor                       *)
  ProcessSentence(_, _)      (* PreProcessFilter: what a command answers   *)

\* The result of a call that changes the vocabulary or throws.
Returned(vocab, value) == [ok |-> TRUE, vocab |-> vocab, value |-> value]
Thrown(vocab) == [ok |-> FALSE, vocab |-> vocab, value |-> <<>>]

\* A series of calls that ends with the first that throws; Call(vocab, x)
\* returns, and the values are collected.
Calls(vocab, Call(_, _), seq) ==
  LET Next(acc, x) ==
        LET After(r) == IF r.ok THEN Returned(r.vocab, Append(acc.value, r.value))
                        ELSE Thrown(r.vocab)
        IN IF acc.ok THEN After(Call(acc.vocab, x)) ELSE acc
  IN FoldLeft(Next, Returned(vocab, <<>>), seq)
----------------------------------------------------------------------------
\* "Factor index is out of range."
HasFactors(factors, line) ==
  \A i \in DOMAIN line, j \in DOMAIN factors : factors[j] + 1 \in DOMAIN line[i]

ApplyFactors(factors, line) ==
  IF factors = <<>> THEN line
  ELSE [i \in DOMAIN line |-> [j \in DOMAIN factors |-> line[i][factors[j] + 1]]]

\* preprocessSentence of a scorer: filter first, then factors.
Preprocessable(scorer, line) == HasFactors(scorer.factors, ProcessSentence(scorer.filter, line))

Preprocessed(scorer, line) == ApplyFactors(scorer.factors, ProcessSentence(scorer.filter, line))

\* The words as they are encoded.
WordsOf(scorer, line) ==
  IF scorer.keepCase THEN line
  ELSE [i \in DOMAIN line |-> [j \in DOMAIN line[i] |-> LowerCase(line[i][j])]]
----------------------------------------------------------------------------
\* A word that is not in the vocabulary has code -1, kUnknownToken.
Code(vocab, word) == SelectInSeq(vocab, LAMBDA w : w = word) - 1

Encode(vocab, word) == IF word \in ToSet(vocab) THEN vocab ELSE Append(vocab, word)

Codes(vocab, words) == [i \in DOMAIN words |-> Code(vocab, words[i])]

TokenizeAndEncode(scorer, vocab, line) ==
  LET Grown(v, words) == Returned(v, Codes(v, words))
      Of(words) == Grown(FoldLeft(Encode, vocab, words), words)
  IN Of(WordsOf(scorer, line))

TokenizeAndEncodeTesting(scorer, vocab, line) ==
  Returned(vocab, Codes(vocab, WordsOf(scorer, line)))

\* A line that is preprocessed and then encoded.
EncodeLine(scorer, vocab, line) ==
  IF Preprocessable(scorer, line) THEN TokenizeAndEncode(scorer, vocab, Preprocessed(scorer, line))
  ELSE Thrown(vocab)
----------------------------------------------------------------------------
Span(s, i, n) == SubSeq(s, i, i + n - 1)

\* A slip: the last n-gram of each order is left out.
CountNgramsShort(codes, order) ==
  LET ngrams == UNION {{Span(codes, i, n) : i \in 1 .. Len(codes) - n} : n \in 1 .. order}
  IN [g \in ngrams |-> Cardinality({i \in 1 .. Len(codes) - Len(g) : Span(codes, i, Len(g)) = g})]

\* NgramCounts: how often each n-gram of up to order words occurs.
CountNgrams(codes, order) ==
  LET ngrams == UNION {{Span(codes, i, n) : i \in 1 .. Len(codes) - n + 1} : n \in 1 .. order}
  IN [g \in ngrams |-> Cardinality({i \in 1 .. Len(codes) - Len(g) + 1 : Span(codes, i, Len(g)) = g})]

Lookup(counts, ngram) == IF ngram \in DOMAIN counts THEN counts[ngram] ELSE 0
----------------------------------------------------------------------------
\* Where n-grams start in a text, and where a given one does.
Spots(words, n) == 1 .. Len(words) - n + 1

Occurrences(words, span) == {i \in Spots(words, Len(span)) : Span(words, i, Len(span)) = span}

\* The words of a text that have their like in a reference: each place counts
\* as long as some reference has as many of them as the text has up to there.
Covered(words, texts, n) ==
  {i \in Spots(words, n) :
     \E f \in DOMAIN texts :
       LET span == Span(words, i, n)
       IN Cardinality({j \in Occurrences(words, span) : j <= i})
            <= Cardinality(Occurrences(texts[f], span))}
=============================================================================
