----------------------------- MODULE BleuStats -----------------------------
(***************************************************************************)
(* The statistics of the BLEU scorers (mert/BleuScorer.cpp,                *)
(* BleuDocScorer.cpp, Reference.h).  A reference sentence is what all      *)
(* reference files say of it: for each n-gram the most any of them has, and*)
(* their lengths.                                                          *)
(***************************************************************************)
EXTENDS Words, FiniteSetsExt

CONSTANT
  Order,          (* kBleuNgramOrder                                       *)
  LineBreak       (* the token "\n" between the sentences of a document    *)

ASSUME OrderAssumption == Order \in Nat \ {0}

Reference == [counts |-> <<>>, lengths |-> <<>>]

MergeCounts(counts, more) ==
  [g \in DOMAIN counts \cup DOMAIN more |-> Max({Lookup(counts, g), Lookup(more, g)})]

Merged(ref, codes) ==
  [counts  |-> MergeCounts(ref.counts, CountNgrams(codes, Order)),
   lengths |-> Append(ref.lengths, Len(codes))]

CalcAverage(ref) == FoldLeft(+, 0, ref.lengths) \div Len(ref.lengths)

CalcClosest(ref, length) ==
  LET Diff(r) == IF r > length THEN r - length ELSE length - r
      least == Min({Diff(r) : r \in ToSet(ref.lengths)})
  IN Min({r \in ToSet(ref.lengths) : Diff(r) = least})

CalcReferenceLength(scorer, ref, length) ==
  CASE scorer.reflen = "average"  -> CalcAverage(ref)
    [] scorer.reflen = "closest"  -> CalcClosest(ref, length)
    [] scorer.reflen = "shortest" -> Min(ToSet(ref.lengths))

\* What each strategy asks of the length for a text and its references.
FittingLength(scorer, words, texts, length) ==
  LET lengths == {Len(texts[f]) : f \in DOMAIN texts}
      Off(l) == IF l > Len(words) THEN l - Len(words) ELSE Len(words) - l
      total == MapThenSumSet(LAMBDA f : Len(texts[f]), DOMAIN texts)
  IN CASE scorer.reflen = "closest" ->
            /\ length \in lengths
            /\ \A l \in lengths : Off(length) < Off(l) \/ (Off(length) = Off(l) /\ length <= l)
       [] scorer.reflen = "shortest" -> length \in lengths /\ \A l \in lengths : length <= l
       [] scorer.reflen = "average" ->
            /\ length * Cardinality(DOMAIN texts) <= total
            /\ total < (length + 1) * Cardinality(DOMAIN texts)

\* What the statistics of a text are for its references, text by text.
BleuOfWords(scorer, stats, words, texts) ==
  /\ \A n \in 1 .. Order : /\ stats[2 * n - 1] = Cardinality(Covered(words, texts, n))
                           /\ stats[2 * n] = Cardinality(Spots(words, n))
  /\ FittingLength(scorer, words, texts, stats[2 * Order + 1])
----------------------------------------------------------------------------
\* BleuScorer::OpenReferenceStream: the first file brings the sentences, the
\* others add to them and may not have more.
OpenReference(scorer, vocab, refs, lines, first) ==
  LET Merge(sid, encoded) ==
        IF ~encoded.ok THEN encoded
        ELSE Returned(encoded.vocab,
                      IF first THEN Merged(Reference, encoded.value)
                      ELSE Merged(refs[sid], encoded.value))
      ReadLine(v, sid) ==
        IF ~first /\ sid > Len(refs) THEN Thrown(v)
        ELSE Merge(sid, EncodeLine(scorer, v, lines[sid].words))
      Rest(r) == IF r.ok /\ ~first
                 THEN Returned(r.vocab, r.value \o SubSeq(refs, Len(r.value) + 1, Len(refs)))
                 ELSE r
  IN Rest(Calls(vocab, ReadLine, [i \in DOMAIN lines |-> i]))

\* setReferenceFiles: the vocabulary is cleared, for all its scorers.
BleuReferences(scorer, files) ==
  LET Open(acc, f) ==
        IF acc.ok THEN OpenReference(scorer, acc.vocab, acc.value, files[f], f = 1) ELSE acc
  IN FoldLeft(Open, Returned(<<>>, <<>>), [f \in DOMAIN files |-> f])

\* What is right and what is guessed of each order, and then the length.
Clipped(counts, refCounts) ==
  [k \in 1 .. 2 * Order |->
     LET ofOrder == {g \in DOMAIN counts : Len(g) = (k + 1) \div 2}
     IN MapThenSumSet(LAMBDA g : IF k % 2 = 1 THEN Min({counts[g], Lookup(refCounts, g)})
                                 ELSE counts[g], ofOrder)]

SentenceStats(scorer, ref, codes) ==
  Append(Clipped(CountNgrams(codes, Order), ref.counts),
         CalcReferenceLength(scorer, ref, Len(codes)))

\* prepareStats: the words of a hypothesis do not enter the vocabulary.
BleuPrepare(scorer, vocab, refs, sid, line) ==
  IF sid > Len(refs) \/ ~Preprocessable(scorer, line) THEN Thrown(vocab)
  ELSE LET Of(encoded) == Returned(vocab, SentenceStats(scorer, refs[sid], encoded.value))
       IN Of(TokenizeAndEncodeTesting(scorer, vocab, Preprocessed(scorer, line)))
----------------------------------------------------------------------------
\* BLEUDOC: lines that start a document and lines with a sentence of one; each
\* file brings a document for each that it starts, the first file the sentences.
OpenDocuments(scorer, vocab, docs, lines, first) ==
  LET Add(acc, encoded) ==
        IF ~encoded.ok THEN [acc EXCEPT !.ok = FALSE, !.vocab = encoded.vocab]
        ELSE LET old == IF first THEN Reference ELSE acc.docs[acc.doc][acc.sid]
                 new == Merged(old, encoded.value)
             IN [acc EXCEPT !.vocab = encoded.vocab, !.sid = @ + 1,
                            !.docs = [@ EXCEPT ![acc.doc] =
                                        IF first THEN Append(@, new)
                                        ELSE [@ EXCEPT ![acc.sid] = new]]]
      ReadLine(acc, line) ==
        CASE ~acc.ok -> acc
          [] line.tag = "doc" -> [acc EXCEPT !.doc = @ + 1, !.sid = 1, !.docs = Append(@, <<>>)]
          [] line.tag = "text" -> acc
          [] line.tag = "seg" ->
               IF ~first /\ acc.sid > Len(acc.docs[acc.doc]) THEN [acc EXCEPT !.ok = FALSE]
               ELSE Add(acc, EncodeLine(scorer, acc.vocab, line.words))
      After(acc) == IF acc.ok THEN Returned(acc.vocab, acc.docs) ELSE Thrown(acc.vocab)
  IN After(FoldLeft(ReadLine, [ok |-> TRUE, vocab |-> vocab, docs |-> docs, doc |-> 0, sid |-> 1],
                    lines))

DocReferences(scorer, files) ==
  LET Open(acc, f) ==
        IF acc.ok THEN OpenDocuments(scorer, acc.vocab, acc.value, files[f], f = 1) ELSE acc
  IN FoldLeft(Open, Returned(<<>>, <<>>), [f \in DOMAIN files |-> f])

\* splitDoc: what comes before each line break that has a space on both sides
\* left; the text after the last one is no sentence.
SplitDoc(line) ==
  LET Visit(acc, p) ==
        IF line[p] = LineBreak /\ p > acc.start /\ p < Len(line)
        THEN [start |-> p + 1, parts |-> Append(acc.parts, SubSeq(line, acc.start, p - 1))]
        ELSE acc
  IN FoldLeft(Visit, [start |-> 1, parts |-> <<>>], [p \in DOMAIN line |-> p]).parts

AddStats(a, b) == [k \in DOMAIN a |-> a[k] + b[k]]

DocPrepare(scorer, vocab, docs, sid, line) ==
  LET Sentence(v, part) ==
        LET i == part[1]
            Of(encoded) ==
              IF ~encoded.ok \/ i > Len(docs[sid]) THEN Thrown(encoded.vocab)
              ELSE Returned(encoded.vocab, SentenceStats(scorer, docs[sid][i], encoded.value))
        IN Of(EncodeLine(scorer, v, part[2]))
      Total(r) ==
        IF r.ok THEN Returned(r.vocab, FoldLeft(AddStats, [k \in 1 .. 2 * Order + 1 |-> 0], r.value))
        ELSE r
      parts == SplitDoc(line)
  IN IF sid > Len(docs) THEN Thrown(vocab)
     ELSE Total(Calls(vocab, Sentence, [i \in DOMAIN parts |-> <<i, parts[i]>>]))
=============================================================================
