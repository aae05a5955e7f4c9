---------------------------- MODULE WordErrors ----------------------------
(***************************************************************************)
(* The statistics of PER (mert/PerScorer.cpp), of WER and CDER             *)
(* (CderScorer.cpp) and of SEMPOS (SemposScorer.cpp, SemposOverlapping.cpp)*)
(***************************************************************************)
EXTENDS Integers, Sequences, FiniteSets, FiniteSetsExt, SequencesExt, Words
----------------------------------------------------------------------------
(***************************************************************************)
(* HAMMING and KENDALL (mert/PermutationScorer.cpp, Permutation.cpp): how  *)
(* far the order a translation puts the source words in is from that of a  *)
(* reference.  Positions count from 0, as in alignments.                   *)
(***************************************************************************)
CONSTANTS
  MultFact,             (* SCORE_MULTFACT: the value 1.0 as an integer     *)
  Root(_, _),           (* MultFact times the root of a fraction           *)
  Brief(_, _, _)        (* a value times the brevity penalty of two lengths*)

\* An item of an alignment: source and target positions <<first, last>>, of
\* phrases ("0-1=0-2") or of single words ("0-1").
Aligned(source, target, phrases) == [source |-> source, target |-> target, phrases |-> phrases]

Words1(s, t) == Aligned(<<s, s>>, <<t, t>>, FALSE)

\* convertMosesToStandard: all pairs of positions of each item, in order.
WordPairs(item) ==
  LET width == item.target[2] - item.target[1] + 1
  IN [k \in 1 .. width * (item.source[2] - item.source[1] + 1) |->
        <<item.source[1] + ((k - 1) \div width), item.target[1] + ((k - 1) % width)>>]

\* Of phrases when the first item is; the program ends at an item without "=".
Convertible(align) ==
  (align # <<>> /\ align[1].phrases) => \A i \in DOMAIN align : align[i].phrases

StandardFormat(align) == FlattenSeq([i \in DOMAIN align |-> WordPairs(align[i])])
----------------------------------------------------------------------------
\* set ends the program at a source position past the length.
InRange(pairs, length) == length = 0 \/ \A i \in DOMAIN pairs : pairs[i][1] <= length

\* The least target position of each source word, that of the word before when
\* it has none, and 0 at the start.
Targets(pairs, length) ==
  LET Of(s) == {p[2] : p \in {q \in ToSet(pairs) : q[1] = s}}
      Next(acc, s) == Append(acc, IF Of(s) # {} THEN Min(Of(s)) ELSE IF acc = <<>> THEN 0 ELSE Last(acc))
  IN FoldLeft(Next, <<>>, [s \in 1 .. length |-> s - 1])

\* A slip: words with the same target keep no order of their own.
RankedTied(targets) ==
  [s \in DOMAIN targets |-> Cardinality({t \in DOMAIN targets : targets[t] < targets[s]})]

\* The ranks of the words by their target and then their own position.
Ranked(targets) ==
  [s \in DOMAIN targets |->
     Cardinality({t \in DOMAIN targets : \/ targets[t] < targets[s]
                                         \/ targets[t] = targets[s] /\ t < s})]

Permutation(pairs, sourceLength, targetLength) ==
  [array |-> Ranked(Targets(pairs, sourceLength)), target |-> targetLength]

Invert(array) == [r \in DOMAIN array |-> (CHOOSE s \in DOMAIN array : array[s] = r - 1) - 1]

CheckValid(array) == {array[s] : s \in DOMAIN array} = 0 .. Len(array) - 1
----------------------------------------------------------------------------
\* MultFact is a multiple of the lengths in use, so that nothing is rounded.
CalculateHamming(array, compare) ==
  LET n == Len(array)
      wrong == Cardinality({s \in DOMAIN array : array[s] # compare[s]})
  IN IF n = 0 THEN 0 ELSE MultFact - (MultFact * wrong) \div n

\* The share of the pairs of words that are in another order.
CalculateKendall(array, compare) ==
  LET n == Len(array)
      turned == Cardinality({p \in (DOMAIN array) \X (DOMAIN array) :
                               array[p[1]] < array[p[2]] /\ compare[p[1]] > compare[p[2]]})
  IN CASE n = 0 -> 0
       [] n = 1 -> MultFact
       [] OTHER -> MultFact - Root(turned, (n * n - n) \div 2)

\* A translation that is shorter than the reference is punished.
Distance(metric, perm, ref) ==
  LET value == IF metric = "HAMMING" THEN CalculateHamming(perm.array, ref.array)
               ELSE CalculateKendall(perm.array, ref.array)
  IN CASE ref.target <= perm.target -> value
       [] perm.target = 0           -> 0
       [] OTHER                     -> Brief(value, ref.target, perm.target)
----------------------------------------------------------------------------
\* setReferenceFiles: the alignments come from files of their own, the target
\* lengths from the reference files.  "Length of permutations not equal" cannot
\* come up: both have the length of the source sentence.
ReferencePerms(scorer, files) ==
  [f \in DOMAIN scorer.refalign |->
     [sid \in DOMAIN scorer.refalign[f] |->
        Permutation(StandardFormat(scorer.refalign[f][sid]), scorer.sources[sid],
                    Len(files[f][sid].words))]]

\* prepareStats, for a line of words ||| alignment.
Alignable(scorer, sid, align) ==
  Convertible(align) /\ InRange(StandardFormat(align), scorer.sources[sid])

PermutationPrepare(scorer, perms, sid, words, align) ==
  LET hyp == Permutation(StandardFormat(align), scorer.sources[sid], Len(words))
      values == [f \in DOMAIN perms |-> Distance(scorer.type, hyp, perms[f][sid])]
      chosen == IF scorer.refchoice = "average" THEN FoldLeft(+, 0, values) \div Len(values)
                ELSE Max(ToSet(values) \cup {0})
  IN <<chosen, 1>>
----------------------------------------------------------------------------

CONSTANTS
  MaxNOC,         (* kMaxNOC: how many classes SEMPOS can tell apart       *)
  NoClass,        (* the class "-", which is not counted                   *)
  Thousand        (* multCoeff; a weight of 1.0                            *)

ASSUME ClassesAssumption == MaxNOC \in Nat \ {0} /\ Thousand \in Nat \ {0}

\* The first of the best of a sequence: Better(b, a) when b replaces a.
FirstOf(seq, Better(_, _)) ==
  FoldLeft(LAMBDA a, b : IF Better(b, a) THEN b ELSE a, Head(seq), Tail(seq))

Integers1To(n) == [i \in 1 .. n |-> i]
----------------------------------------------------------------------------
\* Files of sentences as codes, one file after the other.
EncodeFile(scorer, vocab, lines) ==
  Calls(vocab, LAMBDA v, line : EncodeLine(scorer, v, line.words), lines)

EncodeFiles(scorer, vocab, files) ==
  Calls(vocab, LAMBDA v, lines : EncodeFile(scorer, v, lines), files)

PerReferences(scorer, vocab, files) ==
  IF Len(files) # 1 THEN Thrown(vocab) ELSE EncodeFile(scorer, vocab, files[1])

Count(codes, c) == Cardinality({i \in DOMAIN codes : codes[i] = c})

\* Words in common whatever their order, and both lengths.
PerPrepare(scorer, vocab, refs, sid, line) ==
  LET Of(encoded, ref) ==
        IF ~encoded.ok THEN encoded
        ELSE LET test == encoded.value
             IN Returned(encoded.vocab,
                  <<MapThenSumSet(LAMBDA c : Min({Count(ref, c), Count(test, c)}), ToSet(test)),
                    Len(test), Len(ref)>>)
  IN IF sid > Len(refs) THEN Thrown(vocab) ELSE Of(EncodeLine(scorer, vocab, line), refs[sid])
----------------------------------------------------------------------------
\* computeCD: row[i + 1] is the cost of the first i candidate words against the
\* reference words seen so far.
FirstRow(cand, longJumps) == [i \in 1 .. Len(cand) + 1 |-> IF longJumps /\ i > 1 THEN 1 ELSE i - 1]

NextRow(cand, row, word, longJumps) ==
  LET Cost(acc, i) ==
        Append(acc, Min({acc[i] + 1, row[i + 1] + 1, row[i] + (IF cand[i] = word THEN 0 ELSE 1)}))
      Jumped(costs) ==
        IF longJumps THEN LET jump == 1 + Min(ToSet(costs))
                          IN [i \in DOMAIN costs |-> Min({costs[i], jump})]
        ELSE costs
  IN Jumped(FoldLeft(Cost, <<row[1] + 1>>, Integers1To(Len(cand))))

ComputeCD(cand, ref, longJumps) ==
  <<Last(FoldLeft(LAMBDA row, word : NextRow(cand, row, word, longJumps),
                  FirstRow(cand, longJumps), ref)),
    Len(ref)>>

\* The least number of words to put in, leave out or replace, for all pairs of
\* beginnings, p[1] words of a and p[2] words of b.
Edits(a, b) ==
  LET lev[p \in (0 .. Len(a)) \X (0 .. Len(b))] ==
        LET i == p[1]
            j == p[2]
        IN IF i = 0 \/ j = 0 THEN i + j
           ELSE IF a[i] = b[j] THEN lev[<<i - 1, j - 1>>]
           ELSE 1 + Min({lev[<<i - 1, j>>], lev[<<i, j - 1>>], lev[<<i - 1, j - 1>>]})
  IN lev[<<Len(a), Len(b)>>]

Missing(words, text) == Cardinality({w \in ToSet(text) : w \notin ToSet(words)})

\* The score as an integer: what is after the point is cut off.
Truncated(stats) ==
  IF stats[2] = 0 THEN 1
  ELSE LET num == stats[2] - stats[1]
       IN IF num >= 0 THEN num \div stats[2] ELSE -((-num) \div stats[2])

CderPrepare(scorer, vocab, refs, sid, line) ==
  LET longJumps == scorer.type = "CDER"
      Of(encoded) ==
        IF ~encoded.ok THEN encoded
        ELSE Returned(encoded.vocab,
               FirstOf([rid \in DOMAIN refs |-> ComputeCD(encoded.value, refs[rid][sid], longJumps)],
                       LAMBDA b, a : Truncated(b) > Truncated(a)))
  IN Of(EncodeLine(scorer, vocab, line))
----------------------------------------------------------------------------
\* SEMPOS has maps of its own, for items and for classes; codes are places.
SemposMaps(weights) == [items |-> SetToSeq(DOMAIN weights), classes |-> <<>>]

EncodeSempos(maps, token) ==
  LET items == Encode(maps.items, token[1])
      Of(classes) ==
        IF Len(classes) > MaxNOC THEN Thrown(maps)
        ELSE Returned([items |-> items, classes |-> classes],
                      IF token[2] = NoClass THEN {}
                      ELSE {<<Code(items, token[1]), Code(classes, token[2])>>})
  IN IF Len(token) # 2 THEN Thrown(maps)
     ELSE Of(IF token[2] = NoClass THEN maps.classes ELSE Encode(maps.classes, token[2]))

\* A sentence is the set of its items with their classes.
SemposSentence(scorer, maps, line) ==
  LET Of(r) == IF r.ok THEN Returned(r.vocab, UNION ToSet(r.value)) ELSE r
  IN IF Preprocessable(scorer, line)
     THEN Of(Calls(maps, EncodeSempos, Preprocessed(scorer, line))) ELSE Thrown(maps)

SemposReferences(scorer, maps, files) ==
  Calls(maps, LAMBDA m, lines : Calls(m, LAMBDA n, line : SemposSentence(scorer, n, line.words),
                                      lines), files)

\* Weights are by item code, 1.0 when there is none.
WeightOf(scorer, maps, item) ==
  LET name == maps.items[item + 1]
  IN IF name \in DOMAIN scorer.weights THEN scorer.weights[name] ELSE Thousand

WeightSum(scorer, maps, entries) == MapThenSumSet(LAMBDA e : WeightOf(scorer, maps, e[1]), entries)

\* cap-micro: all classes together; cap-macro: each class for itself.
Overlapping(scorer, maps, cand, ref) ==
  IF scorer.overlapping = "cap-micro"
  THEN <<WeightSum(scorer, maps, cand \cap ref), WeightSum(scorer, maps, ref)>>
  ELSE [k \in 1 .. 2 * MaxNOC |->
          WeightSum(scorer, maps, {e \in IF k % 2 = 1 THEN cand \cap ref ELSE ref :
                                     e[2] = (k - 1) \div 2})]

\* With several references the best score is never noted: the last one stays.
SemposPrepare(scorer, maps, refs, sid, line) ==
  LET Of(cand) ==
        IF ~cand.ok THEN cand
        ELSE Returned(cand.vocab,
               Last([rid \in DOMAIN refs |-> Overlapping(scorer, cand.vocab, cand.value, refs[rid][sid])]))
  IN Of(SemposSentence(scorer, maps, line))
=============================================================================
