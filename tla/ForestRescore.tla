---------------------------- MODULE ForestRescore ----------------------------
(***************************************************************************)
(* Viterbi (mert/ForestRescore.cpp:337-429) over the graph that pruning    *)
(* left, with HgBleuScorer and its state for each vertex (:114-313).       *)
(*                                                                         *)
(* A score is a float: that of a vertex without edges is kMinScore / 2 and *)
(* swallows what is added to it, two of them are kMinScore, more are minus *)
(* infinity.  So a score is the number of dead ends below, and, if there   *)
(* is none, an integer.  BLEU is left open, as a function of the numbers   *)
(* of matches and of n-grams by order.                                     *)
(***************************************************************************)
EXTENDS HypergraphPrune

CONSTANTS
  Order,        (* kBleuNgramOrder                                         *)
  Boundary,     (* <s> and </s>                                            *)
  References,   (* the reference translations, a sequence of texts         *)
  Weights,      (* the weights at the time of decoding                     *)
  Bleu(_, _),   (* sentenceLevelBackgroundBleu                             *)
  Junk          (* what may be read past the end of bleuStats (:227)       *)

ASSUME DecodingAssumption == Weights \subseteq Int /\ Order \in Nat \ {0}

VARIABLES
  weights, bleuWeight,
  vi,           (* the vertex whose turn it is                             *)
  back,         (* backPointers: [edge, dead, score], edge 0 for none      *)
  state,        (* vertexStates_: [left, right, length, totals, matches]   *)
  hypo,         (* bestHypo: [text, feature, totals, matches]              *)
  pc

decoding == <<weights, bleuWeight, vi, back, state, hypo>>
wvars == <<gvars, decoding, pc>>

Orders == 1 .. Order
NoCounts == [n \in Orders |-> 0]
Empty == [left |-> <<>>, right |-> <<>>, length |-> 0, totals |-> NoCounts, matches |-> NoCounts]

VInit ==
  /\ GInit
  /\ weights = 0 /\ bleuWeight = 0
  /\ vi = 0 /\ back = <<>> /\ state = <<>>
  /\ hypo = [text |-> <<>>, feature |-> 0, totals |-> NoCounts, matches |-> NoCounts]
  /\ pc = "prune"

PruneGraph ==
  /\ pc = "prune" /\ Prune
  /\ pc' = "start"
  /\ UNCHANGED decoding

\* HopeFear decodes with bleuWeight 1, -1 and 0, MaxModel with 0.
Start ==
  /\ pc = "start"
  /\ weights' \in Weights /\ bleuWeight' \in {-1, 0, 1}
  /\ pc' = "viterbi"
  /\ UNCHANGED <<gvars, vi, back, state, hypo>>

-----------------------------------------------------------------------------
\* How often an n-gram occurs in a text.
Occurrences(ngram, text) ==
  Cardinality({i \in 1 .. Len(text) - Len(ngram) + 1 :
                 SubSeq(text, i, i + Len(ngram) - 1) = ngram})

\* Its occurrences in the references: in the one with the most, or in all.
NgramMatches(ngram, clip) ==
  LET in == [r \in DOMAIN References |-> Occurrences(ngram, References[r])]
  IN IF clip THEN Max(ToSet(in)) ELSE SumFunction(in)

Lesser(a, b) == IF a < b THEN a ELSE b

\* Matches and totals by order of the n-grams at the given <<first, last>> of a
\* text, an n-gram matching at most as often as in the references (UpdateMatches).
Totals(spans) == [n \in Orders |-> Cardinality({s \in spans : s[2] - s[1] + 1 = n})]
Matches(spans, text, clip) ==
  LET At(s) == SubSeq(text, s[1], s[2])
      count(g) == Cardinality({s \in spans : At(s) = g})
  IN [n \in Orders |->
        SumFunction([g \in {At(s) : s \in {s \in spans : s[2] - s[1] + 1 = n}} |->
                       Lesser(count(g), NgramMatches(g, clip))])]

\* What Score walks over: the words of the edge, and for a child its left
\* context, each word with its position in it; if that context is full, a gap
\* that no n-gram crosses and the right context; never a boundary.
Walk(e) ==
  LET Own(w) == <<[word |-> w, at |-> 0]>>
      Context(c) ==
        LET s == state[c]
            Left == [i \in DOMAIN s.left |-> [word |-> s.left[i], at |-> i]]
            Right == [i \in DOMAIN s.right |-> [word |-> s.right[i], at |-> Order]]
        IN IF Len(s.left) = Order - 1
           THEN Left \o <<[word |-> "gap", at |-> Order]>> \o Right ELSE Left
      items == FlattenSeq([k \in DOMAIN e.words |->
                 IF e.words[k] \in Nat THEN Context(e.words[k]) ELSE Own(e.words[k])])
  IN SelectSeq(items, LAMBDA x : x.word \notin Boundary)

\* A slip: an n-gram inside a left context is counted again.
InsideToo(items, i, j) == items[j].at < Order

\* "Only insert ngrams that cross boundaries": those that end in a word of the
\* edge, or in a left context but begin before it.
Crosses(items, i, j) == items[j].at < Order /\ j - i + 1 > items[j].at

EdgeNgrams(items) ==
  {s \in {<<j - n + 1, j>> : j \in DOMAIN items, n \in Orders} :
     /\ s[1] >= 1
     /\ \A k \in s[1] .. s[2] : items[k].word # "gap"
     /\ Crosses(items, s[1], s[2])}

\* The statistics of a child; those of a dead end were never given their size.
Below(c, junk) == IF back[c].edge = 0 THEN [totals |-> junk, matches |-> junk] ELSE state[c]

\* HgBleuScorer::Score, up to the BLEU of its bleuStats.
Stats(e, junk) ==
  LET items == Walk(e)
      spans == EdgeNgrams(items)
      text == [i \in DOMAIN items |-> items[i].word]
      own == Matches(spans, text, FALSE)
      all == Totals(spans)
  IN [totals  |-> [n \in Orders |-> all[n]
        + SumFunction([c \in Children(e) |-> Below(c, junk).totals[n]])],
      matches |-> [n \in Orders |-> own[n]
        + SumFunction([c \in Children(e) |-> Below(c, junk).matches[n]])]]

-----------------------------------------------------------------------------
\* The last m words of a text, or the first.
Prefix(text, m) == SubSeq(text, 1, Lesser(m, Len(text)))
Suffix(text, m) == SubSeq(text, Len(text) - Lesser(m, Len(text)) + 1, Len(text))

\* A slip: the left context of a child is taken for its right one.
LeftState(e, stats) ==
  [left    |-> Prefix(Expand(e, [c \in Children(e) |-> state[c].left]), Order - 1),
   right   |-> Suffix(Expand(e, [c \in Children(e) |-> state[c].left]), Order - 1),
   length  |-> Cardinality({k \in DOMAIN e.words : e.words[k] \notin Nat})
               + SumFunction([c \in Children(e) |-> state[c].length]),
   totals  |-> stats.totals,
   matches |-> stats.matches]

\* UpdateState: contexts are put together from the edge and the contexts of its
\* children, lengths added up.
NewState(e, stats) ==
  [left    |-> Prefix(Expand(e, [c \in Children(e) |-> state[c].left]), Order - 1),
   right   |-> Suffix(Expand(e, [c \in Children(e) |-> state[c].right]), Order - 1),
   length  |-> Cardinality({k \in DOMAIN e.words : e.words[k] \notin Nat})
               + SumFunction([c \in Children(e) |-> state[c].length]),
   totals  |-> stats.totals,
   matches |-> stats.matches]

Dead(e) == SumFunction([c \in Children(e) |-> back[c].dead])

\* A slip: the scores of the children are left out.
EdgeAlone(e) == IF Dead(e) > 0 THEN 0 ELSE weights * e.feature

FeatureScore(e) ==
  IF Dead(e) > 0 THEN 0
  ELSE weights * e.feature + SumFunction([c \in Children(e) |-> back[c].score])

\* A slip: 0 is taken for the score of a vertex not visited yet.
Zero(c) == back[c].score = 0

\* A score of kMinScore is taken for that of a vertex not visited yet.
Unvisited(c) == back[c].dead = 2

Extended(f, x) == [v \in 0 .. vi |-> IF v = vi THEN x ELSE f[v]]

Reached(b, st) ==
  /\ back' = Extended(back, b)
  /\ state' = Extended(state, st)
  /\ vi' = vi + 1

DeadEnd ==
  /\ Incoming(pruned, vi) = {}
  /\ Reached([edge |-> 0, dead |-> 1, score |-> 0], Empty)
  /\ UNCHANGED pc

\* The exception "Graph was not topologically sorted".
Throw ==
  /\ \E k \in Incoming(pruned, vi) : \E c \in Children(pruned.edges[k]) : Unvisited(c)
  /\ pc' = "threw"
  /\ UNCHANGED <<vi, back, state>>

\* The winner is the last of the edges with the best score, BLEU included; the
\* vertex keeps the score without BLEU and the statistics of the winner.
Winner(stats) ==
  LET in == Incoming(pruned, vi)
      e(k) == pruned.edges[k]
      bleu(k) == IF bleuWeight = 0 THEN 0
                 ELSE bleuWeight * Bleu(stats[k].matches, stats[k].totals)
      Better(k, l) ==
        \/ Dead(e(k)) < Dead(e(l))
        \/ /\ Dead(e(k)) = Dead(e(l))
           /\ Dead(e(k)) = 0 => FeatureScore(e(k)) + bleu(k) >= FeatureScore(e(l)) + bleu(l)
  IN {k \in in : Dead(e(k)) <= 2 /\ \A l \in in : Better(k, l) /\ (Better(l, k) => l <= k)}

Rescore ==
  /\ Incoming(pruned, vi) # {}
  /\ \A k \in Incoming(pruned, vi) : \A c \in Children(pruned.edges[k]) : ~Unvisited(c)
  /\ \E junk \in Junk :
       LET stats == [k \in Incoming(pruned, vi) |->
                       IF bleuWeight = 0 THEN [totals |-> NoCounts, matches |-> NoCounts]
                       ELSE Stats(pruned.edges[k], junk)]
       IN IF Winner(stats) = {}
          THEN pc' = "crashed" /\ UNCHANGED <<vi, back, state>>
          ELSE \E k \in Winner(stats) :
                 LET e == pruned.edges[k]
                 IN /\ Reached([edge |-> k, dead |-> Dead(e), score |-> FeatureScore(e)],
                               NewState(e, stats[k]))
                    /\ UNCHANGED pc

Visit ==
  /\ pc = "viterbi" /\ vi < pruned.size
  /\ DeadEnd \/ Throw \/ Rescore
  /\ UNCHANGED <<gvars, weights, bleuWeight, hypo>>

\* GetBestHypothesis: the text of each vertex along the back pointers, and the
\* sum of its features.
BestHypothesis ==
  LET Of[v \in 0 .. vi - 1] ==
        IF back[v].edge = 0 THEN [text |-> <<>>, feature |-> 0]
        ELSE LET e == pruned.edges[back[v].edge]
             IN [text    |-> Expand(e, [c \in Children(e) |-> Of[c].text]),
                 feature |-> e.feature + SumFunction([c \in Children(e) |-> Of[c].feature])]
  IN Of

\* All n-grams of a text.
Spans(text) ==
  {s \in (DOMAIN text) \X (DOMAIN text) : s[1] <= s[2] /\ s[2] - s[1] < Order}

InSentence(text) == SelectSeq(text, LAMBDA w : w \notin Boundary)

\* The end of Viterbi: the hypothesis of the last vertex, counted as a whole.
Finish ==
  /\ pc = "viterbi" /\ vi = pruned.size
  /\ LET best == BestHypothesis[vi - 1]
         text == InSentence(best.text)
     IN hypo' = [text    |-> best.text,
                 feature |-> best.feature,
                 totals  |-> Totals(Spans(text)),
                 matches |-> Matches(Spans(text), text, TRUE)]
  /\ pc' = "done"
  /\ UNCHANGED <<gvars, weights, bleuWeight, vi, back, state>>

VNext == PruneGraph \/ Start \/ Visit \/ Finish

VSpec == VInit /\ [][VNext]_wvars

-----------------------------------------------------------------------------
\* The state of a vertex is that of the text its back pointers derive: its
\* first and last words and its length, however contexts were put together
\* (ForestRescore.cpp:245-305).
ContextsFit ==
  \A v \in DOMAIN state :
    LET text == BestHypothesis[v].text
    IN /\ state[v].left = Prefix(text, Order - 1)
       /\ state[v].right = Suffix(text, Order - 1)
       /\ state[v].length = Len(text)

\* The n-grams of a vertex were counted each once, edge by edge, with what
\* crosses the contexts of children; edge by edge more of them may match than
\* in the whole, but never more than there are.
NgramsCountedOnce ==
  bleuWeight # 0 => \A v \in DOMAIN state :
    back[v].edge # 0 /\ back[v].dead = 0 =>
      LET text == InSentence(BestHypothesis[v].text)
          least == Matches(Spans(text), text, FALSE)
      IN /\ state[v].totals = Totals(Spans(text))
         /\ \A n \in Orders :
              /\ state[v].matches[n] \in least[n] .. state[v].totals[n]
              /\ pc = "done" /\ v = vi - 1 => hypo.matches[n] <= state[v].matches[n]

\* Decoding by the model alone finds the derivation with the best score, and
\* the features summed up along the pointers are those of that score.
ModelDecodesBest ==
  pc = "done" /\ bleuWeight = 0 /\ vi > 0 /\ Derivations(pruned)[vi - 1] # {} =>
    /\ weights * hypo.feature = Max({weights * d.feature : d \in Derivations(pruned)[vi - 1]})
    /\ \E d \in Derivations(pruned)[vi - 1] : d.text = hypo.text /\ d.feature = hypo.feature

\* If pruning left a derivation of every vertex, decoding comes to its end: none
\* of the scores of dead ends is taken for that of a vertex not visited yet
\* (ForestRescore.cpp:360) or loses against kMinScore, leaving no edge (:397).
CompleteIsDecoded ==
  (\A v \in Vertices(pruned) : Incoming(pruned, v) # {}) => pc \notin {"threw", "crashed"}
=============================================================================
