---------------------------- MODULE CorpusScore ----------------------------
(***************************************************************************)
(* Scores of a corpus (mert/StatisticsBasedScorer.cpp, mert/Scorer.h): the *)
(* statistics of one hypothesis of each sentence are added up, and for a   *)
(* list of changes of hypotheses the totals are changed step by step.      *)
(***************************************************************************)
EXTENDS Integers, Sequences, SequencesExt

CONSTANT
  CalculateScore(_)   (* the metric, a function of the totals              *)

\* stats[s][h]: the statistics of hypothesis h of sentence s.
Totals(stats, candidates) ==
  [k \in DOMAIN stats[1][candidates[1]] |->
     SumFunction([s \in DOMAIN candidates |-> stats[s][candidates[s]][k]])]

\* The exceptions of score: no data, or statistics of different sizes.
Scorable(stats, candidates) ==
  /\ stats # <<>> /\ candidates # <<>>
  /\ \A s \in DOMAIN candidates :
       Len(stats[s][candidates[s]]) = Len(stats[1][candidates[1]])

Score(stats, candidates) == CalculateScore(Totals(stats, candidates))

\* A slip: the statistics of the hypothesis that is replaced stay counted.
ChangedOnly(stats, at, diff) ==
  [totals |-> [k \in DOMAIN at.totals |-> at.totals[k] + stats[diff[1]][diff[2]][k]],
   last   |-> [s \in DOMAIN at.last |-> IF s = diff[1] THEN diff[2] ELSE at.last[s]]]

\* One change: a sentence and its new hypothesis.
Changed(stats, at, diff) ==
  [totals |-> [k \in DOMAIN at.totals |->
                 at.totals[k] + stats[diff[1]][diff[2]][k]
                              - stats[diff[1]][at.last[diff[1]]][k]],
   last   |-> [s \in DOMAIN at.last |-> IF s = diff[1] THEN diff[2] ELSE at.last[s]]]

\* The totals and hypotheses at the start and after each list of changes.
Increments(stats, first, diffs) ==
  LET start == [totals |-> Totals(stats, first), last |-> first]
      Apply(at, diff) == Changed(stats, at, diff)
  IN FoldLeft(LAMBDA ats, ds : Append(ats, FoldLeft(Apply, Last(ats), ds)), <<start>>, diffs)

\* reg.type is "none", "average" or "min", reg.window how far it reaches.
Regularized(reg, raw) ==
  IF reg.type = "none" \/ reg.window = 0 THEN raw
  ELSE [i \in DOMAIN raw |->
          LET window == {j \in DOMAIN raw : j >= i - reg.window /\ j <= i + reg.window}
          IN IF reg.type = "min" THEN Min({raw[j] : j \in window})
             ELSE SumFunctionOnSet(raw, window) \div Cardinality(window)]

ScoresAt(reg, increments) ==
  Regularized(reg, [i \in DOMAIN increments |-> CalculateScore(increments[i].totals)])
=============================================================================
