-------------------------------- MODULE Pro --------------------------------
(***************************************************************************)
(* The sampling of pro (mert/pro.cpp): of pairs of translations drawn at   *)
(* random those that differ most in score become training examples.        *)
(***************************************************************************)
EXTENDS Data

CONSTANTS
  SentenceScore(_),   (* smoothedSentenceBleu of the statistics            *)
  MinDiff,            (* min_diff                                          *)
  NCandidates,        (* n_candidates                                      *)
  NSamples            (* n_samples                                         *)

ASSUME ProAssumption ==
  MinDiff \in Nat \ {0} /\ NCandidates \in Nat \ {0} /\ NSamples \in Nat \ {0}

\* A slip: the pair is kept as it was drawn.
DrawnPair(t1, t2, diff) ==
  [better |-> t1, worse |-> t2, diff |-> IF diff > 0 THEN diff ELSE -diff]

\* SampledPair: the better translation comes first.
SampledPair(t1, t2, diff) ==
  IF diff > 0 THEN [better |-> t1, worse |-> t2, diff |-> diff]
  ELSE [better |-> t2, worse |-> t1, diff |-> -diff]

\* drawn: pairs of translations; stats: those of a translation.
Samples(drawn, stats) ==
  LET Diff(d) == SentenceScore(stats[d[1]]) - SentenceScore(stats[d[2]])
      Distinct(d) == Diff(d) >= MinDiff \/ -Diff(d) >= MinDiff
      kept == InOrder({i \in DOMAIN drawn : Distinct(drawn[i])})
  IN [k \in DOMAIN kept |->
        SampledPair(drawn[kept[k]][1], drawn[kept[k]][2], Diff(drawn[kept[k]]))]

\* Samples that differ by d or more, and those that differ by more.
Reach(samples, d) == {k \in DOMAIN samples : samples[k].diff >= d}
Exceed(samples, d) == {k \in DOMAIN samples : samples[k].diff > d}

\* What nth_element finds: the difference of the last of the best NSamples.
Threshold(samples) ==
  IF Len(samples) <= NSamples THEN 0
  ELSE CHOOSE d \in {samples[k].diff : k \in DOMAIN samples} :
         /\ Cardinality(Exceed(samples, d)) < NSamples
         /\ NSamples <= Cardinality(Reach(samples, d))

\* The first NSamples that reach the threshold, in the order they were drawn.
Collected(samples) ==
  LET reach == InOrder(Reach(samples, Threshold(samples)))
  IN [k \in 1 .. Min({NSamples, Len(reach)}) |-> samples[reach[k]]]
============================================================================
