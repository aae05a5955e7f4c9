------------------------------- MODULE MCMert -------------------------------
(* Lists of two or three sentences with one to three translations each, whose *)
(* lines cross in several ways; lists that repeat translations, bring other   *)
(* sentences or hold sparse features; and command lines with shards, restarts,*)
(* random directions, positive weights and regularisation.                    *)
EXTENDS Mert

Hyp(n, f, s) ==
  [sentence |-> n, stats |-> s,
   tokens |-> <<Named("d"), Num(f[1]), Num(f[2])>>]

SparseHyp(n, f, w, s) ==
  [sentence |-> n, stats |-> s,
   tokens |-> <<Named("d"), Num(f[1]), SparseNamed("w_a"), Num(w), Named("l"), Num(f[2])>>]

MCMinX == -1000000

MCSentenceScore(stats) == 3 * stats[1] + stats[2]

MCScore(totals) == 2 * totals[1] - totals[2]

\* Sentence 7 comes before sentence 3.
Crossing(a, b, c) ==
  <<Hyp(7, <<0, 2>>, <<a, 1>>), Hyp(3, <<1, 0>>, <<1, 1>>), Hyp(7, <<1, 0>>, <<b, 1>>),
    Hyp(7, <<2, 1>>, <<c, 2>>), Hyp(3, <<0, 2>>, <<2, 1>>)>>

\* A translation of the lists above, one with its features and other words,
\* three lines through a point, and a new sentence in between.
Again ==
  <<Hyp(3, <<0, 2>>, <<2, 1>>), Hyp(3, <<0, 2>>, <<2, 2>>), Hyp(5, <<0, 2>>, <<1, 1>>),
    Hyp(3, <<2, 0>>, <<2, 1>>), Hyp(3, <<1, 1>>, <<0, 1>>), Hyp(3, <<0, 2>>, <<2, 1>>)>>

Sparse ==
  <<SparseHyp(3, <<0, 2>>, 1, <<1, 2>>), SparseHyp(3, <<2, 1>>, 2, <<0, 1>>),
    SparseHyp(7, <<1, 1>>, -1, <<1, 1>>), SparseHyp(7, <<1, 2>>, -1, <<0, 1>>)>>

\* A list that lacks a sentence of the others.
Short == <<Hyp(7, <<1, 0>>, <<2, 1>>), Hyp(7, <<0, 1>>, <<0, 2>>)>>

MCChainable == {Crossing(2, 0, 1), Crossing(0, 2, 1), Again}
MCNBestLists == MCChainable \cup {Sparse, Short}

Base ==
  [pdim |-> 2, optimize |-> <<>>, positive |-> {}, starts |-> <<<<One, One>>>>,
   low |-> <<0, 0>>, high |-> <<One, One>>, type |-> "powell", nrandom |-> 0, ntry |-> 0,
   shards |-> 0, share |-> 0, reg |-> [type |-> "none", window |-> 0],
   sparse |-> <<>>, allFiles |-> TRUE]

Names == <<<<"d", 0>>, <<"d", 1>>>>

MCConfigs ==
  {Base,
   [Base EXCEPT !.optimize = Names, !.starts = <<<<One, 0>>, <<-One, One>>>>, !.allFiles = FALSE],
   [Base EXCEPT !.optimize = <<<<"e", 0>>>>],
   [Base EXCEPT !.positive = {Names[1]}, !.shards = 2],
   [Base EXCEPT !.shards = 4],
   [Base EXCEPT !.shards = 1, !.share = 1],
   [Base EXCEPT !.reg = [type |-> "average", window |-> 1]],
   [Base EXCEPT !.reg = [type |-> "min", window |-> 1], !.ntry = 1],
   [Base EXCEPT !.type = "random"],
   [Base EXCEPT !.type = "pro"],
   [Base EXCEPT !.type = "pro", !.allFiles = FALSE],
   [Base EXCEPT !.nrandom = 1]}
  \cup {[Base EXCEPT !.pdim = 3, !.starts = <<<<One, One, One>>>>, !.low = <<0, 0, 0>>,
                     !.high = <<One, One, One>>, !.sparse = <<"w_a", FALSE>> :> 2]}

\* One weight is optimized, the other keeps its value.
MCFixedConfigs == {[Base EXCEPT !.optimize = <<Names[1]>>]}
=============================================================================
