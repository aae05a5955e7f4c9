-------------------------- MODULE MCHopeFearDecoder --------------------------
(* Scores of both signs, small and large against 5 times the BLEU values.    *)
EXTENDS HopeFearDecoder

MCScores == {-12, -1, 0, 3, 7}
=============================================================================
