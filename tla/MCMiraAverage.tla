---------------------------- MODULE MCMiraAverage ----------------------------
(* Three indices: two the initial vectors may hold, one only updates reach. *)
EXTENDS MiraAverage

MCInitVectors == {[i \in {} |-> 0], [i \in {0} |-> 2], [i \in {0, 1} |-> i - 1]}

\* One index, a gap that makes the vector grow by two, and a cancelling pair.
MCScaledVectors ==
  {[i \in {0} |-> 1], [i \in {2} |-> -2], [i \in {0, 1} |-> 2 * i - 1],
   [i \in {} |-> 0]}
=============================================================================
