----------------------------- MODULE MiraAverage -----------------------------
(***************************************************************************)
(* MiraWeightVector with a history: the initial weight of each index, and  *)
(* the least and the greatest value it has had.                            *)
(***************************************************************************)
EXTENDS MiraWeightVector

VARIABLES
  initial,
  least,      (* least[i] and greatest[i] bound every value weight i had,  *)
  greatest    (* the initial one included                                  *)

hvars == <<vars, initial, least, greatest>>

HInit ==
  /\ Init
  /\ initial = [i \in Indices |-> Weight(i)]
  /\ least = initial
  /\ greatest = initial

HNext ==
  /\ Next
  /\ least' = [i \in Indices |->
                 IF Weight(i)' < least[i] THEN Weight(i)' ELSE least[i]]
  /\ greatest' = [i \in Indices |->
                    IF Weight(i)' > greatest[i] THEN Weight(i)' ELSE greatest[i]]
  /\ UNCHANGED initial

HSpec == HInit /\ [][HNext]_hvars

\* But for the initial weight, the sum behind the averaged view is one of
\* weights that the vector has had, one for each update: brought up to date by
\* avg(), it lies between as many times the least and the greatest of them,
\* whatever was updated lazily (MiraWeightVector.cpp:91, :109).
AverageButForStart ==
  Fresh => \A i \in Indices :
    LET sum == Total(i) - initial[i]
    IN least[i] * m_numUpdates =< sum /\ sum =< greatest[i] * m_numUpdates
=============================================================================
