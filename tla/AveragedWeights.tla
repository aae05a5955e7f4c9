--------------------------- MODULE AveragedWeights ---------------------------
(***************************************************************************)
(* What a self-averaging weight vector promises (MiraWeightVector.h:4-7),  *)
(* stated without any laziness: besides the current weights w it has, for  *)
(* every feature, the sum of the weights held after each update so far, on *)
(* top of the initial weights.  MiraWeightVector implements this module.   *)
(***************************************************************************)
EXTENDS Integers

CONSTANTS
  Features,   (* every feature index the training can meet                 *)
  Inits,      (* the initial vectors, functions from Features to Int       *)
  Changes     (* the scaled vectors added to w, functions on Features      *)

VARIABLES
  w,          (* the current weight of every feature                       *)
  total,      (* the eagerly kept sum behind the average                   *)
  n           (* how many updates were made                                *)

avars == <<w, total, n>>

AInit ==
  /\ w \in Inits
  /\ total = w
  /\ n = 0

\* Add the vector c to the weights, then count the new weights once more.
Add(c) ==
  /\ w' = [f \in Features |-> w[f] + c[f]]
  /\ total' = [f \in Features |-> total[f] + w'[f]]
  /\ n' = n + 1

\* An update that changes no weight still counts in the average.
Tick ==
  /\ total' = [f \in Features |-> total[f] + w[f]]
  /\ n' = n + 1
  /\ UNCHANGED w

ANext == Tick \/ \E c \in Changes : Add(c)

ASpec == AInit /\ [][ANext]_avars
=============================================================================
