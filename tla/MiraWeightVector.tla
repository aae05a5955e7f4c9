-------------------------- MODULE MiraWeightVector --------------------------
(***************************************************************************)
(* MiraWeightVector (mert/MiraWeightVector.cpp): the weights of kbmira     *)
(* with the sums behind their average.  The sums are lazy: a feature's sum *)
(* is brought up to date only when that feature changes or when avg() is   *)
(* called, m_lastUpdated remembering up to which update it is right.       *)
(*                                                                         *)
(* A C++ vector is a function on an initial segment of Indices; all three  *)
(* share one.  Weights are integers: float rounding is left out.           *)
(***************************************************************************)
EXTENDS Integers

CONSTANTS
  MaxSize,      (* no feature index reaches MaxSize                        *)
  InitVectors,  (* the vectors handed to the constructor                   *)
  ScaledVectors,(* fv.feat(i) -> fv.val(i)*tau of the vectors of an update *)
  MaxUpdates    (* bounds m_numUpdates                                     *)

Indices == 0 .. MaxSize - 1

ASSUME SizeAssumption == MaxSize \in Nat /\ MaxUpdates \in Nat

ASSUME VectorAssumption ==
  /\ \A v \in InitVectors :
       \E s \in 0 .. MaxSize : v \in [0 .. s - 1 -> Int]
  /\ \A d \in ScaledVectors :
       DOMAIN d \subseteq Indices /\ d \in [DOMAIN d -> Int]

VARIABLES m_weights, m_totals, m_lastUpdated, m_numUpdates

vars == <<m_weights, m_totals, m_lastUpdated, m_numUpdates>>

Allocated == DOMAIN m_weights

\* The constructor with an initial vector; the one without is the empty one.
Init ==
  /\ m_weights \in InitVectors
  /\ m_totals = m_weights
  /\ m_lastUpdated = [i \in Allocated |-> 0]
  /\ m_numUpdates = 0

\* weight(): an index the vector has not grown to yet weighs nothing.
Weight(i) == IF i \in Allocated THEN m_weights[i] ELSE 0
Total(i) == IF i \in Allocated THEN m_totals[i] ELSE 0
LastUpdated(i) == IF i \in Allocated THEN m_lastUpdated[i] ELSE 0

\* A slip: a sum is taken to lack one more update than it does.
UpdateOnceMore(d, n) ==
  LET grown == Allocated \cup UNION {0 .. i : i \in DOMAIN d}
  IN /\ m_totals' =
          [i \in grown |->
             IF i \in DOMAIN d
             THEN Total(i) + ((n + 1 - LastUpdated(i)) * Weight(i) + d[i])
             ELSE Total(i)]
     /\ m_weights' =
          [i \in grown |-> Weight(i) + IF i \in DOMAIN d THEN d[i] ELSE 0]
     /\ m_lastUpdated' =
          [i \in grown |-> IF i \in DOMAIN d THEN n ELSE LastUpdated(i)]

\* The private update(index, delta) of every index of d, at update number n.
UpdateIndices(d, n) ==
  LET grown == Allocated \cup UNION {0 .. i : i \in DOMAIN d}
  IN /\ m_totals' =
          [i \in grown |->
             IF i \in DOMAIN d
             THEN Total(i) + ((n - LastUpdated(i)) * Weight(i) + d[i])
             ELSE Total(i)]
     /\ m_weights' =
          [i \in grown |-> Weight(i) + IF i \in DOMAIN d THEN d[i] ELSE 0]
     /\ m_lastUpdated' =
          [i \in grown |-> IF i \in DOMAIN d THEN n ELSE LastUpdated(i)]

\* update(fv, tau)
Update(d) ==
  /\ m_numUpdates < MaxUpdates
  /\ m_numUpdates' = m_numUpdates + 1
  /\ UpdateIndices(d, m_numUpdates + 1)

\* tick(): the empty update.
EmptyUpdate ==
  /\ m_numUpdates < MaxUpdates
  /\ m_numUpdates' = m_numUpdates + 1
  /\ UNCHANGED <<m_weights, m_totals, m_lastUpdated>>

\* A slip: fixTotals() counts the coming update as well.
AvgAhead ==
  /\ UpdateIndices([i \in Allocated |-> 0], m_numUpdates + 1)
  /\ UNCHANGED m_numUpdates

\* avg(), whose fixTotals() updates every index by nothing.
Avg ==
  /\ UpdateIndices([i \in Allocated |-> 0], m_numUpdates)
  /\ UNCHANGED m_numUpdates

Next ==
  \/ \E d \in ScaledVectors : Update(d)
  \/ EmptyUpdate
  \/ Avg

Spec == Init /\ [][Next]_vars

-----------------------------------------------------------------------------
\* Every sum is up to date: the state avg() leaves behind.
Fresh == \A i \in Allocated : m_lastUpdated[i] = m_numUpdates

\* The average of feature i is Numerator(i) / Denominator
\* (AvgWeightVector::weight; before any update it is the weight itself).
Numerator(i) == IF m_numUpdates = 0 THEN Weight(i) ELSE Total(i)
Denominator == IF m_numUpdates = 0 THEN 1 ELSE m_numUpdates

\* The sum of feature i if it were brought up to date now.
CaughtUp(i) == Total(i) + (m_numUpdates - LastUpdated(i)) * Weight(i)

\* Types: the three vectors grow together and without gaps, and no sum is
\* ahead of the number of updates (the code subtracts the two unsigned).
TypeOK ==
  /\ Allocated \subseteq Indices
  /\ \A i \in Allocated : 0 .. i \subseteq Allocated
  /\ m_weights \in [Allocated -> Int]
  /\ m_totals \in [Allocated -> Int]
  /\ m_lastUpdated \in [Allocated -> 0 .. m_numUpdates]
  /\ m_numUpdates \in Nat

\* A vector with every index, those beyond the allocated ones being 0.
Dense(d) == [i \in Indices |-> IF i \in DOMAIN d THEN d[i] ELSE 0]

Averaged == INSTANCE AveragedWeights WITH
  Features <- Indices,
  Inits    <- {Dense(v) : v \in InitVectors},
  Changes  <- {Dense(d) : d \in ScaledVectors},
  w        <- [i \in Indices |-> Weight(i)],
  total    <- [i \in Indices |-> CaughtUp(i)],
  n        <- m_numUpdates

\* The lazy sums behave as eagerly kept ones: caught up, they are the sums of
\* AveragedWeights after every step, whichever features each update touched,
\* whenever the vectors grew and however often avg() was called in between.
ImplementsAveragedWeights == Averaged!ASpec
=============================================================================
