--------------------------- MODULE KbMira_proofs ----------------------------
(***************************************************************************)
(* The weights kbmira leaves behind: those it writes last are of the first *)
(* epoch with the greatest BLEU, for every data set, number of epochs and  *)
(* range of BLEU; and the averages it writes, which are made lazily, are the *)
(* eager ones and but for the initial weights averages of weights held, for *)
(* every size, every set of vectors and every number of updates.           *)
(***************************************************************************)
EXTENDS KbMira, MiraAverage, TLAPS

-----------------------------------------------------------------------------
(* The main loop.                                                          *)

\* The parts of the state the result depends on.
ResultTypes ==
  /\ numUpdates \in Nat /\ averaged \in Nat
  /\ bleu \in BleuValues /\ bestBleu \in Nat
  /\ output \in Seq(Int)
  /\ epochBleu \in Seq(BleuValues) /\ epochWeights \in Seq(Int)
  /\ Len(epochBleu) = Len(epochWeights)

\* What is out is the first best of all the epochs judged.
Recorded ==
  \/ output = <<>> /\ bestBleu = 0 /\ \A e \in DOMAIN epochBleu : epochBleu[e] <= 0
  \/ /\ output # <<>>
     /\ \E e \in DOMAIN epochBleu :
          /\ FirstBest(e)
          /\ output[Len(output)] = epochWeights[e]
          /\ bestBleu = epochBleu[e]

\* The last epoch judged beats all before it and waits to be written.
Pending ==
  LET n == Len(epochBleu)
  IN /\ n > 0 /\ epochBleu[n] = bleu /\ epochWeights[n] = AverageRead
     /\ bleu > bestBleu
     /\ \A e \in 1 .. n - 1 : epochBleu[e] <= bestBleu

ResultInv ==
  /\ ResultTypes
  /\ pc \in {"open", "write"} => Pending
  /\ pc \notin {"open", "write", "exit 1"} => Recorded

-----------------------------------------------------------------------------
\* A BLEU, NaN included, is an integer.
LEMMA BleuInt == BleuValues \subseteq Int /\ NaN \in Int
<1> QED
  BY KbMiraAssumption DEF BleuValues, NaN

\* What is read of an average is a number of updates or Mixture.
LEMMA ReadInt == ResultTypes => AverageRead \in Int
<1> QED
  BY DEF ResultTypes, AverageRead, Mixture

\* Nothing is out, and no epoch has been judged.
LEMMA KInitInv == KInit => ResultInv
<1> SUFFICES ASSUME KInit PROVE ResultInv
  OBVIOUS
<1>1. ResultTypes
  BY KbMiraAssumption DEF KInit, ResultTypes, BleuValues
<1> QED
  BY <1>1 DEF KInit, ResultInv, Recorded

\* A step that changes neither result nor the epochs leaves what is recorded.
LEMMA RecordedStays ==
  ASSUME ResultTypes, Recorded, UNCHANGED <<result, epochBleu, epochWeights>>
  PROVE  Recorded'
<1> QED
  BY DEF Recorded, FirstBest, result

\* Judging an epoch that does not improve keeps the record.
LEMMA JudgeKeeps ==
  ASSUME ResultTypes, Recorded, NEW b \in BleuValues,
         epochBleu' = Append(epochBleu, b),
         epochWeights' = Append(epochWeights, AverageRead),
         UNCHANGED <<bestBleu, output>>,
         ~Improves(b, bestBleu)
  PROVE  Recorded'
<1>1. b \in Int /\ bestBleu \in Nat /\ b <= bestBleu
  BY BleuInt DEF Improves, ResultTypes, NaN
<1> DEFINE n == Len(epochBleu)
<1>2. /\ n \in Nat /\ DOMAIN epochBleu = 1 .. n /\ DOMAIN epochBleu' = 1 .. n + 1
      /\ \A e \in 1 .. n : epochBleu'[e] = epochBleu[e]
      /\ \A e \in 1 .. n : epochWeights'[e] = epochWeights[e]
      /\ epochBleu'[n + 1] = b
  BY ReadInt DEF ResultTypes
<1> HIDE DEF n
<1>3. CASE output = <<>> /\ bestBleu = 0 /\ \A e \in DOMAIN epochBleu : epochBleu[e] <= 0
  <2>1. \A e \in DOMAIN epochBleu' : epochBleu'[e] <= 0
    BY <1>1, <1>2, <1>3
  <2> QED
    BY <1>3, <2>1 DEF Recorded
<1>4. CASE /\ output # <<>>
           /\ \E e \in DOMAIN epochBleu :
                /\ FirstBest(e)
                /\ output[Len(output)] = epochWeights[e]
                /\ bestBleu = epochBleu[e]
  <2>1. PICK e \in DOMAIN epochBleu :
          /\ FirstBest(e)
          /\ output[Len(output)] = epochWeights[e]
          /\ bestBleu = epochBleu[e]
    BY <1>4
  <2>2. e \in DOMAIN epochBleu' /\ e \in 1 .. n
    BY <1>2
  <2>3. FirstBest(e)'
    BY <1>1, <1>2, <2>1, <2>2 DEF FirstBest
  <2> QED
    BY <1>2, <1>4, <2>1, <2>2, <2>3 DEF Recorded
<1> QED
  BY <1>3, <1>4 DEF Recorded

\* Judging an epoch that improves makes it the one to be written.
LEMMA JudgeImproves ==
  ASSUME ResultTypes, Recorded, NEW b \in BleuValues,
         epochBleu' = Append(epochBleu, b),
         epochWeights' = Append(epochWeights, AverageRead),
         bleu' = b,
         UNCHANGED <<weights, bestBleu, output>>,
         Improves(b, bestBleu)
  PROVE  Pending'
<1>1. b \in Int /\ bestBleu \in Nat /\ b > bestBleu
  BY BleuInt DEF Improves, ResultTypes
<1> DEFINE n == Len(epochBleu)
<1>2. /\ n \in Nat /\ DOMAIN epochBleu = 1 .. n /\ Len(epochBleu') = n + 1
      /\ \A e \in 1 .. n : epochBleu'[e] = epochBleu[e]
      /\ epochBleu'[n + 1] = b
      /\ epochWeights'[n + 1] = AverageRead
  BY ReadInt DEF ResultTypes
<1>3. \A e \in 1 .. n : epochBleu[e] <= bestBleu
  BY <1>1, <1>2 DEF Recorded, FirstBest
<1>4. AverageRead' = AverageRead
  BY DEF AverageRead, weights
<1> HIDE DEF n
<1> QED
  BY <1>1, <1>2, <1>3, <1>4 DEF Pending

\* Writing the pending epoch makes it the recorded one.
LEMMA WriteInv == ResultInv /\ Write => ResultInv'
<1> SUFFICES ASSUME ResultInv, Write PROVE ResultInv'
  OBVIOUS
<1>1. ResultTypes /\ Pending
  BY DEF ResultInv, Write
<1>2. /\ output' = Append(output, AverageRead) /\ bestBleu' = bleu
      /\ pc' = "train" /\ epochBleu' = epochBleu /\ epochWeights' = epochWeights
      /\ bleu' = bleu /\ numUpdates' = numUpdates /\ averaged' = averaged
  BY DEF Write, history, weights
<1> PICK n \in Nat : n = Len(epochBleu)
  BY <1>1 DEF ResultTypes
<1>3. /\ n > 0 /\ DOMAIN epochBleu = 1 .. n
      /\ \A e \in 1 .. n : epochBleu[e] \in Int
      /\ bestBleu \in Nat /\ bleu \in Int
  <2>1. n > 0
    BY <1>1 DEF Pending
  <2>2. DOMAIN epochBleu = 1 .. n /\ \A e \in 1 .. n : epochBleu[e] \in BleuValues
    BY <1>1 DEF ResultTypes
  <2>3. bestBleu \in Nat /\ bleu \in BleuValues
    BY <1>1 DEF ResultTypes
  <2> QED
    BY <2>1, <2>2, <2>3, BleuInt
<1>4. /\ epochBleu[n] = bleu /\ epochWeights[n] = AverageRead /\ bleu > bestBleu
      /\ \A e \in 1 .. n - 1 : epochBleu[e] <= bestBleu
  BY <1>1 DEF Pending
<1>5. /\ output' \in Seq(Int) /\ output' # <<>>
      /\ output'[Len(output')] = AverageRead
  BY <1>1, <1>2, ReadInt DEF ResultTypes
<1>6. n \in DOMAIN epochBleu
  BY <1>3
<1>7. FirstBest(n)
  <2>1. \A e \in 1 .. n - 1 : epochBleu[e] < epochBleu[n]
    BY <1>3, <1>4
  <2> QED
    BY <1>3, <1>4, <2>1 DEF FirstBest
<1>8. FirstBest(n)'
  BY <1>2, <1>7 DEF FirstBest
<1>9. Recorded'
  BY <1>2, <1>4, <1>5, <1>6, <1>8 DEF Recorded
<1>10. ResultTypes'
  BY <1>1, <1>2, <1>3, <1>4, <1>5 DEF ResultTypes
<1> QED
  BY <1>2, <1>9, <1>10 DEF ResultInv

\* The end of an Evaluate: of the initial weights, or of an epoch's.
LEMMA JudgeInv == ResultInv /\ Judge => ResultInv'
<1> SUFFICES ASSUME ResultInv, Judge PROVE ResultInv'
  OBVIOUS
<1>1. ResultTypes /\ Recorded
  BY DEF ResultInv, Judge
<1>2. UNCHANGED <<weights, bestBleu, output>>
  BY DEF Judge
<1>3. CASE j = 0
  <2>1. UNCHANGED <<result, epochBleu, epochWeights>> /\ pc' = "train"
    BY <1>2, <1>3 DEF Judge, result, history
  <2>2. Recorded'
    BY <1>1, <2>1, RecordedStays
  <2>3. ResultTypes'
    BY <1>1, <1>2, <2>1 DEF ResultTypes, result, weights
  <2> QED
    BY <2>1, <2>2, <2>3 DEF ResultInv
<1>4. CASE j # 0
  <2>1. PICK b \in BleuValues :
          /\ bleu' = b
          /\ epochBleu' = Append(epochBleu, b)
          /\ epochWeights' = Append(epochWeights, AverageRead)
          /\ IF Improves(b, bestBleu) THEN pc' = "open" /\ j' = j
             ELSE pc' = "train" /\ j' = j + 1
    BY <1>4 DEF Judge
  <2>2. ResultTypes'
    BY <1>1, <1>2, <2>1, ReadInt DEF ResultTypes, weights
  <2>3. CASE Improves(b, bestBleu)
    BY <1>1, <1>2, <2>1, <2>2, <2>3, JudgeImproves DEF ResultInv
  <2>4. CASE ~Improves(b, bestBleu)
    BY <1>1, <1>2, <2>1, <2>2, <2>4, JudgeKeeps DEF ResultInv
  <2> QED
    BY <2>3, <2>4
<1> QED
  BY <1>3, <1>4

\* Opening the file empties it, but the epoch to be written stays pending.
LEMMA OpenInv == ResultInv /\ Open => ResultInv'
<1> SUFFICES ASSUME ResultInv, Open PROVE ResultInv'
  OBVIOUS
<1>1. ResultTypes /\ Pending
  BY DEF ResultInv, Open
<1>2. /\ pc' \in {"write", "exit 1"} /\ (output' = <<>> \/ output' = output)
      /\ UNCHANGED <<weights, bleu, bestBleu, epochBleu, epochWeights>>
  BY DEF Open, history
<1>3. ResultTypes'
  <2>1. output' \in Seq(Int)
    <3>1. <<>> \in Seq(Int) /\ output \in Seq(Int)
      BY <1>1 DEF ResultTypes
    <3> QED
      BY <1>2, <3>1, Zenon
  <2> QED
    BY <1>1, <1>2, <2>1 DEF ResultTypes, weights
<1>4. Pending'
  BY <1>1, <1>2 DEF Pending, AverageRead, weights
<1> QED
  BY <1>2, <1>3, <1>4 DEF ResultInv

\* Between the end of an Evaluate and the next, only weights and sets change.
LEMMA OtherInv ==
  ResultInv /\ (Evaluate \/ SumSentence \/ Train \/ Example \/ EndEpoch)
    => ResultInv'
<1> SUFFICES ASSUME ResultInv, Evaluate \/ SumSentence \/ Train \/ Example \/ EndEpoch
             PROVE  ResultInv'
  OBVIOUS
<1>1. /\ pc \notin {"open", "write", "exit 1"} /\ pc' \notin {"open", "write", "exit 1"}
      /\ UNCHANGED <<result, epochBleu, epochWeights>>
  BY DEF Evaluate, SumSentence, Train, Example, EndEpoch, history
<1>2. ResultTypes /\ Recorded
  BY <1>1 DEF ResultInv
<1>3. numUpdates' \in Nat /\ averaged' \in Nat
  <2>1. numUpdates \in Nat /\ averaged \in Nat
    BY <1>2 DEF ResultTypes
  <2>2. /\ numUpdates' \in {numUpdates, numUpdates + 1}
        /\ averaged' \in {averaged, numUpdates}
    BY DEF Evaluate, SumSentence, Train, Example, EndEpoch, weights
  <2> QED
    BY <2>1, <2>2
<1>4. Recorded'
  BY <1>1, <1>2, RecordedStays
<1>5. ResultTypes'
  BY <1>1, <1>2, <1>3 DEF ResultTypes, result
<1> QED
  BY <1>1, <1>4, <1>5 DEF ResultInv

\* Every step preserves the invariant.
LEMMA KNextInv == ResultInv /\ [KNext]_kvars => ResultInv'
<1> SUFFICES ASSUME ResultInv, [KNext]_kvars PROVE ResultInv'
  OBVIOUS
<1>1. CASE UNCHANGED kvars
  <2>1. /\ UNCHANGED <<result, epochBleu, epochWeights, weights, bleu, pc>>
    BY <1>1 DEF kvars, history, result
  <2>2. ResultTypes'
    BY <2>1 DEF ResultInv, ResultTypes, result, weights
  <2>3. Pending => Pending'
    BY <2>1 DEF Pending, AverageRead, result, weights
  <2>4. Recorded => Recorded'
    BY <2>1, RecordedStays DEF ResultInv
  <2> QED
    BY <2>1, <2>2, <2>3, <2>4 DEF ResultInv
<1> QED
  BY <1>1, JudgeInv, OpenInv, WriteInv, OtherInv DEF KNext

\* The weight set left behind maximizes the training BLEU over the epochs.
THEOREM OutputIsBestEpoch == KSpec => []OutputIsBest
<1>1. ResultInv => OutputIsBest
  BY DEF ResultInv, Recorded, OutputIsBest
<1> QED
  BY <1>1, KInitInv, KNextInv, PTL DEF KSpec

-----------------------------------------------------------------------------
(* The cursor shared by training and evaluation *)

\* A pass in progress has visited what it has, and it ends with everything.
CursorInv ==
  /\ sentences = Sentences /\ visited \subseteq Sentences
  /\ current \in visited \cup {None}
  /\ pc \in {"sum", "examples"} /\ current = None => visited = Sentences

PassInv ==
  /\ CursorInv
  /\ numUpdates \in Nat /\ averaged \in Nat
  /\ epochWeights \in Seq(Nat)
  /\ pc = "sum" => averaged = numUpdates /\ stats = visited \ {current}
  /\ pc \in {"open", "write"} => averaged = numUpdates /\ stats = Sentences
  /\ pc = "examples" => examples = visited \ {current}
  /\ pc = "evaluate" /\ j > 0 => examples = Sentences

\* reset() starts a pass at some sentence, or ends it at once without any.
LEMMA ResetStarts ==
  ASSUME sentences = Sentences, Decoder!EReset
  PROVE  /\ sentences' = Sentences /\ visited' \subseteq Sentences
         /\ current' \in visited' \cup {None}
         /\ visited' \ {current'} = {}
         /\ current' = None => visited' = Sentences
<1>1. /\ current' \in IF Sentences \subseteq {} THEN {None} ELSE Sentences \ {}
      /\ visited' = IF current' = None THEN {} ELSE {} \cup {current'}
      /\ sentences' = Sentences
  BY DEF Decoder!EReset, Decoder!Visit
<1> QED
  BY <1>1, KbMiraAssumption

\* next() leaves the current sentence behind and ends with all of them.
LEMMA NextMoves ==
  ASSUME CursorInv, current # None, Decoder!ENext
  PROVE  /\ sentences' = Sentences /\ visited' \subseteq Sentences
         /\ current' \in visited' \cup {None}
         /\ visited' \ {current'} = (visited \ {current}) \cup {current}
         /\ current' = None => visited' = Sentences
<1>1. /\ current' \in IF Sentences \subseteq visited THEN {None} ELSE Sentences \ visited
      /\ visited' = IF current' = None THEN visited ELSE visited \cup {current'}
      /\ sentences' = Sentences
  BY DEF Decoder!ENext, Decoder!Visit, CursorInv
<1>2. visited \subseteq Sentences /\ current \in visited /\ None \notin visited
  BY KbMiraAssumption DEF CursorInv
<1>3. CASE Sentences \subseteq visited
  BY <1>1, <1>2, <1>3
<1>4. CASE ~(Sentences \subseteq visited)
  <2>1. current' \in Sentences \ visited /\ current' # None
    BY <1>1, <1>4, KbMiraAssumption
  <2>2. visited' = visited \cup {current'}
    BY <1>1, <2>1
  <2> QED
    BY <1>1, <1>2, <2>1, <2>2
<1> QED
  BY <1>3, <1>4

\* No pass has begun and nothing has been evaluated.
LEMMA KInitPass == KInit => PassInv
<1> SUFFICES ASSUME KInit PROVE PassInv
  OBVIOUS
<1>1. sentences = Sentences /\ current = None /\ visited = {}
  BY DEF KInit, Decoder!EInit
<1> QED
  BY <1>1 DEF KInit, PassInv, CursorInv

\* Each part of main hands the cursor and the weights over as the next needs.
LEMMA KNextPass == PassInv /\ [KNext]_kvars => PassInv'
<1> SUFFICES ASSUME PassInv, [KNext]_kvars PROVE PassInv'
  OBVIOUS
<1>0. CursorInv /\ sentences = Sentences /\ numUpdates \in Nat /\ averaged \in Nat
  BY DEF PassInv, CursorInv
<1>1. CASE Evaluate
  <2>1. /\ sentences' = Sentences /\ visited' \subseteq Sentences
        /\ current' \in visited' \cup {None}
        /\ visited' \ {current'} = {}
        /\ current' = None => visited' = Sentences
    BY <1>0, <1>1, ResetStarts DEF Evaluate
  <2> QED
    BY <1>0, <1>1, <2>1 DEF Evaluate, PassInv, CursorInv, history
<1>2. CASE SumSentence
  <2>1. /\ sentences' = Sentences /\ visited' \subseteq Sentences
        /\ current' \in visited' \cup {None}
        /\ visited' \ {current'} = (visited \ {current}) \cup {current}
        /\ current' = None => visited' = Sentences
    BY <1>0, <1>2, NextMoves DEF SumSentence
  <2> QED
    BY <1>0, <1>2, <2>1 DEF SumSentence, PassInv, CursorInv, history, weights
<1>3. CASE Judge
  <2>1. /\ pc = "sum" /\ current = None /\ pc' \in {"train", "open"}
        /\ UNCHANGED <<sentences, current, visited, numUpdates, averaged, stats>>
    BY <1>3 DEF Judge, decoder, weights
  <2>2. averaged = numUpdates /\ stats = Sentences
    BY <1>0, <2>1, KbMiraAssumption DEF PassInv, CursorInv
  <2>3. AverageRead \in Nat
    BY <1>0, <2>2 DEF AverageRead
  <2>4. epochWeights' \in Seq(Nat)
    <3>1. epochWeights \in Seq(Nat)
      BY DEF PassInv
    <3>2. epochWeights' = epochWeights \/ epochWeights' = Append(epochWeights, AverageRead)
      BY <1>3 DEF Judge, history
    <3> QED
      BY <2>3, <3>1, <3>2
  <2> QED
    BY <1>0, <2>1, <2>2, <2>4 DEF PassInv, CursorInv
<1>4. CASE Train
  <2>1. CASE j <= Iterations
    <3>1. /\ sentences' = Sentences /\ visited' \subseteq Sentences
          /\ current' \in visited' \cup {None}
          /\ visited' \ {current'} = {}
          /\ current' = None => visited' = Sentences
      BY <1>0, <1>4, <2>1, ResetStarts DEF Train
    <3> QED
      BY <1>0, <1>4, <2>1, <3>1 DEF Train, PassInv, CursorInv, weights
  <2>2. CASE ~(j <= Iterations)
    BY <1>0, <1>4, <2>2 DEF Train, PassInv, CursorInv, weights, decoder
  <2> QED
    BY <2>1, <2>2
<1>5. CASE Example
  <2>1. /\ sentences' = Sentences /\ visited' \subseteq Sentences
        /\ current' \in visited' \cup {None}
        /\ visited' \ {current'} = (visited \ {current}) \cup {current}
        /\ current' = None => visited' = Sentences
    BY <1>0, <1>5, NextMoves DEF Example
  <2>2. numUpdates' \in Nat
    BY <1>0, <1>5 DEF Example
  <2> QED
    BY <1>0, <1>5, <2>1, <2>2 DEF Example, PassInv, CursorInv
<1>6. CASE EndEpoch
  <2>1. examples = Sentences
    BY <1>0, <1>6, KbMiraAssumption DEF EndEpoch, PassInv, CursorInv
  <2> QED
    BY <1>0, <1>6, <2>1 DEF EndEpoch, PassInv, CursorInv, history, weights, decoder
<1>7. CASE Open \/ Write
  BY <1>0, <1>7 DEF Open, Write, PassInv, CursorInv, history, weights, decoder
<1>8. CASE UNCHANGED kvars
  BY <1>0, <1>8 DEF kvars, PassInv, CursorInv, history, weights, decoder
<1> QED
  BY <1>1, <1>2, <1>3, <1>4, <1>5, <1>6, <1>7, <1>8 DEF KNext

\* What PassInv says of the state covers both properties of the passes.
LEMMA PassInvSuffices == PassInv => EpochTrainsOnAll /\ EvaluationIsOfTheAverage
<1> SUFFICES ASSUME PassInv PROVE EpochTrainsOnAll /\ EvaluationIsOfTheAverage
  OBVIOUS
<1>1. \A e \in DOMAIN epochWeights : epochWeights[e] # Mixture
  BY DEF PassInv, Mixture
<1> QED
  BY <1>1 DEF PassInv, EpochTrainsOnAll, EvaluationIsOfTheAverage

\* Training sees every sentence in every epoch, although evaluation moves the
\* cursor it reads them through (kbmira.cpp:252-299, HopeFearDecoder.cpp:41).
THEOREM PassesAreWhole == KSpec => []EpochTrainsOnAll
<1> QED
  BY PassInvSuffices, KInitPass, KNextPass, PTL DEF KSpec

\* Whatever is judged is of all sentences, and of an average that is up to date
\* although AvgWeightVector only refers to the weights (kbmira.cpp:285-299).
THEOREM EvaluationsAreWhole == KSpec => []EvaluationIsOfTheAverage
<1> QED
  BY PassInvSuffices, KInitPass, KNextPass, PTL DEF KSpec

-----------------------------------------------------------------------------
(* The averaged weights.                                                   *)

(* Types                                                                   *)

\* The initial state is well typed.
LEMMA InitTypeOK == Init => TypeOK
<1> SUFFICES ASSUME Init PROVE TypeOK
  OBVIOUS
<1>1. PICK s \in 0 .. MaxSize : m_weights \in [0 .. s - 1 -> Int]
  BY VectorAssumption DEF Init
<1>2. Allocated = 0 .. s - 1
  BY <1>1 DEF Allocated
<1> QED
  BY <1>1, <1>2, SizeAssumption DEF Init, TypeOK, Indices

\* update() and avg() touch indices that exist or make them: the vectors stay
\* of one size, without gaps, and no sum gets ahead of the update number n.
LEMMA UpdateIndicesTypeOK ==
  ASSUME TypeOK, NEW n \in Nat, n >= m_numUpdates, NEW d,
         DOMAIN d \subseteq Indices, d \in [DOMAIN d -> Int],
         UpdateIndices(d, n), m_numUpdates' = n
  PROVE  TypeOK'
<1> DEFINE grown == Allocated \cup UNION {0 .. i : i \in DOMAIN d}
<1>1. grown \subseteq Indices
  BY SizeAssumption DEF TypeOK, Indices
<1>2. \A i \in grown : 0 .. i \subseteq grown
  BY SizeAssumption, <1>1 DEF TypeOK, Indices
<1>3. \A i \in grown : /\ Weight(i) \in Int /\ Total(i) \in Int
                       /\ LastUpdated(i) \in 0 .. n
  BY DEF TypeOK, Weight, Total, LastUpdated
<1>4. m_weights' \in [grown -> Int]
  BY <1>3 DEF UpdateIndices
<1>5. m_totals' \in [grown -> Int]
  <2>1. \A i \in DOMAIN d : i \in grown
    BY DEF Indices
  <2>2. \A i \in DOMAIN d :
          Total(i) + ((n - LastUpdated(i)) * Weight(i) + d[i]) \in Int
    BY <1>3, <2>1
  <2> QED
    BY <1>3, <2>2 DEF UpdateIndices
<1>6. m_lastUpdated' \in [grown -> 0 .. n]
  BY <1>3 DEF UpdateIndices
<1>7. Allocated' = grown
  BY <1>4 DEF Allocated
<1> QED
  BY <1>1, <1>2, <1>4, <1>5, <1>6, <1>7 DEF TypeOK

\* Every step of the weight vector preserves its types.
LEMMA NextTypeOK == TypeOK /\ [Next]_vars => TypeOK'
<1> SUFFICES ASSUME TypeOK, [Next]_vars PROVE TypeOK'
  OBVIOUS
<1>1. CASE \E d \in ScaledVectors : Update(d)
  <2>1. PICK d \in ScaledVectors : Update(d)
    BY <1>1
  <2> DEFINE n == m_numUpdates + 1
  <2>2. n \in Nat /\ n >= m_numUpdates
    BY DEF TypeOK
  <2>3. UpdateIndices(d, n) /\ m_numUpdates' = n
    BY <2>1 DEF Update
  <2>4. DOMAIN d \subseteq Indices /\ d \in [DOMAIN d -> Int]
    BY VectorAssumption
  <2> HIDE DEF n
  <2> QED
    BY <2>2, <2>3, <2>4, UpdateIndicesTypeOK
<1>2. CASE EmptyUpdate
  BY <1>2 DEF EmptyUpdate, TypeOK, Allocated
<1>3. CASE Avg
  <2> DEFINE zero == [i \in Allocated |-> 0]
  <2>1. DOMAIN zero \subseteq Indices /\ zero \in [DOMAIN zero -> Int]
    BY DEF TypeOK
  <2>2. m_numUpdates \in Nat /\ m_numUpdates >= m_numUpdates
    BY DEF TypeOK
  <2>3. UpdateIndices(zero, m_numUpdates) /\ m_numUpdates' = m_numUpdates
    BY <1>3 DEF Avg
  <2> HIDE DEF zero
  <2> QED
    BY <2>1, <2>2, <2>3, UpdateIndicesTypeOK
<1>4. CASE UNCHANGED vars
  BY <1>4 DEF vars, TypeOK, Allocated
<1> QED
  BY <1>1, <1>2, <1>3, <1>4 DEF Next

\* The three vectors always have one size and no gaps, and the unsigned
\* subtraction m_numUpdates - m_lastUpdated[index] never wraps.
THEOREM TypeCorrect == Spec => []TypeOK
<1> QED
  BY InitTypeOK, NextTypeOK, PTL DEF Spec

-----------------------------------------------------------------------------
(* Laziness *)

\* Counting a weight k times more is counting it up to j and then the rest.
LEMMA SplitProduct ==
  ASSUME NEW m \in Int, NEW n \in Int, NEW l \in Int, NEW x \in Int
  PROVE  (n - l) * x = (m - l) * x + (n - m) * x
<1> QED
  OBVIOUS

\* The effect of update number n on any index, touched, allocated or neither:
\* the weight grows by d, the caught-up sum by the weight for every update
\* since the last, and by d.
LEMMA UpdateIndicesEffect ==
  ASSUME TypeOK, NEW n \in Nat, NEW d,
         DOMAIN d \subseteq Indices, d \in [DOMAIN d -> Int],
         UpdateIndices(d, n), m_numUpdates' = n,
         NEW i \in Indices
  PROVE  /\ Weight(i)' = Weight(i) + Dense(d)[i]
         /\ CaughtUp(i)' = CaughtUp(i) + (n - m_numUpdates) * Weight(i)
                                       + Dense(d)[i]
<1> DEFINE grown == Allocated \cup UNION {0 .. u : u \in DOMAIN d}
           T == Total(i)
           L == LastUpdated(i)
           W == Weight(i)
<1>1. /\ T \in Int /\ L \in Int /\ W \in Int /\ m_numUpdates \in Int
      /\ i \notin Allocated => T = 0 /\ L = 0 /\ W = 0
  BY DEF TypeOK, Weight, Total, LastUpdated
<1>2. i \in DOMAIN d => i \in grown /\ d[i] \in Int
  BY DEF Indices
<1>3. Allocated' = grown
  BY DEF UpdateIndices, Allocated
<1>4. (n - L) * W = (m_numUpdates - L) * W + (n - m_numUpdates) * W
  BY <1>1, SplitProduct
<1>5. CASE i \in DOMAIN d
  <2>1. Dense(d)[i] = d[i]
    BY <1>5 DEF Dense
  <2>2. Weight(i)' = W + d[i]
    BY <1>2, <1>3, <1>5 DEF UpdateIndices, Weight
  <2>3. Total(i)' = T + ((n - L) * W + d[i]) /\ LastUpdated(i)' = n
    BY <1>2, <1>3, <1>5 DEF UpdateIndices, Total, LastUpdated
  <2>4. (n - n) * Weight(i)' = 0
    BY <1>1, <1>2, <1>5, <2>2
  <2>5. CaughtUp(i)' = T + ((n - L) * W + d[i])
    <3>1. (n - L) * W \in Int
      BY <1>1
    <3> QED
      BY <1>1, <1>2, <1>5, <2>3, <2>4, <3>1 DEF CaughtUp
  <2> QED
    BY <1>1, <1>2, <1>4, <1>5, <2>1, <2>2, <2>5 DEF CaughtUp
<1>6. CASE i \notin DOMAIN d /\ i \in grown
  <2>1. Dense(d)[i] = 0
    BY <1>6 DEF Dense
  <2>2. Weight(i)' = W
    BY <1>1, <1>3, <1>6 DEF UpdateIndices, Weight
  <2>3. Total(i)' = T /\ LastUpdated(i)' = L
    BY <1>3, <1>6 DEF UpdateIndices, Total, LastUpdated
  <2>4. CaughtUp(i)' = T + (n - L) * W
    BY <2>2, <2>3 DEF CaughtUp
  <2> QED
    BY <1>1, <1>4, <2>1, <2>2, <2>4 DEF CaughtUp
<1>7. CASE i \notin grown
  <2>1. Dense(d)[i] = 0
    BY <1>2, <1>7 DEF Dense
  <2>2. i \notin Allocated
    BY <1>7
  <2>3. W = 0 /\ T = 0 /\ L = 0
    BY <1>1, <2>2
  <2>4. Weight(i)' = 0 /\ Total(i)' = 0 /\ LastUpdated(i)' = 0
    BY <1>3, <1>7 DEF Weight, Total, LastUpdated
  <2> QED
    BY <1>1, <2>1, <2>3, <2>4 DEF CaughtUp
<1> QED
  BY <1>5, <1>6, <1>7

-----------------------------------------------------------------------------
(* Refinement *)

\* Before any update nothing is pending: the caught-up sums are the weights.
LEMMA InitRefines == Init => Averaged!AInit
<1> SUFFICES ASSUME Init PROVE Averaged!AInit
  OBVIOUS
<1>1. TypeOK
  BY InitTypeOK
<1>2. \A i \in Indices : CaughtUp(i) = Weight(i)
  <2> SUFFICES ASSUME NEW i \in Indices PROVE CaughtUp(i) = Weight(i)
    OBVIOUS
  <2>1. Weight(i) \in Int /\ Total(i) = Weight(i)
    BY <1>1 DEF Init, TypeOK, Weight, Total
  <2>2. LastUpdated(i) = 0 /\ m_numUpdates = 0
    BY DEF Init, LastUpdated
  <2> QED
    BY <2>1, <2>2 DEF CaughtUp
<1>3. [i \in Indices |-> Weight(i)] = Dense(m_weights)
  BY DEF Weight, Dense, Allocated
<1>4. [i \in Indices |-> Weight(i)] \in {Dense(v) : v \in InitVectors}
  BY <1>3 DEF Init
<1>5. [i \in Indices |-> CaughtUp(i)] = [i \in Indices |-> Weight(i)]
  BY <1>2
<1>6. m_numUpdates = 0
  BY DEF Init
<1> QED
  BY <1>4, <1>5, <1>6 DEF Averaged!AInit

\* update() is the eager addition, tick() the eager count, avg() nothing.
LEMMA NextRefines ==
  TypeOK /\ [Next]_vars => [Averaged!ANext]_(Averaged!avars)
<1> SUFFICES ASSUME TypeOK, [Next]_vars
             PROVE  [Averaged!ANext]_(Averaged!avars)
  OBVIOUS
<1>1. \A i \in Indices : Weight(i) \in Int /\ CaughtUp(i) \in Int
  <2> SUFFICES ASSUME NEW i \in Indices
               PROVE  Weight(i) \in Int /\ CaughtUp(i) \in Int
    OBVIOUS
  <2>1. Weight(i) \in Int /\ Total(i) \in Int /\ LastUpdated(i) \in Int
    BY DEF TypeOK, Weight, Total, LastUpdated
  <2>2. m_numUpdates \in Int
    BY DEF TypeOK
  <2> QED
    BY <2>1, <2>2 DEF CaughtUp
<1>2. m_numUpdates \in Nat
  BY DEF TypeOK
<1>3. CASE \E d \in ScaledVectors : Update(d)
  <2>1. PICK d \in ScaledVectors : Update(d)
    BY <1>3
  <2> DEFINE n == m_numUpdates + 1
  <2>2. n \in Nat /\ n - m_numUpdates = 1
    BY <1>2
  <2>3. UpdateIndices(d, n) /\ m_numUpdates' = n
    BY <2>1 DEF Update
  <2>4. DOMAIN d \subseteq Indices /\ d \in [DOMAIN d -> Int]
    BY VectorAssumption
  <2>5. ASSUME NEW i \in Indices
        PROVE  /\ Weight(i)' = Weight(i) + Dense(d)[i]
               /\ CaughtUp(i)' = CaughtUp(i) + Weight(i)'
    <3> HIDE DEF n
    <3>1. /\ Weight(i)' = Weight(i) + Dense(d)[i]
          /\ CaughtUp(i)' = CaughtUp(i) + (n - m_numUpdates) * Weight(i)
                                        + Dense(d)[i]
      BY <2>2, <2>3, <2>4, UpdateIndicesEffect
    <3>2. Dense(d)[i] \in Int
      BY <2>4 DEF Dense
    <3> QED
      BY <1>1, <2>2, <3>1, <3>2
  <2>6. [i \in Indices |-> Weight(i)]'
          = [i \in Indices |-> [u \in Indices |-> Weight(u)][i] + Dense(d)[i]]
    BY <2>5
  <2>7. [i \in Indices |-> CaughtUp(i)]'
          = [i \in Indices |-> [u \in Indices |-> CaughtUp(u)][i]
                               + [u \in Indices |-> Weight(u)]'[i]]
    BY <2>5
  <2>8. Averaged!Add(Dense(d))
    BY <2>3, <2>6, <2>7 DEF Averaged!Add
  <2> QED
    BY <2>8 DEF Averaged!ANext
<1>4. CASE EmptyUpdate
  <2>1. ASSUME NEW i \in Indices
        PROVE  /\ Weight(i)' = Weight(i)
               /\ CaughtUp(i)' = CaughtUp(i) + Weight(i)
    <3>1. /\ Weight(i)' = Weight(i) /\ Total(i)' = Total(i)
          /\ LastUpdated(i)' = LastUpdated(i)
      BY <1>4 DEF EmptyUpdate, Weight, Total, LastUpdated, Allocated
    <3>2. m_numUpdates' = m_numUpdates + 1
      BY <1>4 DEF EmptyUpdate
    <3>3. Total(i) \in Int /\ LastUpdated(i) \in Int
      BY DEF TypeOK, Total, LastUpdated
    <3> DEFINE W == Weight(i)
               L == LastUpdated(i)
               m == m_numUpdates
    <3>4. (m + 1 - L) * W = (m - L) * W + W
      <4> HIDE DEF W, L, m
      <4> QED
        BY <1>1, <1>2, <3>3 DEF W, L, m
    <3>5. CaughtUp(i)' = Total(i) + (m + 1 - L) * W
      <4>1. CaughtUp(i)' = Total(i)' + (m' - LastUpdated(i)') * Weight(i)'
        BY DEF CaughtUp
      <4> QED
        BY <1>1, <1>2, <3>1, <3>2, <3>3, <4>1
    <3> QED
      BY <1>1, <1>2, <3>1, <3>3, <3>4, <3>5 DEF CaughtUp
  <2>2. [i \in Indices |-> Weight(i)]' = [i \in Indices |-> Weight(i)]
    BY <2>1
  <2>3. [i \in Indices |-> CaughtUp(i)]'
          = [i \in Indices |-> [u \in Indices |-> CaughtUp(u)][i]
                               + [u \in Indices |-> Weight(u)][i]]
    BY <2>1
  <2>4. Averaged!Tick
    BY <1>4, <2>2, <2>3 DEF Averaged!Tick, EmptyUpdate
  <2> QED
    BY <2>4 DEF Averaged!ANext
<1>5. CASE Avg
  <2> DEFINE zero == [i \in Allocated |-> 0]
  <2>1. DOMAIN zero \subseteq Indices /\ zero \in [DOMAIN zero -> Int]
    BY DEF TypeOK
  <2>2. UpdateIndices(zero, m_numUpdates) /\ m_numUpdates' = m_numUpdates
    BY <1>5 DEF Avg
  <2>3. \A i \in Indices : Dense(zero)[i] = 0
    BY DEF Dense
  <2>4. ASSUME NEW i \in Indices
        PROVE  Weight(i)' = Weight(i) /\ CaughtUp(i)' = CaughtUp(i)
    <3> HIDE DEF zero
    <3>1. /\ Weight(i)' = Weight(i) + Dense(zero)[i]
          /\ CaughtUp(i)' = CaughtUp(i)
               + (m_numUpdates - m_numUpdates) * Weight(i) + Dense(zero)[i]
      BY <1>2, <2>1, <2>2, UpdateIndicesEffect
    <3> QED
      BY <1>1, <1>2, <2>3, <3>1
  <2>5. /\ [i \in Indices |-> Weight(i)]' = [i \in Indices |-> Weight(i)]
        /\ [i \in Indices |-> CaughtUp(i)]' = [i \in Indices |-> CaughtUp(i)]
    BY <2>4
  <2> QED
    BY <2>2, <2>5 DEF Averaged!avars
<1>6. CASE UNCHANGED vars
  BY <1>6 DEF vars, Averaged!avars, Weight, CaughtUp, Total, LastUpdated,
              Allocated
<1> QED
  BY <1>3, <1>4, <1>5, <1>6 DEF Next

\* Lazy averaging is eager averaging, for every set of features and vectors.
THEOREM LazyIsEager == Spec => ImplementsAveragedWeights
<1> QED
  BY InitTypeOK, NextTypeOK, InitRefines, NextRefines, PTL
  DEF Spec, ImplementsAveragedWeights, Averaged!ASpec

-----------------------------------------------------------------------------
(* The history: the sum behind an average lies between as many of the least *)
(* and of the greatest weight.                                                *)

\* Each of the n updates has put one value of the range in the caught-up sum.
SumsInRange ==
  \A i \in Indices :
    /\ least[i] =< Weight(i) /\ Weight(i) =< greatest[i]
    /\ least[i] * m_numUpdates =< CaughtUp(i) - initial[i]
    /\ CaughtUp(i) - initial[i] =< greatest[i] * m_numUpdates

RangeInv ==
  /\ TypeOK
  /\ initial \in [Indices -> Int]
  /\ least \in [Indices -> Int]
  /\ greatest \in [Indices -> Int]
  /\ SumsInRange

-----------------------------------------------------------------------------
\* The parts of the state are integers wherever they are looked up.
LEMMA Integral ==
  ASSUME TypeOK, NEW i \in Indices
  PROVE  /\ Weight(i) \in Int /\ Total(i) \in Int /\ LastUpdated(i) \in Int
         /\ CaughtUp(i) \in Int /\ m_numUpdates \in Nat
<1>1. Weight(i) \in Int /\ Total(i) \in Int /\ LastUpdated(i) \in Int
  BY DEF TypeOK, Weight, Total, LastUpdated
<1>2. m_numUpdates \in Nat
  BY DEF TypeOK
<1>3. m_numUpdates \in Int
  BY <1>2
<1> QED
  BY <1>1, <1>2, <1>3 DEF CaughtUp

\* Read pointwise, a step counts the new weight once more or changes nothing.
LEMMA StepEffect ==
  ASSUME TypeOK, [Next]_vars, NEW i \in Indices
  PROVE  \/ /\ m_numUpdates' = m_numUpdates + 1
            /\ CaughtUp(i)' = CaughtUp(i) + Weight(i)'
         \/ /\ m_numUpdates' = m_numUpdates
            /\ CaughtUp(i)' = CaughtUp(i)
            /\ Weight(i)' = Weight(i)
<1> DEFINE ws == [u \in Indices |-> Weight(u)]
           ts == [u \in Indices |-> CaughtUp(u)]
<1>1. [Averaged!ANext]_(Averaged!avars)
  BY NextRefines
<1>2. /\ ws[i] = Weight(i) /\ ts[i] = CaughtUp(i)
      /\ ws'[i] = Weight(i)' /\ ts'[i] = CaughtUp(i)'
  OBVIOUS
<1>3. CASE \E c \in {Dense(d) : d \in ScaledVectors} : Averaged!Add(c)
  BY <1>2, <1>3 DEF Averaged!Add
<1>4. CASE Averaged!Tick
  <2>1. ts' = [u \in Indices |-> ts[u] + ws[u]] /\ ws' = ws
    BY <1>4 DEF Averaged!Tick
  <2>2. m_numUpdates' = m_numUpdates + 1
    BY <1>4 DEF Averaged!Tick
  <2> QED
    BY <1>2, <2>1, <2>2
<1>5. CASE UNCHANGED Averaged!avars
  <2>1. ts' = ts /\ ws' = ws /\ m_numUpdates' = m_numUpdates
    BY <1>5 DEF Averaged!avars
  <2> QED
    BY <1>2, <2>1
<1> QED
  BY <1>1, <1>3, <1>4, <1>5 DEF Averaged!ANext

\* Scaling by a count keeps the order of two integers.
LEMMA ScaleMonotone ==
  ASSUME NEW a \in Int, NEW b \in Int, NEW n \in Nat, a =< b
  PROVE  a * n =< b * n
<1>1. (b - a) * n >= 0
  OBVIOUS
<1> QED
  BY <1>1

\* The initial weights are in their range, and no update has been counted.
LEMMA InitRange == HInit => RangeInv
<1> SUFFICES ASSUME HInit PROVE RangeInv
  OBVIOUS
<1>1. TypeOK
  BY InitTypeOK DEF HInit
<1>2. m_numUpdates = 0
  BY DEF HInit, Init
<1>3. ASSUME NEW i \in Indices
      PROVE  Weight(i) \in Int /\ initial[i] = Weight(i) /\ CaughtUp(i) = Weight(i)
  <2>1. Weight(i) \in Int /\ Total(i) \in Int /\ LastUpdated(i) \in Int
    BY <1>1, Integral
  <2>2. Total(i) = Weight(i) /\ LastUpdated(i) = 0
    BY DEF HInit, Init, Weight, Total, LastUpdated, Allocated
  <2>3. (m_numUpdates - LastUpdated(i)) * Weight(i) = 0
    BY <1>2, <2>1, <2>2
  <2> QED
    BY <2>1, <2>2, <2>3 DEF HInit, CaughtUp
<1>4. /\ initial \in [Indices -> Int]
      /\ least = initial /\ greatest = initial
  BY <1>3 DEF HInit
<1> QED
  BY <1>1, <1>2, <1>3, <1>4 DEF RangeInv, SumsInRange

\* A step widens the range to the new weights before the sums count them.
LEMMA NextRange == RangeInv /\ [HNext]_hvars => RangeInv'
<1> SUFFICES ASSUME RangeInv, [HNext]_hvars PROVE RangeInv'
  OBVIOUS
<1>1. TypeOK /\ [Next]_vars
  BY DEF RangeInv, HNext, hvars
<1>2. TypeOK'
  BY <1>1, NextTypeOK
<1>3. \A i \in Indices : Weight(i)' \in Int
  BY <1>2 DEF TypeOK, Weight
<1>4. CASE HNext
  <2>0. initial' = initial
    BY <1>4 DEF HNext
  <2>1. ASSUME NEW i \in Indices
        PROVE  /\ least'[i] \in Int /\ greatest'[i] \in Int
               /\ least'[i] =< least[i] /\ greatest[i] =< greatest'[i]
               /\ least'[i] =< Weight(i)' /\ Weight(i)' =< greatest'[i]
    <3>1. Weight(i)' \in Int
      BY <1>3
    <3> QED
      BY <1>4, <3>1 DEF HNext, RangeInv
  <2>2. least' \in [Indices -> Int] /\ greatest' \in [Indices -> Int]
    BY <1>4, <2>1 DEF HNext
  <2>3. ASSUME NEW i \in Indices
        PROVE  /\ least'[i] * m_numUpdates' =< CaughtUp(i)' - initial[i]
               /\ CaughtUp(i)' - initial[i] =< greatest'[i] * m_numUpdates'
    <3> DEFINE l == least[i]   g == greatest[i]
               k == least'[i]  h == greatest'[i]
               m == m_numUpdates
               t == CaughtUp(i)
               s == initial[i]
    <3>1. /\ l \in Int /\ g \in Int /\ k \in Int /\ h \in Int
          /\ m \in Nat /\ t \in Int /\ Weight(i)' \in Int /\ s \in Int
      BY <1>1, <1>3, <2>1, Integral DEF RangeInv
    <3>2. l * m =< t - s /\ t - s =< g * m
      BY DEF RangeInv, SumsInRange
    <3>3. k =< l /\ g =< h /\ k =< Weight(i)' /\ Weight(i)' =< h
      BY <2>1
    <3>4. \/ m_numUpdates' = m + 1 /\ CaughtUp(i)' = t + Weight(i)'
          \/ m_numUpdates' = m /\ CaughtUp(i)' = t
      BY <1>1, StepEffect
    <3> HIDE DEF l, g, k, h, m, t, s
    <3>5. k * m =< l * m /\ g * m =< h * m
      BY <3>1, <3>3, ScaleMonotone
    <3>6. k * m =< t - s /\ t - s =< h * m
      BY <3>1, <3>2, <3>5
    <3>7. k * (m + 1) = k * m + k /\ h * (m + 1) = h * m + h
      BY <3>1
    <3>8. k * (m + 1) =< t + Weight(i)' - s /\ t + Weight(i)' - s =< h * (m + 1)
      BY <3>1, <3>3, <3>6, <3>7
    <3> QED
      BY <3>1, <3>4, <3>6, <3>8 DEF k, h, s
  <2> QED
    BY <1>2, <2>0, <2>1, <2>2, <2>3 DEF RangeInv, SumsInRange
<1>5. CASE UNCHANGED hvars
  BY <1>2, <1>5 DEF hvars, vars, RangeInv, SumsInRange, Weight, CaughtUp,
                    Total, LastUpdated, Allocated
<1> QED
  BY <1>4, <1>5

\* Up to date, the sums are the caught-up ones.
LEMMA RangeInvSuffices == RangeInv => AverageButForStart
<1> SUFFICES ASSUME RangeInv, Fresh, NEW i \in Indices
             PROVE  /\ least[i] * m_numUpdates =< Total(i) - initial[i]
                    /\ Total(i) - initial[i] =< greatest[i] * m_numUpdates
  BY DEF AverageButForStart
<1>1. /\ Weight(i) \in Int /\ Total(i) \in Int /\ LastUpdated(i) \in Int
      /\ m_numUpdates \in Nat
  BY Integral DEF RangeInv
<1>2. (m_numUpdates - LastUpdated(i)) * Weight(i) = 0
  <2>1. CASE i \in Allocated
    <3>1. LastUpdated(i) = m_numUpdates
      BY <2>1 DEF Fresh, LastUpdated
    <3> QED
      BY <1>1, <3>1
  <2>2. CASE i \notin Allocated
    <3>1. Weight(i) = 0
      BY <2>2 DEF Weight
    <3> QED
      BY <1>1, <3>1
  <2> QED
    BY <2>1, <2>2
<1>3. CaughtUp(i) = Total(i)
  BY <1>1, <1>2 DEF CaughtUp
<1> QED
  BY <1>3 DEF RangeInv, SumsInRange

\* But for the initial weight, what avg() divides by the number of updates is
\* a sum of that many weights the vector has had (MiraWeightVector.cpp:71-110).
THEOREM AverageIsOfHeldWeights == HSpec => []AverageButForStart
<1> QED
  BY InitRange, NextRange, RangeInvSuffices, PTL DEF HSpec

=============================================================================
