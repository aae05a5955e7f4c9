------------------------------- MODULE KbMira -------------------------------
(***************************************************************************)
(* The training loop of kbmira (mert/kbmira.cpp:229-321) over a decoder    *)
(* whose one cursor serves both training and Evaluate.                     *)
(*                                                                         *)
(* What a decoder finds in a sentence is left open: an example may change  *)
(* the weights, only the background, or nothing.  A weight vector is named *)
(* by the number of updates that made it (wv.m_numUpdates), for the run is *)
(* one sequence of updates; so is the average of all of them.  BLEU is a   *)
(* number of a small range, or NaN when no n-gram was counted at all.      *)
(***************************************************************************)
EXTENDS Integers, Sequences

CONSTANTS
  Sentences,    (* the sentences of the decoder                            *)
  Iterations,   (* n_iters                                                 *)
  MaxBleu,      (* the highest corpus BLEU                                 *)
  None

ASSUME KbMiraAssumption ==
  /\ Iterations \in Nat /\ MaxBleu \in Nat
  /\ None \notin Sentences

VARIABLES
  toFile,         (* an output file was named; else the weights go to cout *)
  sentences, current, visited,    (* the decoder's enumerator              *)
  j,              (* the epoch, 0 before and while the initial BLEU is     *)
                  (* evaluated                                             *)
  pc,             (* where main is                                         *)
  numUpdates,     (* wv.m_numUpdates                                       *)
  averaged,       (* the number of updates wv.avg() last averaged over     *)
  stats,          (* the sentences summed up by Evaluate so far            *)
  bleu, bestBleu,
  output,         (* the weight sets in the file or on cout, in order      *)
  examples,       (* the sentences trained on in this epoch, iNumExamples  *)
  epochBleu,      (* for each finished Evaluate of an epoch its BLEU       *)
  epochWeights    (* and the weights it evaluated                          *)

decoder == <<sentences, current, visited>>
weights == <<numUpdates, averaged>>
result == <<bleu, bestBleu, output>>
history == <<examples, epochBleu, epochWeights>>
kvars == <<toFile, decoder, j, pc, weights, stats, result, history>>

Decoder == INSTANCE HypPackEnumerator

\* The averaged view refers to wv: it is an average only while wv is as avg()
\* left it, and else a mixture of sums brought up to date at different times.
Mixture == -1
AverageRead == IF averaged = numUpdates THEN averaged ELSE Mixture

NaN == -1
BleuValues == 0 .. MaxBleu \cup {NaN}

\* A slip: an equally good later epoch replaces the first.
NotWorse(b, best) == b # NaN /\ b >= best

\* bleu > bestBleu in floating point: false for NaN.  bestBleu is never NaN.
Improves(b, best) == b # NaN /\ b > best

KInit ==
  /\ toFile \in BOOLEAN
  /\ sentences = Sentences
  /\ Decoder!EInit
  /\ j = 0
  /\ pc = "evaluate"
  /\ numUpdates = 0
  /\ averaged = 0
  /\ stats = {}
  /\ bleu = 0 /\ bestBleu = 0
  /\ output = <<>>
  /\ examples = {}
  /\ epochBleu = <<>> /\ epochWeights = <<>>

\* A slip: the weights are evaluated without bringing the sums up to date.
EvaluateStale ==
  /\ pc = "evaluate"
  /\ Decoder!EReset
  /\ stats' = {}
  /\ pc' = "sum"
  /\ UNCHANGED <<j, weights, result, history>>

\* decoder->Evaluate(wv.avg()): avg() brings the sums up to date, Evaluate
\* takes the decoder's cursor back to the start.
Evaluate ==
  /\ pc = "evaluate"
  /\ averaged' = numUpdates
  /\ Decoder!EReset
  /\ stats' = {}
  /\ pc' = "sum"
  /\ UNCHANGED <<j, numUpdates, result, history>>

\* A slip: the loop does not go on to the next sentence.
SumWithoutNext ==
  /\ pc = "sum" /\ current # None
  /\ stats' = stats \cup {current}
  /\ UNCHANGED <<decoder, j, pc, weights, result, history>>

\* MaxModel on one sentence with the averaged weights.
SumSentence ==
  /\ pc = "sum" /\ current # None
  /\ stats' = stats \cup {current}
  /\ Decoder!ENext
  /\ UNCHANGED <<j, pc, weights, result, history>>

\* Two evaluations of the same weights agree.
Possible(b) ==
  \A e \in DOMAIN epochBleu : epochWeights[e] = AverageRead => epochBleu[e] = b

\* unsmoothedBleu of the sums: the initial one is printed, an epoch's judged.
Judge ==
  /\ pc = "sum" /\ current = None
  /\ IF j = 0
     THEN pc' = "train" /\ j' = 1 /\ UNCHANGED <<bleu, history>>
     ELSE \E b \in {b \in BleuValues : Possible(b)} :
            /\ bleu' = b
            /\ epochBleu' = Append(epochBleu, b)
            /\ epochWeights' = Append(epochWeights, AverageRead)
            /\ IF Improves(b, bestBleu) THEN pc' = "open" /\ j' = j
               ELSE pc' = "train" /\ j' = j + 1
            /\ UNCHANGED examples
  /\ UNCHANGED <<decoder, weights, stats, bestBleu, output>>

\* A slip: the cursor stays where the evaluation has left it.
TrainWithoutReset ==
  /\ pc = "train"
  /\ IF j <= Iterations
     THEN examples' = {} /\ pc' = "examples"
     ELSE pc' = "exit 0" /\ UNCHANGED examples
  /\ UNCHANGED <<decoder, j, weights, stats, result, epochBleu, epochWeights>>

\* The start of an epoch, or the end of the program after the last one.
Train ==
  /\ pc = "train"
  /\ IF j <= Iterations
     THEN Decoder!EReset /\ examples' = {} /\ pc' = "examples"
     ELSE pc' = "exit 0" /\ UNCHANGED <<decoder, examples>>
  /\ UNCHANGED <<j, weights, stats, result, epochBleu, epochWeights>>

\* One example: wv.update() if hope and fear differ and the loss is positive.
Example ==
  /\ pc = "examples" /\ current # None
  /\ examples' = examples \cup {current}
  /\ numUpdates' \in {numUpdates, numUpdates + 1}
  /\ Decoder!ENext
  /\ UNCHANGED <<j, pc, averaged, stats, result, epochBleu, epochWeights>>

EndEpoch ==
  /\ pc = "examples" /\ current = None
  /\ pc' = "evaluate"
  /\ UNCHANGED <<decoder, j, weights, stats, result, history>>

\* Opening the file truncates it; what is on cout stays there.
Open ==
  /\ pc = "open"
  /\ \/ pc' = "write" /\ output' = IF toFile THEN <<>> ELSE output
     \/ toFile /\ pc' = "exit 1" /\ UNCHANGED output
  /\ UNCHANGED <<decoder, j, weights, stats, bleu, bestBleu, history>>

\* The weights are printed from the averaged view, which reads wv as it is.
Write ==
  /\ pc = "write"
  /\ output' = Append(output, AverageRead)
  /\ bestBleu' = bleu
  /\ pc' = "train" /\ j' = j + 1
  /\ UNCHANGED <<decoder, weights, stats, bleu, history>>

KNext ==
  /\ \/ Evaluate \/ SumSentence \/ Judge
     \/ Train \/ Example \/ EndEpoch
     \/ Open \/ Write
  /\ UNCHANGED toFile

KSpec == KInit /\ [][KNext]_kvars

\* One thread runs all of it: whatever can go on does.
FairKSpec == KSpec /\ WF_kvars(KNext)

-----------------------------------------------------------------------------
\* Every epoch trains on every sentence once, though the evaluation before it
\* has moved the same cursor: the sentences trained on are those the cursor
\* has passed, and all of them when the weights are evaluated.
EpochTrainsOnAll ==
  /\ pc = "examples" => examples = visited \ {current}
  /\ pc = "evaluate" /\ j > 0 => examples = Sentences

\* A BLEU is judged, and weights are written, only of whole passes over the
\* data with weights that avg() has brought up to date and nothing has changed
\* since, though the view passed around is a reference.
EvaluationIsOfTheAverage ==
  /\ pc = "sum" => averaged = numUpdates /\ stats = visited \ {current}
  /\ pc \in {"open", "write"} => averaged = numUpdates /\ stats = Sentences
  /\ \A e \in DOMAIN epochWeights : epochWeights[e] # Mixture

\* Epoch e is the first of the best ones, and better than nothing.
FirstBest(e) ==
  /\ epochBleu[e] > 0
  /\ \A f \in DOMAIN epochBleu :
       /\ epochBleu[f] <= epochBleu[e]
       /\ f < e => epochBleu[f] < epochBleu[e]

\* "Will return the set that maximizes training BLEU" (kbmira.cpp:24-25): but
\* for the time between opening the file and having written it, the last weight
\* set out is that of the first epoch with the greatest BLEU so far, and there
\* is none only if no epoch has had any BLEU.
OutputIsBest ==
  pc \notin {"open", "write", "exit 1"} =>
    \/ output = <<>> /\ \A e \in DOMAIN epochBleu : epochBleu[e] <= 0
    \/ /\ output # <<>>
       /\ \E e \in DOMAIN epochBleu :
            /\ FirstBest(e)
            /\ output[Len(output)] = epochWeights[e]
            /\ bestBleu = epochBleu[e]

\* The program comes to an end.
Terminates == <>(pc \in {"exit 0", "exit 1"})
=============================================================================
