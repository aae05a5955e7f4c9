-------------------- MODULE RandomAccessHypPackEnumerator --------------------
(***************************************************************************)
(* RandomAccessHypPackEnumerator (mert/HypPackEnumerator.cpp:156-213): the *)
(* constructor drains a streaming enumerator into memory; from then on the *)
(* sentences are visited through a permutation that reset() may shuffle.   *)
(* Sentences are numbered from 1.                                          *)
(***************************************************************************)
EXTENDS StreamingHypPackEnumerator

CONSTANT NoShuffle      (* the values of m_no_shuffle to consider           *)

VARIABLES
  m_features, m_scores,     (* per sentence the vectors, and <<i, j>> for   *)
                            (* the score line j of list i copied with each  *)
  m_indexes, m_cur_index, m_no_shuffle, m_num_dense,
  loaded                    (* the constructor has returned                 *)

memory == <<m_features, m_scores, m_indexes, m_no_shuffle>>
rvars == <<svars, memory, m_cur_index, m_num_dense, loaded>>

RInit ==
  /\ SInit
  /\ m_features = <<>> /\ m_scores = <<>> /\ m_indexes = <<>>
  /\ m_cur_index = 1
  /\ m_no_shuffle \in NoShuffle
  /\ m_num_dense = 0
  /\ loaded = FALSE

\* train.reset()
Open ==
  /\ ~m_primed /\ Reset
  /\ UNCHANGED <<memory, m_cur_index, m_num_dense, loaded>>

\* The body of the constructor's loop and its train.next().
Load ==
  /\ ~loaded /\ NextSentence
  /\ m_features' = Append(m_features, m_current_featureVectors)
  /\ m_scores' = Append(m_scores, [k \in DOMAIN m_current_indexes |->
                   <<m_current_indexes[k][1], ScoreLineAt(k)>>])
  /\ m_indexes' = Append(m_indexes, Len(m_indexes) + 1)
  /\ UNCHANGED <<m_cur_index, m_no_shuffle, m_num_dense, loaded>>

\* The end of the constructor; num_dense() exits if there was no hypothesis.
Loaded ==
  /\ status = "running" /\ m_primed /\ Finished /\ ~loaded
  /\ IF m_iNumDense < 0
     THEN Stop("error") /\ UNCHANGED <<m_num_dense, loaded>>
     ELSE m_num_dense' = m_iNumDense /\ loaded' = TRUE /\ UNCHANGED svars
  /\ UNCHANGED <<memory, m_cur_index>>

\* A slip: the shuffle draws every index anew.
AnyOrder(indexes) == [DOMAIN indexes -> ToSet(indexes)]

\* random_shuffle leaves some permutation of the sequence.
Shuffled(indexes) == SetToSeqs(ToSet(indexes))

\* reset()
ResetPass ==
  /\ loaded
  /\ m_cur_index' = 1
  /\ m_indexes' \in IF m_no_shuffle THEN {m_indexes} ELSE Shuffled(m_indexes)
  /\ UNCHANGED <<svars, m_features, m_scores, m_no_shuffle, m_num_dense, loaded>>

PassFinished == m_cur_index > Len(m_indexes)

\* next()
NextInPass ==
  /\ loaded /\ ~PassFinished
  /\ m_cur_index' = m_cur_index + 1
  /\ UNCHANGED <<svars, memory, m_num_dense, loaded>>

RNext == Open \/ Load \/ Loaded \/ ResetPass \/ NextInPass

RSpec == RInit /\ [][RNext]_rvars

-----------------------------------------------------------------------------
\* What is in memory is what the files say, sentence by sentence and after any
\* number of shuffles: each vector is kept with the score line of its own
\* hypothesis, and all vectors have the num_dense() of the first.
MemoryMatchesFiles ==
  \A n \in DOMAIN m_features :
    /\ DOMAIN m_features[n] = DOMAIN m_scores[n]
    /\ \A k \in DOMAIN m_features[n] :
         LET i == m_scores[n][k][1]
             j == m_scores[n][k][2]
         IN /\ j <= m_scoreFiles[i].blocks[n]
            /\ j <= Len(m_featureFiles[i].blocks[n])
            /\ m_features[n][k] = m_featureFiles[i].blocks[n][j]
            /\ loaded => Len(m_features[n][k].dense) = m_num_dense

\* Once loaded, every pass visits every sentence of the data exactly once,
\* whatever the shuffles were; until then there is nothing to visit.
Pass == INSTANCE HypPackEnumerator WITH
  None      <- 0,
  sentences <- IF m_featureFiles = <<>> THEN {}
               ELSE 1 .. Readable(m_featureFiles[1]),
  current   <- IF loaded /\ ~PassFinished THEN m_indexes[m_cur_index] ELSE 0,
  visited   <- IF loaded
               THEN {m_indexes[n] : n \in 1 .. m_cur_index - IF PassFinished THEN 1 ELSE 0}
               ELSE {}

PassVisitsEverySentence == Pass!ESpec
=============================================================================
