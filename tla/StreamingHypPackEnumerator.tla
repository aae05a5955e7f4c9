---------------------- MODULE StreamingHypPackEnumerator ----------------------
(***************************************************************************)
(* StreamingHypPackEnumerator (mert/HypPackEnumerator.cpp:13-152) with the *)
(* iterators it drives over feature and score files.                       *)
(*                                                                         *)
(* A feature file is [blocks, cut]: the sentences in file order, each a    *)
(* sequence of hypotheses [dense, sparse] or Malformed, and whether the    *)
(* file ends inside the last of them.  A score file is the same with the   *)
(* number of score lines of each sentence for a block.  Lists are numbered *)
(* from 1, where C++ numbers them from 0.                                  *)
(***************************************************************************)
EXTENDS Integers, SequencesExt

CONSTANTS
  Data,         (* [features, scores]: the files on the command line       *)
  Malformed,    (* a block that makes readNext throw FileFormatException   *)
  HashValue(_)  (* hash_value(FeatureDataItem)                             *)

IsSequence(f) == Len(f) \in Nat /\ f = [k \in 1 .. Len(f) |-> f[k]]

IsFeatureFile(file) ==
  /\ file.cut \in BOOLEAN
  /\ IsSequence(file.blocks)
  /\ \A n \in DOMAIN file.blocks : file.blocks[n] # Malformed =>
       /\ IsSequence(file.blocks[n])
       /\ \A j \in DOMAIN file.blocks[n] : IsSequence(file.blocks[n][j].dense)

IsScoreFile(file) == file.cut \in BOOLEAN /\ IsSequence(file.blocks)

ASSUME DataAssumption ==
  \A d \in Data :
    /\ IsSequence(d.features) /\ \A i \in DOMAIN d.features : IsFeatureFile(d.features[i])
    /\ IsSequence(d.scores) /\ \A i \in DOMAIN d.scores : IsScoreFile(d.scores[i])

VARIABLES
  m_featureFiles, m_scoreFiles,
  featurePos, scorePos,       (* the block each list's iterators are at    *)
  m_sentenceId, m_primed, m_iNumDense,
  m_current_indexes, m_current_featureVectors,
  status                      (* "running", or how the process ended       *)

files == <<m_featureFiles, m_scoreFiles>>
cursor == <<featurePos, scorePos, m_sentenceId>>
pack == <<m_primed, m_iNumDense, m_current_indexes, m_current_featureVectors>>
svars == <<files, cursor, pack, status>>

Lists == DOMAIN m_featureFiles

\* What readNext finds at a position: the end of the file also when the file
\* stops inside the block (the EndOfFileException is caught).
Readable(file) == Len(file.blocks) - IF file.cut THEN 1 ELSE 0

AtEnd(file, pos) == pos > Readable(file)
Throws(file, pos) == ~AtEnd(file, pos) /\ file.blocks[pos] = Malformed

\* The constructor; the iterators are opened by reset().
SInit ==
  /\ \E d \in Data : m_featureFiles = d.features /\ m_scoreFiles = d.scores
  /\ featurePos = [i \in Lists |-> 0]
  /\ scorePos = [i \in Lists |-> 0]
  /\ m_sentenceId = 0
  /\ m_primed = FALSE
  /\ m_iNumDense = -1
  /\ m_current_indexes = <<>>
  /\ m_current_featureVectors = <<>>
  /\ status = IF Len(m_featureFiles) = 0 \/ Len(m_scoreFiles) = 0 THEN "no data"
              ELSE IF Len(m_featureFiles) # Len(m_scoreFiles) THEN "error"
              ELSE "running"

Stop(how) == status' = how /\ UNCHANGED <<files, cursor, pack>>

-----------------------------------------------------------------------------
Items(f) == [i \in Lists |-> m_featureFiles[i].blocks[f[i]]]

\* A slip: the hash leaves the dense vector out.
SameSparse(a, b) == a.sparse = b.sparse

\* operator== compares item1.dense with itself: only the hash tells two dense
\* vectors apart, and the set compares the hashes first.
SameItem(a, b) == HashValue(a) = HashValue(b) /\ a.sparse = b.sparse

Before(p, q) == p[1] < q[1] \/ (p[1] = q[1] /\ p[2] < q[2])

\* The hypotheses <<list, position>> not seen before in the sentence.
Distinct(items) ==
  LET all == UNION {{i} \X DOMAIN items[i] : i \in DOMAIN items}
  IN {p \in all : \A q \in all :
        Before(q, p) => ~SameItem(items[q[1]][q[2]], items[p[1]][p[2]])}

\* Those hypotheses in the order they are read.
InOrder(D) ==
  [k \in 1 .. Cardinality(D) |->
     CHOOSE p \in D : Cardinality({q \in D : Before(q, p)}) = k - 1]

\* A slip: only the ends of the files are looked at.
ListsEnd(f, s) ==
  \E i \in Lists : AtEnd(m_featureFiles[i], f[i]) \/ AtEnd(m_scoreFiles[i], s[i])

\* prime() gives up with exit(1) on a list that ends or whose sizes differ.
SizesDiffer(f, s) ==
  \/ ListsEnd(f, s)
  \/ \E i \in Lists :
       Len(m_featureFiles[i].blocks[f[i]]) # m_scoreFiles[i].blocks[s[i]]

\* prime() with the iterators at f and s.
Prime(f, s, id) ==
  IF SizesDiffer(f, s) THEN Stop("error") ELSE
  LET items   == Items(f)
      indexes == InOrder(Distinct(items))
      vectors == [k \in DOMAIN indexes |-> items[indexes[k][1]][indexes[k][2]]]
      numDense == IF m_iNumDense # -1 \/ vectors = <<>> THEN m_iNumDense
                  ELSE Len(vectors[1].dense)
  IN IF \E k \in DOMAIN vectors : Len(vectors[k].dense) # numDense
     THEN Stop("error")
     ELSE /\ featurePos' = f /\ scorePos' = s /\ m_sentenceId' = id
          /\ m_primed' = TRUE
          /\ m_iNumDense' = numDense
          /\ m_current_indexes' = indexes
          /\ m_current_featureVectors' = vectors
          /\ UNCHANGED <<files, status>>

SomeThrows(f, s) == \E i \in Lists : \/ Throws(m_featureFiles[i], f[i])
                                     \/ Throws(m_scoreFiles[i], s[i])

Reset ==
  LET first == [i \in Lists |-> 1]
  IN /\ status = "running"
     /\ IF SomeThrows(first, first) THEN Stop("exception")
        ELSE Prime(first, first, 0)

\* A slip: the last sentence is taken for the end.
FinishedEarly == featurePos[1] >= Readable(m_featureFiles[1])

\* finished() looks at the first list only.
Finished == AtEnd(m_featureFiles[1], featurePos[1])

\* next(): the loops of kbmira call it only while finished() is false.
NextSentence ==
  LET f == [i \in Lists |-> featurePos[i] + 1]
      s == [i \in Lists |-> scorePos[i] + 1]
  IN /\ status = "running" /\ m_primed /\ ~Finished
     /\ IF SomeThrows(f, s) THEN Stop("exception")
        ELSE IF AtEnd(m_featureFiles[1], f[1])
        THEN /\ featurePos' = f /\ scorePos' = s
             /\ m_sentenceId' = m_sentenceId + 1
             /\ UNCHANGED <<files, pack, status>>
        ELSE Prime(f, s, m_sentenceId + 1)

SNext == Reset \/ NextSentence

SSpec == SInit /\ [][SNext]_svars

-----------------------------------------------------------------------------
(* featuresAt(k) and scoresAt(k), for k < cur_size(); scoresAt reads through *)
(* the score iterators, at whatever block they are now.                      *)
FeaturesAt(k) == m_current_featureVectors[k]

\* A slip: the position in the pack, not in the list.
ScoreLineInPack(k) == k

ScoreLineAt(k) == m_current_indexes[k][2]

Querying == status = "running" /\ m_primed /\ ~Finished

\* The vectors kept by prime() and the scores read later through the iterators
\* are of the same hypothesis of the same sentence: every list's two iterators
\* are at the sentence m_sentenceId, and the score line exists.
PackMatchesScores ==
  Querying => \A k \in DOMAIN m_current_indexes :
    LET i == m_current_indexes[k][1]
    IN /\ featurePos[i] = m_sentenceId + 1 /\ scorePos[i] = m_sentenceId + 1
       /\ ScoreLineAt(k) <= m_scoreFiles[i].blocks[scorePos[i]]
       /\ FeaturesAt(k) = m_featureFiles[i].blocks[featurePos[i]][ScoreLineAt(k)]

\* Deduplication (HypPackEnumerator.h:5-6) loses no hypothesis of the sentence
\* and leaves none twice.
PackIsDeduped ==
  Querying =>
    /\ ToSet(m_current_featureVectors)
         = UNION {ToSet(m_featureFiles[i].blocks[featurePos[i]]) : i \in Lists}
    /\ IsInjective(m_current_featureVectors)

\* A pass over the files visits the sentences of the first feature file, each
\* once.  A process that stopped stutters.
Enumeration == INSTANCE HypPackEnumerator WITH
  None      <- 0,
  sentences <- IF m_featureFiles = <<>> THEN {}
               ELSE 1 .. Readable(m_featureFiles[1]),
  current   <- IF ~m_primed \/ Finished THEN 0 ELSE m_sentenceId + 1,
  visited   <- IF ~m_primed THEN {}
               ELSE 1 .. IF Finished THEN m_sentenceId ELSE m_sentenceId + 1

EnumeratesEverySentence == Enumeration!ESpec
=============================================================================
