---------------------------- MODULE FeatureSpace ----------------------------
(***************************************************************************)
(* Which number stands for which feature.  Names get ids in the dictionary *)
(* of SparseVector (mert/FeatureStats.cpp), vectors and weights have       *)
(* indexes (mert/MiraFeatureVector.cpp, MiraWeightVector.cpp), and kbmira  *)
(* prints names again (mert/kbmira.cpp:309-316).  Ids and indexes count    *)
(* from 0, as in C++.                                                      *)
(***************************************************************************)
EXTENDS MiraFeatureVector

CONSTANTS
  DenseNames,     (* the sequence of dense features in the init file       *)
  SparseNames,    (* the sparse features, a set                            *)
  Hypotheses,     (* functions from the names a hypothesis lists to their  *)
                  (* values, 0 among them: a line may list it, and a       *)
                  (* graph's edges may cancel out                          *)
  Undefined,      (* no name: an id outside the dictionary decoded         *)
  Types,          (* which of "nbest" and "hypergraph" to consider         *)
  MaxRead,        (* bounds the hypotheses read                            *)
  MaxUpdates      (* bounds the updates                                    *)

\* No name is that of two features; what the init file and the files of
\* hypotheses name is finite, and values are integers (rounding is left out).
ASSUME NamesAssumption ==
  /\ DenseNames \in Seq(ToSet(DenseNames)) /\ IsInjective(DenseNames)
  /\ IsFiniteSet(SparseNames) /\ SparseNames \cap ToSet(DenseNames) = {}
  /\ Undefined \notin SparseNames \cup ToSet(DenseNames)
  /\ \A h \in Hypotheses : /\ DOMAIN h \subseteq SparseNames \cup ToSet(DenseNames)
                           /\ \A n \in DOMAIN h : h[n] \in Int

VARIABLES
  type,           (* the --type of kbmira                                  *)
  initDenseSize,
  m_id_to_name,   (* the static dictionary of SparseVector                 *)
  read,           (* the hypotheses read: [named, dense, sparse], what the *)
                  (* file says, m_dense, and id -> value                   *)
  m_weights,      (* index -> weight; it is 0 elsewhere                    *)
  numUpdates

fvars == <<type, initDenseSize, m_id_to_name, read, m_weights, numUpdates>>

NumDense == Len(DenseNames)

\* What is not listed counts 0.
At(v, x) == IF x \in DOMAIN v THEN v[x] ELSE 0

\* The dense names of a 'name= value' file are encoded before all others; the
\* old format, for nbest only, has no names.
FInit ==
  /\ type \in Types
  /\ initDenseSize = NumDense
  /\ \/ m_id_to_name = DenseNames
     \/ type = "nbest" /\ m_id_to_name = <<>>
  /\ read = {}
  /\ m_weights = <<>>
  /\ numUpdates = 0

Id(name, dict) == (CHOOSE k \in DOMAIN dict : dict[k] = name) - 1

\* SparseVector::set(name, value) for the features a hypothesis lists, a value
\* of 0 as any other: names not in the dictionary yet are appended, in the order
\* of the line.
Parsed(h, names, dict) ==
  [id \in {Id(n, dict) : n \in names \cap DOMAIN h} |-> h[dict[id + 1]]]

\* The names encode() does not find.
Unknown(names) == names \ ToSet(m_id_to_name)

\* An n-best hypothesis lists its dense values without names, an edge of a
\* hypergraph lists all its features by name.
Read(h) ==
  LET names == IF type = "nbest" THEN SparseNames
               ELSE SparseNames \cup ToSet(DenseNames)
      new == Unknown(names \cap DOMAIN h)
  IN /\ Cardinality(read) < MaxRead
     /\ \A r \in read : r.named # h
     /\ \E line \in SetToSeqs(new) :
          /\ m_id_to_name' = m_id_to_name \o line
          /\ read' = read \cup
               {[named  |-> h,
                 dense  |-> [k \in 1 .. NumDense |-> At(h, DenseNames[k])],
                 sparse |-> Parsed(h, names, m_id_to_name \o line)]}
     /\ UNCHANGED <<type, initDenseSize, m_weights, numUpdates>>

Vector(r) == IF type = "nbest" THEN OfItem(r.dense, r.sparse)
             ELSE OfGraph(r.sparse, NumDense)

\* wv.score(v)
ScoreOf(v) ==
  LET es == Entries(v)
  IN SumFunction([k \in DOMAIN es |-> At(m_weights, es[k][1]) * es[k][2]])

\* wv.update(hope - fear)
Update(hope, fear) ==
  LET diff == Entries(Minus(Vector(hope), Vector(fear)))
      feats == {diff[k][1] : k \in DOMAIN diff}
  IN /\ hope # fear
     /\ numUpdates < MaxUpdates
     /\ m_weights' = [x \in DOMAIN m_weights \cup feats |->
          At(m_weights, x) + SumFunctionOnSet([k \in DOMAIN diff |-> diff[k][2]],
                                              {k \in DOMAIN diff : diff[k][1] = x})]
     /\ numUpdates' = numUpdates + 1
     /\ UNCHANGED <<type, initDenseSize, m_id_to_name, read>>

\* All the hypotheses are read before the first update.
FNext == \/ numUpdates = 0 /\ \E h \in Hypotheses : Read(h)
         \/ \E hope, fear \in read : Update(hope, fear)

FSpec == FInit /\ [][FNext]_fvars

-----------------------------------------------------------------------------
\* wv.ToSparse(): weights that are not 0, index for id.
NonZero == {x \in DOMAIN m_weights : m_weights[x] # 0}

\* A slip: sparse weights are printed without taking off the dense ones.
PrintedUnshifted(x) ==
  IF x < initDenseSize THEN DenseNames[x + 1]
  ELSE IF x + 1 \in DOMAIN m_id_to_name THEN m_id_to_name[x + 1] ELSE Undefined

\* The name kbmira prints weight x with: F<x> stands for dense feature x.
Printed(x) ==
  IF x < initDenseSize THEN DenseNames[x + 1]
  ELSE IF x - initDenseSize + 1 \in DOMAIN m_id_to_name
  THEN m_id_to_name[x - initDenseSize + 1] ELSE Undefined

\* The printed weights mean what was trained: applied by name to the values a
\* hypothesis has in its file, they give the score of training.
PrintedWeightsScore ==
  /\ \A x \in NonZero : Printed(x) # Undefined
  /\ \A r \in read :
       ScoreOf(Vector(r)) =
         SumFunction([x \in NonZero |-> m_weights[x] * At(r.named, Printed(x))])

\* "Convert to sparse vector, interpreting all features as sparse"
\* (MiraWeightVector.h:66-68): the score the decoding of a graph gives, with
\* the weights by id, is the score of training.
ToSparseScores ==
  type = "hypergraph" => \A r \in read :
    SumFunction([id \in DOMAIN r.sparse |-> r.sparse[id] * At(m_weights, id)])
      = ScoreOf(Vector(r))

-----------------------------------------------------------------------------
Feats(s) == {s[k][1] : k \in DOMAIN s}

\* The value of a sparse feature, 0 if it is not listed.
Listed(s, x) ==
  IF x \in Feats(s) THEN s[CHOOSE k \in DOMAIN s : s[k][1] = x][2] ELSE 0

\* The merge of operator- computes the difference feature by feature, and lists
\* in ascending order, each once, the features of either vector but those both
\* list with the same value: a 0 that one alone lists stays.
DifferenceIsRight ==
  \A r, q \in read :
    LET a == Vector(r).sparse
        b == Vector(q).sparse
        c == Minus(Vector(r), Vector(q)).sparse
        alike == {x \in Feats(a) \cap Feats(b) : Listed(a, x) = Listed(b, x)}
    IN /\ \A k, l \in DOMAIN c : k < l => c[k][1] < c[l][1]
       /\ Feats(c) = (Feats(a) \cup Feats(b)) \ alike
       /\ \A x \in Feats(c) : Listed(c, x) = Listed(a, x) - Listed(b, x)
=============================================================================
