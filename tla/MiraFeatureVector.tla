-------------------------- MODULE MiraFeatureVector --------------------------
(***************************************************************************)
(* MiraFeatureVector (mert/MiraFeatureVector.cpp): a vector is [dense,     *)
(* sparse], sparse being the sequence of <<index, value>> that             *)
(* m_sparseFeats and m_sparseVals make together, sorted by index.  Indexes *)
(* count from 0, as in C++, and the dense values have the lowest.          *)
(***************************************************************************)
EXTENDS Integers, SequencesExt

\* A finite set of ids, least first.
Ascending(ids) ==
  [k \in 1 .. Cardinality(ids) |->
     CHOOSE id \in ids : Cardinality({i \in ids : i < id}) = k - 1]

\* InitSparse(): the ids from ignoreLimit on, moved up by the dense features.
InitSparse(sparse, numDense, ignoreLimit) ==
  LET ids == Ascending({id \in DOMAIN sparse : id >= ignoreLimit})
  IN [k \in DOMAIN ids |-> <<numDense + ids[k], sparse[ids[k]]>>]

\* The vector of an item of an n-best list: its ids follow the dense values.
OfItem(dense, sparse) ==
  [dense |-> dense, sparse |-> InitSparse(sparse, Len(dense), 0)]

\* The vector of a graph's features: ids below numDense are the dense ones.
OfGraph(sparse, numDense) ==
  [dense  |-> [k \in 1 .. numDense |->
                 IF k - 1 \in DOMAIN sparse THEN sparse[k - 1] ELSE 0],
   sparse |-> InitSparse(sparse, numDense, numDense)]

\* <<feat(k), val(k)>> for every k below size(), counted from 1.
Entries(v) == [k \in DOMAIN v.dense |-> <<k - 1, v.dense[k]>>] \o v.sparse

\* A slip: a feature of b alone keeps its sign.
KeepSign(e) == e
Negated(e) == <<e[1], -e[2]>>

\* Whether the loop of operator- takes feature i of s, t being at j: the lesser
\* index comes first, and equal ones together.
Takes(s, i, t, j) == i <= Len(s) /\ (j <= Len(t) => s[i][1] <= t[j][1])

\* What it lists then: a difference of (nearly) 0 is left out.
Kept(x, i, y, j) ==
  IF ~Takes(y, j, x, i) THEN <<x[i]>>
  ELSE IF ~Takes(x, i, y, j) THEN <<Negated(y[j])>>
  ELSE IF x[i][2] = y[j][2] THEN <<>> ELSE <<<<x[i][1], x[i][2] - y[j][2]>>>>

\* The merge of two sparse lists, from place p[1] of x and p[2] of y on.
Merged(x, y) ==
  LET merged[p \in (1 .. Len(x) + 1) \X (1 .. Len(y) + 1)] ==
        IF p = <<Len(x) + 1, Len(y) + 1>> THEN <<>>
        ELSE Kept(x, p[1], y, p[2])
               \o merged[<<IF Takes(x, p[1], y, p[2]) THEN p[1] + 1 ELSE p[1],
                          IF Takes(y, p[2], x, p[1]) THEN p[2] + 1 ELSE p[2]>>]
  IN merged[<<1, 1>>]

\* operator-: the dense values one by one, the sparse ones by the merge.  The
\* vectors have as many dense values as each other, or the code exits.
Minus(a, b) ==
  [dense  |-> [k \in DOMAIN a.dense |-> a.dense[k] - b.dense[k]],
   sparse |-> Merged(a.sparse, b.sparse)]
=============================================================================
