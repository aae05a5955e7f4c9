------------------------- MODULE NbestTrain_proofs --------------------------
(***************************************************************************)
(* What is kept of the hypotheses of a sentence, that a pass over the      *)
(* streams goes over the sentences of the first list, and that the         *)
(* sentences in memory match the files and are all visited, for files of   *)
(* any size and any number of shuffled passes; and what the hope, fear and *)
(* model scans of such a pack promise each other, for packs of every size, *)
(* all scores and all BLEU values.                                         *)
(***************************************************************************)
EXTENDS NbestTrain, HopeFearDecoder, FiniteSetTheorems, FunctionTheorems,
        WellFoundedInduction, TLAPS

-----------------------------------------------------------------------------
(* The order in which hypotheses are read.                                   *)

\* A sequence is one over its own elements.
LEMMA SequenceType ==
  ASSUME NEW f, IsSequence(f)
  PROVE  Len(f) \in Nat /\ DOMAIN f = 1 .. Len(f)
<1> QED
  BY DEF IsSequence

\* Before is a strict total order.
LEMMA BeforeOrders ==
  ASSUME NEW p \in Nat \X Nat, NEW q \in Nat \X Nat, NEW r \in Nat \X Nat
  PROVE  /\ ~Before(p, p)
         /\ Before(p, q) /\ Before(q, r) => Before(p, r)
         /\ p = q \/ Before(p, q) \/ Before(q, p)
<1>1. /\ p[1] \in Nat /\ p[2] \in Nat /\ p = <<p[1], p[2]>>
      /\ q[1] \in Nat /\ q[2] \in Nat /\ q = <<q[1], q[2]>>
      /\ r[1] \in Nat /\ r[2] \in Nat
  OBVIOUS
<1> QED
  BY <1>1 DEF Before

\* A set of numbers has a least one.
LEMMA LeastNat ==
  ASSUME NEW T, T \subseteq Nat, T # {}
  PROVE  \E x \in T : \A y \in T : x <= y
<1>1. PICK x \in T : \A y \in T : ~(<<y, x>> \in OpToRel(<, Nat))
  BY NatLessThanWellFounded, WFMin
<1>2. ASSUME NEW y \in T PROVE x <= y
  <2>1. x \in Nat /\ y \in Nat
    OBVIOUS
  <2>2. ~(<<y, x>> \in {ss \in Nat \X Nat : ss[1] < ss[2]})
    BY <1>1 DEF OpToRel
  <2>3. ~(y < x)
    BY <2>1, <2>2
  <2> QED
    BY <2>1, <2>3
<1> QED
  BY <1>2

\* A set of positions has a first one.
LEMMA FirstPosition ==
  ASSUME NEW T, T \subseteq Nat \X Nat, T # {}
  PROVE  \E p \in T : \A q \in T : ~Before(q, p)
<1> DEFINE I == {p[1] : p \in T}
<1>1. I \subseteq Nat /\ I # {}
  OBVIOUS
<1>2. PICK u \in I : \A x \in I : u <= x
  <2> HIDE DEF I
  <2> QED
    BY <1>1, LeastNat
<1> DEFINE J == {p[2] : p \in {q \in T : q[1] = u}}
<1>3. J \subseteq Nat /\ J # {}
  BY <1>2
<1>4. PICK j \in J : \A y \in J : j <= y
  <2> HIDE DEF J
  <2> QED
    BY <1>3, LeastNat
<1>5. PICK p \in T : p[1] = u /\ p[2] = j
  BY <1>4
<1>6. ASSUME NEW q \in T PROVE ~Before(q, p)
  <2>1. q[1] \in Nat /\ q[2] \in Nat /\ u \in Nat /\ j \in Nat
    BY <1>1, <1>3
  <2>2. u <= q[1]
    BY <1>2
  <2>3. q[1] = u => j <= q[2]
    BY <1>4
  <2> QED
    BY <1>5, <2>1, <2>2, <2>3 DEF Before
<1> QED
  BY <1>6

Rank(D, p) == Cardinality({q \in D : Before(q, p)})

\* Positions have different places in a finite set of them.
LEMMA RanksDiffer ==
  ASSUME NEW D, D \subseteq Nat \X Nat, IsFiniteSet(D), NEW p \in D, NEW q \in D, Before(p, q)
  PROVE  Rank(D, p) < Rank(D, q)
<1> DEFINE P == {r \in D : Before(r, p)}
           Q == {r \in D : Before(r, q)}
<1>1. P \in SUBSET Q /\ p \in Q /\ p \notin P /\ Q \in SUBSET D
  BY BeforeOrders
<1>2. Rank(D, p) = Cardinality(P) /\ Rank(D, q) = Cardinality(Q)
  BY DEF Rank
<1> HIDE DEF P, Q
<1>3. IsFiniteSet(Q) /\ IsFiniteSet(P)
  BY <1>1, FS_Subset
<1>4. Cardinality(P) <= Cardinality(Q) /\ Cardinality(P) # Cardinality(Q)
  BY <1>1, <1>3, FS_Subset
<1>5. Cardinality(P) \in Nat /\ Cardinality(Q) \in Nat
  BY <1>3, FS_CardinalityType
<1> QED
  BY <1>2, <1>4, <1>5

\* Every place is taken, by one position.
LEMMA RanksAreAll ==
  ASSUME NEW D, D \subseteq Nat \X Nat, IsFiniteSet(D)
  PROVE  /\ Cardinality(D) \in Nat
         /\ \A p \in D : Rank(D, p) \in 0 .. Cardinality(D) - 1
         /\ \A p, q \in D : Rank(D, p) = Rank(D, q) => p = q
         /\ \A n \in 0 .. Cardinality(D) - 1 : \E p \in D : Rank(D, p) = n
<1> DEFINE n == Cardinality(D)
           R == [p \in D |-> Rank(D, p)]
<1>1. n \in Nat
  BY FS_CardinalityType
<1>2. ASSUME NEW p \in D PROVE Rank(D, p) \in 0 .. n - 1
  <2> DEFINE P == {r \in D : Before(r, p)}
  <2>1. P \in SUBSET D /\ p \notin P
    BY BeforeOrders
  <2>2. Rank(D, p) = Cardinality(P)
    BY DEF Rank
  <2> HIDE DEF P
  <2>3. Cardinality(P) <= n /\ Cardinality(P) # n /\ IsFiniteSet(P)
    BY <2>1, FS_Subset
  <2>4. Cardinality(P) \in Nat
    BY <2>3, FS_CardinalityType
  <2> QED
    BY <1>1, <2>2, <2>3, <2>4
<1>3. ASSUME NEW p \in D, NEW q \in D, Rank(D, p) = Rank(D, q) PROVE p = q
  <2>1. Rank(D, p) \in Nat /\ Rank(D, q) \in Nat
    BY <1>2
  <2>2. ~Before(p, q) /\ ~Before(q, p)
    BY <1>3, <2>1, RanksDiffer
  <2>3. p \in Nat \X Nat /\ q \in Nat \X Nat
    OBVIOUS
  <2> QED
    BY <2>2, <2>3, BeforeOrders
<1>4. IsFiniteSet(0 .. n - 1) /\ Cardinality(0 .. n - 1) = n
  <2>1. 0 \in Int /\ n - 1 \in Int
    BY <1>1
  <2> HIDE DEF n
  <2>2. /\ IsFiniteSet(0 .. n - 1)
        /\ Cardinality(0 .. n - 1) = IF 0 > n - 1 THEN 0 ELSE (n - 1) - 0 + 1
    BY <2>1, FS_Interval
  <2> QED
    BY <1>1, <2>2
<1>5. R \in [D -> 0 .. n - 1] /\ \A p, q \in D : R[p] = R[q] => p = q
  BY <1>2, <1>3
<1>6. \A m \in 0 .. n - 1 : \E p \in D : R[p] = m
  <2> DEFINE T == 0 .. n - 1
  <2> HIDE DEF T, R
  <2>1. R \in Injection(D, T)
    BY <1>5, Fun_IsInj DEF T
  <2>2. R \in Surjection(D, T)
    BY <1>4, <2>1, FS_Injection DEF T
  <2>3. \A m \in T : \E p \in D : R[p] = m
    BY <2>2, Fun_SurjectionProperties
  <2> QED
    BY <2>3 DEF T
<1> QED
  BY <1>1, <1>2, <1>3, <1>6

\* InOrder lists every position of a finite set once.
LEMMA InOrderLists ==
  ASSUME NEW D, D \subseteq Nat \X Nat, IsFiniteSet(D)
  PROVE  /\ InOrder(D) \in [1 .. Cardinality(D) -> D]
         /\ Cardinality(D) \in Nat
         /\ \A j, k \in 1 .. Cardinality(D) : InOrder(D)[j] = InOrder(D)[k] => j = k
         /\ \A p \in D : \E k \in 1 .. Cardinality(D) : InOrder(D)[k] = p
<1> DEFINE n == Cardinality(D)
<1>1. n \in Nat
  BY RanksAreAll
<1>2. InOrder(D) = [k \in 1 .. n |-> CHOOSE p \in D : Rank(D, p) = k - 1]
  BY DEF InOrder, Rank
<1>3. ASSUME NEW k \in 1 .. n
      PROVE  InOrder(D)[k] \in D /\ Rank(D, InOrder(D)[k]) = k - 1
  <2>1. k - 1 \in 0 .. n - 1
    BY <1>1
  <2>2. \E p \in D : Rank(D, p) = k - 1
    BY <2>1, RanksAreAll
  <2> QED
    BY <1>2, <2>2
<1>4. ASSUME NEW j \in 1 .. n, NEW k \in 1 .. n, InOrder(D)[j] = InOrder(D)[k] PROVE j = k
  <2>1. j - 1 = k - 1
    BY <1>3, <1>4
  <2> QED
    BY <1>1, <2>1
<1>5. ASSUME NEW p \in D PROVE \E k \in 1 .. n : InOrder(D)[k] = p
  <2>1. Rank(D, p) \in 0 .. n - 1
    BY RanksAreAll
  <2> DEFINE k == Rank(D, p) + 1
  <2>2. k \in 1 .. n /\ k - 1 = Rank(D, p)
    BY <1>1, <2>1
  <2> HIDE DEF k
  <2>3. InOrder(D)[k] = p
    BY <1>3, <2>2, RanksAreAll
  <2> QED
    BY <2>2, <2>3
<1>6. InOrder(D) \in [1 .. n -> D]
  BY <1>2, <1>3
<1> QED
  BY <1>1, <1>4, <1>5, <1>6

-----------------------------------------------------------------------------
(* What prime() keeps of a sentence.                                         *)

Positions(items) == UNION {{u} \X DOMAIN items[u] : u \in DOMAIN items}

ItemAt(items, p) == items[p[1]][p[2]]

\* A position is one of a list, and there are finitely many.
LEMMA PositionsAre ==
  ASSUME NEW n \in Nat, NEW items, DOMAIN items = 1 .. n,
         \A u \in 1 .. n : IsSequence(items[u])
  PROVE  /\ IsFiniteSet(Positions(items)) /\ Positions(items) \subseteq Nat \X Nat
         /\ \A p \in Positions(items) : p[1] \in 1 .. n /\ p[2] \in DOMAIN items[p[1]]
         /\ \A u \in 1 .. n : \A j \in DOMAIN items[u] : <<u, j>> \in Positions(items)
<1> DEFINE S == {{u} \X DOMAIN items[u] : u \in 1 .. n}
<1>1. ASSUME NEW u \in 1 .. n PROVE Len(items[u]) \in Nat /\ DOMAIN items[u] = 1 .. Len(items[u])
  BY SequenceType
<1>2. Positions(items) = UNION S
  BY DEF Positions
<1>3. \A T \in S : IsFiniteSet(T)
  <2> SUFFICES ASSUME NEW u \in 1 .. n PROVE IsFiniteSet({u} \X DOMAIN items[u])
    OBVIOUS
  <2>1. IsFiniteSet(1 .. Len(items[u]))
    BY <1>1, FS_Interval
  <2>2. IsFiniteSet({u})
    BY FS_Singleton
  <2> QED
    BY <1>1, <2>1, <2>2, FS_Product
<1>4. IsFiniteSet(S)
  <2> DEFINE g == [u \in 1 .. n |-> {u} \X DOMAIN items[u]]
  <2>1. g \in [1 .. n -> S] /\ \A T \in S : \E u \in 1 .. n : g[u] = T
    OBVIOUS
  <2>2. g \in Surjection(1 .. n, S)
    <3> HIDE DEF g, S
    <3> QED
      BY <2>1, Fun_IsSurj
  <2>3. IsFiniteSet(1 .. n)
    BY FS_Interval
  <2> HIDE DEF g, S
  <2> QED
    BY <2>2, <2>3, FS_Surjection
<1>5. IsFiniteSet(Positions(items))
  <2> HIDE DEF S
  <2> QED
    BY <1>2, <1>3, <1>4, FS_UNION
<1>6. \A p \in Positions(items) : p[1] \in 1 .. n /\ p[2] \in DOMAIN items[p[1]]
  BY <1>2
<1>7. Positions(items) \subseteq Nat \X Nat
  BY <1>1, <1>2
<1>8. \A u \in 1 .. n : \A j \in DOMAIN items[u] : <<u, j>> \in Positions(items)
  BY <1>2
<1> QED
  BY <1>5, <1>6, <1>7, <1>8

\* Of every hypothesis the first one that is the same to the set is kept, and
\* no two that are.
LEMMA DistinctKeepsFirst ==
  ASSUME NEW n \in Nat, NEW items, DOMAIN items = 1 .. n,
         \A u \in 1 .. n : IsSequence(items[u])
  PROVE  /\ Distinct(items) \subseteq Positions(items)
         /\ \A p, q \in Distinct(items) : SameItem(ItemAt(items, p), ItemAt(items, q)) => p = q
         /\ \A q \in Positions(items) :
              \E p \in Distinct(items) : SameItem(ItemAt(items, p), ItemAt(items, q))
<1>1. Distinct(items) = {p \in Positions(items) : \A q \in Positions(items) :
                           Before(q, p) => ~SameItem(ItemAt(items, q), ItemAt(items, p))}
  BY DEF Distinct, Positions, ItemAt
<1>2. Positions(items) \subseteq Nat \X Nat
  BY PositionsAre
<1>3. ASSUME NEW p \in Distinct(items), NEW q \in Distinct(items),
             SameItem(ItemAt(items, p), ItemAt(items, q))
      PROVE  p = q
  <2>1. SameItem(ItemAt(items, q), ItemAt(items, p))
    BY <1>3 DEF SameItem
  <2>2. ~Before(p, q) /\ ~Before(q, p)
    BY <1>1, <1>3, <2>1
  <2> QED
    BY <1>1, <1>2, <2>2, BeforeOrders
<1>4. ASSUME NEW q \in Positions(items)
      PROVE  \E p \in Distinct(items) : SameItem(ItemAt(items, p), ItemAt(items, q))
  <2> DEFINE T == {r \in Positions(items) : SameItem(ItemAt(items, r), ItemAt(items, q))}
  <2>1. SameItem(ItemAt(items, q), ItemAt(items, q))
    BY DEF SameItem
  <2>2. T \subseteq Nat \X Nat /\ T # {}
    BY <1>2, <2>1
  <2>3. PICK p \in T : \A r \in T : ~Before(r, p)
    <3> HIDE DEF T
    <3> QED
      BY <2>2, FirstPosition
  <2>4. ASSUME NEW r \in Positions(items), Before(r, p)
        PROVE  ~SameItem(ItemAt(items, r), ItemAt(items, p))
    BY <2>3, <2>4 DEF SameItem
  <2> QED
    BY <1>1, <2>3, <2>4
<1> QED
  BY <1>1, <1>3, <1>4

\* The vectors stored with the positions.
VectorsAt(items, indexes) == [k \in DOMAIN indexes |-> ItemAt(items, indexes[k])]

\* prime() reads the sentence completely, or the process ends.
LEMMA PrimeKeeps ==
  ASSUME NEW f, NEW s, NEW id, Prime(f, s, id), ~Stop("error")
  PROVE  /\ ~SizesDiffer(f, s)
         /\ featurePos' = f /\ scorePos' = s /\ m_sentenceId' = id /\ m_primed' = TRUE
         /\ m_current_indexes' = InOrder(Distinct(Items(f)))
         /\ m_current_featureVectors' = VectorsAt(Items(f), m_current_indexes')
         /\ \A k \in DOMAIN m_current_featureVectors' :
              Len(m_current_featureVectors'[k].dense) = m_iNumDense'
         /\ \/ m_iNumDense' = m_iNumDense
            \/ m_iNumDense = -1 /\ m_current_featureVectors' # <<>>
                 /\ m_iNumDense' = Len(m_current_featureVectors'[1].dense)
         /\ UNCHANGED <<files, status>>
<1> QED
  BY DEF Prime, VectorsAt, ItemAt

-----------------------------------------------------------------------------
(* The inductive invariant.  The random access enumerator may end the process *)
(* between two steps, so that is a step here too.                            *)

FilesGiven == \E d \in Data : m_featureFiles = d.features /\ m_scoreFiles = d.scores

\* Every list's two iterators are at the sentence, and not past the end of the
\* first list by more than one.
CursorInv ==
  /\ m_primed \in BOOLEAN
  /\ m_primed \/ status = "running" =>
       1 \in Lists /\ Len(m_featureFiles) = Len(m_scoreFiles)
  /\ m_primed =>
       /\ m_sentenceId \in 0 .. Readable(m_featureFiles[1])
       /\ featurePos = [u \in Lists |-> m_sentenceId + 1]
       /\ scorePos = [u \in Lists |-> m_sentenceId + 1]

\* What prime() kept is of the sentence the iterators are at.
PackInv ==
  m_primed /\ ~Finished =>
    /\ ~SizesDiffer(featurePos, scorePos) /\ ~SomeThrows(featurePos, scorePos)
    /\ m_current_indexes = InOrder(Distinct(Items(featurePos)))
    /\ m_current_featureVectors = VectorsAt(Items(featurePos), m_current_indexes)

DenseInv ==
  /\ m_iNumDense \in Nat \cup {-1}
  /\ m_primed /\ ~Finished => \A k \in DOMAIN m_current_featureVectors :
       Len(m_current_featureVectors[k].dense) = m_iNumDense

StreamInv == FilesGiven /\ CursorInv /\ PackInv /\ DenseInv

SStep == SNext \/ Stop("error")

\* A file loses at most its last sentence.
LEMMA ReadableIs ==
  ASSUME NEW file
  PROVE  \/ Readable(file) = Len(file.blocks) - 1
         \/ Readable(file) = Len(file.blocks) - 0
<1>1. CASE file.cut
  BY <1>1, Zenon DEF Readable
<1>2. CASE ~file.cut
  BY <1>2, Zenon DEF Readable
<1> QED
  BY <1>1, <1>2, Zenon

\* What the files on the command line are.
LEMMA FilesAre ==
  ASSUME FilesGiven
  PROVE  /\ IsSequence(m_featureFiles) /\ IsSequence(m_scoreFiles)
         /\ Len(m_featureFiles) \in Nat /\ Lists = 1 .. Len(m_featureFiles)
         /\ \A u \in Lists : /\ IsFeatureFile(m_featureFiles[u])
                             /\ Len(m_featureFiles[u].blocks) \in Nat
                             /\ DOMAIN m_featureFiles[u].blocks = 1 .. Len(m_featureFiles[u].blocks)
                             /\ Readable(m_featureFiles[u]) \in Int
                             /\ Readable(m_featureFiles[u]) <= Len(m_featureFiles[u].blocks)
<1>1. IsSequence(m_featureFiles) /\ IsSequence(m_scoreFiles)
  BY DataAssumption DEF FilesGiven
<1>2. Len(m_featureFiles) \in Nat /\ Lists = 1 .. Len(m_featureFiles)
  BY <1>1, SequenceType DEF Lists
<1>3. ASSUME NEW u \in Lists
      PROVE  /\ IsFeatureFile(m_featureFiles[u])
             /\ Len(m_featureFiles[u].blocks) \in Nat
             /\ DOMAIN m_featureFiles[u].blocks = 1 .. Len(m_featureFiles[u].blocks)
             /\ Readable(m_featureFiles[u]) \in Int
             /\ Readable(m_featureFiles[u]) <= Len(m_featureFiles[u].blocks)
  <2>1. IsFeatureFile(m_featureFiles[u])
    BY DataAssumption DEF FilesGiven, Lists
  <2>2. /\ Len(m_featureFiles[u].blocks) \in Nat
        /\ DOMAIN m_featureFiles[u].blocks = 1 .. Len(m_featureFiles[u].blocks)
    BY <2>1, SequenceType DEF IsFeatureFile
  <2> QED
    BY <2>1, <2>2, ReadableIs
<1> QED
  BY <1>1, <1>2, <1>3

\* What is read of a sentence that prime() accepts: one block of each list.
LEMMA ItemsAre ==
  ASSUME FilesGiven, NEW n \in Nat, NEW f, f = [u \in Lists |-> n], n > 0,
         NEW s, ~SizesDiffer(f, s), ~SomeThrows(f, s)
  PROVE  /\ DOMAIN Items(f) = 1 .. Len(m_featureFiles)
         /\ \A u \in Lists :
              /\ Items(f)[u] = m_featureFiles[u].blocks[n]
              /\ n \in DOMAIN m_featureFiles[u].blocks
              /\ IsSequence(Items(f)[u])
              /\ Len(Items(f)[u]) = m_scoreFiles[u].blocks[s[u]]
              /\ n <= Readable(m_featureFiles[u])
              /\ \A j \in DOMAIN Items(f)[u] : IsSequence(Items(f)[u][j].dense)
<1>1. DOMAIN Items(f) = 1 .. Len(m_featureFiles)
  BY FilesAre DEF Items
<1>2. ASSUME NEW u \in Lists
      PROVE  /\ Items(f)[u] = m_featureFiles[u].blocks[n]
             /\ n \in DOMAIN m_featureFiles[u].blocks
             /\ IsSequence(Items(f)[u])
             /\ Len(Items(f)[u]) = m_scoreFiles[u].blocks[s[u]]
             /\ n <= Readable(m_featureFiles[u])
             /\ \A j \in DOMAIN Items(f)[u] : IsSequence(Items(f)[u][j].dense)
  <2>1. f[u] = n /\ Items(f)[u] = m_featureFiles[u].blocks[n]
    BY DEF Items
  <2>2. n <= Readable(m_featureFiles[u]) /\ n \in DOMAIN m_featureFiles[u].blocks
    BY <2>1, FilesAre DEF SizesDiffer, ListsEnd, AtEnd
  <2>3. m_featureFiles[u].blocks[n] # Malformed
    BY <2>1 DEF SomeThrows, Throws, SizesDiffer, ListsEnd
  <2>4. Len(Items(f)[u]) = m_scoreFiles[u].blocks[s[u]]
    BY <2>1 DEF SizesDiffer
  <2> QED
    BY <2>1, <2>2, <2>3, <2>4, FilesAre DEF IsFeatureFile
<1> QED
  BY <1>1, <1>2

\* A pack of such a sentence holds each of its hypotheses, at its own position.
LEMMA PackIs ==
  ASSUME FilesGiven, NEW n \in Nat, NEW f, f = [u \in Lists |-> n], n > 0,
         NEW s, ~SizesDiffer(f, s), ~SomeThrows(f, s)
  PROVE  LET indexes == InOrder(Distinct(Items(f)))
             vectors == VectorsAt(Items(f), indexes)
         IN /\ indexes \in Seq(Nat \X Nat) /\ DOMAIN vectors = 1 .. Len(indexes)
            /\ Len(vectors) = Len(indexes)
            /\ DOMAIN indexes = DOMAIN vectors
            /\ \A k \in DOMAIN indexes :
                 /\ indexes[k] \in Distinct(Items(f))
                 /\ indexes[k][1] \in Lists
                 /\ indexes[k][2] \in DOMAIN Items(f)[indexes[k][1]]
                 /\ vectors[k] = m_featureFiles[indexes[k][1]].blocks[n][indexes[k][2]]
                 /\ vectors[k] = ItemAt(Items(f), indexes[k])
                 /\ Len(vectors[k].dense) \in Nat
            /\ \A j, k \in DOMAIN indexes : indexes[j] = indexes[k] => j = k
            /\ \A p \in Distinct(Items(f)) : \E k \in DOMAIN indexes : indexes[k] = p
<1> DEFINE items == Items(f)
           D == Distinct(items)
           indexes == InOrder(D)
           vectors == VectorsAt(items, indexes)
<1>1. /\ DOMAIN items = 1 .. Len(m_featureFiles)
      /\ \A u \in Lists : /\ items[u] = m_featureFiles[u].blocks[n]
                          /\ IsSequence(items[u])
                          /\ \A j \in DOMAIN items[u] : IsSequence(items[u][j].dense)
  BY ItemsAre
<1>2. Len(m_featureFiles) \in Nat /\ Lists = 1 .. Len(m_featureFiles)
  BY FilesAre
<1> HIDE DEF items
<1>3. /\ IsFiniteSet(Positions(items)) /\ Positions(items) \subseteq Nat \X Nat
      /\ \A p \in Positions(items) : p[1] \in Lists /\ p[2] \in DOMAIN items[p[1]]
      /\ D \subseteq Positions(items)
  BY <1>1, <1>2, PositionsAre, DistinctKeepsFirst
<1>4. IsFiniteSet(D) /\ D \subseteq Nat \X Nat
  BY <1>3, FS_Subset
<1> HIDE DEF D
<1>5. /\ indexes \in [1 .. Cardinality(D) -> D] /\ Cardinality(D) \in Nat
      /\ \A j, k \in 1 .. Cardinality(D) : indexes[j] = indexes[k] => j = k
      /\ \A p \in D : \E k \in 1 .. Cardinality(D) : indexes[k] = p
  BY <1>4, InOrderLists
<1>6. /\ indexes \in Seq(Nat \X Nat) /\ Len(indexes) = Cardinality(D)
      /\ DOMAIN indexes = 1 .. Cardinality(D)
  BY <1>4, <1>5
<1> HIDE DEF indexes
<1>7. vectors = [k \in 1 .. Cardinality(D) |-> ItemAt(items, indexes[k])]
  BY <1>6 DEF VectorsAt
<1>8. DOMAIN vectors = 1 .. Len(indexes) /\ Len(vectors) = Len(indexes)
  BY <1>5, <1>6, <1>7
<1>9. ASSUME NEW k \in DOMAIN indexes
      PROVE  /\ indexes[k] \in D
             /\ indexes[k][1] \in Lists
             /\ indexes[k][2] \in DOMAIN items[indexes[k][1]]
             /\ vectors[k] = m_featureFiles[indexes[k][1]].blocks[n][indexes[k][2]]
             /\ vectors[k] = ItemAt(items, indexes[k])
             /\ Len(vectors[k].dense) \in Nat
  <2>1. indexes[k] \in D /\ vectors[k] = ItemAt(items, indexes[k])
    BY <1>5, <1>6, <1>7
  <2>2. /\ indexes[k][1] \in Lists /\ indexes[k][2] \in DOMAIN items[indexes[k][1]]
    BY <1>3, <2>1
  <2>3. vectors[k] = items[indexes[k][1]][indexes[k][2]]
    BY <2>1 DEF ItemAt
  <2>4. IsSequence(vectors[k].dense)
    BY <1>1, <2>2, <2>3
  <2> QED
    BY <1>1, <2>1, <2>2, <2>3, <2>4, SequenceType
<1> QED
  BY <1>5, <1>6, <1>8, <1>9 DEF items, D, indexes

-----------------------------------------------------------------------------
(* The steps keep it.                                                        *)

\* Nothing is primed before reset().
LEMMA SInitInv == SInit => StreamInv
<1> SUFFICES ASSUME SInit PROVE StreamInv
  OBVIOUS
<1>1. FilesGiven
  BY DEF SInit, FilesGiven
<1>2. status = "running" => 1 \in Lists /\ Len(m_featureFiles) = Len(m_scoreFiles)
  BY <1>1, FilesAre DEF SInit
<1> QED
  BY <1>1, <1>2 DEF SInit, StreamInv, CursorInv, PackInv, DenseInv

\* prime() at sentence n of every list.
LEMMA PrimeInv ==
  ASSUME StreamInv, NEW n \in Nat, n > 0, status = "running",
         ~SomeThrows([u \in Lists |-> n], [u \in Lists |-> n]),
         Prime([u \in Lists |-> n], [u \in Lists |-> n], n - 1),
         ~Stop("error")
  PROVE  /\ StreamInv' /\ m_primed' = TRUE /\ ~Finished' /\ m_sentenceId' = n - 1
         /\ m_iNumDense # -1 => m_iNumDense' = m_iNumDense
         /\ UNCHANGED <<files, status>>
<1> DEFINE f == [u \in Lists |-> n]
<1>1. /\ ~SizesDiffer(f, f)
      /\ featurePos' = f /\ scorePos' = f /\ m_sentenceId' = n - 1 /\ m_primed' = TRUE
      /\ m_current_indexes' = InOrder(Distinct(Items(f)))
      /\ m_current_featureVectors' = VectorsAt(Items(f), m_current_indexes')
      /\ \A k \in DOMAIN m_current_featureVectors' :
           Len(m_current_featureVectors'[k].dense) = m_iNumDense'
      /\ \/ m_iNumDense' = m_iNumDense
         \/ m_iNumDense = -1 /\ m_current_featureVectors' # <<>>
              /\ m_iNumDense' = Len(m_current_featureVectors'[1].dense)
      /\ UNCHANGED <<files, status>>
  BY PrimeKeeps
<1>2. m_featureFiles' = m_featureFiles /\ m_scoreFiles' = m_scoreFiles /\ Lists' = Lists
  BY <1>1 DEF files, Lists
<1>3. FilesGiven /\ 1 \in Lists /\ Len(m_featureFiles) = Len(m_scoreFiles)
  BY DEF StreamInv, CursorInv
<1>4. n <= Readable(m_featureFiles[1]) /\ Readable(m_featureFiles[1]) \in Int
  BY <1>1, <1>3, ItemsAre, FilesAre
<1>5. ~Finished'
  <2>1. Readable(m_featureFiles[1])' = Readable(m_featureFiles[1])
    BY <1>2 DEF Readable
  <2>2. featurePos'[1] = n
    BY <1>1, <1>3
  <2>3. ~(featurePos'[1] > Readable(m_featureFiles[1])')
    BY <1>4, <2>1, <2>2
  <2> QED
    BY <2>3 DEF Finished, AtEnd
<1>6. FilesGiven'
  BY <1>2, <1>3 DEF FilesGiven
<1>7. CursorInv'
  <2>1. Readable(m_featureFiles[1])' = Readable(m_featureFiles[1])
    BY <1>2 DEF Readable
  <2>2. m_sentenceId' \in 0 .. Readable(m_featureFiles[1])'
    BY <1>1, <1>4, <2>1
  <2>3. f = [u \in Lists' |-> m_sentenceId' + 1]
    BY <1>1, <1>2
  <2> HIDE DEF f
  <2> QED
    BY <1>1, <1>2, <1>3, <2>2, <2>3 DEF CursorInv
<1>8. PackInv'
  <2>1. SizesDiffer(f, f)' = SizesDiffer(f, f) /\ SomeThrows(f, f)' = SomeThrows(f, f)
    BY <1>2 DEF SizesDiffer, ListsEnd, SomeThrows, Throws, AtEnd, Readable, Lists
  <2>2. SizesDiffer(featurePos, scorePos)' = SizesDiffer(f, f)
    BY <1>1, <1>2 DEF SizesDiffer, ListsEnd, AtEnd, Readable, Lists
  <2>3. SomeThrows(featurePos, scorePos)' = SomeThrows(f, f)
    BY <1>1, <1>2 DEF SomeThrows, Throws, AtEnd, Readable, Lists
  <2>4. Items(featurePos)' = Items(f)
    BY <1>1, <1>2 DEF Items
  <2>5. /\ (m_current_indexes = InOrder(Distinct(Items(featurePos))))'
        /\ (m_current_featureVectors = VectorsAt(Items(featurePos), m_current_indexes))'
    BY <1>1, <2>4
  <2> QED
    BY <1>1, <2>2, <2>3, <2>5 DEF PackInv
<1>9. DenseInv'
  <2>1. m_iNumDense' \in Nat \cup {-1}
    <3>1. m_iNumDense \in Nat \cup {-1}
      BY DEF StreamInv, DenseInv
    <3>2. m_current_featureVectors' # <<>> => Len(m_current_featureVectors'[1].dense) \in Nat
      <4> SUFFICES ASSUME m_current_featureVectors' # <<>>
                   PROVE  Len(m_current_featureVectors'[1].dense) \in Nat
        OBVIOUS
      <4>1. LET indexes == InOrder(Distinct(Items(f)))
                vectors == VectorsAt(Items(f), indexes)
            IN /\ indexes \in Seq(Nat \X Nat) /\ DOMAIN vectors = 1 .. Len(indexes)
               /\ DOMAIN indexes = DOMAIN vectors
               /\ \A k \in DOMAIN indexes : Len(vectors[k].dense) \in Nat
        BY <1>1, <1>3, PackIs
      <4>2. /\ m_current_indexes' \in Seq(Nat \X Nat)
            /\ DOMAIN m_current_featureVectors' = 1 .. Len(m_current_indexes')
            /\ DOMAIN m_current_featureVectors' = DOMAIN m_current_indexes'
            /\ \A k \in DOMAIN m_current_indexes' : Len(m_current_featureVectors'[k].dense) \in Nat
        BY <1>1, <4>1
      <4>3. m_current_featureVectors' = [k \in DOMAIN m_current_indexes' |-> ItemAt(Items(f), m_current_indexes'[k])]
        BY <1>1 DEF VectorsAt
      <4>4. Len(m_current_indexes') # 0
        BY <4>2, <4>3
      <4> QED
        BY <4>2, <4>4
    <3> QED
      BY <1>1, <3>1, <3>2
  <2> QED
    BY <1>1, <2>1 DEF DenseInv
<1> QED
  BY <1>1, <1>5, <1>6, <1>7, <1>8, <1>9 DEF StreamInv

\* The process ends, or nothing happens.
LEMMA StopInv ==
  ASSUME StreamInv, UNCHANGED <<files, cursor, pack>>, status' = status \/ status' # "running"
  PROVE  StreamInv'
<1>1. /\ m_featureFiles' = m_featureFiles /\ m_scoreFiles' = m_scoreFiles
      /\ featurePos' = featurePos /\ scorePos' = scorePos /\ m_sentenceId' = m_sentenceId
      /\ m_primed' = m_primed /\ m_iNumDense' = m_iNumDense
      /\ m_current_indexes' = m_current_indexes
      /\ m_current_featureVectors' = m_current_featureVectors
  BY DEF files, cursor, pack
<1>2. Lists' = Lists /\ Finished' = Finished
  BY <1>1 DEF Lists, Finished, AtEnd, Readable
<1>3. /\ SizesDiffer(featurePos, scorePos)' = SizesDiffer(featurePos, scorePos)
      /\ SomeThrows(featurePos, scorePos)' = SomeThrows(featurePos, scorePos)
      /\ Items(featurePos)' = Items(featurePos)
  BY <1>1 DEF SizesDiffer, ListsEnd, SomeThrows, Throws, AtEnd, Readable, Items, Lists
<1>4. FilesGiven'
  BY <1>1 DEF StreamInv, FilesGiven
<1>5. CursorInv'
  BY <1>1, <1>2 DEF StreamInv, CursorInv, Readable
<1>6. PackInv'
  BY <1>1, <1>2, <1>3 DEF StreamInv, PackInv
<1>7. DenseInv'
  BY <1>1, <1>2 DEF StreamInv, DenseInv
<1> QED
  BY <1>4, <1>5, <1>6, <1>7 DEF StreamInv

\* Stopping keeps the invariant and the sentence.
LEMMA StopKeeps ==
  ASSUME StreamInv, NEW how, how # "running", Stop(how)
  PROVE  StreamInv'
<1> QED
  BY StopInv DEF Stop

\* reset() is at the first sentence, or ends the process.
LEMMA ResetTo ==
  ASSUME StreamInv, Reset, ~Stop("error"), ~Stop("exception")
  PROVE  /\ StreamInv' /\ m_primed' = TRUE /\ ~Finished' /\ m_sentenceId' = 0
         /\ UNCHANGED <<files, status>> /\ status = "running"
         /\ m_iNumDense # -1 => m_iNumDense' = m_iNumDense
<1>1. PICK n \in Nat : n = 1
  OBVIOUS
<1>2. n > 0 /\ n - 1 = 0
  BY <1>1
<1>3. /\ status = "running" /\ ~SomeThrows([u \in Lists |-> n], [u \in Lists |-> n])
      /\ Prime([u \in Lists |-> n], [u \in Lists |-> n], n - 1)
  BY <1>1, <1>2 DEF Reset
<1>4. /\ StreamInv' /\ m_primed' = TRUE /\ ~Finished' /\ m_sentenceId' = n - 1
      /\ UNCHANGED <<files, status>>
      /\ m_iNumDense # -1 => m_iNumDense' = m_iNumDense
  BY <1>2, <1>3, PrimeInv
<1> QED
  BY <1>2, <1>3, <1>4

\* next() is at the next sentence or at the end, or ends the process.
LEMMA NextTo ==
  ASSUME StreamInv, NextSentence, ~Stop("error"), ~Stop("exception")
  PROVE  /\ StreamInv' /\ m_primed' = TRUE
         /\ status = "running" /\ m_primed /\ ~Finished
         /\ m_sentenceId' = m_sentenceId + 1 /\ UNCHANGED <<files, status>>
         /\ m_iNumDense # -1 => m_iNumDense' = m_iNumDense
         /\ Finished' <=> ~(m_sentenceId + 1 < Readable(m_featureFiles[1]))
<1> DEFINE n == m_sentenceId + 2
           f == [u \in Lists |-> n]
<1>1. /\ status = "running" /\ m_primed /\ ~Finished /\ m_sentenceId \in Nat /\ 1 \in Lists
      /\ featurePos = [u \in Lists |-> m_sentenceId + 1]
      /\ scorePos = [u \in Lists |-> m_sentenceId + 1]
      /\ Readable(m_featureFiles[1]) \in Int
      /\ m_sentenceId + 1 <= Readable(m_featureFiles[1])
      /\ Len(m_featureFiles) = Len(m_scoreFiles)
  <2>1. /\ status = "running" /\ m_primed /\ ~Finished
        /\ FilesGiven /\ 1 \in Lists
        /\ featurePos = [u \in Lists |-> m_sentenceId + 1]
        /\ scorePos = [u \in Lists |-> m_sentenceId + 1]
        /\ m_sentenceId \in 0 .. Readable(m_featureFiles[1])
        /\ Len(m_featureFiles) = Len(m_scoreFiles)
    BY DEF NextSentence, StreamInv, CursorInv
  <2>2. Readable(m_featureFiles[1]) \in Int
    BY <2>1, FilesAre
  <2> QED
    BY <2>1, <2>2 DEF Finished, AtEnd
<1>2. [u \in Lists |-> featurePos[u] + 1] = f /\ [u \in Lists |-> scorePos[u] + 1] = f
  BY <1>1
<1>3. /\ ~SomeThrows(f, f)
      /\ IF AtEnd(m_featureFiles[1], f[1])
         THEN /\ featurePos' = f /\ scorePos' = f
              /\ m_sentenceId' = m_sentenceId + 1
              /\ UNCHANGED <<files, pack, status>>
         ELSE Prime(f, f, m_sentenceId + 1)
  BY <1>2 DEF NextSentence
<1>4. AtEnd(m_featureFiles[1], f[1]) <=> ~(m_sentenceId + 1 < Readable(m_featureFiles[1]))
  BY <1>1 DEF AtEnd
<1>5. CASE ~AtEnd(m_featureFiles[1], f[1])
  <2>1. n \in Nat /\ n > 0 /\ n - 1 = m_sentenceId + 1
    BY <1>1
  <2>2. Prime(f, f, n - 1)
    BY <1>3, <1>5, <2>1
  <2> HIDE DEF n
  <2>3. /\ StreamInv' /\ m_primed' = TRUE /\ ~Finished' /\ m_sentenceId' = n - 1
        /\ m_iNumDense # -1 => m_iNumDense' = m_iNumDense
        /\ UNCHANGED <<files, status>>
    BY <1>1, <1>3, <2>1, <2>2, PrimeInv
  <2> QED
    BY <1>1, <1>4, <1>5, <2>1, <2>3
<1>6. CASE AtEnd(m_featureFiles[1], f[1])
  <2>1. /\ featurePos' = f /\ scorePos' = f /\ m_sentenceId' = m_sentenceId + 1
        /\ m_featureFiles' = m_featureFiles /\ m_scoreFiles' = m_scoreFiles
        /\ m_primed' = m_primed /\ m_iNumDense' = m_iNumDense /\ UNCHANGED <<files, status>>
        /\ m_current_featureVectors' = m_current_featureVectors
    BY <1>3, <1>6 DEF files, pack
  <2>2. Lists' = Lists /\ Readable(m_featureFiles[1])' = Readable(m_featureFiles[1])
    BY <2>1 DEF Lists, Readable
  <2>3. Finished'
    <3>1. featurePos'[1] > Readable(m_featureFiles[1])'
      BY <1>1, <1>6, <2>1, <2>2 DEF AtEnd
    <3> QED
      BY <3>1 DEF Finished, AtEnd
  <2>4. m_primed = TRUE
    BY <1>1 DEF StreamInv, CursorInv
  <2>5. FilesGiven'
    BY <2>1 DEF FilesGiven, StreamInv
  <2>6. CursorInv'
    <3>1. m_sentenceId' \in 0 .. Readable(m_featureFiles[1])'
      BY <1>1, <2>1, <2>2
    <3>2. featurePos' = [u \in Lists' |-> m_sentenceId' + 1] /\ scorePos' = [u \in Lists' |-> m_sentenceId' + 1]
      BY <1>1, <2>1, <2>2
    <3> QED
      BY <1>1, <2>1, <2>2, <2>4, <3>1, <3>2 DEF CursorInv
  <2>7. PackInv' /\ DenseInv'
    BY <2>1, <2>3 DEF PackInv, DenseInv, StreamInv
  <2> QED
    BY <1>1, <1>4, <1>6, <2>1, <2>3, <2>4, <2>5, <2>6, <2>7 DEF StreamInv
<1> QED
  BY <1>5, <1>6

\* Every step keeps the invariant, in either enumerator.
LEMMA SStepInv == StreamInv /\ [SStep]_svars => StreamInv'
<1> SUFFICES ASSUME StreamInv, [SStep]_svars PROVE StreamInv'
  OBVIOUS
<1>1. CASE UNCHANGED svars
  BY <1>1, StopInv DEF svars
<1>2. CASE Stop("error") \/ Stop("exception")
  BY <1>2, StopKeeps
<1>3. CASE Reset /\ ~Stop("error") /\ ~Stop("exception")
  BY <1>3, ResetTo
<1>4. CASE NextSentence /\ ~Stop("error") /\ ~Stop("exception")
  BY <1>4, NextTo
<1> QED
  BY <1>1, <1>2, <1>3, <1>4 DEF SStep, SNext

-----------------------------------------------------------------------------
(* What follows from it.                                                     *)

\* The invariant covers the scores read through the iterators.
LEMMA InvMatchesScores == StreamInv => PackMatchesScores
<1> SUFFICES ASSUME StreamInv, Querying PROVE
      \A k \in DOMAIN m_current_indexes :
        LET u == m_current_indexes[k][1]
        IN /\ featurePos[u] = m_sentenceId + 1 /\ scorePos[u] = m_sentenceId + 1
           /\ ScoreLineAt(k) <= m_scoreFiles[u].blocks[scorePos[u]]
           /\ FeaturesAt(k) = m_featureFiles[u].blocks[featurePos[u]][ScoreLineAt(k)]
  BY DEF PackMatchesScores
<1> DEFINE n == m_sentenceId + 1
<1>1. /\ FilesGiven /\ m_primed /\ ~Finished /\ 1 \in Lists
      /\ featurePos = [u \in Lists |-> n] /\ scorePos = [u \in Lists |-> n]
      /\ m_sentenceId \in 0 .. Readable(m_featureFiles[1])
  BY DEF Querying, StreamInv, CursorInv
<1>2. n \in Nat /\ n > 0
  BY <1>1, FilesAre
<1>3. /\ ~SizesDiffer(featurePos, scorePos) /\ ~SomeThrows(featurePos, scorePos)
      /\ m_current_indexes = InOrder(Distinct(Items(featurePos)))
      /\ m_current_featureVectors = VectorsAt(Items(featurePos), m_current_indexes)
  BY <1>1 DEF StreamInv, PackInv
<1> HIDE DEF n
<1>4. \A u \in Lists : /\ IsSequence(Items(featurePos)[u])
                       /\ Len(Items(featurePos)[u]) = m_scoreFiles[u].blocks[scorePos[u]]
  BY <1>1, <1>2, <1>3, ItemsAre
<1>5. \A k \in DOMAIN m_current_indexes :
        /\ m_current_indexes[k][1] \in Lists
        /\ m_current_indexes[k][2] \in DOMAIN Items(featurePos)[m_current_indexes[k][1]]
        /\ m_current_featureVectors[k]
             = m_featureFiles[m_current_indexes[k][1]].blocks[n][m_current_indexes[k][2]]
  BY <1>1, <1>2, <1>3, PackIs
<1> TAKE k \in DOMAIN m_current_indexes
<1> DEFINE u == m_current_indexes[k][1]
           j == m_current_indexes[k][2]
<1>6. u \in Lists /\ j \in DOMAIN Items(featurePos)[u] /\ featurePos[u] = n /\ scorePos[u] = n
  BY <1>1, <1>5
<1>7. j \in 1 .. Len(Items(featurePos)[u])
  BY <1>4, <1>6, SequenceType
<1>8. j <= m_scoreFiles[u].blocks[scorePos[u]]
  BY <1>4, <1>6, <1>7, SequenceType
<1>9. m_current_featureVectors[k] = m_featureFiles[u].blocks[featurePos[u]][j]
  BY <1>5, <1>6
<1> QED
  BY <1>6, <1>8, <1>9 DEF ScoreLineAt, FeaturesAt, n

\* No two hypotheses of the data agree in their hashes and sparse features and
\* still differ, which would have to be in their dense features.
NoCollision ==
  \A d \in Data : \A u, j \in DOMAIN d.features :
    \A m \in DOMAIN d.features[u].blocks, n \in DOMAIN d.features[j].blocks :
      d.features[u].blocks[m] # Malformed /\ d.features[j].blocks[n] # Malformed =>
        \A k \in DOMAIN d.features[u].blocks[m] : \A l \in DOMAIN d.features[j].blocks[n] :
          LET a == d.features[u].blocks[m][k]
              b == d.features[j].blocks[n][l]
          IN SameItem(a, b) => a = b

\* With a hash that tells the dense vectors of the data apart, the pack is the
\* set of the sentence's hypotheses.
LEMMA InvIsDeduped == NoCollision /\ StreamInv => PackIsDeduped
<1> SUFFICES ASSUME NoCollision, StreamInv, Querying
             PROVE  /\ ToSet(m_current_featureVectors)
                         = UNION {ToSet(m_featureFiles[u].blocks[featurePos[u]]) : u \in Lists}
                    /\ IsInjective(m_current_featureVectors)
  BY DEF PackIsDeduped
<1> DEFINE n == m_sentenceId + 1
           items == Items(featurePos)
           D == Distinct(items)
           indexes == m_current_indexes
           vectors == m_current_featureVectors
<1>1. /\ FilesGiven /\ m_primed /\ ~Finished /\ 1 \in Lists
      /\ featurePos = [u \in Lists |-> n]
      /\ m_sentenceId \in 0 .. Readable(m_featureFiles[1])
  BY DEF Querying, StreamInv, CursorInv
<1>2. n \in Nat /\ n > 0
  BY <1>1, FilesAre
<1>3. /\ ~SizesDiffer(featurePos, scorePos) /\ ~SomeThrows(featurePos, scorePos)
      /\ indexes = InOrder(D) /\ vectors = VectorsAt(items, indexes)
  BY <1>1 DEF StreamInv, PackInv
<1> HIDE DEF n
<1>4. /\ Len(m_featureFiles) \in Nat /\ Lists = 1 .. Len(m_featureFiles) /\ DOMAIN items = Lists
      /\ \A u \in Lists : /\ items[u] = m_featureFiles[u].blocks[n]
                          /\ n \in DOMAIN m_featureFiles[u].blocks
                          /\ IsSequence(items[u])
  BY <1>1, <1>2, <1>3, ItemsAre, FilesAre
<1>5. \A u \in Lists : m_featureFiles[u].blocks[n] # Malformed
  BY <1>1, <1>2, <1>3, <1>4 DEF SomeThrows, Throws, SizesDiffer, ListsEnd
<1>6. /\ DOMAIN indexes = DOMAIN vectors
      /\ \A k \in DOMAIN indexes : indexes[k] \in D /\ vectors[k] = ItemAt(items, indexes[k])
      /\ \A j, k \in DOMAIN indexes : indexes[j] = indexes[k] => j = k
      /\ \A p \in D : \E k \in DOMAIN indexes : indexes[k] = p
  <2>1. LET keys == InOrder(Distinct(Items(featurePos)))
            items1 == VectorsAt(Items(featurePos), keys)
        IN /\ DOMAIN keys = DOMAIN items1
           /\ \A k \in DOMAIN keys : /\ keys[k] \in Distinct(Items(featurePos))
                                   /\ items1[k] = ItemAt(Items(featurePos), keys[k])
           /\ \A j, k \in DOMAIN keys : keys[j] = keys[k] => j = k
           /\ \A p \in Distinct(Items(featurePos)) : \E k \in DOMAIN keys : keys[k] = p
    <3> HIDE DEF vectors, indexes, items, D
    <3> QED
      BY <1>1, <1>2, <1>3, PackIs
  <2> QED
    BY <1>3, <2>1
<1>7. featurePos = [u \in Lists |-> n]
  BY <1>1
<1>8. /\ D \subseteq Positions(items)
      /\ \A p, q \in D : SameItem(ItemAt(items, p), ItemAt(items, q)) => p = q
      /\ \A q \in Positions(items) : \E p \in D : SameItem(ItemAt(items, p), ItemAt(items, q))
      /\ \A p \in Positions(items) : p[1] \in Lists /\ p[2] \in DOMAIN items[p[1]]
      /\ \A u \in Lists : \A j \in DOMAIN items[u] : <<u, j>> \in Positions(items)
  <2> HIDE DEF items
  <2> QED
    BY <1>4, DistinctKeepsFirst, PositionsAre
<1> HIDE DEF items, D, indexes, vectors
<1>9. ASSUME NEW p \in Positions(items), NEW q \in Positions(items),
             SameItem(ItemAt(items, p), ItemAt(items, q))
      PROVE  ItemAt(items, p) = ItemAt(items, q)
  <2> DEFINE u == p[1] j == p[2] k == q[1] l == q[2]
  <2>1. u \in Lists /\ j \in DOMAIN items[u] /\ k \in Lists /\ l \in DOMAIN items[k]
    BY <1>8
  <2>2. /\ ItemAt(items, p) = m_featureFiles[u].blocks[n][j]
        /\ ItemAt(items, q) = m_featureFiles[k].blocks[n][l]
        /\ j \in DOMAIN m_featureFiles[u].blocks[n] /\ l \in DOMAIN m_featureFiles[k].blocks[n]
    BY <1>4, <2>1 DEF ItemAt
  <2>3. PICK d \in Data : m_featureFiles = d.features
    BY <1>1 DEF FilesGiven
  <2> HIDE DEF u, j, k, l
  <2>4. /\ u \in DOMAIN d.features /\ k \in DOMAIN d.features
        /\ n \in DOMAIN d.features[u].blocks /\ n \in DOMAIN d.features[k].blocks
        /\ d.features[u].blocks[n] # Malformed /\ d.features[k].blocks[n] # Malformed
        /\ j \in DOMAIN d.features[u].blocks[n] /\ l \in DOMAIN d.features[k].blocks[n]
        /\ ItemAt(items, p) = d.features[u].blocks[n][j]
        /\ ItemAt(items, q) = d.features[k].blocks[n][l]
    BY <1>4, <1>5, <2>1, <2>2, <2>3 DEF Lists
  <2> QED
    BY <1>9, <2>4 DEF NoCollision
<1>10. IsInjective(vectors)
  <2>1. ASSUME NEW j \in DOMAIN vectors, NEW k \in DOMAIN vectors, vectors[j] = vectors[k]
        PROVE  j = k
    <3>1. SameItem(ItemAt(items, indexes[j]), ItemAt(items, indexes[k]))
      BY <1>6, <2>1 DEF SameItem
    <3> QED
      BY <1>6, <1>8, <3>1
  <2> QED
    BY <2>1 DEF IsInjective
<1>11. ASSUME NEW k \in DOMAIN vectors
       PROVE  \E u \in Lists : vectors[k] \in ToSet(m_featureFiles[u].blocks[n])
  <2> DEFINE u == indexes[k][1] j == indexes[k][2]
  <2>1. indexes[k] \in Positions(items) /\ vectors[k] = ItemAt(items, indexes[k])
    BY <1>6, <1>8
  <2>2. u \in Lists /\ j \in DOMAIN items[u] /\ vectors[k] = items[u][j]
    BY <1>8, <2>1 DEF ItemAt
  <2> HIDE DEF u, j
  <2>3. items[u] = m_featureFiles[u].blocks[n]
    BY <1>4, <2>2
  <2> QED
    BY <2>2, <2>3 DEF ToSet
<1>12. ASSUME NEW u \in Lists, NEW j \in DOMAIN m_featureFiles[u].blocks[n]
       PROVE  m_featureFiles[u].blocks[n][j] \in ToSet(vectors)
  <2> DEFINE q == <<u, j>>
  <2>1. q \in Positions(items) /\ ItemAt(items, q) = m_featureFiles[u].blocks[n][j]
    BY <1>4, <1>8 DEF ItemAt
  <2> HIDE DEF q
  <2>2. PICK p \in D : SameItem(ItemAt(items, p), ItemAt(items, q))
    BY <1>8, <2>1
  <2>3. ItemAt(items, p) = ItemAt(items, q)
    BY <1>8, <1>9, <2>1, <2>2
  <2>4. PICK k \in DOMAIN indexes : indexes[k] = p
    BY <1>6
  <2> QED
    BY <1>6, <2>1, <2>3, <2>4 DEF ToSet
<1>13. ToSet(vectors) = UNION {ToSet(m_featureFiles[u].blocks[n]) : u \in Lists}
  BY <1>11, <1>12 DEF ToSet
<1>14. {ToSet(m_featureFiles[u].blocks[featurePos[u]]) : u \in Lists}
         = {ToSet(m_featureFiles[u].blocks[n]) : u \in Lists}
  BY <1>7
<1> QED
  BY <1>10, <1>13, <1>14 DEF vectors

-----------------------------------------------------------------------------
(* A pass is one of HypPackEnumerator.                                       *)

Sentences == IF m_featureFiles = <<>> THEN {} ELSE 1 .. Readable(m_featureFiles[1])
Current == IF ~m_primed \/ Finished THEN 0 ELSE m_sentenceId + 1
Visited == IF ~m_primed THEN {}
           ELSE 1 .. IF Finished THEN m_sentenceId ELSE m_sentenceId + 1

\* If there is a list, the sentences are those of the first.
LEMMA SentencesAre ==
  ASSUME StreamInv
  PROVE  /\ 0 \notin Sentences
         /\ 1 \in Lists => /\ Sentences = 1 .. Readable(m_featureFiles[1])
                           /\ Readable(m_featureFiles[1]) \in Int
<1>1. FilesGiven
  BY DEF StreamInv
<1>2. m_featureFiles # <<>> => 1 \in Lists
  BY <1>1, FilesAre DEF Lists, IsSequence
<1>3. 1 \in Lists => m_featureFiles # <<>>
  BY DEF Lists
<1>4. 1 \in Lists => Readable(m_featureFiles[1]) \in Int
  BY <1>1, FilesAre
<1> QED
  BY <1>2, <1>3, <1>4 DEF Sentences

\* Nothing has been visited before reset().
LEMMA EnumerationStart == SInit => Enumeration!EInit
<1> SUFFICES ASSUME SInit PROVE Enumeration!EInit
  OBVIOUS
<1>1. 0 \notin Sentences
  BY SInitInv, SentencesAre
<1> QED
  BY <1>1 DEF SInit, Enumeration!EInit, Sentences

\* reset() starts a pass, next() goes on to a sentence not yet visited or is at
\* the end once there is none, and nothing else moves.
LEMMA EnumerationStep ==
  ASSUME StreamInv, [SStep]_svars
  PROVE  [Enumeration!EReset \/ Enumeration!ENext]_(Enumeration!evars)
<1>1. CASE UNCHANGED svars \/ Stop("error") \/ Stop("exception")
  <2>1. UNCHANGED <<files, cursor, pack>>
    BY <1>1 DEF svars, Stop
  <2>2. /\ m_featureFiles' = m_featureFiles /\ featurePos' = featurePos
        /\ m_sentenceId' = m_sentenceId /\ m_primed' = m_primed
    BY <2>1 DEF files, cursor, pack
  <2>3. Sentences' = Sentences /\ Current' = Current /\ Visited' = Visited
    BY <2>2 DEF Sentences, Current, Visited, Finished, AtEnd, Readable
  <2> QED
    BY <2>3 DEF Enumeration!evars, Sentences, Current, Visited
<1>2. CASE Reset /\ ~Stop("error") /\ ~Stop("exception")
  <2>1. /\ StreamInv' /\ m_primed' = TRUE /\ ~Finished' /\ m_sentenceId' = 0
        /\ m_featureFiles' = m_featureFiles
    BY <1>2, ResetTo DEF files
  <2>2. 1 \in Lists /\ Lists' = Lists
    BY <2>1 DEF StreamInv, CursorInv, Lists
  <2>3. Sentences' = Sentences /\ Sentences = 1 .. Readable(m_featureFiles[1])
    BY <2>1, <2>2, SentencesAre DEF Sentences, Readable
  <2>4. Current' = 1 /\ Visited' = {1}
    BY <2>1 DEF Current, Visited
  <2>5. 1 \in Sentences
    <3>1. 1 <= Readable(m_featureFiles[1])' /\ Readable(m_featureFiles[1])' \in Int
      <4>1. featurePos'[1] = 1 /\ FilesGiven' /\ 1 \in Lists'
        BY <2>1, <2>2 DEF StreamInv, CursorInv
      <4>2. Readable(m_featureFiles[1])' \in Int
        BY <2>1, <2>2, SentencesAre DEF Readable
      <4> QED
        BY <2>1, <4>1, <4>2 DEF Finished, AtEnd
    <3> QED
      BY <2>1, <2>3, <3>1 DEF Readable
  <2>6. /\ Current' \in IF Sentences \subseteq {} THEN {0} ELSE Sentences \ {}
        /\ Visited' = IF Current' = 0 THEN {} ELSE {} \cup {Current'}
        /\ Sentences' = Sentences
    BY <2>3, <2>4, <2>5
  <2>7. Enumeration!EReset
    BY <2>6 DEF Enumeration!EReset, Enumeration!Visit, Sentences, Current, Visited
  <2> QED
    BY <2>7
<1>3. CASE NextSentence /\ ~Stop("error") /\ ~Stop("exception")
  <2>1. /\ StreamInv' /\ m_primed' = TRUE /\ m_primed /\ ~Finished
        /\ m_sentenceId' = m_sentenceId + 1 /\ m_featureFiles' = m_featureFiles
        /\ Finished' <=> ~(m_sentenceId + 1 < Readable(m_featureFiles[1]))
    BY <1>3, NextTo DEF files
  <2>2. /\ 1 \in Lists /\ m_sentenceId \in Nat /\ Readable(m_featureFiles[1]) \in Int
        /\ Sentences = 1 .. Readable(m_featureFiles[1]) /\ Sentences' = Sentences
        /\ m_sentenceId + 1 <= Readable(m_featureFiles[1])
    <3>1. /\ 1 \in Lists /\ m_sentenceId \in 0 .. Readable(m_featureFiles[1])
          /\ featurePos = [u \in Lists |-> m_sentenceId + 1]
      BY <2>1 DEF StreamInv, CursorInv
    <3>2. Readable(m_featureFiles[1]) \in Int /\ Sentences = 1 .. Readable(m_featureFiles[1])
      BY <3>1, SentencesAre
    <3>3. Readable(m_featureFiles[1])' = Readable(m_featureFiles[1])
      BY <2>1 DEF Readable
    <3>4. Sentences' = Sentences
      BY <2>1, <3>3 DEF Sentences
    <3>5. featurePos[1] = m_sentenceId + 1
      BY <3>1
    <3>6. ~(m_sentenceId + 1 > Readable(m_featureFiles[1]))
      BY <2>1, <3>5 DEF Finished, AtEnd
    <3>7. m_sentenceId \in Nat
      BY <3>1, <3>2
    <3> QED
      BY <3>1, <3>2, <3>4, <3>6, <3>7
  <2>3. Current = m_sentenceId + 1 /\ Visited = 1 .. m_sentenceId + 1
    BY <2>1 DEF Current, Visited
  <2>4. CASE m_sentenceId + 1 < Readable(m_featureFiles[1])
    <3>1. Current' = m_sentenceId + 2 /\ Visited' = 1 .. m_sentenceId + 2
      BY <2>1, <2>2, <2>4 DEF Current, Visited
    <3>2. /\ Current' \in Sentences \ Visited /\ ~(Sentences \subseteq Visited)
          /\ Visited' = Visited \cup {Current'} /\ Current' # 0 /\ Current # 0
      BY <2>2, <2>3, <2>4, <3>1
    <3>3. Enumeration!ENext
      BY <2>2, <3>2 DEF Enumeration!ENext, Enumeration!Visit, Sentences, Current, Visited
    <3> QED
      BY <3>3
  <2>5. CASE ~(m_sentenceId + 1 < Readable(m_featureFiles[1]))
    <3>1. Current' = 0 /\ Visited' = 1 .. m_sentenceId + 1
      BY <2>1, <2>2, <2>5 DEF Current, Visited
    <3>2. /\ Sentences \subseteq Visited /\ Visited' = Visited /\ Current # 0
      BY <2>2, <2>3, <2>5, <3>1
    <3>3. Enumeration!ENext
      BY <2>2, <3>1, <3>2 DEF Enumeration!ENext, Enumeration!Visit, Sentences, Current, Visited
    <3> QED
      BY <3>3
  <2> QED
    BY <2>4, <2>5
<1> QED
  BY <1>1, <1>2, <1>3 DEF SStep, SNext

-----------------------------------------------------------------------------
(* The inductive invariant of the sentences in memory.                       *)

\* What the constructor has copied so far, or, with --streaming, nothing.
LoadedSoFar ==
  /\ loaded \in BOOLEAN /\ streaming \in BOOLEAN
  /\ IsSequence(m_features) /\ IsSequence(m_scores) /\ IsSequence(m_indexes)
  /\ Len(m_scores) = Len(m_features) /\ Len(m_indexes) = Len(m_features)
  /\ streaming => ~loaded /\ Len(m_features) = 0
  /\ ~streaming /\ ~loaded /\ status = "running" =>
       /\ m_primed => Len(m_features) = m_sentenceId
       /\ ~m_primed => Len(m_features) = 0
  /\ ~streaming /\ m_primed => 1 <= Readable(m_featureFiles[1])

\* Sentence n of the memory is sentence n of the files.
Stored(n) ==
  /\ DOMAIN m_features[n] = DOMAIN m_scores[n]
  /\ \A k \in DOMAIN m_features[n] :
       LET u == m_scores[n][k][1]
           j == m_scores[n][k][2]
       IN /\ j <= m_scoreFiles[u].blocks[n]
          /\ j <= Len(m_featureFiles[u].blocks[n])
          /\ m_features[n][k] = m_featureFiles[u].blocks[n][j]
          /\ Len(m_features[n][k].dense) \in Nat
          /\ Len(m_features[n][k].dense) = m_iNumDense

AllStored == \A n \in 1 .. Len(m_features) : Stored(n)

\* m_indexes counts up until the constructor returns, and is a permutation of
\* the sentences from then on.
PassOrder ==
  /\ ~loaded => m_cur_index = 1 /\ m_indexes = [n \in 1 .. Len(m_features) |-> n]
  /\ loaded =>
       /\ m_primed /\ Finished /\ 1 \in Lists
       /\ m_num_dense = m_iNumDense
       /\ Len(m_features) = Readable(m_featureFiles[1])
       /\ m_indexes \in Bijection(1 .. Len(m_features), 1 .. Len(m_features))
       /\ m_cur_index \in 1 .. Len(m_features) + 1

MemoryInv == LoadedSoFar /\ AllStored /\ PassOrder

-----------------------------------------------------------------------------
(* Steps of the streaming part.                                              *)

\* Every step of either enumerator is one of the streaming one, which may also
\* end the process.
LEMMA StepStreams == [TNext]_tvars => [SStep]_svars
<1> SUFFICES ASSUME [TNext]_tvars PROVE [SStep]_svars
  OBVIOUS
<1>1. CASE UNCHANGED tvars
  BY <1>1 DEF tvars, rvars
<1>2. CASE StreamingStep
  BY <1>2 DEF StreamingStep, SStep
<1>3. CASE RandomAccessStep
  <2>1. CASE Open \/ Load
    BY <2>1 DEF Open, Load, SStep, SNext
  <2>2. CASE Loaded
    BY <2>2, Zenon DEF Loaded, SStep
  <2>3. CASE ResetPass \/ NextInPass
    BY <2>3 DEF ResetPass, NextInPass
  <2> QED
    BY <1>3, <2>1, <2>2, <2>3 DEF RandomAccessStep, RNext
<1> QED
  BY <1>1, <1>2, <1>3 DEF TNext

\* The files stay what they are, and num_dense() what it became.
LEMMA StreamKeeps ==
  ASSUME StreamInv, [SStep]_svars
  PROVE  /\ m_featureFiles' = m_featureFiles /\ m_scoreFiles' = m_scoreFiles
         /\ Lists' = Lists
         /\ \A u \in Lists : Readable(m_featureFiles[u])' = Readable(m_featureFiles[u])
         /\ Readable(m_featureFiles[1])' = Readable(m_featureFiles[1])
         /\ m_iNumDense # -1 => m_iNumDense' = m_iNumDense
<1>1. UNCHANGED files /\ (m_iNumDense # -1 => m_iNumDense' = m_iNumDense)
  <2>1. CASE UNCHANGED svars
    BY <2>1 DEF svars, pack
  <2>2. CASE Stop("error") \/ Stop("exception")
    BY <2>2 DEF Stop, pack
  <2>3. CASE Reset /\ ~Stop("error") /\ ~Stop("exception")
    BY <2>3, ResetTo
  <2>4. CASE NextSentence /\ ~Stop("error") /\ ~Stop("exception")
    BY <2>4, NextTo
  <2> QED
    BY <2>1, <2>2, <2>3, <2>4 DEF SStep, SNext
<1> QED
  BY <1>1 DEF files, Lists, Readable

-----------------------------------------------------------------------------
(* What the constructor copies.                                              *)

\* Seq(S) holds what IsSequence says.
LEMMA SeqIsSequence ==
  ASSUME NEW S, NEW f \in Seq(S)
  PROVE  IsSequence(f)
<1> QED
  BY DEF IsSequence

\* Append to a sequence of anything.
LEMMA AppendIs ==
  ASSUME NEW f, IsSequence(f), NEW e
  PROVE  /\ IsSequence(Append(f, e)) /\ Len(Append(f, e)) = Len(f) + 1
         /\ \A k \in 1 .. Len(f) : Append(f, e)[k] = f[k]
         /\ Append(f, e)[Len(f) + 1] = e
<1> DEFINE S == {f[k] : k \in 1 .. Len(f)} \cup {e}
<1>1. Len(f) \in Nat /\ f = [k \in 1 .. Len(f) |-> f[k]]
  BY DEF IsSequence
<1>2. f \in [1 .. Len(f) -> S]
  BY <1>1
<1>3. f \in Seq(S) /\ e \in S
  BY <1>1, <1>2
<1> HIDE DEF S
<1>4. /\ Append(f, e) \in Seq(S) /\ Len(Append(f, e)) = Len(f) + 1
      /\ \A k \in 1 .. Len(f) : Append(f, e)[k] = f[k]
      /\ Append(f, e)[Len(f) + 1] = e
  BY <1>3
<1>5. IsSequence(Append(f, e))
  BY <1>4, SeqIsSequence
<1> QED
  BY <1>4, <1>5

\* The pack copied is of the sentence the iterators are at.
LEMMA PackOfSentence ==
  ASSUME StreamInv, m_primed, ~Finished, NEW n, n = m_sentenceId + 1
  PROVE  /\ DOMAIN m_current_featureVectors = DOMAIN m_current_indexes
         /\ \A k \in DOMAIN m_current_featureVectors :
              LET u == m_current_indexes[k][1]
                  j == ScoreLineAt(k)
              IN /\ j <= m_scoreFiles[u].blocks[n]
                 /\ j <= Len(m_featureFiles[u].blocks[n])
                 /\ m_current_featureVectors[k] = m_featureFiles[u].blocks[n][j]
                 /\ Len(m_current_featureVectors[k].dense) \in Nat
                 /\ Len(m_current_featureVectors[k].dense) = m_iNumDense
<1>1. /\ FilesGiven /\ 1 \in Lists
      /\ featurePos = [u \in Lists |-> n] /\ scorePos = [u \in Lists |-> n]
      /\ m_sentenceId \in 0 .. Readable(m_featureFiles[1])
      /\ ~SizesDiffer(featurePos, scorePos) /\ ~SomeThrows(featurePos, scorePos)
      /\ m_current_indexes = InOrder(Distinct(Items(featurePos)))
      /\ m_current_featureVectors = VectorsAt(Items(featurePos), m_current_indexes)
  BY DEF StreamInv, CursorInv, PackInv
<1>2. n \in Nat /\ n > 0
  <2>1. Readable(m_featureFiles[1]) \in Int
    BY <1>1, FilesAre
  <2> QED
    BY <1>1, <2>1
<1>3. /\ DOMAIN m_current_indexes = DOMAIN m_current_featureVectors
      /\ \A k \in DOMAIN m_current_indexes :
           /\ m_current_indexes[k][1] \in Lists
           /\ m_current_indexes[k][2] \in DOMAIN Items(featurePos)[m_current_indexes[k][1]]
           /\ m_current_featureVectors[k]
                = m_featureFiles[m_current_indexes[k][1]].blocks[n][m_current_indexes[k][2]]
           /\ Len(m_current_featureVectors[k].dense) \in Nat
  BY <1>1, <1>2, PackIs
<1>4. ASSUME NEW k \in DOMAIN m_current_featureVectors
      PROVE  LET u == m_current_indexes[k][1]
                 j == ScoreLineAt(k)
             IN /\ j <= m_scoreFiles[u].blocks[n]
                /\ j <= Len(m_featureFiles[u].blocks[n])
                /\ m_current_featureVectors[k] = m_featureFiles[u].blocks[n][j]
                /\ Len(m_current_featureVectors[k].dense) \in Nat
                /\ Len(m_current_featureVectors[k].dense) = m_iNumDense
  <2> DEFINE u == m_current_indexes[k][1]
             j == m_current_indexes[k][2]
  <2>1. /\ u \in Lists /\ j \in DOMAIN Items(featurePos)[u]
        /\ m_current_featureVectors[k] = m_featureFiles[u].blocks[n][j]
        /\ Len(m_current_featureVectors[k].dense) \in Nat
    BY <1>3
  <2>2. /\ Items(featurePos)[u] = m_featureFiles[u].blocks[n]
        /\ IsSequence(Items(featurePos)[u])
        /\ Len(Items(featurePos)[u]) = m_scoreFiles[u].blocks[n]
    <3>1. scorePos[u] = n
      BY <1>1, <2>1
    <3> QED
      BY <1>1, <1>2, <2>1, <3>1, ItemsAre
  <2>3. j \in 1 .. Len(m_featureFiles[u].blocks[n])
    BY <2>1, <2>2, SequenceType
  <2>4. Len(m_featureFiles[u].blocks[n]) \in Nat
    BY <2>2, SequenceType
  <2>5. Len(m_current_featureVectors[k].dense) = m_iNumDense
    BY DEF StreamInv, DenseInv
  <2>6. ScoreLineAt(k) = j
    BY DEF ScoreLineAt
  <2> HIDE DEF u, j
  <2>7. j <= m_scoreFiles[u].blocks[n] /\ j <= Len(m_featureFiles[u].blocks[n])
    BY <2>2, <2>3, <2>4
  <2> QED
    BY <2>1, <2>5, <2>6, <2>7 DEF u, j
<1> QED
  BY <1>3, <1>4

-----------------------------------------------------------------------------
(* The steps keep the invariant.                                             *)

\* Nothing is in memory before the constructor.
LEMMA MemoryInit == TInit => MemoryInv
<1> SUFFICES ASSUME TInit PROVE MemoryInv
  OBVIOUS
<1>1. /\ m_features = <<>> /\ m_scores = <<>> /\ m_indexes = <<>>
      /\ m_cur_index = 1 /\ loaded = FALSE /\ streaming \in BOOLEAN /\ m_primed = FALSE
  BY DEF TInit, RInit, SInit
<1>2. IsSequence(<<>>) /\ Len(<<>>) = 0 /\ <<>> = [n \in 1 .. 0 |-> n]
  BY DEF IsSequence
<1>3. LoadedSoFar
  BY <1>1, <1>2 DEF LoadedSoFar
<1>4. AllStored
  BY <1>1, <1>2 DEF AllStored
<1>5. PassOrder
  BY <1>1, <1>2 DEF PassOrder
<1> QED
  BY <1>3, <1>4, <1>5 DEF MemoryInv

\* A sentence in memory stays what it was read as.
LEMMA StoredKept ==
  ASSUME StreamInv, [SStep]_svars, NEW n, Stored(n),
         m_features'[n] = m_features[n], m_scores'[n] = m_scores[n]
  PROVE  Stored(n)'
<1>1. /\ m_featureFiles' = m_featureFiles /\ m_scoreFiles' = m_scoreFiles
      /\ m_iNumDense # -1 => m_iNumDense' = m_iNumDense
  BY StreamKeeps
<1>2. ASSUME NEW k \in DOMAIN m_features[n] PROVE m_iNumDense' = m_iNumDense
  <2>1. m_iNumDense \in Nat
    BY DEF Stored
  <2> QED
    BY <1>1, <2>1
<1> QED
  BY <1>1, <1>2 DEF Stored

\* So does the memory as a whole when nothing is copied.
LEMMA AllStoredKept ==
  ASSUME StreamInv, AllStored, [SStep]_svars, m_features' = m_features, m_scores' = m_scores
  PROVE  AllStored'
<1>1. ASSUME NEW n \in 1 .. Len(m_features) PROVE Stored(n)'
  BY StoredKept DEF AllStored
<1> QED
  BY <1>1 DEF AllStored

\* A streaming enumerator leaves the memory empty.
LEMMA StreamingStepMemory ==
  ASSUME StreamInv, MemoryInv, StreamingStep
  PROVE  MemoryInv'
<1>1. /\ m_features' = m_features /\ m_scores' = m_scores /\ m_indexes' = m_indexes
      /\ m_cur_index' = m_cur_index /\ loaded' = loaded /\ streaming' = streaming /\ streaming
  BY DEF StreamingStep, memory
<1>2. ~loaded /\ [SStep]_svars
  BY <1>1 DEF MemoryInv, LoadedSoFar, StreamingStep, SStep
<1>3. LoadedSoFar'
  BY <1>1, <1>2 DEF MemoryInv, LoadedSoFar
<1>4. AllStored'
  BY <1>1, <1>2, AllStoredKept DEF MemoryInv
<1>5. PassOrder'
  BY <1>1, <1>2 DEF MemoryInv, PassOrder
<1> QED
  BY <1>3, <1>4, <1>5 DEF MemoryInv

\* After reset() the first list has a sentence, and none has been copied.
LEMMA OpenMemory ==
  ASSUME StreamInv, MemoryInv, Open, UNCHANGED streaming
  PROVE  MemoryInv'
<1>1. /\ m_features' = m_features /\ m_scores' = m_scores /\ m_indexes' = m_indexes
      /\ m_cur_index' = m_cur_index /\ loaded' = loaded /\ streaming' = streaming
      /\ ~m_primed /\ Reset /\ status = "running" /\ [SStep]_svars
  BY DEF Open, memory, Reset, SStep, SNext
<1>2. ~loaded
  BY <1>1 DEF MemoryInv, PassOrder
<1>3. LoadedSoFar'
  <2>1. CASE Stop("error") \/ Stop("exception")
    <3>1. m_primed' = m_primed /\ status' # "running"
      BY <2>1 DEF Stop, pack
    <3> QED
      BY <1>1, <1>2, <3>1 DEF MemoryInv, LoadedSoFar
  <2>2. CASE ~Stop("error") /\ ~Stop("exception")
    <3>1. StreamInv' /\ m_primed' = TRUE /\ ~Finished' /\ m_sentenceId' = 0
      BY <1>1, <2>2, ResetTo
    <3>2. 1 \in Lists' /\ featurePos'[1] = 1
      BY <3>1 DEF StreamInv, CursorInv
    <3>3. Readable(m_featureFiles[1])' \in Int
      BY <1>1, <3>2, StreamKeeps, SentencesAre
    <3>4. 1 <= Readable(m_featureFiles[1])'
      BY <3>1, <3>2, <3>3 DEF Finished, AtEnd
    <3> QED
      BY <1>1, <1>2, <3>1, <3>4 DEF MemoryInv, LoadedSoFar
  <2> QED
    BY <2>1, <2>2
<1>4. AllStored'
  BY <1>1, AllStoredKept DEF MemoryInv
<1>5. PassOrder'
  BY <1>1, <1>2 DEF MemoryInv, PassOrder
<1> QED
  BY <1>3, <1>4, <1>5 DEF MemoryInv

\* The constructor's loop copies the next sentence of the files, even if the
\* process ends on the one after it.
LEMMA LoadMemory ==
  ASSUME StreamInv, MemoryInv, Load, ~streaming, UNCHANGED streaming
  PROVE  MemoryInv'
<1> DEFINE pairs == [k \in DOMAIN m_current_indexes |-> <<m_current_indexes[k][1], ScoreLineAt(k)>>]
<1>1. /\ ~loaded /\ loaded' = loaded /\ streaming' = streaming /\ m_cur_index' = m_cur_index
      /\ NextSentence /\ status = "running" /\ m_primed /\ ~Finished /\ [SStep]_svars
      /\ m_features' = Append(m_features, m_current_featureVectors)
      /\ m_scores' = Append(m_scores, pairs)
      /\ m_indexes' = Append(m_indexes, Len(m_indexes) + 1)
  BY DEF Load, NextSentence, SStep, SNext
<1>2. /\ IsSequence(m_features) /\ IsSequence(m_scores) /\ IsSequence(m_indexes)
      /\ Len(m_scores) = Len(m_features) /\ Len(m_indexes) = Len(m_features)
      /\ Len(m_features) \in Nat /\ Len(m_features) = m_sentenceId
      /\ 1 <= Readable(m_featureFiles[1])
      /\ m_cur_index = 1 /\ m_indexes = [k \in 1 .. Len(m_features) |-> k]
  BY <1>1, SequenceType DEF MemoryInv, LoadedSoFar, PassOrder
<1> HIDE DEF pairs
<1>3. PICK n \in Nat : n = Len(m_features) + 1
  BY <1>2
<1>4. /\ IsSequence(m_features') /\ Len(m_features') = n
      /\ \A k \in 1 .. Len(m_features) : m_features'[k] = m_features[k]
      /\ m_features'[n] = m_current_featureVectors
  BY <1>1, <1>2, <1>3, AppendIs
<1>5. /\ IsSequence(m_scores') /\ Len(m_scores') = n
      /\ \A k \in 1 .. Len(m_features) : m_scores'[k] = m_scores[k]
      /\ m_scores'[n] = pairs
  BY <1>1, <1>2, <1>3, AppendIs
<1>6. /\ IsSequence(m_indexes') /\ Len(m_indexes') = n
      /\ \A k \in 1 .. Len(m_features) : m_indexes'[k] = m_indexes[k]
      /\ m_indexes'[n] = n
  BY <1>1, <1>2, <1>3, AppendIs
<1>7. LoadedSoFar'
  <2>1. Readable(m_featureFiles[1])' = Readable(m_featureFiles[1])
    BY <1>1, StreamKeeps
  <2>2. CASE Stop("error") \/ Stop("exception")
    <3>1. status' # "running"
      BY <2>2 DEF Stop
    <3> QED
      BY <1>1, <1>2, <1>3, <1>4, <1>5, <1>6, <2>1, <3>1 DEF MemoryInv, LoadedSoFar
  <2>3. CASE ~Stop("error") /\ ~Stop("exception")
    <3>1. m_primed' = TRUE /\ m_sentenceId' = m_sentenceId + 1
      BY <1>1, <2>3, NextTo
    <3> QED
      BY <1>1, <1>2, <1>3, <1>4, <1>5, <1>6, <2>1, <3>1 DEF MemoryInv, LoadedSoFar
  <2> QED
    BY <2>2, <2>3
<1>8. AllStored'
  <2>1. ASSUME NEW k \in 1 .. Len(m_features) PROVE Stored(k)'
    BY <1>1, <1>4, <1>5, <2>1, StoredKept DEF MemoryInv, AllStored
  <2>2. Stored(n)'
    <3>1. /\ DOMAIN m_current_featureVectors = DOMAIN m_current_indexes
          /\ \A k \in DOMAIN m_current_featureVectors :
              LET u == m_current_indexes[k][1]
                  j == ScoreLineAt(k)
              IN /\ j <= m_scoreFiles[u].blocks[n]
                 /\ j <= Len(m_featureFiles[u].blocks[n])
                 /\ m_current_featureVectors[k] = m_featureFiles[u].blocks[n][j]
                 /\ Len(m_current_featureVectors[k].dense) \in Nat
                 /\ Len(m_current_featureVectors[k].dense) = m_iNumDense
      BY <1>1, <1>2, <1>3, PackOfSentence
    <3>2. /\ m_featureFiles' = m_featureFiles /\ m_scoreFiles' = m_scoreFiles
          /\ m_iNumDense # -1 => m_iNumDense' = m_iNumDense
      BY <1>1, StreamKeeps
    <3>3. /\ DOMAIN pairs = DOMAIN m_current_indexes
          /\ \A k \in DOMAIN m_current_indexes :
               pairs[k][1] = m_current_indexes[k][1] /\ pairs[k][2] = ScoreLineAt(k)
      BY DEF pairs
    <3>4. ASSUME NEW k \in DOMAIN m_current_featureVectors PROVE m_iNumDense' = m_iNumDense
      <4>1. m_iNumDense \in Nat
        BY <3>1
      <4> QED
        BY <3>2, <4>1
    <3>5. DOMAIN m_features'[n] = DOMAIN m_scores'[n]
      BY <1>4, <1>5, <3>1, <3>3
    <3>6. ASSUME NEW k \in DOMAIN m_features'[n]
          PROVE  LET u == m_scores'[n][k][1]
                     j == m_scores'[n][k][2]
                 IN /\ j <= m_scoreFiles'[u].blocks[n]
                    /\ j <= Len(m_featureFiles'[u].blocks[n])
                    /\ m_features'[n][k] = m_featureFiles'[u].blocks[n][j]
                    /\ Len(m_features'[n][k].dense) \in Nat
                    /\ Len(m_features'[n][k].dense) = m_iNumDense'
      <4>1. k \in DOMAIN m_current_featureVectors /\ k \in DOMAIN m_current_indexes
        BY <1>4, <3>1
      <4>2. /\ m_scores'[n][k][1] = m_current_indexes[k][1]
            /\ m_scores'[n][k][2] = ScoreLineAt(k)
            /\ m_features'[n][k] = m_current_featureVectors[k]
        BY <1>4, <1>5, <3>3, <4>1
      <4> QED
        BY <3>1, <3>2, <3>4, <4>1, <4>2
    <3> QED
      BY <3>5, <3>6 DEF Stored
  <2>3. ASSUME NEW k \in 1 .. n PROVE Stored(k)'
    <3>1. k \in 1 .. Len(m_features) \/ k = n
      BY <1>2, <1>3
    <3> QED
      BY <2>1, <2>2, <3>1
  <2> QED
    BY <1>4, <2>3 DEF AllStored
<1>9. PassOrder'
  <2>1. m_indexes' = [k \in 1 .. n |-> k]
    <3>1. m_indexes' = [k \in 1 .. n |-> m_indexes'[k]]
      BY <1>6 DEF IsSequence
    <3>2. ASSUME NEW k \in 1 .. n PROVE m_indexes'[k] = k
      BY <1>2, <1>3, <1>6
    <3> QED
      BY <3>1, <3>2
  <2> QED
    BY <1>1, <1>2, <1>4, <2>1 DEF PassOrder
<1> QED
  BY <1>7, <1>8, <1>9 DEF MemoryInv

\* Counting up is a permutation of the sentences.
LEMMA CountingIsBijection ==
  ASSUME NEW N \in Nat
  PROVE  [n \in 1 .. N |-> n] \in Bijection(1 .. N, 1 .. N)
<1> QED
  BY DEF Bijection, Injection, Surjection, IsInjective

\* A shuffle of a permutation is one of the same length.
LEMMA ShuffledIsBijection ==
  ASSUME NEW N \in Nat, NEW f \in Bijection(1 .. N, 1 .. N), NEW g \in Shuffled(f)
  PROVE  g \in Bijection(1 .. N, 1 .. N)
<1>1. ToSet(f) = 1 .. N
  BY DEF ToSet, Bijection, Injection, Surjection
<1>2. IsFiniteSet(1 .. N) /\ Cardinality(1 .. N) = N
  BY FS_Interval
<1>3. /\ g \in [1 .. N -> 1 .. N]
      /\ \A u, j \in 1 .. N : u # j => g[u] # g[j]
  BY <1>1, <1>2 DEF Shuffled, SetToSeqs
<1>4. g \in Injection(1 .. N, 1 .. N)
  BY <1>3 DEF Injection, IsInjective
<1>5. g \in Surjection(1 .. N, 1 .. N)
  BY <1>2, <1>4, FS_Injection
<1> QED
  BY <1>4, <1>5 DEF Bijection

\* A permutation of the sentences is a sequence of their number.
LEMMA BijectionIsSequence ==
  ASSUME NEW N \in Nat, NEW f \in Bijection(1 .. N, 1 .. N)
  PROVE  IsSequence(f) /\ Len(f) = N /\ DOMAIN f = 1 .. N
<1>1. f \in [1 .. N -> 1 .. N]
  BY DEF Bijection, Injection
<1>2. f \in Seq(1 .. N) /\ Len(f) = N
  BY <1>1
<1> QED
  BY <1>1, <1>2, SeqIsSequence

\* The constructor returns with every sentence of the first list in memory.
LEMMA LoadedMemory ==
  ASSUME StreamInv, MemoryInv, Loaded, ~streaming, UNCHANGED streaming
  PROVE  MemoryInv'
<1>1. /\ status = "running" /\ m_primed /\ Finished /\ ~loaded
      /\ m_features' = m_features /\ m_scores' = m_scores /\ m_indexes' = m_indexes
      /\ m_cur_index' = m_cur_index /\ streaming' = streaming
  BY DEF Loaded, memory
<1>2. [SStep]_svars
  BY Zenon DEF Loaded, SStep
<1>3. AllStored'
  BY <1>1, <1>2, AllStoredKept DEF MemoryInv
<1>4. CASE Stop("error") /\ UNCHANGED <<m_num_dense, loaded>>
  <2>1. status' # "running" /\ m_primed' = m_primed /\ loaded' = loaded
    BY <1>4 DEF Stop, pack
  <2>2. Readable(m_featureFiles[1])' = Readable(m_featureFiles[1])
    BY <1>2, StreamKeeps
  <2>3. LoadedSoFar'
    BY <1>1, <2>1, <2>2 DEF MemoryInv, LoadedSoFar
  <2>4. PassOrder'
    BY <1>1, <2>1 DEF MemoryInv, PassOrder
  <2> QED
    BY <1>3, <2>3, <2>4 DEF MemoryInv
<1>5. CASE m_num_dense' = m_iNumDense /\ loaded' = TRUE /\ UNCHANGED svars
  <2>1. /\ m_featureFiles' = m_featureFiles /\ featurePos' = featurePos
        /\ m_primed' = m_primed /\ m_iNumDense' = m_iNumDense
    BY <1>5 DEF svars, files, cursor, pack
  <2>2. /\ Finished' = Finished /\ Lists' = Lists
        /\ Readable(m_featureFiles[1])' = Readable(m_featureFiles[1])
    BY <2>1 DEF Finished, AtEnd, Readable, Lists
  <2>3. /\ 1 \in Lists /\ FilesGiven /\ featurePos[1] = m_sentenceId + 1
        /\ m_sentenceId \in 0 .. Readable(m_featureFiles[1])
    BY <1>1 DEF StreamInv, CursorInv
  <2>4. Readable(m_featureFiles[1]) \in Int
    BY <2>3, FilesAre
  <2>5. m_sentenceId = Readable(m_featureFiles[1])
    BY <1>1, <2>3, <2>4 DEF Finished, AtEnd
  <2>6. /\ Len(m_features) = m_sentenceId /\ Len(m_features) \in Nat
        /\ 1 <= Readable(m_featureFiles[1])
        /\ m_cur_index = 1 /\ m_indexes = [n \in 1 .. Len(m_features) |-> n]
    BY <1>1, SequenceType DEF MemoryInv, LoadedSoFar, PassOrder
  <2>7. LoadedSoFar'
    BY <1>1, <1>5, <2>1, <2>2 DEF MemoryInv, LoadedSoFar
  <2>8. m_indexes \in Bijection(1 .. Len(m_features), 1 .. Len(m_features))
    BY <2>6, CountingIsBijection
  <2>9. PassOrder'
    BY <1>1, <1>5, <2>1, <2>2, <2>3, <2>5, <2>6, <2>8 DEF PassOrder
  <2> QED
    BY <1>3, <2>7, <2>9 DEF MemoryInv
<1> QED
  BY <1>4, <1>5, Zenon DEF Loaded

\* Once loaded, the streaming part stands still and the memory keeps its
\* sentences.
LEMMA PassMemory ==
  ASSUME StreamInv, MemoryInv, loaded, loaded' = loaded, UNCHANGED <<svars, streaming>>,
         m_features' = m_features, m_scores' = m_scores, m_num_dense' = m_num_dense,
         m_indexes' \in Bijection(1 .. Len(m_features), 1 .. Len(m_features)),
         m_cur_index' \in 1 .. Len(m_features) + 1
  PROVE  MemoryInv'
<1>1. /\ m_featureFiles' = m_featureFiles /\ featurePos' = featurePos
      /\ m_primed' = m_primed /\ m_iNumDense' = m_iNumDense /\ streaming' = streaming
      /\ [SStep]_svars
  BY DEF svars, files, cursor, pack
<1>2. /\ Finished' = Finished /\ Lists' = Lists
      /\ Readable(m_featureFiles[1])' = Readable(m_featureFiles[1])
  BY <1>1 DEF Finished, AtEnd, Readable, Lists
<1>3. Len(m_features) \in Nat
  BY SequenceType DEF MemoryInv, LoadedSoFar
<1>4. IsSequence(m_indexes') /\ Len(m_indexes') = Len(m_features)
  BY <1>3, BijectionIsSequence
<1>5. LoadedSoFar'
  BY <1>1, <1>2, <1>4 DEF MemoryInv, LoadedSoFar
<1>6. AllStored'
  BY <1>1, AllStoredKept DEF MemoryInv
<1>7. PassOrder'
  BY <1>1, <1>2 DEF MemoryInv, PassOrder
<1> QED
  BY <1>5, <1>6, <1>7 DEF MemoryInv

\* What a loaded enumerator knows of its pass.
LEMMA PassFacts ==
  ASSUME StreamInv, MemoryInv, loaded
  PROVE  /\ Len(m_features) \in Nat /\ 1 <= Len(m_features)
         /\ m_indexes \in Bijection(1 .. Len(m_features), 1 .. Len(m_features))
         /\ Len(m_indexes) = Len(m_features)
         /\ DOMAIN m_indexes = 1 .. Len(m_features)
         /\ m_cur_index \in 1 .. Len(m_features) + 1
         /\ 1 \in Lists /\ Len(m_features) = Readable(m_featureFiles[1])
<1>1. /\ Len(m_features) \in Nat
      /\ m_indexes \in Bijection(1 .. Len(m_features), 1 .. Len(m_features))
      /\ Len(m_indexes) = Len(m_features)
      /\ m_cur_index \in 1 .. Len(m_features) + 1
      /\ 1 \in Lists /\ Len(m_features) = Readable(m_featureFiles[1])
      /\ 1 <= Readable(m_featureFiles[1])
  BY SequenceType DEF MemoryInv, LoadedSoFar, PassOrder
<1> QED
  BY <1>1, BijectionIsSequence

\* reset() leaves some order of the same sentences, at its start.
LEMMA ResetPassMemory ==
  ASSUME StreamInv, MemoryInv, ResetPass, UNCHANGED streaming
  PROVE  MemoryInv' /\ m_indexes' \in Bijection(1 .. Len(m_features), 1 .. Len(m_features))
<1>1. /\ loaded /\ loaded' = loaded /\ m_cur_index' = 1 /\ UNCHANGED svars
      /\ m_features' = m_features /\ m_scores' = m_scores /\ m_num_dense' = m_num_dense
  BY DEF ResetPass
<1>2. m_indexes' = m_indexes \/ m_indexes' \in Shuffled(m_indexes)
  <2>1. m_indexes' \in IF m_no_shuffle THEN {m_indexes} ELSE Shuffled(m_indexes)
    BY DEF ResetPass
  <2>2. CASE m_no_shuffle
    BY <2>1, <2>2, Zenon
  <2>3. CASE ~m_no_shuffle
    BY <2>1, <2>3, Zenon
  <2> QED
    BY <2>2, <2>3, Zenon
<1>3. /\ Len(m_features) \in Nat /\ 1 <= Len(m_features)
      /\ m_indexes \in Bijection(1 .. Len(m_features), 1 .. Len(m_features))
  BY <1>1, PassFacts
<1>4. m_indexes' \in Bijection(1 .. Len(m_features), 1 .. Len(m_features))
  BY <1>2, <1>3, ShuffledIsBijection
<1>5. m_cur_index' \in 1 .. Len(m_features) + 1
  BY <1>1, <1>3
<1> QED
  BY <1>1, <1>4, <1>5, PassMemory

\* next() goes on in that order.
LEMMA NextInPassMemory ==
  ASSUME StreamInv, MemoryInv, NextInPass, UNCHANGED streaming
  PROVE  MemoryInv'
<1>1. /\ loaded /\ loaded' = loaded /\ m_cur_index' = m_cur_index + 1 /\ UNCHANGED svars
      /\ m_features' = m_features /\ m_scores' = m_scores /\ m_num_dense' = m_num_dense
      /\ m_indexes' = m_indexes /\ ~(m_cur_index > Len(m_indexes))
  BY DEF NextInPass, memory, PassFinished
<1>2. /\ Len(m_features) \in Nat /\ Len(m_indexes) = Len(m_features)
      /\ m_indexes \in Bijection(1 .. Len(m_features), 1 .. Len(m_features))
      /\ m_cur_index \in 1 .. Len(m_features) + 1
  BY <1>1, PassFacts
<1>3. m_cur_index' \in 1 .. Len(m_features) + 1
  BY <1>1, <1>2
<1>4. m_indexes' \in Bijection(1 .. Len(m_features), 1 .. Len(m_features))
  BY <1>1, <1>2
<1> QED
  BY <1>1, <1>3, <1>4, PassMemory

\* Nothing happens.
LEMMA StutterMemory ==
  ASSUME MemoryInv, UNCHANGED tvars
  PROVE  MemoryInv'
<1>1. /\ m_featureFiles' = m_featureFiles /\ m_scoreFiles' = m_scoreFiles
      /\ featurePos' = featurePos /\ m_sentenceId' = m_sentenceId
      /\ m_primed' = m_primed /\ m_iNumDense' = m_iNumDense /\ status' = status
      /\ m_features' = m_features /\ m_scores' = m_scores /\ m_indexes' = m_indexes
      /\ m_cur_index' = m_cur_index /\ m_num_dense' = m_num_dense /\ loaded' = loaded
      /\ streaming' = streaming
  BY DEF tvars, rvars, svars, memory, files, cursor, pack
<1>2. Finished' = Finished /\ Lists' = Lists
  BY <1>1 DEF Finished, AtEnd, Readable, Lists
<1>3. LoadedSoFar'
  BY <1>1 DEF MemoryInv, LoadedSoFar, Readable
<1>4. AllStored'
  BY <1>1 DEF MemoryInv, AllStored, Stored
<1>5. PassOrder'
  BY <1>1, <1>2 DEF MemoryInv, PassOrder, Readable
<1> QED
  BY <1>3, <1>4, <1>5 DEF MemoryInv

\* Every step of the enumerator keeps both invariants.
LEMMA TrainStep == StreamInv /\ MemoryInv /\ [TNext]_tvars => StreamInv' /\ MemoryInv'
<1> SUFFICES ASSUME StreamInv, MemoryInv, [TNext]_tvars PROVE StreamInv' /\ MemoryInv'
  OBVIOUS
<1>1. StreamInv'
  BY StepStreams, SStepInv
<1>2. CASE StreamingStep
  BY <1>1, <1>2, StreamingStepMemory
<1>3. CASE RandomAccessStep
  <2>1. ~streaming /\ UNCHANGED streaming /\ RNext
    BY <1>3 DEF RandomAccessStep
  <2> QED
    BY <1>1, <2>1, OpenMemory, LoadMemory, LoadedMemory, ResetPassMemory,
       NextInPassMemory DEF RNext
<1>4. CASE UNCHANGED tvars
  BY <1>1, <1>4, StutterMemory
<1> QED
  BY <1>1, <1>2, <1>3, <1>4 DEF TNext

-----------------------------------------------------------------------------
(* What follows from it.                                                     *)

\* The memory is what the files say.
LEMMA InvMatchesFiles == MemoryInv => MemoryMatchesFiles
<1> SUFFICES ASSUME MemoryInv, NEW n \in DOMAIN m_features
             PROVE  /\ DOMAIN m_features[n] = DOMAIN m_scores[n]
                    /\ \A k \in DOMAIN m_features[n] :
                         LET u == m_scores[n][k][1]
                             j == m_scores[n][k][2]
                         IN /\ j <= m_scoreFiles[u].blocks[n]
                            /\ j <= Len(m_featureFiles[u].blocks[n])
                            /\ m_features[n][k] = m_featureFiles[u].blocks[n][j]
                            /\ loaded => Len(m_features[n][k].dense) = m_num_dense
  BY DEF MemoryMatchesFiles
<1>1. n \in 1 .. Len(m_features)
  BY SequenceType DEF MemoryInv, LoadedSoFar
<1>2. Stored(n)
  BY <1>1 DEF MemoryInv, AllStored
<1>3. loaded => m_num_dense = m_iNumDense
  BY DEF MemoryInv, PassOrder
<1> QED
  BY <1>2, <1>3 DEF Stored

PassCurrent == IF loaded /\ ~PassFinished THEN m_indexes[m_cur_index] ELSE 0
PassVisited ==
  IF loaded THEN {m_indexes[n] : n \in 1 .. m_cur_index - IF PassFinished THEN 1 ELSE 0}
  ELSE {}

\* Until the constructor returns there is nothing to visit.
LEMMA PassUnloaded == ~loaded => PassCurrent = 0 /\ PassVisited = {}
<1> QED
  BY DEF PassCurrent, PassVisited

\* From then on the sentences up to the index have been visited.
LEMMA PassLoaded ==
  ASSUME StreamInv, MemoryInv, loaded
  PROVE  /\ m_cur_index <= Len(m_features) =>
              /\ PassCurrent = m_indexes[m_cur_index]
              /\ PassVisited = {m_indexes[n] : n \in 1 .. m_cur_index}
         /\ m_cur_index = Len(m_features) + 1 =>
              /\ PassCurrent = 0
              /\ PassVisited = {m_indexes[n] : n \in 1 .. Len(m_features)}
         /\ Sentences = 1 .. Len(m_features)
<1>1. /\ Len(m_features) \in Nat /\ Len(m_indexes) = Len(m_features)
      /\ m_cur_index \in 1 .. Len(m_features) + 1
      /\ 1 \in Lists /\ Len(m_features) = Readable(m_featureFiles[1])
  BY PassFacts
<1>2. Sentences = 1 .. Len(m_features)
  BY <1>1, SentencesAre
<1>3. CASE m_cur_index <= Len(m_features)
  <2>1. ~PassFinished
    BY <1>1, <1>3 DEF PassFinished
  <2>2. PassVisited = {m_indexes[n] : n \in 1 .. m_cur_index - 0}
    BY <2>1, Zenon DEF PassVisited
  <2>3. m_cur_index - 0 = m_cur_index /\ ~(m_cur_index = Len(m_features) + 1)
    BY <1>1, <1>3
  <2>4. PassCurrent = m_indexes[m_cur_index]
    BY <2>1 DEF PassCurrent
  <2> QED
    BY <1>2, <2>2, <2>3, <2>4
<1>4. CASE m_cur_index = Len(m_features) + 1
  <2>1. PassFinished
    BY <1>1, <1>4 DEF PassFinished
  <2>2. PassVisited = {m_indexes[n] : n \in 1 .. m_cur_index - 1}
    BY <2>1, Zenon DEF PassVisited
  <2>3. m_cur_index - 1 = Len(m_features) /\ ~(m_cur_index <= Len(m_features))
    BY <1>1, <1>4
  <2>4. PassCurrent = 0
    BY <2>1 DEF PassCurrent
  <2> QED
    BY <1>2, <2>2, <2>3, <2>4
<1> QED
  BY <1>1, <1>3, <1>4

\* At the start of a pass one sentence has been visited.
LEMMA PassStarts ==
  StreamInv /\ MemoryInv /\ loaded /\ m_cur_index = 1 =>
    /\ PassCurrent \in Sentences /\ PassCurrent # 0
    /\ PassVisited = {PassCurrent} /\ Sentences # {}
<1> SUFFICES ASSUME StreamInv, MemoryInv, loaded, m_cur_index = 1
             PROVE  /\ PassCurrent \in Sentences /\ PassCurrent # 0
                    /\ PassVisited = {PassCurrent} /\ Sentences # {}
  OBVIOUS
<1>1. /\ Len(m_features) \in Nat /\ 1 <= Len(m_features)
      /\ m_indexes \in Bijection(1 .. Len(m_features), 1 .. Len(m_features))
  BY PassFacts
<1>2. /\ PassCurrent = m_indexes[1]
      /\ PassVisited = {m_indexes[n] : n \in 1 .. 1}
      /\ Sentences = 1 .. Len(m_features)
  BY <1>1, PassLoaded
<1>3. m_indexes[1] \in 1 .. Len(m_features)
  BY <1>1 DEF Bijection, Injection
<1>4. {m_indexes[n] : n \in 1 .. 1} = {m_indexes[1]}
  OBVIOUS
<1> QED
  BY <1>1, <1>2, <1>3, <1>4

\* A step that starts a pass is a reset() of HypPackEnumerator.
LEMMA PassResets ==
  ASSUME Sentences' = Sentences, PassCurrent' \in Sentences, PassCurrent' # 0,
         PassVisited' = {PassCurrent'}
  PROVE  Pass!EReset
<1>1. /\ PassCurrent' \in IF Sentences \subseteq {} THEN {0} ELSE Sentences \ {}
      /\ PassVisited' = IF PassCurrent' = 0 THEN {} ELSE {} \cup {PassCurrent'}
      /\ UNCHANGED Sentences
  OBVIOUS
<1> QED
  BY <1>1 DEF Pass!EReset, Pass!Visit, Sentences, PassCurrent, PassVisited

\* Nothing has been visited before the constructor.
LEMMA PassStart == TInit => Pass!EInit
<1> SUFFICES ASSUME TInit PROVE Pass!EInit
  OBVIOUS
<1>1. SInit /\ ~loaded
  BY DEF TInit, RInit
<1>2. 0 \notin Sentences
  BY <1>1, SInitInv, SentencesAre
<1>3. PassCurrent = 0 /\ PassVisited = {}
  BY <1>1, PassUnloaded
<1> QED
  BY <1>2, <1>3 DEF Pass!EInit, Sentences, PassCurrent, PassVisited

\* next() is a next() of HypPackEnumerator: the sentence it goes on to is a new
\* one because the order is a permutation.
LEMMA PassNexts ==
  ASSUME StreamInv, MemoryInv, StreamInv', MemoryInv', NextInPass, Sentences' = Sentences
  PROVE  Pass!ENext
<1>1. /\ loaded /\ loaded' = loaded /\ m_cur_index' = m_cur_index + 1
      /\ m_indexes' = m_indexes /\ m_features' = m_features
      /\ ~(m_cur_index > Len(m_indexes))
  BY DEF NextInPass, memory, PassFinished
<1>2. /\ Len(m_features) \in Nat /\ Len(m_indexes) = Len(m_features)
      /\ m_indexes \in Bijection(1 .. Len(m_features), 1 .. Len(m_features))
      /\ m_cur_index \in 1 .. Len(m_features) + 1
  BY <1>1, PassFacts
<1>3. m_cur_index \in 1 .. Len(m_features)
  BY <1>1, <1>2
<1>4. /\ PassCurrent = m_indexes[m_cur_index]
      /\ PassVisited = {m_indexes[n] : n \in 1 .. m_cur_index}
      /\ Sentences = 1 .. Len(m_features)
  BY <1>1, <1>2, <1>3, PassLoaded
<1>5. /\ \A n \in 1 .. Len(m_features) : m_indexes[n] \in 1 .. Len(m_features)
      /\ \A m, n \in 1 .. Len(m_features) : m_indexes[m] = m_indexes[n] => m = n
      /\ \A t \in 1 .. Len(m_features) : \E n \in 1 .. Len(m_features) : m_indexes[n] = t
  BY <1>2 DEF Bijection, Injection, Surjection, IsInjective
<1>6. PassCurrent # 0
  BY <1>2, <1>3, <1>4, <1>5
<1>7. Len(m_indexes)' = Len(m_features)
  BY <1>1, <1>2
<1>8. CASE m_cur_index < Len(m_features)
  <2>1. m_cur_index' \in 1 .. Len(m_features) /\ ~PassFinished'
    BY <1>1, <1>2, <1>3, <1>7, <1>8 DEF PassFinished
  <2>2. PassCurrent' = m_indexes[m_cur_index + 1]
    BY <1>1, <2>1 DEF PassCurrent
  <2>3. PassVisited' = {m_indexes[n] : n \in 1 .. m_cur_index + 1}
    <3>1. PassVisited' = {m_indexes'[n] : n \in 1 .. m_cur_index' - 0}
      BY <1>1, <2>1, Zenon DEF PassVisited
    <3>2. m_cur_index' - 0 = m_cur_index + 1
      BY <1>1, <1>3
    <3> QED
      BY <1>1, <3>1, <3>2
  <2>4. PassCurrent' \in Sentences \ PassVisited /\ PassCurrent' # 0
    BY <1>1, <1>2, <1>3, <1>4, <1>5, <2>1, <2>2
  <2>5. PassVisited' = PassVisited \cup {PassCurrent'}
    <3>1. 1 .. m_cur_index + 1 = 1 .. m_cur_index \cup {m_cur_index + 1}
      BY <1>2, <1>3
    <3> QED
      BY <1>4, <2>2, <2>3, <3>1
  <2>6. /\ PassCurrent' \in IF Sentences \subseteq PassVisited THEN {0} ELSE Sentences \ PassVisited
        /\ PassVisited' = IF PassCurrent' = 0 THEN PassVisited ELSE PassVisited \cup {PassCurrent'}
        /\ UNCHANGED Sentences
    BY <2>4, <2>5
  <2> QED
    BY <1>6, <2>6 DEF Pass!ENext, Pass!Visit, Sentences, PassCurrent, PassVisited
<1>9. CASE m_cur_index = Len(m_features)
  <2>1. PassFinished'
    BY <1>1, <1>2, <1>7, <1>9 DEF PassFinished
  <2>2. PassCurrent' = 0
    BY <2>1 DEF PassCurrent
  <2>3. PassVisited' = PassVisited
    <3>1. PassVisited' = {m_indexes'[n] : n \in 1 .. m_cur_index' - 1}
      BY <1>1, <2>1, Zenon DEF PassVisited
    <3>2. m_cur_index' - 1 = m_cur_index
      BY <1>1, <1>3
    <3> QED
      BY <1>1, <1>4, <3>1, <3>2
  <2>4. Sentences \subseteq PassVisited
    BY <1>4, <1>5, <1>9
  <2>5. /\ PassCurrent' \in IF Sentences \subseteq PassVisited THEN {0} ELSE Sentences \ PassVisited
        /\ PassVisited' = IF PassCurrent' = 0 THEN PassVisited ELSE PassVisited \cup {PassCurrent'}
        /\ UNCHANGED Sentences
    BY <2>2, <2>3, <2>4
  <2> QED
    BY <1>6, <2>5 DEF Pass!ENext, Pass!Visit, Sentences, PassCurrent, PassVisited
<1> QED
  BY <1>2, <1>3, <1>8, <1>9

\* Every step of the enumerator is one of HypPackEnumerator, or shows nothing.
LEMMA PassStep ==
  StreamInv /\ MemoryInv /\ StreamInv' /\ MemoryInv' /\ [TNext]_tvars
    => [Pass!EReset \/ Pass!ENext]_(Pass!evars)
<1> SUFFICES ASSUME StreamInv, MemoryInv, StreamInv', MemoryInv', [TNext]_tvars
             PROVE  [Pass!EReset \/ Pass!ENext]_(Pass!evars)
  OBVIOUS
<1>1. Sentences' = Sentences
  BY StepStreams, StreamKeeps DEF Sentences
<1>2. ASSUME PassCurrent' = PassCurrent, PassVisited' = PassVisited
      PROVE  UNCHANGED Pass!evars
  BY <1>1, <1>2 DEF Pass!evars, Sentences, PassCurrent, PassVisited
<1>3. CASE ~loaded /\ ~loaded'
  <2>1. PassCurrent' = PassCurrent /\ PassVisited' = PassVisited
    BY <1>3 DEF PassCurrent, PassVisited
  <2> QED
    BY <1>2, <2>1
<1>4. CASE loaded' /\ m_cur_index' = 1 /\ (Loaded \/ ResetPass)
  <2>1. (StreamInv /\ MemoryInv /\ loaded /\ m_cur_index = 1)' =>
          (/\ PassCurrent \in Sentences /\ PassCurrent # 0
           /\ PassVisited = {PassCurrent} /\ Sentences # {})'
    BY PassStarts, PTL
  <2> QED
    BY <1>1, <1>4, <2>1, PassResets
<1>5. CASE NextInPass
  BY <1>1, <1>5, PassNexts
<1>6. CASE UNCHANGED tvars
  <2>1. UNCHANGED <<loaded, m_indexes, m_cur_index>>
    BY <1>6 DEF tvars, rvars, memory
  <2>2. PassCurrent' = PassCurrent /\ PassVisited' = PassVisited
    BY <2>1 DEF PassCurrent, PassVisited, PassFinished
  <2> QED
    BY <1>2, <2>2
<1>7. CASE StreamingStep
  BY <1>3, <1>7 DEF StreamingStep, MemoryInv, LoadedSoFar
<1>8. CASE RandomAccessStep
  <2>1. CASE Open
    <3>1. ~loaded /\ ~loaded'
      BY <2>1 DEF Open, MemoryInv, PassOrder
    <3> QED
      BY <1>3, <3>1
  <2>2. CASE Load
    BY <1>3, <2>2 DEF Load
  <2>3. CASE Loaded
    <3>1. /\ ~loaded /\ m_cur_index' = m_cur_index
          /\ loaded' = loaded \/ loaded' = TRUE
      BY <2>3, Zenon DEF Loaded
    <3>2. m_cur_index = 1
      BY <3>1 DEF MemoryInv, PassOrder
    <3> QED
      BY <1>3, <1>4, <2>3, <3>1, <3>2
  <2>4. CASE ResetPass
    BY <1>4, <2>4 DEF ResetPass
  <2> QED
    BY <1>5, <1>8, <2>1, <2>2, <2>3, <2>4 DEF RandomAccessStep, RNext
<1> QED
  BY <1>6, <1>7, <1>8 DEF TNext

-----------------------------------------------------------------------------
(* The theorems.                                                             *)

\* The invariants hold in every state of either enumerator.
LEMMA TrainInvariant == TSpec => [](StreamInv /\ MemoryInv)
<1>1. TInit => StreamInv /\ MemoryInv
  BY SInitInv, MemoryInit DEF TInit, RInit
<1> QED
  BY <1>1, TrainStep, PTL DEF TSpec

\* The vectors that prime() keeps and the score lines read later through the
\* iterators (HypPackEnumerator.cpp:50-112, 130-143) are of one hypothesis of
\* one sentence, whatever the files: lists that end early, sentences of other
\* sizes, files cut in the middle.
THEOREM PacksMatchScores == TSpec => []PackMatchesScores
<1> QED
  BY TrainInvariant, InvMatchesScores, PTL

\* The deduplication of prime() (HypPackEnumerator.cpp:66-85) loses no
\* hypothesis and leaves none twice, as long as no two hypotheses of the data
\* have one sparse vector, one hash and different dense vectors: operator==
\* compares a dense vector with itself.
THEOREM PacksAreDeduped == NoCollision => (TSpec => []PackIsDeduped)
<1> SUFFICES ASSUME NoCollision PROVE TSpec => []PackIsDeduped
  OBVIOUS
<1>1. StreamInv => PackIsDeduped
  BY InvIsDeduped
<1> QED
  BY <1>1, TrainInvariant, PTL

\* Whatever the shuffles, the memory of RandomAccessHypPackEnumerator
\* (HypPackEnumerator.cpp:156-213) pairs each vector with the score line of its
\* own hypothesis, and num_dense() is the length of them all.
THEOREM MemoryIsOfFiles == TSpec => []MemoryMatchesFiles
<1> QED
  BY TrainInvariant, InvMatchesFiles, PTL

\* reset() and next() of the streaming enumerator go once over the sentences of
\* the first feature file (HypPackEnumerator.cpp:114-128): it is a
\* HypPackEnumerator.
THEOREM StreamingEnumerates == TSpec => EnumeratesEverySentence
<1>1. TInit => Enumeration!EInit
  BY EnumerationStart DEF TInit, RInit
<1>2. StreamInv /\ [TNext]_tvars =>
        [Enumeration!EReset \/ Enumeration!ENext]_(Enumeration!evars)
  BY StepStreams, EnumerationStep
<1>3. TSpec => []StreamInv
  BY TrainInvariant, PTL
<1> QED
  BY <1>1, <1>2, <1>3, PTL DEF TSpec, EnumeratesEverySentence, Enumeration!ESpec

\* The permutation of RandomAccessHypPackEnumerator visits every sentence of
\* the data exactly once a pass (HypPackEnumerator.cpp:177-199): it is a
\* HypPackEnumerator too, of the sentences of the first file.
THEOREM RandomAccessEnumerates == TSpec => PassVisitsEverySentence
<1>1. TSpec => [](StreamInv /\ MemoryInv)
  BY TrainInvariant
<1> QED
  BY <1>1, PassStart, PassStep, PTL DEF TSpec, PassVisitsEverySentence, Pass!ESpec

-----------------------------------------------------------------------------
(* The scans of a pack.                                                    *)

\* After i-1 hypotheses of a pass each index is the best of those seen.
BestSoFar ==
  \A k \in 1 .. i - 1 :
    /\ HopeScore(k) <= HopeScore(hope_index)
    /\ FearScore(k) <= FearScore(fear_index)
    /\ score[k] <= score[model_index]

DInv ==
  /\ DTypeOK
  /\ i = 1 => pc = "scan"
  /\ i > 1 => BestSoFar
  /\ pc = "done" => i = size + 1
  /\ safe_loop = 0 => scale = [num |-> 1, den |-> 1]

-----------------------------------------------------------------------------
\* The scores of a hypothesis of the pack are integers.
LEMMA ScoresInt ==
  ASSUME DTypeOK, NEW k \in 1 .. size
  PROVE  HopeScore(k) \in Int /\ FearScore(k) \in Int /\ score[k] \in Int
<1>1. score[k] \in Int /\ bleu[k] \in Int /\ scale.num \in Int /\ scale.den \in Int
  BY DEF DTypeOK
<1> QED
  BY <1>1 DEF HopeScore, FearScore

\* The scan starts well typed, with nothing seen.
LEMMA DInitInv == DInit => DInv
<1> SUFFICES ASSUME DInit PROVE DInv
  OBVIOUS
<1>1. size \in Nat \ {0}
  BY DecoderAssumption DEF DInit
<1>2. score \in [1 .. size -> Int] /\ bleu \in [1 .. size -> Nat]
  BY DecoderAssumption DEF DInit
<1>3. scale \in [num : Nat, den : Nat \ {0}] /\ scale.num <= scale.den
  BY DEF DInit
<1> QED
  BY <1>1, <1>2, <1>3 DEF DInit, DInv, DTypeOK, BestSoFar

\* Scanning hypothesis i keeps the best of 1 .. i.
LEMMA ScanInv == DInv /\ Scan => DInv'
<1> SUFFICES ASSUME DInv, Scan PROVE DInv'
  OBVIOUS
<1>1. DTypeOK /\ i \in 1 .. size /\ i' = i + 1 /\ size \in Nat
  BY DEF DInv, DTypeOK, Scan
<1>2. DTypeOK'
  BY <1>1 DEF Scan, DTypeOK, input
<1>3. \A k \in 1 .. size : /\ HopeScore(k)' = scale.num * score[k] + scale.den * bleu[k]
                           /\ FearScore(k)' = FearScore(k)
                           /\ score'[k] = score[k]
  BY DEF Scan, input, HopeScore, FearScore
<1>4. ASSUME NEW k \in 1 .. i
      PROVE  /\ HopeScore(k) <= HopeScore(hope_index')
             /\ FearScore(k) <= FearScore(fear_index')
             /\ score[k] <= score[model_index']
  <2>1. /\ HopeScore(k) \in Int /\ FearScore(k) \in Int /\ score[k] \in Int
        /\ HopeScore(i) \in Int /\ FearScore(i) \in Int /\ score[i] \in Int
        /\ HopeScore(hope_index) \in Int /\ FearScore(fear_index) \in Int
        /\ score[model_index] \in Int
    <3>1. k \in 1 .. size
      BY <1>1
    <3>2. hope_index \in 1 .. size /\ fear_index \in 1 .. size /\ model_index \in 1 .. size
      BY <1>1 DEF DTypeOK
    <3> QED
      BY <1>1, <3>1, <3>2, ScoresInt
  <2>2. CASE i = 1
    BY <2>1, <2>2 DEF Scan
  <2>3. CASE i # 1 /\ k = i
    BY <2>1, <2>3 DEF Scan
  <2>4. CASE i # 1 /\ k # i
    <3>1. k \in 1 .. i - 1 /\ BestSoFar
      BY <1>1, <2>4 DEF DInv
    <3> QED
      BY <2>1, <2>4, <3>1 DEF Scan, BestSoFar
  <2> QED
    BY <2>2, <2>3, <2>4
<1>5. BestSoFar'
  <2>1. /\ hope_index' \in 1 .. size /\ fear_index' \in 1 .. size
        /\ model_index' \in 1 .. size
    BY <1>1 DEF Scan, DTypeOK
  <2>2. /\ HopeScore(hope_index)' = HopeScore(hope_index')
        /\ FearScore(fear_index)' = FearScore(fear_index')
        /\ score'[model_index'] = score[model_index']
    BY DEF Scan, input, HopeScore, FearScore
  <2>3. \A k \in 1 .. i : k \in 1 .. size
    BY <1>1 DEF DTypeOK
  <2>4. \A k \in 1 .. size : HopeScore(k)' = HopeScore(k)
    BY <1>3 DEF HopeScore
  <2>5. i' - 1 = i
    BY <1>1
  <2> QED
    BY <1>3, <1>4, <2>2, <2>3, <2>4, <2>5 DEF BestSoFar
<1> QED
  BY <1>1, <1>2, <1>5 DEF DInv, Scan

\* The smaller hope_scale is a fraction in [0, 1), and its pass starts afresh.
LEMMA RescaleInv == DInv /\ Rescale => DInv'
<1> SUFFICES ASSUME DInv, Rescale PROVE DInv'
  OBVIOUS
<1>1. DTypeOK /\ scale = [num |-> 1, den |-> 1] /\ size \in Nat
  BY DEF DInv, Rescale, DTypeOK
<1> DEFINE b == bleu[hope_index]
           m == score[hope_index]
<1>2. b \in Nat /\ m \in Int
  BY <1>1 DEF DTypeOK
<1>3. m # 0 /\ 5 * Abs(b) < Abs(m)
  BY <1>1, <1>2 DEF Rescale, Antagonistic, BLEU_RATIO, Abs
<1>4. 5 * Abs(b) \in Nat /\ Abs(m) \in Nat \ {0}
  BY <1>2, <1>3 DEF Abs
<1>5. scale' = [num |-> 5 * Abs(b), den |-> Abs(m)]
  BY DEF Rescale, NewScale, BLEU_RATIO
<1> HIDE DEF b, m
<1>6. scale' \in [num : Nat, den : Nat \ {0}] /\ scale'.num <= scale'.den
  BY <1>2, <1>3, <1>4, <1>5 DEF Abs
<1>7. /\ size' = size /\ score' = score /\ bleu' = bleu /\ safe_hope' = safe_hope
      /\ hope_index' = hope_index /\ fear_index' = fear_index
      /\ model_index' = model_index
      /\ pc' = "scan" /\ i' = 1 /\ safe_loop' = 1
  BY DEF Rescale, input
<1>8. DTypeOK'
  BY <1>1, <1>6, <1>7 DEF DTypeOK
<1> QED
  BY <1>7, <1>8 DEF DInv

\* Every step preserves the invariant.
LEMMA DNextInv == DInv /\ [DNext]_dvars => DInv'
<1> SUFFICES ASSUME DInv, [DNext]_dvars PROVE DInv'
  OBVIOUS
<1>1. CASE Scan
  BY <1>1, ScanInv
<1>2. CASE Rescale
  BY <1>2, RescaleInv
<1>3. CASE Break
  <2>1. /\ i > size /\ i \in 1 .. size + 1 /\ size \in Nat
        /\ UNCHANGED <<size, score, bleu, safe_hope, safe_loop, i, hope_index,
                        fear_index, model_index, scale>>
        /\ pc' = "done"
    BY <1>3 DEF DInv, DTypeOK, Break, input
  <2>2. i = size + 1
    BY <2>1
  <2>3. DTypeOK'
    BY <2>1 DEF DInv, DTypeOK
  <2>4. BestSoFar => BestSoFar'
    BY <2>1 DEF BestSoFar, HopeScore, FearScore
  <2>5. safe_loop' = safe_loop /\ scale' = scale /\ i' = i
    BY <2>1
  <2>6. i > 1 /\ i # 1
    BY <2>1, <2>2 DEF DInv, DTypeOK
  <2>7. BestSoFar'
    BY <2>4, <2>6 DEF DInv
  <2>8. safe_loop' = 0 => scale' = [num |-> 1, den |-> 1]
    BY <2>5 DEF DInv
  <2>9. i' = size' + 1 /\ i' # 1
    BY <2>1, <2>2, <2>6
  <2> QED
    BY <2>3, <2>7, <2>8, <2>9 DEF DInv
<1>4. CASE UNCHANGED dvars
  BY <1>4 DEF dvars, input, DInv, DTypeOK, BestSoFar, HopeScore, FearScore
<1> QED
  BY <1>1, <1>2, <1>3, <1>4 DEF DNext

\* The invariant at the end of the scan: each index is the best of the pack.
LEMMA BestOfPack ==
  ASSUME DInv, pc = "done", NEW k \in 1 .. size
  PROVE  /\ HopeScore(k) <= HopeScore(hope_index)
         /\ FearScore(k) <= FearScore(fear_index)
         /\ score[k] <= score[model_index]
<1>1. i = size + 1 /\ size \in Nat \ {0}
  BY DEF DInv, DTypeOK
<1>2. i > 1 /\ k \in 1 .. i - 1
  BY <1>1
<1> QED
  BY <1>2 DEF DInv, BestSoFar

\* Against a better model score, a greater weighted sum needs a better BLEU.
LEMMA BleuDecides ==
  ASSUME NEW n \in Nat, NEW d \in Nat \ {0},
         NEW sh \in Int, NEW bh \in Int, NEW sm \in Int, NEW bm \in Int,
         n * sm + d * bm <= n * sh + d * bh, sh <= sm
  PROVE  bm <= bh
<1>1. n * sh <= n * sm
  <2>1. n * (sm - sh) >= 0
    OBVIOUS
  <2> QED
    BY <2>1
<1>2. d * bm <= d * bh
  <2>1. n * sh \in Int /\ n * sm \in Int /\ d * bm \in Int /\ d * bh \in Int
    OBVIOUS
  <2> QED
    BY <1>1, <2>1
<1>3. ASSUME bh < bm PROVE FALSE
  <2>1. d * (bm - bh) > 0
    BY <1>3
  <2>2. d * (bm - bh) = d * bm - d * bh
    OBVIOUS
  <2>3. d * bm \in Int /\ d * bh \in Int
    OBVIOUS
  <2> QED
    BY <1>2, <2>1, <2>2, <2>3
<1> QED
  BY <1>3

\* The three hypotheses are in the order kbmira relies on, and the loss is not
\* negative.
LEMMA DInvSuffices == DInv => FearModelHope /\ LossNotNegative
<1> SUFFICES ASSUME DInv, pc = "done"
             PROVE  /\ bleu[fear_index] <= bleu[model_index]
                    /\ bleu[model_index] <= bleu[hope_index]
                    /\ Loss >= 0
  BY DEF FearModelHope, LossNotNegative
<1> DEFINE sh == score[hope_index]  sf == score[fear_index]  sm == score[model_index]
           bh == bleu[hope_index]   bf == bleu[fear_index]   bm == bleu[model_index]
<1>1. /\ hope_index \in 1 .. size /\ fear_index \in 1 .. size
      /\ model_index \in 1 .. size
  BY DEF DInv, DTypeOK
<1>2. /\ sh \in Int /\ sf \in Int /\ sm \in Int
      /\ bh \in Int /\ bf \in Int /\ bm \in Int
      /\ scale.num \in Nat /\ scale.den \in Nat \ {0}
  BY <1>1 DEF DInv, DTypeOK
<1>3. scale.num * sm + scale.den * bm <= scale.num * sh + scale.den * bh
  BY <1>1, BestOfPack DEF HopeScore
<1>4. sh <= sm /\ sf <= sm
  BY <1>1, BestOfPack
<1>5. sm - bm <= sf - bf /\ sh - bh <= sf - bf
  BY <1>1, BestOfPack DEF FearScore
<1> HIDE DEF sh, sf, sm, bh, bf, bm
<1>6. bm <= bh
  BY <1>2, <1>3, <1>4, BleuDecides
<1>7. bf <= bm
  BY <1>2, <1>4, <1>5
<1>8. (bh - bf) - (sh - sf) >= 0
  BY <1>2, <1>5
<1> QED
  BY <1>6, <1>7, <1>8 DEF sh, sf, sm, bh, bf, bm, Loss

\* The indexes never leave the pack and hope_scale stays in [0, 1].
THEOREM DecoderTypes == DSpec => []DTypeOK
<1>1. DInv => DTypeOK
  BY DEF DInv
<1> QED
  BY <1>1, DInitInv, DNextInv, PTL DEF DSpec

\* The hope is no worse a translation than the model's choice, the fear no
\* better, with or without safe_hope.
THEOREM HopeBeatsFear == DSpec => []FearModelHope
<1> QED
  BY DInitInv, DNextInv, DInvSuffices, PTL DEF DSpec

\* The loss of an update is never negative.
THEOREM LossIsNotNegative == DSpec => []LossNotNegative
<1> QED
  BY DInitInv, DNextInv, DInvSuffices, PTL DEF DSpec

=============================================================================
