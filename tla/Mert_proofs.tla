---------------------------- MODULE Mert_proofs ----------------------------
(***************************************************************************)
(* The theorems about mert's data: the pairs of translations pro keeps are *)
(* those that differ most, and the shards the optimizers work on are the   *)
(* data, for n-best lists, files and settings of any size.                 *)
(***************************************************************************)
EXTENDS Mert, Folding

\* A list of places names each of them once, the least first.
LEMMA InOrderLists ==
  ASSUME NEW D, D \subseteq Nat, IsFiniteSet(D)
  PROVE  /\ Cardinality(D) \in Nat
         /\ InOrder(D) \in [1 .. Cardinality(D) -> D]
         /\ Len(InOrder(D)) = Cardinality(D)
         /\ \A k, l \in 1 .. Cardinality(D) : InOrder(D)[k] = InOrder(D)[l] => k = l
         /\ \A i \in D : \E k \in 1 .. Cardinality(D) : InOrder(D)[k] = i
<1> DEFINE n == Cardinality(D)
           Of(k) == CHOOSE i \in D : Cardinality({j \in D : j < i}) = k - 1
<1>1. /\ n \in Nat
      /\ \A p \in D : Rank(D, p) \in 0 .. n - 1
      /\ \A p, q \in D : Rank(D, p) = Rank(D, q) => p = q
      /\ \A m \in 0 .. n - 1 : \E p \in D : Rank(D, p) = m
  BY RanksAreAll
<1>2. InOrder(D) = [k \in 1 .. n |-> Of(k)]
  BY DEF InOrder
<1> HIDE DEF n
<1>3. ASSUME NEW k \in 1 .. n PROVE Of(k) \in D /\ Rank(D, Of(k)) = k - 1
  <2>1. k - 1 \in 0 .. n - 1
    BY <1>1
  <2>2. PICK p \in D : Rank(D, p) = k - 1
    BY <1>1, <2>1
  <2>3. Cardinality({j \in D : j < p}) = k - 1
    BY <2>2 DEF Rank
  <2>4. Of(k) \in D /\ Cardinality({j \in D : j < Of(k)}) = k - 1
    BY <2>3
  <2> HIDE DEF Of
  <2> QED
    BY <2>4 DEF Rank
<1> HIDE DEF Of
<1>4. InOrder(D) \in [1 .. n -> D]
  BY <1>2, <1>3
<1>5. Len(InOrder(D)) = n
  BY <1>1, <1>2
<1>6. ASSUME NEW k \in 1 .. n, NEW l \in 1 .. n, InOrder(D)[k] = InOrder(D)[l] PROVE k = l
  <2>1. Rank(D, Of(k)) = k - 1 /\ Rank(D, Of(l)) = l - 1 /\ Of(k) = Of(l)
    BY <1>2, <1>3, <1>6
  <2> QED
    BY <2>1
<1>7. ASSUME NEW i \in D PROVE \E k \in 1 .. n : InOrder(D)[k] = i
  <2> DEFINE k == Rank(D, i) + 1
  <2>1. k \in 1 .. n /\ k - 1 = Rank(D, i)
    BY <1>1
  <2>2. Of(k) \in D /\ Rank(D, Of(k)) = Rank(D, i)
    BY <1>3, <2>1
  <2>3. Of(k) = i
    BY <1>1, <2>2
  <2> QED
    BY <1>2, <2>1, <2>3
<1> QED
  BY <1>1, <1>4, <1>5, <1>6, <1>7 DEF n
-----------------------------------------------------------------------------
(* Sampling.                                                                 *)

\* Of more numbers than are wanted there is one that enough numbers reach and
\* too few exceed.
LEMMA NthExists ==
  ASSUME NEW n \in Nat, NEW s, DOMAIN s = 1 .. n, \A k \in 1 .. n : s[k].diff \in Int,
         NEW m \in Nat \ {0}, m <= n
  PROVE  \E d \in {s[k].diff : k \in DOMAIN s} :
           Cardinality(Exceed(s, d)) < m /\ m <= Cardinality(Reach(s, d))
<1> DEFINE D == {s[k].diff : k \in DOMAIN s}
           f == [k \in 1 .. n |-> s[k].diff]
           Often == {d \in D : m <= Cardinality(Reach(s, d))}
<1>1. IsFiniteSet(1 .. n) /\ Cardinality(1 .. n) = n
  <2>1. 1 \in Int /\ n \in Int
    OBVIOUS
  <2>2. /\ IsFiniteSet(1 .. n)
        /\ Cardinality(1 .. n) = IF 1 > n THEN 0 ELSE n - 1 + 1
    BY <2>1, FS_Interval
  <2> QED
    BY <2>2
<1>2. D \subseteq Int /\ D = {f[k] : k \in 1 .. n}
  OBVIOUS
<1>3. IsFiniteSet(D)
  <2> HIDE DEF D, f
  <2>1. IsFiniteSet({f[k] : k \in 1 .. n})
    BY <1>1, ValuesAreFinite
  <2> QED
    BY <1>2, <2>1
<1>4. D # {}
  <2>1. s[1].diff \in D
    OBVIOUS
  <2> QED
    BY <2>1
<1>5. \A d \in D : Reach(s, d) \in SUBSET (1 .. n) /\ Exceed(s, d) \in SUBSET (1 .. n)
  BY DEF Reach, Exceed
<1>6. \A d \in D : /\ IsFiniteSet(Reach(s, d)) /\ Cardinality(Reach(s, d)) \in Nat
                   /\ IsFiniteSet(Exceed(s, d)) /\ Cardinality(Exceed(s, d)) \in Nat
  <2> HIDE DEF D
  <2> QED
    BY <1>1, <1>5, FS_Subset, FS_CardinalityType
<1>7. Often # {}
  <2> DEFINE N == {-d : d \in D}
             e == -Max(N)
  <2>1. \A x \in N : x \in Int
    BY <1>2
  <2>2. IsFiniteSet(N) /\ N # {}
    <3> DEFINE g == [d \in D |-> -d]
    <3>1. N = {g[d] : d \in D}
      OBVIOUS
    <3>2. N # {}
      BY <1>4
    <3> HIDE DEF N, g, D
    <3>3. IsFiniteSet({g[d] : d \in D})
      BY <1>3, ValuesAreFinite
    <3> QED
      BY <3>1, <3>2, <3>3
  <2>3. Max(N) \in N /\ \A x \in N : x <= Max(N)
    <3> HIDE DEF N
    <3> QED
      BY <2>1, <2>2, MaxOfNumbers
  <2>4. e \in D /\ \A d \in D : e <= d
    <3>1. PICK d \in D : Max(N) = -d
      BY <2>3
    <3>2. d \in Int /\ e = d
      BY <1>2, <3>1
    <3>3. ASSUME NEW c \in D PROVE d <= c
      <4>1. -c \in N
        OBVIOUS
      <4>2. -c <= Max(N) /\ c \in Int
        BY <1>2, <2>3, <4>1
      <4> QED
        BY <3>1, <3>2, <4>2
    <3> QED
      BY <3>2, <3>3
  <2> HIDE DEF e, N
  <2>5. Reach(s, e) = 1 .. n
    <3>1. \A k \in 1 .. n : s[k].diff \in D
      OBVIOUS
    <3>2. e \in Int
      BY <1>2, <2>4
    <3>3. \A k \in 1 .. n : s[k].diff >= e
      BY <2>4, <3>1, <3>2
    <3> QED
      BY <3>3 DEF Reach
  <2> QED
    BY <1>1, <2>4, <2>5
<1>8. IsFiniteSet(Often) /\ \A d \in Often : d \in Int
  <2>1. Often \in SUBSET D
    OBVIOUS
  <2> HIDE DEF Often, D
  <2> QED
    BY <1>2, <1>3, <2>1, FS_Subset
<1>9. Max(Often) \in Often /\ \A d \in Often : d <= Max(Often)
  <2> HIDE DEF Often
  <2> QED
    BY <1>7, <1>8, MaxOfNumbers
<1> DEFINE d == Max(Often)
<1>10. d \in D /\ m <= Cardinality(Reach(s, d)) /\ d \in Int
  BY <1>8, <1>9
<1>11. \A c \in D : c > d => ~(m <= Cardinality(Reach(s, c)))
  <2>1. ASSUME NEW c \in D, c > d, m <= Cardinality(Reach(s, c)) PROVE FALSE
    <3>1. c \in Often /\ c \in Int
      BY <1>2, <2>1
    <3>2. c <= d
      BY <1>9, <3>1
    <3> QED
      BY <1>10, <2>1, <3>1, <3>2
  <2> QED
    BY <2>1
<1> HIDE DEF d, Often
<1>12. Cardinality(Exceed(s, d)) < m
  <2>1. CASE Exceed(s, d) = {}
    BY <2>1, FS_EmptySet
  <2>2. CASE Exceed(s, d) # {}
    <3> DEFINE A == {-s[k].diff : k \in Exceed(s, d)}
               h == [k \in Exceed(s, d) |-> -s[k].diff]
    <3>1. Exceed(s, d) \in SUBSET (1 .. n)
      BY <1>5, <1>10
    <3>2. A = {h[k] : k \in Exceed(s, d)} /\ A # {} /\ \A x \in A : x \in Int
      BY <2>2, <3>1
    <3>3. IsFiniteSet(A)
      <4> HIDE DEF A, h
      <4>1. IsFiniteSet({h[k] : k \in Exceed(s, d)})
        BY <1>6, <1>10, ValuesAreFinite
      <4> QED
        BY <3>2, <4>1
    <3>4. Max(A) \in A /\ \A x \in A : x <= Max(A)
      <4> HIDE DEF A
      <4> QED
        BY <3>2, <3>3, MaxOfNumbers
    <3>5. PICK k \in Exceed(s, d) : Max(A) = -s[k].diff
      BY <3>4
    <3>6. k \in 1 .. n /\ s[k].diff \in D /\ s[k].diff > d /\ s[k].diff \in Int
      BY <3>1 DEF Exceed
    <3>7. \A j \in Exceed(s, d) : s[k].diff <= s[j].diff
      <4>1. ASSUME NEW j \in Exceed(s, d) PROVE s[k].diff <= s[j].diff
        <5>1. -s[j].diff \in A /\ s[j].diff \in Int
          BY <3>1
        <5>2. -s[j].diff <= -s[k].diff
          BY <3>4, <3>5, <5>1
        <5> QED
          BY <3>6, <5>1, <5>2
      <4> QED
        BY <4>1
    <3>8. Exceed(s, d) = Reach(s, s[k].diff)
      <4>1. ASSUME NEW j \in 1 .. n PROVE s[j].diff > d <=> s[j].diff >= s[k].diff
        <5>1. s[j].diff \in Int /\ s[k].diff \in Int /\ d \in Int
          BY <1>10, <3>6
        <5>2. s[j].diff > d => j \in Exceed(s, d)
          BY DEF Exceed
        <5> QED
          BY <3>6, <3>7, <5>1, <5>2
      <4> QED
        BY <4>1 DEF Exceed, Reach
    <3>9. ~(m <= Cardinality(Reach(s, s[k].diff)))
      BY <1>11, <3>6
    <3>10. Cardinality(Reach(s, s[k].diff)) \in Nat
      BY <1>6, <3>6
    <3> QED
      BY <3>8, <3>9, <3>10
  <2> QED
    BY <2>1, <2>2
<1> QED
  BY <1>10, <1>12

\* Both translations of every pair have numbers as scores.
Scored(stats, drawn) ==
  \A i \in DOMAIN drawn : \A k \in {1, 2} : SentenceScore(stats[drawn[i][k]]) \in Int

\* How much better the first of a pair is, and how much the two differ.
Better(stats, d) == SentenceScore(stats[d[1]]) - SentenceScore(stats[d[2]])
Apart(stats, d) == Max({Better(stats, d), -Better(stats, d)})

\* Of a difference and its opposite the greater is the one that is not negative.
LEMMA ApartIs ==
  ASSUME NEW stats, NEW d, \A k \in {1, 2} : SentenceScore(stats[d[k]]) \in Int
  PROVE  /\ Better(stats, d) \in Int
         /\ Apart(stats, d) = IF Better(stats, d) > 0 THEN Better(stats, d) ELSE -Better(stats, d)
<1> DEFINE b == Better(stats, d)
           S == {b, -b}
           m == IF b > 0 THEN b ELSE -b
<1>1. b \in Int
  BY DEF Better
<1>2. Apart(stats, d) = Max(S)
  BY DEF Apart
<1> HIDE DEF b
<1>3. m \in S /\ \A y \in S : y \in Int /\ y <= m
  BY <1>1
<1> HIDE DEF S, m
<1>4. Max(S) = m
  BY <1>3, MaxIs
<1> QED
  BY <1>1, <1>2, <1>4 DEF m, b

\* The places of the pairs that are far enough apart.
Distinct(drawn, stats) == {i \in DOMAIN drawn : Apart(stats, drawn[i]) >= MinDiff}

\* The samples are those pairs in the order they were drawn, the better first.
LEMMA SamplesAre ==
  ASSUME NEW stats, NEW n \in Nat, NEW drawn, DOMAIN drawn = 1 .. n, Scored(stats, drawn)
  PROVE  LET at == InOrder(Distinct(drawn, stats))
             samples == Samples(drawn, stats)
         IN /\ Distinct(drawn, stats) \in SUBSET (1 .. n)
            /\ DOMAIN samples = 1 .. Cardinality(Distinct(drawn, stats))
            /\ \A k \in 1 .. Cardinality(Distinct(drawn, stats)) :
                 /\ samples[k].diff = Apart(stats, drawn[at[k]])
                 /\ samples[k].diff
                      = SentenceScore(stats[samples[k].better])
                          - SentenceScore(stats[samples[k].worse])
<1> DEFINE D == Distinct(drawn, stats)
           at == InOrder(D)
           Diff(d) == Better(stats, d)
<1>1. D \in SUBSET (1 .. n)
  BY DEF Distinct
<1>2. D = {i \in DOMAIN drawn : Diff(drawn[i]) >= MinDiff \/ -Diff(drawn[i]) >= MinDiff}
  <2>1. ASSUME NEW i \in DOMAIN drawn
        PROVE  Apart(stats, drawn[i]) >= MinDiff
                 <=> Diff(drawn[i]) >= MinDiff \/ -Diff(drawn[i]) >= MinDiff
    <3>1. /\ Diff(drawn[i]) \in Int
          /\ Apart(stats, drawn[i]) = IF Diff(drawn[i]) > 0 THEN Diff(drawn[i]) ELSE -Diff(drawn[i])
      BY ApartIs DEF Scored
    <3>2. MinDiff \in Nat \ {0}
      BY ProAssumption
    <3> HIDE DEF Diff
    <3> QED
      BY <3>1, <3>2
  <2> QED
    BY <2>1 DEF Distinct
<1>3. Samples(drawn, stats)
        = [k \in DOMAIN at |-> SampledPair(drawn[at[k]][1], drawn[at[k]][2], Diff(drawn[at[k]]))]
  BY <1>2 DEF Samples, Better
<1>4. /\ Cardinality(D) \in Nat /\ at \in [1 .. Cardinality(D) -> D]
  <2>1. IsFiniteSet(1 .. n)
    BY FS_Interval
  <2>2. D \subseteq Nat /\ IsFiniteSet(D)
    <3>1. \A i \in 1 .. n : i \in Nat
      OBVIOUS
    <3> HIDE DEF D
    <3> QED
      BY <1>1, <2>1, <3>1, FS_Subset
  <2> HIDE DEF D
  <2> QED
    BY <2>2, InOrderLists
<1>5. ASSUME NEW d, \A k \in {1, 2} : SentenceScore(stats[d[k]]) \in Int
      PROVE  LET s == SampledPair(d[1], d[2], Diff(d))
             IN /\ s.diff = Apart(stats, d)
                /\ s.diff = SentenceScore(stats[s.better]) - SentenceScore(stats[s.worse])
  <2>1. /\ Diff(d) \in Int
        /\ Apart(stats, d) = IF Diff(d) > 0 THEN Diff(d) ELSE -Diff(d)
        /\ SentenceScore(stats[d[1]]) \in Int /\ SentenceScore(stats[d[2]]) \in Int
        /\ Diff(d) = SentenceScore(stats[d[1]]) - SentenceScore(stats[d[2]])
    BY <1>5, ApartIs DEF Better
  <2> HIDE DEF Diff
  <2>2. CASE Diff(d) > 0
    BY <2>1, <2>2 DEF SampledPair
  <2>3. CASE ~(Diff(d) > 0)
    BY <2>1, <2>3 DEF SampledPair
  <2> QED
    BY <2>2, <2>3
<1> HIDE DEF D, at, Diff
<1>6. DOMAIN Samples(drawn, stats) = 1 .. Cardinality(D)
  BY <1>3, <1>4
<1>7. ASSUME NEW k \in 1 .. Cardinality(D)
      PROVE  /\ Samples(drawn, stats)[k].diff = Apart(stats, drawn[at[k]])
             /\ Samples(drawn, stats)[k].diff
                  = SentenceScore(stats[Samples(drawn, stats)[k].better])
                      - SentenceScore(stats[Samples(drawn, stats)[k].worse])
  <2> DEFINE s == SampledPair(drawn[at[k]][1], drawn[at[k]][2], Diff(drawn[at[k]]))
  <2>1. Samples(drawn, stats)[k] = s
    BY <1>3, <1>4
  <2>2. at[k] \in DOMAIN drawn
    BY <1>1, <1>4
  <2>3. /\ s.diff = Apart(stats, drawn[at[k]])
        /\ s.diff = SentenceScore(stats[s.better]) - SentenceScore(stats[s.worse])
    BY <1>5, <2>2 DEF Scored
  <2> HIDE DEF s
  <2> QED
    BY <2>1, <2>3
<1> QED
  BY <1>1, <1>6, <1>7 DEF D, at

\* Of the pairs that are far enough apart those that differ most are kept, as
\* many as are asked for or as there are.
LEMMA CollectedAreBest ==
  ASSUME NEW stats, NEW n \in Nat, NEW drawn, DOMAIN drawn = 1 .. n, Scored(stats, drawn)
  PROVE  LET kept == Collected(Samples(drawn, stats))
             Worth(p) == SentenceScore(stats[p.better]) - SentenceScore(stats[p.worse])
         IN /\ Len(kept) = Min({NSamples, Cardinality(Distinct(drawn, stats))})
            /\ \A k \in DOMAIN kept :
                 /\ Worth(kept[k]) >= MinDiff
                 /\ Cardinality({i \in Distinct(drawn, stats) :
                                   Apart(stats, drawn[i]) > Worth(kept[k])}) < NSamples
<1> DEFINE D == Distinct(drawn, stats)
           at == InOrder(D)
           s == Samples(drawn, stats)
           m == Cardinality(D)
           t == Threshold(s)
           R == Reach(s, t)
           reach == InOrder(R)
           kept == Collected(s)
           Worth(p) == SentenceScore(stats[p.better]) - SentenceScore(stats[p.worse])
           Beyond(e) == {i \in D : Apart(stats, drawn[i]) > e}
<1>1. /\ D \in SUBSET (1 .. n) /\ DOMAIN s = 1 .. m
      /\ \A k \in 1 .. m : s[k].diff = Apart(stats, drawn[at[k]]) /\ s[k].diff = Worth(s[k])
  BY SamplesAre
<1>2. \A i \in D : Apart(stats, drawn[i]) \in Int /\ Apart(stats, drawn[i]) >= MinDiff
  <2>1. ASSUME NEW i \in D PROVE Apart(stats, drawn[i]) \in Int
    BY ApartIs DEF Distinct, Scored
  <2> QED
    BY <2>1 DEF Distinct
<1>3. NSamples \in Nat \ {0} /\ MinDiff \in Nat \ {0}
  BY ProAssumption
<1>4. IsFiniteSet(D) /\ D \subseteq Nat
  <2>1. IsFiniteSet(1 .. n) /\ \A i \in 1 .. n : i \in Nat
    BY FS_Interval
  <2> HIDE DEF D
  <2> QED
    BY <1>1, <2>1, FS_Subset
<1> HIDE DEF D
<1>5. /\ m \in Nat /\ at \in [1 .. m -> D]
      /\ \A k, l \in 1 .. m : at[k] = at[l] => k = l
      /\ \A i \in D : \E k \in 1 .. m : at[k] = i
  BY <1>4, InOrderLists
<1> HIDE DEF at, m, s, Worth
<1>6. ASSUME NEW k \in 1 .. m PROVE s[k].diff \in Int /\ s[k].diff >= MinDiff
  <2>1. at[k] \in D /\ s[k].diff = Apart(stats, drawn[at[k]])
    BY <1>1, <1>5
  <2> QED
    BY <1>2, <2>1
<1>7. ASSUME NEW e
      PROVE  Cardinality(Beyond(e)) = Cardinality(Exceed(s, e))
  <2> DEFINE f == [k \in Exceed(s, e) |-> at[k]]
  <2>1. Exceed(s, e) \in SUBSET (1 .. m)
    BY <1>1 DEF Exceed
  <2>2. f \in [Exceed(s, e) -> Beyond(e)]
    BY <1>1, <1>5, <2>1 DEF Exceed
  <2>3. \A k, l \in Exceed(s, e) : f[k] = f[l] => k = l
    BY <1>5, <2>1
  <2>4. \A i \in Beyond(e) : \E k \in Exceed(s, e) : f[k] = i
    <3>1. ASSUME NEW i \in Beyond(e) PROVE \E k \in Exceed(s, e) : f[k] = i
      <4>1. PICK k \in 1 .. m : at[k] = i
        BY <1>5
      <4>2. k \in Exceed(s, e)
        BY <1>1, <4>1 DEF Exceed
      <4> QED
        BY <4>1, <4>2
    <3> QED
      BY <3>1
  <2>5. IsFiniteSet(1 .. m)
    BY <1>5, FS_Interval
  <2>6. IsFiniteSet(Exceed(s, e)) /\ IsFiniteSet(Beyond(e))
    <3>1. Beyond(e) \in SUBSET D
      OBVIOUS
    <3> HIDE DEF Beyond
    <3> QED
      BY <1>4, <2>1, <2>5, <3>1, FS_Subset
  <2> HIDE DEF f, Beyond
  <2>7. f \in Bijection(Exceed(s, e), Beyond(e))
    BY <2>2, <2>3, <2>4, Fun_IsBij
  <2> QED
    BY <2>6, <2>7, FS_Bijection DEF ExistsBijection
<1> HIDE DEF Beyond
<1>8. /\ \A k \in R : Cardinality(Beyond(s[k].diff)) < NSamples
      /\ R \in SUBSET (1 .. m)
      /\ Min({NSamples, Cardinality(R)}) = Min({NSamples, m})
  <2>1. Len(s) = m
    <3>1. s = [k \in 1 .. m |-> s[k]]
      BY <1>1 DEF s, Samples
    <3> QED
      BY <1>5, <3>1
  <2>2. R \in SUBSET (1 .. m)
    BY <1>1 DEF Reach
  <2>3. CASE m <= NSamples
    <3>1. t = 0
      BY <2>1, <2>3 DEF Threshold
    <3>2. R = 1 .. m
      BY <1>1, <1>3, <1>6, <3>1 DEF Reach
    <3>3. Cardinality(R) = m /\ IsFiniteSet(R)
      <4>1. 1 \in Int /\ m \in Int
        BY <1>5
      <4>2. /\ IsFiniteSet(1 .. m)
            /\ Cardinality(1 .. m) = IF 1 > m THEN 0 ELSE m - 1 + 1
        BY <4>1, FS_Interval
      <4> QED
        BY <1>5, <3>2, <4>2
    <3>4. ASSUME NEW k \in R PROVE Cardinality(Beyond(s[k].diff)) < NSamples
      <4> DEFINE E == Exceed(s, s[k].diff)
      <4>1. E \in SUBSET R /\ k \notin E
        BY <1>1, <1>6, <3>2 DEF Exceed
      <4> HIDE DEF E
      <4>2. IsFiniteSet(E) /\ Cardinality(E) <= Cardinality(R) /\ Cardinality(E) # Cardinality(R)
        BY <3>3, <4>1, FS_Subset
      <4>3. Cardinality(E) \in Nat
        BY <4>2, FS_CardinalityType
      <4>4. Cardinality(Beyond(s[k].diff)) = Cardinality(E)
        BY <1>7 DEF E
      <4> QED
        BY <1>3, <1>5, <2>3, <3>3, <4>2, <4>3, <4>4
    <3> QED
      BY <2>2, <3>3, <3>4
  <2>4. CASE ~(m <= NSamples)
    <3>1. NSamples <= m
      BY <1>3, <1>5, <2>4
    <3>2. \E d \in {s[k].diff : k \in DOMAIN s} :
            Cardinality(Exceed(s, d)) < NSamples /\ NSamples <= Cardinality(Reach(s, d))
      BY <1>1, <1>3, <1>5, <1>6, <3>1, NthExists
    <3>3. t = CHOOSE d \in {s[k].diff : k \in DOMAIN s} :
                Cardinality(Exceed(s, d)) < NSamples /\ NSamples <= Cardinality(Reach(s, d))
      BY <2>1, <2>4 DEF Threshold
    <3>4. /\ t \in {s[k].diff : k \in DOMAIN s}
          /\ Cardinality(Exceed(s, t)) < NSamples /\ NSamples <= Cardinality(R)
      BY <3>2, <3>3
    <3>5. t \in Int
      BY <1>1, <1>6, <3>4
    <3> HIDE DEF t
    <3>6. IsFiniteSet(1 .. m)
      BY <1>5, FS_Interval
    <3>7. ASSUME NEW k \in R PROVE Cardinality(Beyond(s[k].diff)) < NSamples
      <4> DEFINE E == Exceed(s, s[k].diff)
                 F == Exceed(s, t)
      <4>1. s[k].diff >= t /\ s[k].diff \in Int
        BY <1>1, <1>6, <2>2 DEF Reach
      <4>2. E \in SUBSET F /\ F \in SUBSET (1 .. m)
        BY <1>1, <1>6, <3>5, <4>1 DEF Exceed
      <4> HIDE DEF E, F
      <4>3. IsFiniteSet(F)
        BY <3>6, <4>2, FS_Subset
      <4>4. IsFiniteSet(E) /\ Cardinality(E) <= Cardinality(F)
        BY <4>2, <4>3, FS_Subset
      <4>5. Cardinality(E) \in Nat /\ Cardinality(F) \in Nat
        BY <4>3, <4>4, FS_CardinalityType
      <4>6. Cardinality(Beyond(s[k].diff)) = Cardinality(E) /\ Cardinality(F) < NSamples
        BY <1>7, <3>4 DEF E, F
      <4> QED
        BY <1>3, <4>4, <4>5, <4>6
    <3>8. IsFiniteSet(R) /\ Cardinality(R) \in Nat
      <4> HIDE DEF R
      <4> QED
        BY <2>2, <3>6, FS_Subset, FS_CardinalityType
    <3>9. Min({NSamples, Cardinality(R)}) = NSamples /\ Min({NSamples, m}) = NSamples
      <4>1. ASSUME NEW c \in Nat, NSamples <= c PROVE Min({NSamples, c}) = NSamples
        <5>1. \A y \in {NSamples, c} : NSamples <= y
          BY <1>3, <4>1
        <5>2. /\ Min({NSamples, c}) \in {NSamples, c}
              /\ \A y \in {NSamples, c} : Min({NSamples, c}) <= y
          BY <5>1 DEF Min
        <5> QED
          BY <1>3, <4>1, <5>2
      <4> HIDE DEF R, m
      <4> QED
        BY <1>5, <3>1, <3>4, <3>8, <4>1
    <3> QED
      BY <2>2, <3>7, <3>9
  <2> QED
    BY <2>3, <2>4
<1>9. /\ Cardinality(R) \in Nat /\ reach \in [1 .. Cardinality(R) -> R]
      /\ Len(reach) = Cardinality(R)
  <2>1. IsFiniteSet(1 .. m) /\ \A k \in 1 .. m : k \in Nat
    BY <1>5, FS_Interval
  <2> HIDE DEF R
  <2>2. R \subseteq Nat /\ IsFiniteSet(R)
    BY <1>8, <2>1, FS_Subset
  <2> QED
    BY <2>2, InOrderLists
<1> HIDE DEF reach, R, t
<1>10. kept = [k \in 1 .. Min({NSamples, Len(reach)}) |-> s[reach[k]]]
  BY DEF Collected, reach, R, t
<1> DEFINE l == Min({NSamples, m})
<1>11. l \in Nat /\ l <= Cardinality(R)
  <2>1. ASSUME NEW c \in Nat PROVE Min({NSamples, c}) \in Nat /\ Min({NSamples, c}) <= c
    <3> DEFINE S == {NSamples, c}
               b == IF NSamples <= c THEN NSamples ELSE c
    <3>1. b \in S /\ \A y \in S : b <= y
      BY <1>3
    <3> HIDE DEF b
    <3>2. Min(S) \in S /\ \A y \in S : Min(S) <= y
      BY <3>1 DEF Min
    <3> QED
      BY <1>3, <3>2
  <2>2. l \in Nat
    BY <1>5, <2>1
  <2>3. Min({NSamples, Cardinality(R)}) <= Cardinality(R)
    BY <1>9, <2>1
  <2> QED
    BY <1>8, <2>2, <2>3
<1>12. kept = [k \in 1 .. l |-> s[reach[k]]]
  BY <1>8, <1>9, <1>10
<1> HIDE DEF kept, l
<1>13. Len(kept) = l /\ DOMAIN kept = 1 .. l
  BY <1>11, <1>12
<1>14. ASSUME NEW k \in DOMAIN kept
       PROVE  Worth(kept[k]) >= MinDiff /\ Cardinality(Beyond(Worth(kept[k]))) < NSamples
  <2>1. k \in 1 .. l /\ k \in 1 .. Cardinality(R)
    BY <1>9, <1>11, <1>13
  <2>2. reach[k] \in R /\ reach[k] \in 1 .. m /\ kept[k] = s[reach[k]]
    BY <1>8, <1>9, <1>12, <2>1
  <2>3. Worth(kept[k]) = s[reach[k]].diff
    BY <1>1, <2>2
  <2> QED
    BY <1>6, <1>8, <2>2, <2>3
<1> QED
  BY <1>13, <1>14 DEF l, D, m, s, kept, Worth, Beyond

\* The sentence that pro has sampled last, from all its files.
LEMMA SampledRight ==
  ASSUME NEW stats, NEW n \in Nat, NEW drawn, DOMAIN drawn = 1 .. n, Scored(stats, drawn),
         NEW place,
         pro' = [place |-> place, stats |-> stats, drawn |-> drawn,
                 kept |-> Collected(Samples(drawn, stats))]
  PROVE  SamplesAreBest'
<1> DEFINE Worth(p) == SentenceScore(stats[p.better]) - SentenceScore(stats[p.worse])
           kept == Collected(Samples(drawn, stats))
           Gap(st, d) == Max({SentenceScore(st[d[1]]) - SentenceScore(st[d[2]]),
                              -(SentenceScore(st[d[1]]) - SentenceScore(st[d[2]]))})
           Farthest(st, dr) == {i \in DOMAIN dr : Gap(st, dr[i]) >= MinDiff}
           Best(st, dr, ks) ==
             /\ Len(ks) = Min({NSamples, Cardinality(Farthest(st, dr))})
             /\ \A k \in DOMAIN ks :
                  /\ SentenceScore(st[ks[k].better]) - SentenceScore(st[ks[k].worse]) >= MinDiff
                  /\ Cardinality({i \in Farthest(st, dr) :
                         Gap(st, dr[i]) > SentenceScore(st[ks[k].better])
                                            - SentenceScore(st[ks[k].worse])}) < NSamples
<1>1. /\ Len(kept) = Min({NSamples, Cardinality(Distinct(drawn, stats))})
      /\ \A k \in DOMAIN kept :
           /\ Worth(kept[k]) >= MinDiff
           /\ Cardinality({i \in Distinct(drawn, stats) :
                             Apart(stats, drawn[i]) > Worth(kept[k])}) < NSamples
  BY CollectedAreBest
<1>2. /\ pro'.stats = stats /\ pro'.drawn = drawn /\ pro'.kept = kept
  OBVIOUS
<1> HIDE DEF kept
<1>3. Distinct(drawn, stats) = Farthest(stats, drawn)
  BY DEF Distinct, Apart, Better
<1>4. \A i \in DOMAIN drawn : Apart(stats, drawn[i]) = Gap(stats, drawn[i])
  BY DEF Apart, Better
<1> HIDE DEF Gap
<1>5. ASSUME NEW e
      PROVE  {i \in Distinct(drawn, stats) : Apart(stats, drawn[i]) > e}
               = {i \in Farthest(stats, drawn) : Gap(stats, drawn[i]) > e}
  BY <1>3, <1>4
<1> HIDE DEF Farthest
<1>6. Best(stats, drawn, kept)
  BY <1>1, <1>3, <1>5
<1> HIDE DEF Best
<1>7. Best(pro'.stats, pro'.drawn, pro'.kept)
  BY <1>2, <1>6
<1> QED
  BY <1>7 DEF SamplesAreBest, Best, Farthest, Gap

\* The scores of the pairs drawn from the sentence read last are numbers.
ScoresAreNumbers == pro # None => Scored(pro.stats, pro.drawn)

\* For every number of candidates and samples, however many files pro reads,
\* whatever it draws and for any scores of sentences that are numbers: the pairs it
\* keeps are far enough apart, the better translation first, as many as are asked
\* for or as there are, and fewer than are asked for differ more.
THEOREM SamplesAreTheBest == MSpec => [](ScoresAreNumbers => SamplesAreBest)
<1> DEFINE Inv == ScoresAreNumbers => SamplesAreBest
<1>1. MInit => Inv
  BY DEF MInit, SamplesAreBest
<1>2. Inv /\ [MNext]_vars => Inv'
  <2> SUFFICES ASSUME Inv, [MNext]_vars, ScoresAreNumbers' PROVE SamplesAreBest'
    OBVIOUS
  <2>1. ASSUME UNCHANGED pro PROVE SamplesAreBest'
    <3>1. ScoresAreNumbers
      BY <2>1 DEF ScoresAreNumbers, Scored
    <3>2. SamplesAreBest
      BY <3>1
    <3> QED
      BY <2>1, <3>2 DEF SamplesAreBest
  <2>2. CASE SampleSentence
    <3> DEFINE blocks == [i \in DOMAIN Given |-> Given[i].scores[Block]]
               hyps == FlattenSeq([i \in DOMAIN blocks |->
                                     [j \in DOMAIN blocks[i].lines |-> <<i, j>>]])
               stats == [h \in ToSet(hyps) |-> [k \in DOMAIN blocks[h[1]].lines[h[2]] |->
                                                  blocks[h[1]].lines[h[2]][k].v]]
               Drawn(r) == hyps[1 + (r * (Len(hyps) - 1)) \div DrawParts]
               draws(r) == [i \in DOMAIN r |-> <<Drawn(r[i][1]), Drawn(r[i][2])>>]
    <3>1. PICK r \in [1 .. NCandidates -> (0 .. DrawParts) \X (0 .. DrawParts)] :
            pro' = [place |-> Block, stats |-> stats, drawn |-> draws(r),
                    kept |-> Collected(Samples(draws(r), stats))]
      BY <2>2, Zenon DEF SampleSentence
    <3>2. DOMAIN draws(r) = 1 .. NCandidates /\ NCandidates \in Nat
      BY ProAssumption
    <3> HIDE DEF stats, draws
    <3>3. CASE pro' = None
      BY <3>3 DEF SamplesAreBest
    <3>4. CASE pro' # None
      <4>1. Scored(pro'.stats, pro'.drawn)
        BY <3>4 DEF ScoresAreNumbers, Scored
      <4>2. Scored(stats, draws(r))
        BY <3>1, <4>1
      <4> QED
        BY <3>1, <3>2, <4>2, SampledRight
    <3> QED
      BY <3>3, <3>4
  <2>3. CASE ~SampleSentence
    <3>1. UNCHANGED pro
      BY <2>3 DEF MNext, vars, ExtractSome, Extract, EndOfFiles, EndedPrematurely, LoadFiles,
                  Starts, Unknown, CreateShards, Launch, RunTask, StartPowell, RunRandom,
                  EndPass, Search, OnlyTasks, Fail, Collect, Stopped
    <3> QED
      BY <2>1, <3>1
  <2> QED
    BY <2>2, <2>3
<1> QED
  BY <1>1, <1>2, PTL DEF MSpec
-----------------------------------------------------------------------------
(* The data and its shards.                                                  *)

\* A sequence, whatever its elements.
IsList(s) == s \in Seq(ToSet(s))

\* The indices of the sentences that are known.
Indices(d) == {d.array[s].index : s \in DOMAIN d.array}

\* What the proofs need of FeatureData and ScoreData: no index occurs twice,
\* and those that occur are found.
IsData(d) ==
  /\ "array" \in DOMAIN d /\ "place" \in DOMAIN d
  /\ IsList(d.array)
  /\ \A s \in DOMAIN d.array : "index" \in DOMAIN d.array[s]
  /\ \A s, r \in DOMAIN d.array : d.array[s].index = d.array[r].index => s = r
  /\ DOMAIN d.place = Indices(d)
  /\ \A i \in Indices(d) : d.place[i] \in 1 .. Len(d.array)

\* A function on 1 .. n is a sequence, and a sequence one on its places.
LEMMA ListIs ==
  ASSUME NEW n \in Nat, NEW s, s = [k \in 1 .. n |-> s[k]]
  PROVE  IsList(s) /\ Len(s) = n /\ DOMAIN s = 1 .. n
<1>1. s \in [1 .. n -> ToSet(s)]
  BY DEF ToSet
<1>2. s \in Seq(ToSet(s)) /\ Len(s) = n
  BY <1>1
<1> QED
  BY <1>1, <1>2 DEF IsList

LEMMA ListHas ==
  ASSUME NEW s, IsList(s)
  PROVE  /\ Len(s) \in Nat /\ DOMAIN s = 1 .. Len(s)
         /\ s = [k \in 1 .. Len(s) |-> s[k]]
<1> DEFINE T == ToSet(s)
<1>1. s \in Seq(T)
  BY DEF IsList
<1> HIDE DEF T
<1> QED
  BY <1>1

\* An index is found if it occurs.
LEMMA ExistsIs ==
  ASSUME NEW d, IsData(d), NEW i
  PROVE  Exists(d, i) <=> i \in Indices(d)
<1>1. Len(d.array) \in Nat
  BY ListHas DEF IsData
<1> QED
  BY <1>1 DEF IsData, Exists

\* Data stays so while the entries of its sentences change.
LEMMA EntriesChange ==
  ASSUME NEW d, IsData(d), NEW e, "array" \in DOMAIN e, "place" \in DOMAIN e,
         e.place = d.place, IsList(e.array), DOMAIN e.array = DOMAIN d.array,
         \A s \in DOMAIN d.array : /\ "index" \in DOMAIN e.array[s]
                                   /\ e.array[s].index = d.array[s].index
  PROVE  IsData(e) /\ Indices(e) = Indices(d) /\ Len(e.array) = Len(d.array)
<1>1. Len(e.array) = Len(d.array)
  <2>1. /\ Len(e.array) \in Nat /\ DOMAIN e.array = 1 .. Len(e.array)
        /\ Len(d.array) \in Nat /\ DOMAIN d.array = 1 .. Len(d.array)
    BY ListHas DEF IsData
  <2>2. \A m, k \in Nat : 1 .. m = 1 .. k => m = k
    <3>1. ASSUME NEW m \in Nat, NEW k \in Nat, 1 .. m = 1 .. k PROVE m <= k
      <4>1. m = 0 \/ m \in 1 .. k
        BY <3>1
      <4> QED
        BY <4>1
    <3> QED
      BY <3>1
  <2> QED
    BY <2>1, <2>2
<1>2. Indices(e) = Indices(d)
  BY DEF Indices
<1>3. \A s \in DOMAIN e.array : "index" \in DOMAIN e.array[s]
  OBVIOUS
<1>4. \A s, r \in DOMAIN e.array : e.array[s].index = e.array[r].index => s = r
  BY DEF IsData
<1> QED
  BY <1>1, <1>2, <1>3, <1>4 DEF IsData

\* So it does when one sentence is given other entries.
LEMMA SentenceChanged ==
  ASSUME NEW d, IsData(d), NEW p \in DOMAIN d.array,
         NEW b, "index" \in DOMAIN b, b.index = d.array[p].index
  PROVE  /\ IsData([d EXCEPT !.array[p] = b])
         /\ Indices([d EXCEPT !.array[p] = b]) = Indices(d)
<1> DEFINE n == Len(d.array)
           e == [d EXCEPT !.array[p] = b]
<1>1. n \in Nat /\ DOMAIN d.array = 1 .. n /\ d.array = [k \in 1 .. n |-> d.array[k]]
  BY ListHas DEF IsData
<1>2. /\ "array" \in DOMAIN e /\ "place" \in DOMAIN e /\ e.place = d.place
      /\ e.array = [d.array EXCEPT ![p] = b]
  BY DEF IsData
<1> HIDE DEF e, n
<1>3. e.array = [k \in 1 .. n |-> e.array[k]] /\ DOMAIN e.array = DOMAIN d.array
  BY <1>1, <1>2
<1>4. \A s \in DOMAIN d.array : e.array[s] = IF s = p THEN b ELSE d.array[s]
  BY <1>1, <1>2
<1>5. \A s \in DOMAIN d.array : /\ "index" \in DOMAIN e.array[s]
                                /\ e.array[s].index = d.array[s].index
  BY <1>4 DEF IsData
<1>6. IsList(e.array)
  BY <1>1, <1>3, ListIs
<1>7. IsData(e) /\ Indices(e) = Indices(d)
  BY <1>2, <1>3, <1>5, <1>6, EntriesChange
<1> QED
  BY <1>7 DEF e

\* And when a sentence is added that did not occur.
LEMMA SentenceAdded ==
  ASSUME NEW d, IsData(d), NEW a, "index" \in DOMAIN a, a.index \notin Indices(d),
         NEW e, "array" \in DOMAIN e, "place" \in DOMAIN e,
         e.array = Append(d.array, a),
         DOMAIN e.place = Indices(d) \cup {a.index},
         \A i \in DOMAIN e.place : e.place[i] \in 1 .. Len(d.array) + 1
  PROVE  IsData(e) /\ Indices(e) = Indices(d) \cup {a.index}
<1> DEFINE n == Len(d.array)
<1>1. n \in Nat /\ DOMAIN d.array = 1 .. n /\ d.array \in Seq(ToSet(d.array))
  BY ListHas DEF IsData, IsList
<1>2. /\ e.array \in Seq(ToSet(d.array) \cup {a}) /\ Len(e.array) = n + 1
      /\ DOMAIN e.array = 1 .. n + 1 /\ e.array[n + 1] = a
      /\ \A s \in 1 .. n : e.array[s] = d.array[s]
  <2> DEFINE T == ToSet(d.array)
  <2>1. d.array \in Seq(T \cup {a}) /\ a \in T \cup {a}
    BY <1>1
  <2> HIDE DEF T
  <2> QED
    BY <1>1, <2>1
<1> HIDE DEF n
<1>3. IsList(e.array)
  <2>1. e.array = [k \in 1 .. n + 1 |-> e.array[k]] /\ n + 1 \in Nat
    BY <1>1, <1>2
  <2> QED
    BY <2>1, ListIs
<1>4. \A s \in 1 .. n + 1 : s \in 1 .. n \/ s = n + 1
  BY <1>1
<1>5. \A s \in 1 .. n : s \in 1 .. n + 1 /\ d.array[s].index \in Indices(d)
  BY <1>1 DEF Indices
<1>6. Indices(e) = Indices(d) \cup {a.index}
  <2>1. Indices(e) = {e.array[s].index : s \in 1 .. n + 1}
    BY <1>2 DEF Indices
  <2>2. Indices(d) = {d.array[s].index : s \in 1 .. n}
    BY <1>1 DEF Indices
  <2>3. n + 1 \in 1 .. n + 1
    BY <1>1
  <2> QED
    BY <1>2, <1>4, <1>5, <2>1, <2>2, <2>3
<1>7. \A s \in DOMAIN e.array : "index" \in DOMAIN e.array[s]
  BY <1>1, <1>2, <1>4 DEF IsData
<1>8. ASSUME NEW s \in DOMAIN e.array, NEW r \in DOMAIN e.array,
             e.array[s].index = e.array[r].index
      PROVE  s = r
  <2>1. s \in 1 .. n \/ s = n + 1
    BY <1>2, <1>4
  <2>2. r \in 1 .. n \/ r = n + 1
    BY <1>2, <1>4
  <2> QED
    BY <1>1, <1>2, <1>5, <1>8, <2>1, <2>2 DEF IsData
<1> QED
  BY <1>2, <1>3, <1>6, <1>7, <1>8 DEF IsData, n

\* addEntry of an array: a sentence that did not occur comes last.
LEMMA AddArrayKeeps ==
  ASSUME NEW d, IsData(d), NEW a, "index" \in DOMAIN a
  PROVE  /\ IsData(AddArray(d, a))
         /\ Indices(AddArray(d, a)) = Indices(d) \cup {a.index}
         /\ a.index \notin Indices(d) => AddArray(d, a).array = Append(d.array, a)
<1> DEFINE n == Len(d.array)
<1>1. n \in Nat /\ DOMAIN d.array = 1 .. n /\ d.array = [k \in 1 .. n |-> d.array[k]]
  BY ListHas DEF IsData
<1>2. CASE a.index \in Indices(d)
  <2> DEFINE p == d.place[a.index]
             b == Merge(d.array[p], a)
  <2>1. AddArray(d, a) = [d EXCEPT !.array[p] = b]
    BY <1>2, ExistsIs DEF AddArray
  <2>2. p \in DOMAIN d.array /\ "index" \in DOMAIN d.array[p]
    BY <1>1, <1>2 DEF IsData
  <2>3. "index" \in DOMAIN b /\ b.index = d.array[p].index
    BY <2>2 DEF Merge
  <2> HIDE DEF b, p
  <2>4. IsData([d EXCEPT !.array[p] = b]) /\ Indices([d EXCEPT !.array[p] = b]) = Indices(d)
    BY <2>2, <2>3, SentenceChanged
  <2> QED
    BY <1>2, <2>1, <2>4
<1>3. CASE a.index \notin Indices(d)
  <2> DEFINE c == [d EXCEPT !.array = Append(@, a)]
             e == SetIndex(c)
             last(i) == SelectLastInSeq(c.array, LAMBDA b : b.index = i)
  <2>1. AddArray(d, a) = e
    BY <1>3, ExistsIs DEF AddArray
  <2>2. /\ "array" \in DOMAIN c /\ "place" \in DOMAIN c
        /\ c.place = d.place /\ c.array = Append(d.array, a)
    BY DEF IsData
  <2>3. /\ DOMAIN c.array = 1 .. n + 1 /\ Len(c.array) = n + 1
        /\ \A s \in 1 .. n : c.array[s] = d.array[s]
        /\ c.array[n + 1] = a
    <3> DEFINE T == ToSet(d.array) \cup {a}
    <3>1. d.array \in Seq(T) /\ a \in T
      BY DEF IsData, IsList
    <3> HIDE DEF T
    <3> QED
      BY <1>1, <2>2, <3>1
  <2> DEFINE known == {c.array[j].index : j \in DOMAIN c.array}
  <2>4. known = Indices(d) \cup {a.index}
    <3>1. Indices(d) = {d.array[s].index : s \in 1 .. n}
      BY <1>1 DEF Indices
    <3>2. \A s \in 1 .. n + 1 : s \in 1 .. n \/ s = n + 1
      BY <1>1
    <3>3. n + 1 \in 1 .. n + 1 /\ \A s \in 1 .. n : s \in 1 .. n + 1
      BY <1>1
    <3> HIDE DEF c, n
    <3> QED
      BY <2>3, <3>1, <3>2, <3>3
  <2>5. e = [c EXCEPT !.place = [i \in known \cup DOMAIN @ |->
                                   IF i \in known THEN last(i) ELSE @[i]]]
    BY DEF SetIndex
  <2> HIDE DEF c
  <2>6. ASSUME NEW i \in known PROVE last(i) \in 1 .. n + 1
    <3> DEFINE I == {j \in 1 .. Len(c.array) : c.array[j].index = i}
    <3>1. I # {} /\ I \subseteq 1 .. n + 1 /\ \A j \in I : j \in Int
      BY <1>1, <2>3
    <3>2. last(i) = Max(I)
      BY <3>1 DEF SelectLastInSeq
    <3>3. IsFiniteSet(I)
      <4>1. IsFiniteSet(1 .. n + 1)
        BY <1>1, FS_Interval
      <4> QED
        BY <3>1, <4>1, FS_Subset
    <3> HIDE DEF I
    <3>4. Max(I) \in I
      BY <3>1, <3>3, MaxOfNumbers
    <3> QED
      BY <3>1, <3>2, <3>4
  <2> HIDE DEF last, known
  <2>7. DOMAIN c.place = Indices(d)
    BY <2>2 DEF IsData
  <2>8. /\ "array" \in DOMAIN e /\ "place" \in DOMAIN e /\ e.array = Append(d.array, a)
        /\ DOMAIN e.place = known
        /\ \A i \in known : e.place[i] = last(i)
    BY <2>2, <2>4, <2>5, <2>7
  <2>9. \A i \in DOMAIN e.place : e.place[i] \in 1 .. Len(d.array) + 1
    BY <2>6, <2>8
  <2> HIDE DEF e, n
  <2>10. IsData(e) /\ Indices(e) = Indices(d) \cup {a.index}
    BY <1>3, <2>4, <2>8, <2>9, SentenceAdded
  <2> QED
    BY <2>1, <2>8, <2>10
<1> QED
  BY <1>2, <1>3

\* AddFeatures and AddScores: one hypothesis more.
LEMMA AddFeatureKeeps ==
  ASSUME NEW d, IsData(d), NEW e, NEW i
  PROVE  IsData(AddFeatureEntry(d, e, i))
<1>1. Len(d.array) \in Nat /\ DOMAIN d.array = 1 .. Len(d.array)
  BY ListHas DEF IsData
<1>2. CASE i \in Indices(d)
  <2> DEFINE p == d.place[i]
             b == AddEntry(d.array[p], e)
  <2>1. AddFeatureEntry(d, e, i) = [d EXCEPT !.array[p] = b]
    BY <1>2, ExistsIs DEF AddFeatureEntry
  <2>2. p \in DOMAIN d.array /\ "index" \in DOMAIN d.array[p]
    BY <1>1, <1>2 DEF IsData
  <2>3. "index" \in DOMAIN b /\ b.index = d.array[p].index
    BY <2>2 DEF AddEntry
  <2> HIDE DEF b, p
  <2> QED
    BY <2>1, <2>2, <2>3, SentenceChanged
<1>3. CASE i \notin Indices(d)
  <2> DEFINE a == AddEntry(Array(i, d.num, d.names), e)
  <2>1. AddFeatureEntry(d, e, i) = AddArray(d, a)
    BY <1>3, ExistsIs DEF AddFeatureEntry
  <2>2. "index" \in DOMAIN a
    BY DEF AddEntry, Array
  <2> HIDE DEF a
  <2> QED
    BY <2>1, <2>2, AddArrayKeeps
<1> QED
  BY <1>2, <1>3

LEMMA AddScoreKeeps ==
  ASSUME NEW d, IsData(d), NEW e, NEW i
  PROVE  IsData(AddScoreEntry(d, e, i))
<1>1. Len(d.array) \in Nat /\ DOMAIN d.array = 1 .. Len(d.array)
  BY ListHas DEF IsData
<1>2. CASE i \in Indices(d)
  <2> DEFINE p == d.place[i]
             b == AddEntry(d.array[p], e)
  <2>1. AddScoreEntry(d, e, i) = [d EXCEPT !.array[p] = b]
    BY <1>2, ExistsIs DEF AddScoreEntry
  <2>2. p \in DOMAIN d.array /\ "index" \in DOMAIN d.array[p]
    BY <1>1, <1>2 DEF IsData
  <2>3. "index" \in DOMAIN b /\ b.index = d.array[p].index
    BY <2>2 DEF AddEntry
  <2> HIDE DEF b, p
  <2> QED
    BY <2>1, <2>2, <2>3, SentenceChanged
<1>3. CASE i \notin Indices(d)
  <2> DEFINE a == AddEntry(Array(i, d.num, d.names), e)
             n == Len(d.array)
             c == [d EXCEPT !.array = Append(@, a),
                            !.place = [j \in DOMAIN @ \cup {i} |-> IF j = i THEN n + 1 ELSE @[j]]]
  <2>1. AddScoreEntry(d, e, i) = c
    BY <1>3, ExistsIs DEF AddScoreEntry
  <2>2. "index" \in DOMAIN a /\ a.index = i
    BY DEF AddEntry, Array
  <2> HIDE DEF a
  <2>3. /\ "array" \in DOMAIN c /\ "place" \in DOMAIN c /\ c.array = Append(d.array, a)
        /\ c.place = [j \in DOMAIN d.place \cup {i} |-> IF j = i THEN n + 1 ELSE d.place[j]]
    BY DEF IsData
  <2> HIDE DEF c
  <2>4. DOMAIN d.place = Indices(d) /\ \A j \in Indices(d) : d.place[j] \in 1 .. n
    BY DEF IsData
  <2>5. DOMAIN c.place = Indices(d) \cup {a.index}
    BY <2>2, <2>3, <2>4
  <2>6. \A j \in DOMAIN c.place : c.place[j] \in 1 .. Len(d.array) + 1
    BY <1>1, <2>2, <2>3, <2>4
  <2>7. a.index \notin Indices(d)
    BY <1>3, <2>2
  <2>8. IsData(c)
    BY <2>2, <2>3, <2>5, <2>6, <2>7, SentenceAdded
  <2> QED
    BY <2>1, <2>8
<1> QED
  BY <1>2, <1>3

\* The names of features are no part of it.
LEMMA NamesKeep ==
  ASSUME NEW d, IsData(d), NEW names
  PROVE  IsData(SetFeatureMap(d, names))
<1> DEFINE e == SetFeatureMap(d, names)
<1>1. "array" \in DOMAIN e /\ "place" \in DOMAIN e /\ e.place = d.place /\ e.array = d.array
  BY DEF SetFeatureMap, IsData
<1> HIDE DEF e
<1>2. Indices(e) = Indices(d)
  BY <1>1 DEF Indices
<1>3. IsData(e)
  BY <1>1, <1>2 DEF IsData
<1> QED
  BY <1>3 DEF e

LEMMA NoDataIsData ==
  ASSUME NEW n
  PROVE  IsData(NoData) /\ IsData([NoData EXCEPT !.num = n])
<1>1. <<>> \in Seq(ToSet(<<>>)) /\ Len(<<>>) = 0
  BY EmptySeq
<1>2. IsList(<<>>) /\ DOMAIN <<>> = {}
  BY <1>1 DEF IsList
<1>3. Indices(NoData) = {} /\ Indices([NoData EXCEPT !.num = n]) = {}
  BY <1>2 DEF Indices, NoData
<1> QED
  BY <1>2, <1>3 DEF IsData, NoData

\* What is read of a file is a list of blocks.
LEMMA LoadableIsList ==
  ASSUME NEW file, IsList(file)
  PROVE  \E n \in Nat : DOMAIN Loadable(file) = 1 .. n
<1> DEFINE stop == SelectInSeq(file, LAMBDA b : b.lines = <<>>)
           I == {i \in 1 .. Len(file) : file[i].lines = <<>>}
<1>1. Len(file) \in Nat /\ DOMAIN file = 1 .. Len(file)
  BY ListHas
<1>2. stop = IF I # {} THEN Min(I) ELSE 0
  BY DEF SelectInSeq
<1>3. Loadable(file) = IF stop = 0 THEN file ELSE SubSeq(file, 1, stop - 1)
  BY DEF Loadable
<1> HIDE DEF stop
<1>4. CASE I = {}
  BY <1>1, <1>2, <1>3, <1>4
<1>5. CASE I # {}
  <2>1. I \subseteq Nat
    BY <1>1
  <2>2. PICK m \in I : \A i \in I : m <= i
    <3> HIDE DEF I
    <3> QED
      BY <1>5, <2>1, LeastNat
  <2>3. Min(I) \in I
    <3> HIDE DEF I
    <3> QED
      BY <2>2 DEF Min
  <2>4. stop \in 1 .. Len(file)
    BY <1>2, <1>5, <2>3
  <2>5. SubSeq(file, 1, stop - 1) \in Seq(ToSet(file)) /\ Len(SubSeq(file, 1, stop - 1)) = stop - 1
    <3> DEFINE T == ToSet(file)
    <3>1. file \in Seq(T)
      BY DEF IsList
    <3> HIDE DEF T
    <3>2. stop - 1 \in Int /\ 1 \in Int /\ \A i \in 1 .. stop - 1 : file[i] \in T
      BY <1>1, <2>4, <3>1
    <3>3. /\ SubSeq(file, 1, stop - 1) \in Seq(T)
          /\ Len(SubSeq(file, 1, stop - 1)) = IF 1 <= stop - 1 THEN (stop - 1) - 1 + 1 ELSE 0
      BY <3>2, SubSeqProperties
    <3> QED
      BY <1>1, <2>4, <3>3 DEF T
  <2>6. stop - 1 \in Nat /\ stop # 0
    BY <1>1, <2>4
  <2>7. DOMAIN SubSeq(file, 1, stop - 1) = 1 .. stop - 1
    BY <2>5, <2>6
  <2> QED
    BY <1>3, <2>6, <2>7
<1> QED
  BY <1>4, <1>5

\* Both halves of the data of mert.
AreData(d) == IsData(d.features) /\ IsData(d.scores)

\* The steps of the loops that fill them.
FeaturesLoaded(d, block, sparseWeights) ==
  AddArray(IF d.array = <<>> THEN SetFeatureMap(d, block.names) ELSE d,
           LoadArray(block, sparseWeights))

ScoresLoaded(d, block, sparseWeights) == AddArray(d, LoadArray(block, sparseWeights))

FileLoaded(d, f, sparseWeights) == Load(d, f.features, f.scores, sparseWeights)

LineLoaded(d, added, p) == LoadNBestLine(d, added)

FeatureFold == INSTANCE Folding WITH Op <- FeaturesLoaded, Good <- IsData
ScoreFold == INSTANCE Folding WITH Op <- ScoresLoaded, Good <- IsData
FileFold == INSTANCE Folding WITH Op <- FileLoaded, Good <- AreData
LineFold == INSTANCE Folding WITH Op <- LineLoaded, Good <- AreData

\* A file of features is read into data.
LEMMA LoadFeaturesKeeps ==
  ASSUME NEW d, IsData(d), NEW file, IsList(file), NEW weights
  PROVE  IsData(LoadFeatures(d, file, weights))
<1> DEFINE blocks == Loadable(file)
<1>1. PICK n \in Nat : DOMAIN blocks = 1 .. n
  BY LoadableIsList
<1>2. LoadFeatures(d, file, weights) = FeatureFold!Folded(blocks, d, weights)
  BY DEF LoadFeatures, FoldLeft, MapThenFoldSet, Max, FeatureFold!Folded,
         FeatureFold!FoldsFrom, FeatureFold!Max, FeaturesLoaded
<1> HIDE DEF blocks
<1>3. ASSUME NEW a, NEW i \in 1 .. n, IsData(a)
      PROVE  IsData(FeaturesLoaded(a, blocks[i], weights))
  <2> DEFINE b == IF a.array = <<>> THEN SetFeatureMap(a, blocks[i].names) ELSE a
             e == LoadArray(blocks[i], weights)
  <2>1. IsData(b)
    BY <1>3, NamesKeep
  <2>2. "index" \in DOMAIN e
    BY DEF LoadArray
  <2>3. FeaturesLoaded(a, blocks[i], weights) = AddArray(b, e)
    BY DEF FeaturesLoaded
  <2> HIDE DEF b, e
  <2> QED
    BY <2>1, <2>2, <2>3, AddArrayKeeps
<1> QED
  BY <1>1, <1>2, <1>3, FeatureFold!FoldKeeps

\* And one of scores.
LEMMA LoadScoresKeeps ==
  ASSUME NEW d, IsData(d), NEW file, IsList(file)
  PROVE  IsData(LoadScores(d, file))
<1> DEFINE blocks == Loadable(file)
<1>1. PICK n \in Nat : DOMAIN blocks = 1 .. n
  BY LoadableIsList
<1>2. LoadScores(d, file) = ScoreFold!Folded(blocks, d, <<>>)
  BY DEF LoadScores, FoldLeft, MapThenFoldSet, Max, ScoreFold!Folded, ScoreFold!FoldsFrom,
         ScoreFold!Max, ScoresLoaded
<1> HIDE DEF blocks
<1>3. ASSUME NEW a, NEW i \in 1 .. n, IsData(a)
      PROVE  IsData(ScoresLoaded(a, blocks[i], <<>>))
  <2> DEFINE e == LoadArray(blocks[i], <<>>)
  <2>1. "index" \in DOMAIN e
    BY DEF LoadArray
  <2>2. ScoresLoaded(a, blocks[i], <<>>) = AddArray(a, e)
    BY DEF ScoresLoaded
  <2> HIDE DEF e
  <2> QED
    BY <1>3, <2>1, <2>2, AddArrayKeeps
<1> QED
  BY <1>1, <1>2, <1>3, ScoreFold!FoldKeeps

\* Files are lists of blocks.
AreFiles(fs) ==
  IsList(fs) /\ \A i \in DOMAIN fs : IsList(fs[i].features) /\ IsList(fs[i].scores)

\* Files are read one after the other.
AllLoaded(fs, d, weights) ==
  FoldLeft(LAMBDA a, f : Load(a, f.features, f.scores, weights), d, fs)

LEMMA LoadKeeps ==
  ASSUME NEW fs, AreFiles(fs), NEW d, AreData(d), NEW weights
  PROVE  AreData(AllLoaded(fs, d, weights))
<1> DEFINE n == Len(fs)
<1>0. n \in Nat /\ DOMAIN fs = 1 .. n
  BY ListHas DEF AreFiles
<1>1. AllLoaded(fs, d, weights) = FileFold!Folded(fs, d, weights)
  BY DEF AllLoaded, FoldLeft, MapThenFoldSet, Max, FileFold!Folded, FileFold!FoldsFrom,
         FileFold!Max, FileLoaded
<1>2. ASSUME NEW a, NEW i \in 1 .. n, AreData(a)
      PROVE  AreData(FileLoaded(a, fs[i], weights))
  <2>1. /\ IsData(LoadFeatures(a.features, fs[i].features, weights))
        /\ IsData(LoadScores(a.scores, fs[i].scores))
    BY <1>0, <1>2, LoadFeaturesKeeps, LoadScoresKeeps DEF AreData, AreFiles
  <2> QED
    BY <2>1 DEF AreData, FileLoaded, Load
<1> HIDE DEF n
<1> QED
  BY <1>0, <1>1, <1>2, FileFold!FoldKeeps

\* The lines of an n-best list likewise.
LEMMA LoadNBestKeeps ==
  ASSUME NEW list, IsList(list), NEW d, AreData(d)
  PROVE  AreData(LoadNBest(d, list))
<1>1. Len(list) \in Nat /\ DOMAIN list = 1 .. Len(list)
  BY ListHas
<1>2. LoadNBest(d, list) = LineFold!Folded(list, d, <<>>)
  BY DEF LoadNBest, FoldLeft, MapThenFoldSet, Max, LineFold!Folded, LineFold!FoldsFrom,
         LineFold!Max, LineLoaded
<1>3. ASSUME NEW a, NEW i \in 1 .. Len(list), AreData(a)
      PROVE  AreData(LineLoaded(a, list[i], <<>>))
  <2> DEFINE b == InitFeatureMap(a.features, list[i].tokens)
             e == EntryOf(list[i].tokens)
             v == ScoreEntryOf(list[i].stats)
  <2>1. IsData(b)
    BY <1>3, NamesKeep DEF AreData, InitFeatureMap
  <2>2. LineLoaded(a, list[i], <<>>) =
          [scores   |-> AddScoreEntry(a.scores, v, list[i].sentence),
           features |-> AddFeatureEntry(b, e, list[i].sentence)]
    BY DEF LineLoaded, LoadNBestLine
  <2> HIDE DEF b, e, v
  <2>3. IsData(AddFeatureEntry(b, e, list[i].sentence))
    BY <2>1, AddFeatureKeeps
  <2>4. IsData(AddScoreEntry(a.scores, v, list[i].sentence))
    BY <1>3, AddScoreKeeps DEF AreData
  <2> QED
    BY <2>2, <2>3, <2>4 DEF AreData
<1> QED
  BY <1>1, <1>2, <1>3, LineFold!FoldKeeps

\* removeDuplicates changes entries only.
LEMMA DedupKeeps ==
  ASSUME NEW d, AreData(d)
  PROVE  AreData(RemoveDuplicates(d))
<1> DEFINE new == [s \in DOMAIN d.features.array |->
                     Deduped(d.features.array[s].entries, d.scores.array[s].entries)]
           fs == [d.features EXCEPT !.array =
                    [s \in DOMAIN @ |-> [@[s] EXCEPT !.entries = new[s].feats]]]
           ss == [d.scores EXCEPT !.array =
                    [s \in DOMAIN @ |-> [@[s] EXCEPT !.entries = new[s].scores]]]
<1>1. RemoveDuplicates(d).features = fs /\ RemoveDuplicates(d).scores = ss
  BY DEF RemoveDuplicates
<1> HIDE DEF new
<1>2. ASSUME NEW e, IsData(e), NEW c,
             NEW f, f = [e EXCEPT !.array = [s \in DOMAIN @ |-> [@[s] EXCEPT !.entries = c[s]]]]
      PROVE  IsData(f)
  <2>1. /\ "array" \in DOMAIN f /\ "place" \in DOMAIN f /\ f.place = e.place
        /\ f.array = [s \in DOMAIN e.array |-> [e.array[s] EXCEPT !.entries = c[s]]]
    BY <1>2 DEF IsData
  <2>2. DOMAIN e.array = 1 .. Len(e.array) /\ Len(e.array) \in Nat
    BY <1>2, ListHas DEF IsData
  <2>3. f.array = [s \in 1 .. Len(e.array) |-> f.array[s]]
    BY <2>1, <2>2
  <2>4. IsList(f.array) /\ DOMAIN f.array = DOMAIN e.array
    BY <2>2, <2>3, ListIs
  <2>5. ASSUME NEW s \in DOMAIN e.array
        PROVE  "index" \in DOMAIN f.array[s] /\ f.array[s].index = e.array[s].index
    <3> DEFINE b == e.array[s]
    <3>1. "index" \in DOMAIN b
      BY <1>2 DEF IsData
    <3>2. f.array[s] = [b EXCEPT !.entries = c[s]]
      BY <2>1
    <3> HIDE DEF b
    <3>3. "index" \in DOMAIN f.array[s] /\ f.array[s].index = b.index
      BY <3>1, <3>2
    <3> QED
      BY <3>3 DEF b
  <2> QED
    BY <1>2, <2>1, <2>4, <2>5, EntriesChange
<1>3. IsData(d.features) /\ IsData(d.scores)
  BY DEF AreData
<1>4. IsData(fs)
  <2> DEFINE c == [s \in DOMAIN d.features.array |-> new[s].feats]
  <2>1. fs = [d.features EXCEPT !.array = [s \in DOMAIN @ |-> [@[s] EXCEPT !.entries = c[s]]]]
    OBVIOUS
  <2> HIDE DEF c, fs
  <2> QED
    BY <1>2, <1>3, <2>1
<1>5. IsData(ss)
  <2> DEFINE c == [s \in DOMAIN d.scores.array |-> new[s].scores]
  <2>1. ss = [d.scores EXCEPT !.array = [s \in DOMAIN @ |-> [@[s] EXCEPT !.entries = c[s]]]]
    OBVIOUS
  <2> HIDE DEF c, ss
  <2> QED
    BY <1>2, <1>3, <2>1
<1> HIDE DEF fs, ss
<1> QED
  BY <1>1, <1>4, <1>5 DEF AreData

\* What is saved is a list of blocks.
LEMMA SavedIsList ==
  ASSUME NEW d, IsData(d), NEW bin
  PROVE  IsList(SaveData(d, bin))
<1> DEFINE D == {i \in DOMAIN d.array : d.array[i].entries # <<>>}
           full == InOrder(D)
<1>1. Len(d.array) \in Nat /\ DOMAIN d.array = 1 .. Len(d.array)
  BY ListHas DEF IsData
<1>2. D \subseteq Nat /\ IsFiniteSet(D)
  <2>1. IsFiniteSet(1 .. Len(d.array)) /\ 1 .. Len(d.array) \subseteq Nat
    BY <1>1, FS_Interval
  <2>2. D \in SUBSET (1 .. Len(d.array))
    BY <1>1
  <2> HIDE DEF D
  <2>3. IsFiniteSet(D)
    BY <2>1, <2>2, FS_Subset
  <2> QED
    BY <2>1, <2>2, <2>3
<1>3. SaveData(d, bin) = [k \in DOMAIN full |-> SaveArray(d.array[full[k]], bin)]
  BY DEF SaveData
<1> HIDE DEF D
<1>4. Cardinality(D) \in Nat /\ DOMAIN full = 1 .. Cardinality(D)
  BY <1>2, InOrderLists
<1> HIDE DEF full
<1>5. SaveData(d, bin) = [k \in 1 .. Cardinality(D) |-> SaveData(d, bin)[k]]
  BY <1>3, <1>4
<1> QED
  BY <1>4, <1>5, ListIs

\* A step of the loop that fills a shard.
SentenceTaken(d, s, array) == AddArray(d, array[s])

ShardFold == INSTANCE Folding WITH Op <- SentenceTaken, Good <- IsData

\* The loop.
Taken(d, contents, empty) ==
  FoldLeft(LAMBDA e, s : AddArray(e, d.array[s]), empty, contents)

\* A shard of different sentences has them as they are, in order.
LEMMA TakenInOrder ==
  ASSUME NEW d, IsData(d), NEW empty, IsData(empty), empty.array = <<>>,
         NEW m \in Nat, NEW contents \in [1 .. m -> DOMAIN d.array],
         \A k, l \in 1 .. m : contents[k] = contents[l] => k = l
  PROVE  Taken(d, contents, empty).array = [k \in 1 .. m |-> d.array[contents[k]]]
<1> DEFINE x(k) == d.array[contents[k]]
<1>1. PICK g : /\ g[0] = empty
               /\ \A i \in 1 .. m : g[i] = SentenceTaken(g[i - 1], contents[i], d.array)
               /\ ShardFold!Folded(contents, empty, d.array) = g[m]
  <2>1. ShardFold!IsFold(m, contents, empty, d.array, ShardFold!Folded(contents, empty, d.array))
    BY ShardFold!FoldSteps
  <2> QED
    BY <2>1 DEF ShardFold!IsFold
<1>2. Taken(d, contents, empty) = g[m]
  <2>1. Taken(d, contents, empty) = ShardFold!Folded(contents, empty, d.array)
    BY DEF Taken, FoldLeft, MapThenFoldSet, Max, ShardFold!Folded, ShardFold!FoldsFrom,
           ShardFold!Max, SentenceTaken
  <2> QED
    BY <1>1, <2>1
<1>3. \A i \in 1 .. m : g[i] = AddArray(g[i - 1], x(i))
  BY <1>1 DEF SentenceTaken
<1>4. /\ \A k \in 1 .. m : "index" \in DOMAIN x(k)
      /\ \A k, l \in 1 .. m : x(k).index = x(l).index => k = l
  BY DEF IsData
<1> HIDE DEF x
<1> DEFINE Upto(i) == /\ IsData(g[i]) /\ Indices(g[i]) = {x(k).index : k \in 1 .. i}
                      /\ g[i].array = [k \in 1 .. i |-> x(k)]
           B == {i \in 0 .. m : ~Upto(i)}
<1>5. B = {}
  <2>1. SUFFICES ASSUME B # {} PROVE FALSE
    OBVIOUS
  <2>2. PICK i \in B : \A l \in B : i <= l
    <3>1. B \subseteq Nat
      OBVIOUS
    <3> HIDE DEF B
    <3> QED
      BY <2>1, <3>1, LeastNat
  <2>3. CASE i = 0
    <3>1. g[0].array = <<>> /\ IsData(g[0])
      BY <1>1
    <3>2. Indices(g[0]) = {}
      BY <3>1, EmptySeq DEF Indices
    <3>3. [k \in 1 .. 0 |-> x(k)] = <<>>
      OBVIOUS
    <3>4. Upto(0)
      BY <3>1, <3>2, <3>3
    <3> HIDE DEF Upto
    <3> QED
      BY <2>3, <3>4
  <2>4. CASE i # 0
    <3>1. i \in 1 .. m /\ i - 1 \in 0 .. m /\ ~(i <= i - 1) /\ i - 1 \in Nat
      BY <2>4
    <3>2. Upto(i - 1)
      <4> HIDE DEF Upto
      <4> QED
        BY <2>2, <3>1
    <3> DEFINE h == g[i - 1]
    <3>3. x(i).index \notin Indices(h)
      BY <1>4, <3>1, <3>2
    <3>4. /\ IsData(g[i]) /\ Indices(g[i]) = Indices(h) \cup {x(i).index}
          /\ g[i].array = Append(h.array, x(i))
      <4>1. IsData(h) /\ "index" \in DOMAIN x(i) /\ g[i] = AddArray(h, x(i))
        BY <1>3, <1>4, <3>1, <3>2
      <4> HIDE DEF h
      <4> QED
        BY <3>3, <4>1, AddArrayKeeps
    <3>5. Indices(g[i]) = {x(k).index : k \in 1 .. i}
      <4>1. \A k \in 1 .. i : k \in 1 .. i - 1 \/ k = i
        BY <3>1
      <4>2. i \in 1 .. i /\ \A k \in 1 .. i - 1 : k \in 1 .. i
        BY <3>1
      <4>3. Indices(h) = {x(k).index : k \in 1 .. i - 1}
        BY <3>2
      <4> HIDE DEF Upto, h
      <4> QED
        BY <3>4, <4>1, <4>2, <4>3
    <3>6. g[i].array = [k \in 1 .. i |-> x(k)]
      <4>1. h.array = [k \in 1 .. i - 1 |-> x(k)]
        BY <3>2
      <4> HIDE DEF Upto, h
      <4>2. Append(h.array, x(i)) = [k \in 1 .. i |-> x(k)]
        <5> DEFINE T == {x(k) : k \in 1 .. i}
        <5>1. h.array \in Seq(T) /\ Len(h.array) = i - 1 /\ x(i) \in T
          BY <3>1, <4>1
        <5> HIDE DEF T
        <5> QED
          BY <3>1, <4>1, <5>1
      <4> QED
        BY <3>4, <4>2
    <3>7. Upto(i)
      BY <3>4, <3>5, <3>6
    <3> HIDE DEF Upto
    <3> QED
      BY <3>7
  <2> QED
    BY <2>3, <2>4
<1>6. Upto(m)
  <2>1. m \in 0 .. m
    OBVIOUS
  <2> HIDE DEF Upto
  <2> QED
    BY <1>5, <2>1
<1> QED
  BY <1>2, <1>6 DEF x

\* So the optimizers see of it what they would see of the data.
SeenInOrder(d, m, contents) ==
  /\ FeaturesOf(Shard(d, contents)) = [k \in 1 .. m |-> FeaturesOf(d)[contents[k]]]
  /\ StatsOf(Shard(d, contents)) = [k \in 1 .. m |-> StatsOf(d)[contents[k]]]

LEMMA ShardHas ==
  ASSUME NEW d, AreData(d), NEW n \in Nat,
         Len(d.features.array) = n, Len(d.scores.array) = n,
         NEW m \in Nat, NEW contents \in [1 .. m -> 1 .. n],
         \A k, l \in 1 .. m : contents[k] = contents[l] => k = l
  PROVE  SeenInOrder(d, m, contents)
<1> DEFINE f == d.features
           c == d.scores
           none == [NoData EXCEPT !.num = c.num]
<1>1. /\ IsData(f) /\ IsData(c)
      /\ DOMAIN f.array = 1 .. n /\ DOMAIN c.array = 1 .. n
  BY ListHas DEF AreData, IsData
<1>2. /\ IsData(NoData) /\ NoData.array = <<>> /\ IsData(none) /\ none.array = <<>>
  BY NoDataIsData DEF NoData
<1> DEFINE S == Shard(d, contents)
<1>3. S.features = Taken(f, contents, NoData) /\ S.scores = Taken(c, contents, none)
  BY DEF Shard, Taken
<1> HIDE DEF S, f, c, none
<1>4. S.features.array = [k \in 1 .. m |-> f.array[contents[k]]]
  <2>1. contents \in [1 .. m -> DOMAIN f.array]
    BY <1>1
  <2>2. Taken(f, contents, NoData).array = [k \in 1 .. m |-> f.array[contents[k]]]
    <3>1. IsData(f) /\ IsData(NoData) /\ NoData.array = <<>> /\ m \in Nat
      BY <1>1, <1>2
    <3> QED
      BY <3>1, <2>1, TakenInOrder
  <2> QED
    BY <1>3, <2>2, Zenon
<1>5. S.scores.array = [k \in 1 .. m |-> c.array[contents[k]]]
  <2>1. contents \in [1 .. m -> DOMAIN c.array]
    BY <1>1
  <2>2. Taken(c, contents, none).array = [k \in 1 .. m |-> c.array[contents[k]]]
    <3>1. IsData(c) /\ IsData(none) /\ none.array = <<>> /\ m \in Nat
      BY <1>1, <1>2
    <3> QED
      BY <3>1, <2>1, TakenInOrder
  <2> QED
    BY <1>3, <2>2, Zenon
<1>6. FeaturesOf(S) = [k \in 1 .. m |-> FeaturesOf(d)[contents[k]]]
  <2>1. \A k \in 1 .. m : contents[k] \in DOMAIN f.array
    BY <1>1
  <2> QED
    BY <1>4, <2>1 DEF FeaturesOf, f
<1>7. StatsOf(S) = [k \in 1 .. m |-> StatsOf(d)[contents[k]]]
  <2>1. \A k \in 1 .. m : contents[k] \in DOMAIN c.array
    BY <1>1
  <2> QED
    BY <1>5, <2>1 DEF StatsOf, c
<1> QED
  BY <1>6, <1>7 DEF S, SeenInOrder

\* A quotient is the number of whole parts.
LEMMA QuotientIs ==
  ASSUME NEW a \in Nat, NEW c \in Nat \ {0}
  PROVE  a \div c \in Nat /\ c * (a \div c) <= a /\ a < c * (a \div c) + c
<1> QED
  OBVIOUS

\* The limits of the pieces ascend from 0 to the number of sentences.
LEMMA LimitsAscend ==
  ASSUME NEW count \in Nat \ {0}, NEW n \in Nat
  PROVE  /\ \A i \in 0 .. count : Limit(i, count, n) \in 0 .. n
         /\ Limit(0, count, n) = 0 /\ Limit(count, count, n) = n
         /\ \A i \in 1 .. count : Limit(i - 1, count, n) <= Limit(i, count, n)
<1> DEFINE c == 2 * count
           a(i) == 2 * i * n + count
           q(i) == Limit(i, count, n)
<1>1. c \in Nat \ {0}
  OBVIOUS
<1>2. \A i \in 0 .. count : i * n \in Nat /\ a(i) = 2 * (i * n) + count
  OBVIOUS
<1>3. \A i \in 0 .. count : q(i) \in Nat /\ c * q(i) <= a(i) /\ a(i) < c * q(i) + c
  <2> SUFFICES ASSUME NEW i \in 0 .. count
               PROVE  q(i) \in Nat /\ c * q(i) <= a(i) /\ a(i) < c * q(i) + c
    OBVIOUS
  <2>1. a(i) \in Nat /\ q(i) = a(i) \div c
    BY <1>2 DEF Limit
  <2> HIDE DEF a, c, q
  <2> QED
    BY <1>1, <2>1, QuotientIs
<1> HIDE DEF q
<1>4. ASSUME NEW u \in Nat, NEW v \in Nat, c * u < c * v + c PROVE u <= v
  <2>1. SUFFICES ASSUME v + 1 <= u PROVE FALSE
    OBVIOUS
  <2>2. c * (v + 1) <= c * u /\ c * (v + 1) = c * v + c /\ c * u \in Int /\ c * v \in Int
    <3> HIDE DEF c
    <3> QED
      BY <1>1, <2>1
  <2> QED
    BY <1>1, <1>4, <2>2
<1>5. \A i \in 1 .. count : q(i - 1) <= q(i)
  <2> SUFFICES ASSUME NEW i \in 1 .. count PROVE q(i - 1) <= q(i)
    OBVIOUS
  <2>1. i \in 0 .. count /\ i - 1 \in 0 .. count
    OBVIOUS
  <2>2. (i - 1) * n = i * n - n /\ i * n \in Nat
    BY <2>1
  <2>3. a(i - 1) <= a(i) /\ a(i - 1) \in Nat /\ a(i) \in Nat
    BY <1>2, <2>1, <2>2
  <2>4. /\ q(i - 1) \in Nat /\ c * q(i - 1) <= a(i - 1)
        /\ q(i) \in Nat /\ a(i) < c * q(i) + c
    BY <1>3, <2>1
  <2> HIDE DEF a
  <2>5. c * q(i - 1) \in Nat /\ c * q(i) \in Nat
    BY <1>1, <2>4
  <2>6. c * q(i - 1) < c * q(i) + c
    BY <1>1, <2>3, <2>4, <2>5
  <2> QED
    BY <1>4, <2>4, <2>6
<1>6. q(0) = 0
  <2>1. q(0) \in Nat /\ c * q(0) <= a(0) /\ a(0) = count /\ 0 \in Nat
    <3>1. 0 \in 0 .. count
      OBVIOUS
    <3> QED
      BY <1>3, <3>1
  <2>2. c * q(0) < c * 0 + c /\ c * q(0) \in Nat
    BY <2>1
  <2>3. q(0) <= 0
    BY <1>4, <2>1, <2>2
  <2> QED
    BY <2>1, <2>3
<1>7. q(count) = n
  <2>1. q(count) \in Nat /\ c * q(count) <= a(count) /\ a(count) < c * q(count) + c
    <3>1. count \in 0 .. count
      OBVIOUS
    <3> QED
      BY <1>3, <3>1
  <2>2. a(count) = c * n + count
    OBVIOUS
  <2>3. c * n \in Nat /\ c * q(count) \in Nat
    BY <2>1
  <2>4. c * n < c * q(count) + c /\ c * q(count) < c * n + c
    BY <2>1, <2>2, <2>3
  <2>5. n <= q(count) /\ q(count) <= n
    BY <1>4, <2>1, <2>4
  <2> QED
    BY <2>1, <2>5
<1>8. ASSUME NEW i \in 0 .. count PROVE q(i) <= n
  <2>1. q(i) \in Nat /\ c * q(i) <= a(i)
    BY <1>3
  <2>2. i * n <= count * n /\ i * n \in Nat /\ count * n \in Nat
    OBVIOUS
  <2>3. a(i) = 2 * (i * n) + count /\ c * n = 2 * (count * n)
    BY <1>2
  <2>4. c * q(i) < c * n + c
    <3>1. c * q(i) \in Nat /\ c * n \in Nat
      BY <2>1
    <3> QED
      BY <2>1, <2>2, <2>3, <3>1
  <2> QED
    BY <1>4, <2>1, <2>4
<1> HIDE DEF a, c
<1>9. \A i \in 0 .. count : q(i) \in 0 .. n
  BY <1>3, <1>8
<1> QED
  BY <1>5, <1>6, <1>7, <1>9 DEF q

\* Limits that ascend from 0 to n, and the pieces of a list between them.
AreLimits(q, count, n) ==
  /\ q \in [0 .. count -> 0 .. n]
  /\ q[0] = 0 /\ q[count] = n
  /\ \A i \in 1 .. count : q[i - 1] <= q[i]

Slice(x, p, m) == [k \in 1 .. m |-> x[p + k]]

ArePieces(s, x, q, count) ==
  s = [i \in 1 .. count |-> Slice(x, q[i - 1], q[i] - q[i - 1])]

\* The pieces of a list, one after the other, are the list.
LEMMA PiecesFlatten ==
  ASSUME NEW count \in Nat \ {0}, NEW n \in Nat, NEW x, IsList(x), Len(x) = n,
         NEW q, AreLimits(q, count, n), NEW s, ArePieces(s, x, q, count)
  PROVE  FlattenSeq(s) = x
<1> DEFINE T == ToSet(x)
<1>1. x \in [1 .. n -> T] /\ x \in Seq(T)
  BY ListHas DEF IsList, ToSet
<1> HIDE DEF T
<1>2. ASSUME NEW m \in Nat, NEW p \in Nat, p + m <= n
      PROVE  /\ Slice(x, p, m) \in Seq(T) /\ Len(Slice(x, p, m)) = m
             /\ \A k \in 1 .. m : Slice(x, p, m)[k] = x[p + k]
  <2>1. \A k \in 1 .. m : p + k \in 1 .. n
    BY <1>2
  <2>2. Slice(x, p, m) \in [1 .. m -> T]
    BY <1>1, <1>2, <2>1 DEF Slice
  <2>3. \A k \in 1 .. m : Slice(x, p, m)[k] = x[p + k]
    BY DEF Slice
  <2> QED
    BY <2>2, <2>3
<1>3. ASSUME NEW i \in 1 .. count
      PROVE  /\ q[i - 1] \in Nat /\ q[i] \in Nat /\ q[i] - q[i - 1] \in Nat /\ q[i] <= n
             /\ s[i] \in Seq(T) /\ Len(s[i]) = q[i] - q[i - 1]
             /\ \A k \in 1 .. q[i] - q[i - 1] : s[i][k] = x[q[i - 1] + k]
  <2> DEFINE p == q[i - 1]
             m == q[i] - q[i - 1]
  <2>1. i - 1 \in 0 .. count /\ i \in 0 .. count
    OBVIOUS
  <2>2. p \in 0 .. n /\ q[i] \in 0 .. n /\ p <= q[i]
    BY <2>1 DEF AreLimits
  <2>3. p \in Nat /\ m \in Nat /\ p + m <= n /\ p + m = q[i]
    <3> HIDE DEF p
    <3> QED
      BY <2>2 DEF p
  <2>4. s[i] = Slice(x, p, m)
    BY DEF ArePieces
  <2> HIDE DEF p, m
  <2>5. s[i] \in Seq(T) /\ Len(s[i]) = m /\ \A k \in 1 .. m : s[i][k] = x[p + k]
    <3>1. /\ Slice(x, p, m) \in Seq(T) /\ Len(Slice(x, p, m)) = m
          /\ \A k \in 1 .. m : Slice(x, p, m)[k] = x[p + k]
      BY <1>2, <2>3, Zenon
    <3> QED
      BY <2>4, <3>1, Zenon
  <2>6. q[i] \in Nat /\ q[i] <= n
    BY <2>2
  <2> QED
    BY <2>3, <2>5, <2>6 DEF p, m
<1>4. s \in Seq(Seq(T)) /\ count \in Nat
  <2>1. s = [i \in 1 .. count |-> s[i]]
    BY DEF ArePieces
  <2>2. \A i \in 1 .. count : s[i] \in Seq(T)
    BY <1>3
  <2> QED
    BY <2>1, <2>2
<1>5. PICK g \in [0 .. count -> Seq(T)] :
        IsFlattening(s, count, g) /\ FlattenSeq(s) = g[count]
  <2>1. DOMAIN s = 1 .. count
    BY DEF ArePieces
  <2> QED
    BY <1>4, <2>1, FlattenIs
<1> DEFINE Upto(i) == Len(g[i]) = q[i] /\ \A k \in 1 .. q[i] : g[i][k] = x[k]
           B == {i \in 0 .. count : ~Upto(i)}
<1>6. B = {}
  <2>1. SUFFICES ASSUME B # {} PROVE FALSE
    OBVIOUS
  <2>2. PICK i \in B : \A l \in B : i <= l
    <3>1. B \subseteq Nat
      OBVIOUS
    <3> HIDE DEF B
    <3> QED
      BY <2>1, <3>1, LeastNat
  <2>3. CASE i = 0
    <3>1. g[0] = <<>>
      BY <1>5 DEF IsFlattening
    <3>2. q[0] = 0
      BY DEF AreLimits
    <3>3. Len(g[0]) = q[0] /\ \A k \in 1 .. q[0] : g[0][k] = x[k]
      BY <3>1, <3>2, EmptySeq
    <3> QED
      BY <2>3, <3>3
  <2>4. CASE i # 0
    <3>1. i \in 1 .. count /\ i - 1 \in 0 .. count /\ ~(i <= i - 1)
      <4>1. i \in 0 .. count
        OBVIOUS
      <4> HIDE DEF B
      <4> QED
        BY <2>4, <4>1
    <3>2. Upto(i - 1)
      <4> HIDE DEF Upto
      <4> QED
        BY <2>2, <3>1
    <3>3. g[i] = g[i - 1] \o s[i] /\ g[i - 1] \in Seq(T)
      BY <1>5, <3>1 DEF IsFlattening
    <3> DEFINE p == q[i - 1]
               m == q[i] - p
               h == g[i - 1]
               w == s[i]
    <3>4. p \in Nat /\ m \in Nat /\ p + m = q[i] /\ w \in Seq(T) /\ Len(w) = m
      <4>1. p \in Nat /\ q[i] \in Nat /\ m \in Nat /\ w \in Seq(T) /\ Len(w) = m
        BY <1>3, <3>1
      <4>2. p + m = q[i]
        <5> DEFINE r == q[i]
        <5> HIDE DEF p, r
        <5> QED
          BY <4>1 DEF r
      <4> QED
        BY <4>1, <4>2
    <3>5. \A k \in 1 .. m : w[k] = x[p + k]
      BY <1>3, <3>1
    <3>6. h \in Seq(T) /\ Len(h) = p /\ \A k \in 1 .. p : h[k] = x[k]
      BY <3>2, <3>3
    <3>7. g[i] = h \o w
      BY <3>3
    <3> HIDE DEF h, p, m, w, Upto, B
    <3>8. /\ Len(h \o w) = p + m
          /\ \A k \in 1 .. p + m : (h \o w)[k] = IF k <= p THEN h[k] ELSE w[k - p]
      <4>1. /\ Len(h \o w) = Len(h) + Len(w)
            /\ \A k \in 1 .. Len(h) + Len(w) :
                 (h \o w)[k] = IF k <= Len(h) THEN h[k] ELSE w[k - Len(h)]
        <5>1. h \in Seq(T) /\ w \in Seq(T)
          BY <3>4, <3>6
        <5> QED
          BY <5>1, ConcatProperties
      <4>2. Len(h) = p /\ Len(w) = m
        BY <3>4, <3>6
      <4> QED
        BY <4>1, <4>2
    <3>9. ASSUME NEW k \in 1 .. p + m PROVE (h \o w)[k] = x[k]
      <4>1. CASE k <= p
        <5>1. k \in 1 .. p
          BY <3>4, <4>1
        <5> QED
          BY <3>6, <3>8, <4>1, <5>1
      <4>2. CASE ~(k <= p)
        <5>1. k - p \in 1 .. m /\ p + (k - p) = k
          BY <3>4, <4>2
        <5>2. (h \o w)[k] = w[k - p] /\ w[k - p] = x[p + (k - p)]
          BY <3>5, <3>8, <4>2, <5>1
        <5> QED
          BY <5>1, <5>2
      <4> QED
        BY <4>1, <4>2
    <3>10. Upto(i)
      BY <3>4, <3>7, <3>8, <3>9 DEF Upto
    <3> QED
      BY <3>10 DEF B
  <2> QED
    BY <2>3, <2>4
<1> DEFINE y == g[count]
<1>7. Len(y) = n /\ \A k \in 1 .. n : y[k] = x[k]
  <2>1. count \in 0 .. count
    OBVIOUS
  <2> HIDE DEF Upto
  <2>2. Upto(count)
    BY <1>6, <2>1
  <2> QED
    BY <2>2 DEF Upto, AreLimits
<1>8. y \in Seq(T)
  BY <1>5
<1> HIDE DEF y
<1>9. y = x
  BY <1>1, <1>7, <1>8
<1> QED
  BY <1>5, <1>9 DEF y

\* The data split by rounded limits: the shards, one after the other, are all
\* of it.
LEMMA ShardsFlatten ==
  ASSUME NEW d, AreData(d), NEW n \in Nat,
         Len(d.features.array) = n, Len(d.scores.array) = n,
         NEW count \in Nat \ {0},
         NEW fs, fs = [i \in 1 .. count |-> FeaturesOf(Shard(d, Piece(i, count, n)))],
         NEW ss, ss = [i \in 1 .. count |-> StatsOf(Shard(d, Piece(i, count, n)))]
  PROVE  FlattenSeq(fs) = FeaturesOf(d) /\ FlattenSeq(ss) = StatsOf(d)
<1> DEFINE q == [i \in 0 .. count |-> Limit(i, count, n)]
<1>1. DOMAIN d.features.array = 1 .. n /\ DOMAIN d.scores.array = 1 .. n
  BY ListHas DEF AreData, IsData
<1>2. AreLimits(q, count, n)
  <2>1. /\ 0 \in 0 .. count /\ count \in 0 .. count
        /\ \A i \in 1 .. count : i \in 0 .. count /\ i - 1 \in 0 .. count
    OBVIOUS
  <2>2. /\ \A i \in 0 .. count : Limit(i, count, n) \in 0 .. n
        /\ Limit(0, count, n) = 0 /\ Limit(count, count, n) = n
        /\ \A i \in 1 .. count : Limit(i - 1, count, n) <= Limit(i, count, n)
    BY <1>1, LimitsAscend
  <2> QED
    BY <2>1, <2>2 DEF AreLimits
<1>3. ASSUME NEW i \in 1 .. count
      PROVE  /\ FeaturesOf(Shard(d, Piece(i, count, n)))
                  = [k \in 1 .. q[i] - q[i - 1] |-> FeaturesOf(d)[q[i - 1] + k]]
             /\ StatsOf(Shard(d, Piece(i, count, n)))
                  = [k \in 1 .. q[i] - q[i - 1] |-> StatsOf(d)[q[i - 1] + k]]
  <2> DEFINE m == q[i] - q[i - 1]
             p == q[i - 1]
             piece == Piece(i, count, n)
  <2>1. i - 1 \in 0 .. count /\ i \in 0 .. count
    OBVIOUS
  <2>2. piece = [k \in 1 .. m |-> p + k]
    BY <2>1 DEF Piece
  <2> HIDE DEF q
  <2>3. m \in Nat /\ p \in Nat /\ \A k \in 1 .. m : p + k \in 1 .. n
    <3> DEFINE r == q[i]
    <3>1. p \in 0 .. n /\ r \in 0 .. n /\ p <= r
      BY <1>2, <2>1 DEF AreLimits
    <3>2. m = r - p
      OBVIOUS
    <3> HIDE DEF m, p, r
    <3> QED
      BY <3>1, <3>2
  <2> HIDE DEF piece, m, p
  <2>4. piece \in [1 .. m -> 1 .. n]
    BY <2>2, <2>3
  <2>5. \A k \in 1 .. m : piece[k] = p + k
    BY <2>2
  <2>6. \A k, l \in 1 .. m : piece[k] = piece[l] => k = l
    BY <2>3, <2>5
  <2>7. /\ FeaturesOf(Shard(d, piece)) = [k \in 1 .. m |-> FeaturesOf(d)[piece[k]]]
        /\ StatsOf(Shard(d, piece)) = [k \in 1 .. m |-> StatsOf(d)[piece[k]]]
    <3>1. m \in Nat
      BY <2>3
    <3>2. SeenInOrder(d, m, piece)
      BY <2>4, <2>6, <3>1, ShardHas
    <3> QED
      BY <3>2 DEF SeenInOrder
  <2>8. /\ FeaturesOf(Shard(d, piece)) = [k \in 1 .. m |-> FeaturesOf(d)[p + k]]
        /\ StatsOf(Shard(d, piece)) = [k \in 1 .. m |-> StatsOf(d)[p + k]]
    BY <2>5, <2>7
  <2> QED
    BY <2>8 DEF piece, m, p
<1> HIDE DEF q
<1> DEFINE x == FeaturesOf(d)
           y == StatsOf(d)
<1>4. IsList(x) /\ IsList(y) /\ Len(x) = n /\ Len(y) = n
  <2>1. x = [k \in 1 .. n |-> x[k]] /\ y = [k \in 1 .. n |-> y[k]]
    BY <1>1 DEF FeaturesOf, StatsOf
  <2> HIDE DEF x, y
  <2> QED
    BY <1>1, <2>1, ListIs
<1>5. ArePieces(fs, x, q, count) /\ ArePieces(ss, y, q, count)
  BY <1>3 DEF ArePieces, Slice
<1> HIDE DEF x, y
<1>6. FlattenSeq(fs) = x /\ FlattenSeq(ss) = y
  BY <1>2, <1>4, <1>5, PiecesFlatten
<1> QED
  BY <1>6 DEF x, y
-----------------------------------------------------------------------------
(* The shards mert works on.                                                 *)

\* Once shards are made they are the pieces of what was loaded.
ShardsStand ==
  /\ AreData(all) /\ Len(all.scores.array) = Len(all.features.array)
  /\ 1 \in DOMAIN starts
  /\ config.shards > 0 /\ config.share = 0 =>
       \A i \in 1 .. config.shards :
         shards[i] = Shard(all, Piece(i, config.shards, Len(all.features.array)))

\* Each optimizer has the shard of its place.
TasksStand ==
  /\ IsList(tasks)
  /\ \A i \in DOMAIN tasks :
       /\ 1 \in DOMAIN tasks[i]
       /\ "feats" \in DOMAIN tasks[i][1] /\ "stats" \in DOMAIN tasks[i][1]
       /\ config.shards > 0 => /\ tasks[i][1].feats = FeaturesOf(shards[i])
                               /\ tasks[i][1].stats = StatsOf(shards[i])

\* The inductive invariant of mert up to its optimizers.
ShardInv ==
  /\ config \in Configs
  /\ AreFiles(files)
  /\ pc \in {"extract", "loaded", "shard"} => tasks = <<>>
  /\ pc \in {"loaded", "shard"} => data = all /\ AreData(all)
  /\ pc = "shard" => 1 \in DOMAIN starts
  /\ pc = "launch" \/ tasks # <<>> => ShardsStand
  /\ TasksStand

\* Nothing is a list.
LEMMA NothingIsList == IsList(<<>>) /\ DOMAIN <<>> = {} /\ AreFiles(<<>>)
<1>1. <<>> \in Seq(ToSet(<<>>)) /\ Len(<<>>) = 0
  BY EmptySeq
<1> QED
  BY <1>1 DEF IsList, AreFiles

LEMMA ShardInit == MInit => ShardInv
<1>1. SUFFICES ASSUME MInit PROVE ShardInv
  OBVIOUS
<1> QED
  BY <1>1, NothingIsList DEF MInit, ShardInv, TasksStand

\* The last of some files.
LEMMA LastFile ==
  ASSUME NEW fs, AreFiles(fs), fs # <<>>
  PROVE  AreFiles(<<Last(fs)>>)
<1> DEFINE n == Len(fs)
           f == Last(fs)
<1>1. n \in Nat /\ DOMAIN fs = 1 .. n /\ fs = [k \in 1 .. n |-> fs[k]]
  BY ListHas DEF AreFiles
<1>2. n \in DOMAIN fs
  <2>1. n # 0
    <3>1. SUFFICES ASSUME n = 0 PROVE FALSE
      OBVIOUS
    <3>2. fs \in Seq(ToSet(fs)) /\ Len(fs) = 0
      BY <3>1 DEF AreFiles, IsList
    <3> HIDE DEF n
    <3> QED
      BY <3>2, EmptySeq
  <2> HIDE DEF n
  <2> QED
    BY <1>1, <2>1
<1>3. f = fs[n]
  BY DEF Last
<1> HIDE DEF f, n
<1>4. IsList(f.features) /\ IsList(f.scores)
  BY <1>2, <1>3 DEF AreFiles
<1> DEFINE g == <<f>>
<1>5. IsList(g) /\ DOMAIN g = 1 .. 1 /\ g[1] = f
  <2>1. g \in Seq({f}) /\ Len(g) = 1 /\ g[1] = f
    OBVIOUS
  <2>2. g = [k \in 1 .. 1 |-> g[k]]
    BY <2>1
  <2> HIDE DEF g
  <2> QED
    BY <2>1, <2>2, ListIs
<1> HIDE DEF g
<1>6. AreFiles(g)
  <2>1. \A i \in 1 .. 1 : i = 1
    OBVIOUS
  <2> QED
    BY <1>4, <1>5, <2>1 DEF AreFiles
<1> QED
  BY <1>6 DEF g, f

\* An element is added to a list.
LEMMA ListAppended ==
  ASSUME NEW s, IsList(s), NEW x
  PROVE  /\ IsList(Append(s, x)) /\ Len(s) \in Nat /\ Len(Append(s, x)) = Len(s) + 1
         /\ DOMAIN Append(s, x) = DOMAIN s \cup {Len(s) + 1}
         /\ Append(s, x)[Len(s) + 1] = x
         /\ \A i \in DOMAIN s : Append(s, x)[i] = s[i]
<1> DEFINE T == ToSet(s) \cup {x}
           n == Len(s)
           r == Append(s, x)
<1>1. s \in Seq(T) /\ x \in T
  BY DEF IsList
<1> HIDE DEF T
<1>2. /\ n \in Nat /\ DOMAIN s = 1 .. n /\ r \in Seq(T) /\ Len(r) = n + 1
      /\ r[n + 1] = x /\ \A i \in 1 .. n : r[i] = s[i]
  BY <1>1
<1> HIDE DEF n, r
<1>3. r = [k \in 1 .. n + 1 |-> r[k]] /\ n + 1 \in Nat
  BY <1>2
<1>4. IsList(r) /\ DOMAIN r = 1 .. n + 1
  BY <1>3, ListIs
<1>5. 1 .. n + 1 = 1 .. n \cup {n + 1}
  BY <1>2
<1> QED
  BY <1>2, <1>4, <1>5 DEF n, r

\* A list without places is empty.
LEMMA EmptyIs ==
  ASSUME NEW s, IsList(s)
  PROVE  s = <<>> <=> DOMAIN s = {}
<1>1. Len(s) \in Nat /\ DOMAIN s = 1 .. Len(s) /\ s \in Seq(ToSet(s))
  BY ListHas DEF IsList
<1>2. ASSUME DOMAIN s = {} PROVE s = <<>>
  <2>1. Len(s) = 0
    BY <1>1, <1>2
  <2> DEFINE T == ToSet(s)
  <2> HIDE DEF T
  <2>2. s \in Seq(T)
    BY <1>1 DEF T
  <2> QED
    BY <2>1, <2>2, EmptySeq
<1> QED
  BY <1>2, NothingIsList

\* A task keeps its data.
SameData(new, old) ==
  /\ DOMAIN new = DOMAIN old
  /\ "feats" \in DOMAIN old => new.feats = old.feats
  /\ "stats" \in DOMAIN old => new.stats = old.stats

LEMMA TaskSet ==
  ASSUME ShardInv, NEW t, NEW new, SameData(new, Task(t)), SetTask(t, new),
         UNCHANGED <<pc, files, config, data, all, starts, shards>>
  PROVE  ShardInv'
<1>1. TasksStand
  BY DEF ShardInv
<1>2. IsList(tasks) /\ Len(tasks) \in Nat /\ DOMAIN tasks = 1 .. Len(tasks)
  BY <1>1, ListHas DEF TasksStand
<1>3. tasks' = [tasks EXCEPT ![t[1]][t[2]] = new]
  BY DEF SetTask
<1>4. IsList(tasks') /\ DOMAIN tasks' = DOMAIN tasks
  <2> DEFINE n == Len(tasks)
             s == tasks'
  <2>1. s = [k \in 1 .. n |-> s[k]]
    BY <1>2, <1>3
  <2>2. n \in Nat
    BY <1>2
  <2> HIDE DEF n, s
  <2>3. IsList(s) /\ DOMAIN s = 1 .. n
    BY <2>1, <2>2, ListIs
  <2> QED
    BY <1>2, <2>3 DEF n, s
<1>5. tasks' = <<>> <=> tasks = <<>>
  BY <1>2, <1>4, EmptyIs
<1>6. ASSUME NEW i \in DOMAIN tasks, 1 \in DOMAIN tasks[i]
      PROVE  /\ 1 \in DOMAIN tasks'[i]
             /\ SameData(tasks'[i][1], tasks[i][1])
  <2>1. CASE t[1] = i /\ t[2] = 1
    <3>1. tasks'[i] = [tasks[i] EXCEPT ![1] = new]
      BY <1>3, <2>1
    <3>2. Task(t) = tasks[i][1]
      BY <2>1 DEF Task
    <3> QED
      BY <1>6, <3>1, <3>2
  <2>2. CASE t[1] = i /\ t[2] # 1
    <3>1. tasks'[i] = [tasks[i] EXCEPT ![t[2]] = new]
      BY <1>3, <2>2
    <3> QED
      BY <1>6, <2>2, <3>1 DEF SameData
  <2>3. CASE t[1] # i
    <3>1. tasks'[i] = tasks[i]
      BY <1>3, <2>3
    <3> QED
      BY <1>6, <3>1 DEF SameData
  <2> QED
    BY <2>1, <2>2, <2>3
<1>7. TasksStand'
  <2>1. ASSUME NEW i \in DOMAIN tasks'
        PROVE  /\ 1 \in DOMAIN tasks'[i]
               /\ "feats" \in DOMAIN tasks'[i][1] /\ "stats" \in DOMAIN tasks'[i][1]
               /\ config'.shards > 0 => /\ tasks'[i][1].feats = FeaturesOf(shards'[i])
                                        /\ tasks'[i][1].stats = StatsOf(shards'[i])
    <3>1. /\ 1 \in DOMAIN tasks[i]
          /\ "feats" \in DOMAIN tasks[i][1] /\ "stats" \in DOMAIN tasks[i][1]
          /\ config.shards > 0 => /\ tasks[i][1].feats = FeaturesOf(shards[i])
                                  /\ tasks[i][1].stats = StatsOf(shards[i])
      BY <1>1, <1>4, <2>1 DEF TasksStand
    <3>2. 1 \in DOMAIN tasks'[i] /\ SameData(tasks'[i][1], tasks[i][1])
      BY <1>4, <1>6, <2>1, <3>1
    <3> QED
      BY <3>1, <3>2 DEF SameData
  <2> QED
    BY <1>4, <2>1 DEF TasksStand
<1> QED
  BY <1>5, <1>7 DEF ShardInv, ShardsStand

\* A run of the extractor leaves files.
LEMMA ExtractKeeps ==
  ASSUME ShardInv, NEW list \in NBestLists, NEW previous, AreFiles(previous), NEW from,
         Extract(list, previous, from)
  PROVE  ShardInv'
<1> DEFINE none == NewData(Len(list[1].stats))
           old == AllLoaded(previous, none, <<>>)
           new == LoadNBest(old, list)
           kept == IF KeepDuplicates THEN new ELSE RemoveDuplicates(new)
<1>1. AreData(none)
  BY NoDataIsData DEF AreData, NewData
<1>2. files' = Append(files, Save(kept, Binary))
  BY DEF Extract, AllLoaded
<1> HIDE DEF none
<1>3. AreData(old)
  BY <1>1, LoadKeeps
<1> HIDE DEF old
<1>4. AreData(new)
  <2>1. IsList(list)
    BY MertAssumption DEF IsList
  <2> QED
    BY <1>3, <2>1, LoadNBestKeeps
<1> HIDE DEF new
<1>5. AreData(kept)
  BY <1>4, DedupKeeps
<1> HIDE DEF kept
<1> DEFINE f == Save(kept, Binary)
<1>6. IsList(f.features) /\ IsList(f.scores)
  BY <1>5, SavedIsList DEF Save, AreData
<1> HIDE DEF f
<1>7. AreFiles(files')
  <2>1. IsList(files) /\ files' = Append(files, f)
    BY <1>2 DEF ShardInv, AreFiles, f
  <2>2. /\ IsList(files') /\ DOMAIN files' = DOMAIN files \cup {Len(files) + 1}
        /\ files'[Len(files) + 1] = f
        /\ \A i \in DOMAIN files : files'[i] = files[i]
    BY <2>1, ListAppended
  <2>3. \A i \in DOMAIN files : IsList(files[i].features) /\ IsList(files[i].scores)
    BY DEF ShardInv, AreFiles
  <2> QED
    BY <1>6, <2>2, <2>3 DEF AreFiles
<1> QED
  BY <1>7 DEF ShardInv, ShardsStand, TasksStand, Extract

\* Loading leaves data without duplicates.
LEMMA LoadFilesKeeps ==
  ASSUME ShardInv, LoadFiles
  PROVE  ShardInv'
<1> DEFINE loaded == AllLoaded(Given, NewData(1), config.sparse)
<1>1. AreFiles(Given)
  <2>1. AreFiles(files) /\ files # <<>>
    BY DEF ShardInv, LoadFiles
  <2> QED
    BY <2>1, LastFile DEF Given
<1>2. AreData(NewData(1))
  BY NoDataIsData DEF AreData, NewData
<1>3. AreData(loaded)
  BY <1>1, <1>2, LoadKeeps
<1>4. data' = RemoveDuplicates(loaded) /\ all' = data'
  BY DEF LoadFiles, AllLoaded
<1> HIDE DEF loaded
<1>5. AreData(data')
  BY <1>3, <1>4, DedupKeeps
<1>6. tasks = <<>> /\ pc' = "loaded" /\ UNCHANGED <<config, files, tasks, starts, shards>>
  BY DEF LoadFiles, ShardInv
<1>7. TasksStand'
  BY <1>6, NothingIsList DEF TasksStand
<1> QED
  BY <1>4, <1>5, <1>6, <1>7 DEF ShardInv

\* There is a starting point.
LEMMA StartsKeep ==
  ASSUME ShardInv, NEW restarts \in [1 .. config.ntry -> Fractions], Starts(restarts)
  PROVE  ShardInv'
<1> DEFINE space == Space(config.pdim, ToOptimize, config.starts[1])
           low == FromInit(space, config.low)
           high == FromInit(space, config.high)
           a == [j \in DOMAIN config.starts |-> FromInit(space, config.starts[j])]
           b == [j \in DOMAIN restarts |-> Randomized(low, high, restarts[j], RandomParts)]
<1>1. starts' = a \o b
  BY DEF Starts
<1>2. /\ config.ntry \in Nat
      /\ config.starts \in Seq(ToSet(config.starts)) /\ config.starts # <<>>
  BY MertAssumption DEF ShardInv
<1>3. Len(config.starts) \in Nat \ {0} /\ DOMAIN config.starts = 1 .. Len(config.starts)
  <2> DEFINE s == config.starts
             T == ToSet(s)
  <2>1. s \in Seq(T) /\ s # <<>>
    BY <1>2
  <2> HIDE DEF s, T
  <2>2. Len(s) \in Nat \ {0} /\ DOMAIN s = 1 .. Len(s)
    BY <2>1, EmptySeq
  <2> QED
    BY <2>2 DEF s
<1> DEFINE n == Len(config.starts)
           m == config.ntry
<1>4. n \in Nat \ {0} /\ m \in Nat /\ DOMAIN a = 1 .. n /\ DOMAIN b = 1 .. m
  BY <1>2, <1>3
<1>5. a = [j \in 1 .. n |-> a[j]] /\ b = [j \in 1 .. m |-> b[j]]
  BY <1>4
<1> HIDE DEF a, b, n, m
<1>6. IsList(a) /\ IsList(b) /\ Len(a) = n /\ Len(b) = m
  BY <1>4, <1>5, ListIs
<1>7. 1 \in DOMAIN (a \o b)
  <2> DEFINE T == ToSet(a) \cup ToSet(b)
  <2>1. a \in Seq(T) /\ b \in Seq(T)
    BY <1>6 DEF IsList
  <2> HIDE DEF T
  <2>2. a \o b \in Seq(T) /\ Len(a \o b) = n + m
    BY <1>6, <2>1, ConcatProperties
  <2>3. DOMAIN (a \o b) = 1 .. n + m
    BY <2>2
  <2> QED
    BY <1>4, <2>3
<1>8. /\ pc = "loaded" /\ pc' = "shard"
      /\ UNCHANGED <<config, files, tasks, data, all, shards>>
  BY DEF Starts
<1>9. tasks = <<>> /\ tasks' = <<>> /\ TasksStand'
  BY <1>8, NothingIsList DEF ShardInv, TasksStand
<1> QED
  BY <1>1, <1>7, <1>8, <1>9 DEF ShardInv

\* Shards are made of what was loaded.
LEMMA ShardsKeep ==
  ASSUME ShardInv, CreateShards
  PROVE  ShardInv'
<1> DEFINE n == Len(data.features.array)
<1>1. /\ pc = "shard" /\ pc' = "launch" /\ Len(data.scores.array) = n
      /\ UNCHANGED <<config, files, tasks, data, all, starts>>
  BY DEF CreateShards
<1>2. tasks = <<>> /\ data = all /\ AreData(all) /\ 1 \in DOMAIN starts
  BY <1>1 DEF ShardInv
<1>3. config.share = 0 =>
        shards' = [i \in 1 .. config.shards |-> Shard(data, Piece(i, config.shards, n))]
  BY DEF CreateShards
<1>4. ShardsStand'
  BY <1>1, <1>2, <1>3 DEF ShardsStand
<1>5. TasksStand'
  BY <1>1, <1>2, NothingIsList DEF TasksStand
<1> QED
  BY <1>1, <1>2, <1>4, <1>5 DEF ShardInv

\* An optimizer is given the shard after it is assigned to data.
LEMMA LaunchKeeps ==
  ASSUME ShardInv, Launch
  PROVE  ShardInv'
<1> DEFINE i == Len(tasks) + 1
           x == [j \in DOMAIN starts |-> NewTask(data', starts[j])]
<1>1. /\ pc = "launch" /\ tasks' = Append(tasks, x)
      /\ config.shards > 0 => data' = shards[i]
      /\ UNCHANGED <<pc, config, files, all, starts, shards>>
  BY DEF Launch
<1>2. ShardsStand /\ IsList(tasks) /\ 1 \in DOMAIN starts
  BY <1>1 DEF ShardInv, TasksStand, ShardsStand
<1>3. /\ 1 \in DOMAIN x /\ "feats" \in DOMAIN x[1] /\ "stats" \in DOMAIN x[1]
      /\ x[1].feats = FeaturesOf(data') /\ x[1].stats = StatsOf(data')
  BY <1>2 DEF NewTask
<1> HIDE DEF x
<1>4. /\ IsList(tasks') /\ DOMAIN tasks' = DOMAIN tasks \cup {i}
      /\ tasks'[i] = x /\ \A k \in DOMAIN tasks : tasks'[k] = tasks[k]
  BY <1>1, <1>2, ListAppended
<1> HIDE DEF i
<1>5. TasksStand'
  <2>1. \A k \in DOMAIN tasks' : k \in DOMAIN tasks \/ k = i
    BY <1>4
  <2>2. ASSUME NEW k \in DOMAIN tasks'
        PROVE  /\ 1 \in DOMAIN tasks'[k]
               /\ "feats" \in DOMAIN tasks'[k][1] /\ "stats" \in DOMAIN tasks'[k][1]
               /\ config'.shards > 0 => /\ tasks'[k][1].feats = FeaturesOf(shards'[k])
                                        /\ tasks'[k][1].stats = StatsOf(shards'[k])
    <3>1. CASE k = i
      BY <1>1, <1>3, <1>4, <3>1
    <3>2. CASE k \in DOMAIN tasks
      BY <1>1, <1>4, <3>2 DEF ShardInv, TasksStand
    <3> QED
      BY <2>1, <3>1, <3>2
  <2> QED
    BY <1>4, <2>2 DEF TasksStand
<1>6. ShardsStand'
  BY <1>1, <1>2 DEF ShardsStand
<1> QED
  BY <1>1, <1>5, <1>6 DEF ShardInv

\* No task loses its data.
LEMMA RunKeeps ==
  ASSUME ShardInv, RunTask
  PROVE  ShardInv'
<1>1. ASSUME NEW t, NEW new, SameData(new, Task(t)), SetTask(t, new), OnlyTasks PROVE ShardInv'
  BY <1>1, TaskSet DEF OnlyTasks
<1>2. CASE StartPowell
  <2> DEFINE t == NextQueued
             old == Task(t)
  <2>1. PICK score : Begin(t, score)
    BY <1>2 DEF StartPowell
  <2> DEFINE new == [old EXCEPT !.state = "running", !.score = score, !.best = old.point,
                                !.bestScore = score, !.prev = score, !.d = 1]
  <2>2. SetTask(t, new) /\ OnlyTasks
    BY <1>2, <2>1 DEF StartPowell, Begin
  <2> HIDE DEF t
  <2>3. SameData(new, old)
    <3> HIDE DEF old
    <3> QED
      BY DEF SameData
  <2> HIDE DEF new
  <2> QED
    BY <1>1, <2>2, <2>3
<1>3. ASSUME NEW r, RunRandom(r) PROVE ShardInv'
  <2> DEFINE t == NextQueued
             old == Task(t)
             space == Space(config.pdim, ToOptimize, config.starts[1])
             p == Randomized(FromInit(space, config.low), FromInit(space, config.high), r,
                             RandomParts)
             score == GetStatScore(o, old.feats, old.stats, p)
             new == [old EXCEPT !.state = "done", !.point = p, !.score = score]
  <2>1. SetTask(t, new) /\ OnlyTasks
    BY <1>3 DEF RunRandom
  <2> HIDE DEF t, p, score
  <2>2. SameData(new, old)
    <3> HIDE DEF old
    <3> QED
      BY DEF SameData
  <2> HIDE DEF new
  <2> QED
    BY <1>1, <2>1, <2>2
<1>4. ASSUME NEW t, EndPass(t) PROVE ShardInv'
  <2> DEFINE old == Task(t)
             new == IF old.bestScore > old.prev
                    THEN [old EXCEPT !.point = old.best, !.prev = old.bestScore, !.d = 1]
                    ELSE [old EXCEPT !.point = old.best, !.score = old.bestScore,
                                     !.state = "done"]
  <2>1. SetTask(t, new) /\ OnlyTasks
    BY <1>4 DEF EndPass
  <2>2. SameData(new, old)
    <3> HIDE DEF old
    <3> QED
      BY DEF SameData
  <2> HIDE DEF new
  <2> QED
    BY <1>1, <2>1, <2>2
<1>5. ASSUME NEW t, NEW r, Search(t, r) PROVE ShardInv'
  <2> DEFINE old == Task(t)
             direction == Direction(old.d, r)
             found == LineOptimize(o, old.feats, old.stats, old.point, direction)
             new == IF found.score > old.bestScore
                    THEN [old EXCEPT !.d = @ + 1, !.bestScore = found.score,
                                     !.best = found.point]
                    ELSE [old EXCEPT !.d = @ + 1]
  <2>1. SetTask(t, new) /\ OnlyTasks
    BY <1>5 DEF Search, Found
  <2> HIDE DEF direction, found
  <2>2. SameData(new, old)
    <3> HIDE DEF old
    <3> QED
      BY DEF SameData
  <2> HIDE DEF new
  <2> QED
    BY <1>1, <2>1, <2>2
<1> QED
  BY <1>2, <1>3, <1>4, <1>5 DEF RunTask

LEMMA ShardStep == ShardInv /\ [MNext]_vars => ShardInv'
<1> SUFFICES ASSUME ShardInv, [MNext]_vars PROVE ShardInv'
  OBVIOUS
<1>1. CASE ExtractSome
  <2>1. PICK list \in NBestLists :
          \/ Extract(list, <<>>, <<>>)
          \/ files # <<>> /\ Extract(list, <<Last(files)>>, Last(lists))
    BY <1>1 DEF ExtractSome
  <2>2. AreFiles(<<>>) /\ (files # <<>> => AreFiles(<<Last(files)>>))
    BY NothingIsList, LastFile DEF ShardInv
  <2> QED
    BY <2>1, <2>2, ExtractKeeps
<1>2. CASE SampleSentence \/ EndOfFiles \/ EndedPrematurely
  <2>1. /\ pc' \in {"pro", "sampled", "exit"}
        /\ UNCHANGED <<config, files, tasks, data, all, starts, shards>>
    BY <1>2 DEF SampleSentence, EndOfFiles, EndedPrematurely, Reads
  <2> QED
    BY <2>1 DEF ShardInv, ShardsStand, TasksStand
<1>3. CASE LoadFiles
  BY <1>3, LoadFilesKeeps
<1>4. CASE \E restarts \in [1 .. config.ntry -> Fractions] : Starts(restarts)
  BY <1>4, StartsKeep
<1>5. CASE Unknown \/ Fail \/ Collect
  <2>1. /\ pc' \in {"exit", "done"}
        /\ UNCHANGED <<config, files, tasks, data, all, starts, shards>>
    BY <1>5 DEF Unknown, Fail, Collect
  <2> QED
    BY <2>1 DEF ShardInv, ShardsStand, TasksStand
<1>6. CASE CreateShards
  BY <1>6, ShardsKeep
<1>7. CASE Launch
  BY <1>7, LaunchKeeps
<1>8. CASE RunTask
  BY <1>8, RunKeeps
<1>9. CASE Stopped \/ UNCHANGED vars
  BY <1>9 DEF Stopped, vars, ShardInv, ShardsStand, TasksStand
<1> QED
  BY <1>1, <1>2, <1>3, <1>4, <1>5, <1>6, <1>7, <1>8, <1>9 DEF MNext

\* Shards without sampling are the data, one after the other.
LEMMA ShardsArePartition == ShardInv => ShardsAreThePartition
<1>1. SUFFICES ASSUME ShardInv, Len(tasks) = config.shards, config.shards > 0, config.share = 0
               PROVE  /\ FlattenSeq([i \in DOMAIN tasks |-> tasks[i][1].feats]) = FeaturesOf(all)
                      /\ FlattenSeq([i \in DOMAIN tasks |-> tasks[i][1].stats]) = StatsOf(all)
  BY DEF ShardsAreThePartition
<1> DEFINE count == config.shards
           n == Len(all.features.array)
<1>2. IsList(tasks) /\ Len(tasks) = count /\ count \in Nat \ {0} /\ DOMAIN tasks = 1 .. count
  BY <1>1, ListHas DEF ShardInv, TasksStand
<1>3. tasks # <<>>
  BY <1>2, EmptyIs
<1>4. /\ AreData(all) /\ Len(all.scores.array) = n
      /\ \A i \in 1 .. count : shards[i] = Shard(all, Piece(i, count, n))
  BY <1>1, <1>3 DEF ShardInv, ShardsStand
<1>5. n \in Nat
  BY <1>4, ListHas DEF AreData, IsData
<1> DEFINE fs == [i \in DOMAIN tasks |-> tasks[i][1].feats]
           ss == [i \in DOMAIN tasks |-> tasks[i][1].stats]
<1>6. /\ fs = [i \in 1 .. count |-> FeaturesOf(Shard(all, Piece(i, count, n)))]
      /\ ss = [i \in 1 .. count |-> StatsOf(Shard(all, Piece(i, count, n)))]
  BY <1>1, <1>2, <1>4 DEF ShardInv, TasksStand
<1>7. Len(all.features.array) = n
  OBVIOUS
<1> HIDE DEF fs, ss, count, n
<1>8. FlattenSeq(fs) = FeaturesOf(all) /\ FlattenSeq(ss) = StatsOf(all)
  BY <1>2, <1>4, <1>5, <1>6, <1>7, ShardsFlatten
<1> QED
  BY <1>8 DEF fs, ss

\* createShards and the loop over shards in mert.cpp: data_ref is data itself,
\* and yet, whatever was extracted, merged and loaded, and however the tasks
\* run, the optimizers of shards that are not sampled have among them every
\* sentence of what was loaded, in order and each once.
THEOREM OptimizersShareTheData == MSpec => []ShardsAreThePartition
<1> QED
  BY ShardInit, ShardStep, ShardsArePartition, PTL DEF MSpec
-----------------------------------------------------------------------------
(* The score of a corpus, counted change by change.                          *)

\* The statistics of n sentences, as many numbers for every hypothesis.
AreStats(stats, n, width) ==
  \A s \in 1 .. n : \A h \in DOMAIN stats[s] : stats[s][h] \in [1 .. width -> Int]

\* A hypothesis of each sentence.
AreCandidates(stats, n, last) ==
  /\ DOMAIN last = 1 .. n
  /\ \A s \in 1 .. n : last[s] \in DOMAIN stats[s]

\* A sentence and one of its hypotheses.
IsChange(stats, n, diff) == diff[1] \in 1 .. n /\ diff[2] \in DOMAIN stats[diff[1]]

\* What each sentence adds to a total.
Parts(stats, n, last, k) == [s \in 1 .. n |-> stats[s][last[s]][k]]

\* The totals are those of the hypotheses last counted.
IsCounted(stats, n, at) ==
  AreCandidates(stats, n, at.last) /\ at.totals = Totals(stats, at.last)

\* The hypotheses after the first m changes: of each sentence that of its last one.
AreLatest(n, diffs, m, old, new) ==
  \A s \in 1 .. n :
    \/ /\ \A k \in 1 .. m : diffs[k][1] # s
       /\ new[s] = old[s]
    \/ \E k \in 1 .. m : /\ diffs[k][1] = s /\ new[s] = diffs[k][2]
                        /\ \A l \in 1 .. m : l > k => diffs[l][1] # s

\* The loop over a list of changes in score(candidates, diffs, scores).
ChangeCounted(at, diff, stats) == Changed(stats, at, diff)

AfterChanges(stats, at, ds) == FoldLeft(LAMBDA a, d : Changed(stats, a, d), at, ds)

ListCounted(ats, ds, stats) == Append(ats, AfterChanges(stats, Last(ats), ds))

Anything(a) == TRUE

ChangeFold == INSTANCE Folding WITH Op <- ChangeCounted, Good <- Anything
IncrementFold == INSTANCE Folding WITH Op <- ListCounted, Good <- Anything

\* The total of a place is a sum of integers.
LEMMA TotalsAre ==
  ASSUME NEW n \in Nat, n > 0, NEW width \in Nat, NEW stats, AreStats(stats, n, width),
         NEW last, AreCandidates(stats, n, last)
  PROVE  Totals(stats, last) =
           [k \in 1 .. width |-> SumFunctionOnSet(Parts(stats, n, last, k), 1 .. n)]
<1>1. 1 \in 1 .. n /\ last[1] \in DOMAIN stats[1] /\ DOMAIN last = 1 .. n
  BY DEF AreCandidates
<1>2. DOMAIN stats[1][last[1]] = 1 .. width
  BY <1>1 DEF AreStats
<1>3. \A k \in 1 .. width :
        SumFunction([s \in 1 .. n |-> stats[s][last[s]][k]])
          = SumFunctionOnSet(Parts(stats, n, last, k), 1 .. n)
  BY SumOfFunction DEF Parts
<1> QED
  BY <1>1, <1>2, <1>3 DEF Totals

\* One change: what the sentence counted is taken off, and its new hypothesis
\* counted.
LEMMA ChangeIsCounted ==
  ASSUME NEW n \in Nat, n > 0, NEW width \in Nat, NEW stats, AreStats(stats, n, width),
         NEW at, IsCounted(stats, n, at), NEW diff, IsChange(stats, n, diff)
  PROVE  /\ IsCounted(stats, n, Changed(stats, at, diff))
         /\ Changed(stats, at, diff).last[diff[1]] = diff[2]
         /\ \A s \in 1 .. n : s # diff[1] => Changed(stats, at, diff).last[s] = at.last[s]
<1> DEFINE p == diff[1]
           new == [s \in 1 .. n |-> IF s = p THEN diff[2] ELSE at.last[s]]
           Old(k) == Parts(stats, n, at.last, k)
           New(k) == Parts(stats, n, new, k)
<1>1. /\ DOMAIN at.last = 1 .. n /\ p \in 1 .. n
      /\ \A s \in 1 .. n : at.last[s] \in DOMAIN stats[s]
      /\ diff[2] \in DOMAIN stats[p]
  BY DEF IsCounted, AreCandidates, IsChange
<1>2. AreCandidates(stats, n, new)
  BY <1>1 DEF AreCandidates
<1>3. /\ at.totals = [k \in 1 .. width |-> SumFunctionOnSet(Old(k), 1 .. n)]
      /\ Totals(stats, new) = [k \in 1 .. width |-> SumFunctionOnSet(New(k), 1 .. n)]
  <2> HIDE DEF new
  <2> QED
    BY <1>2, TotalsAre DEF IsCounted
<1>4. ASSUME NEW k \in 1 .. width
      PROVE  at.totals[k] + stats[p][diff[2]][k] - stats[p][at.last[p]][k]
               = SumFunctionOnSet(New(k), 1 .. n)
  <2>1. IsFiniteSet(1 .. n) /\ IsFiniteSet((1 .. n) \ {p})
    BY FS_Interval, FS_Subset
  <2>2. /\ \A s \in 1 .. n : Old(k)[s] \in Int /\ New(k)[s] \in Int
        /\ \A s \in (1 .. n) \ {p} : Old(k)[s] \in Int /\ New(k)[s] = Old(k)[s]
        /\ Old(k)[p] = stats[p][at.last[p]][k] /\ New(k)[p] = stats[p][diff[2]][k]
    <3>1. \A s \in 1 .. n : /\ stats[s][at.last[s]] \in [1 .. width -> Int]
                            /\ stats[s][new[s]] \in [1 .. width -> Int]
      BY <1>1 DEF AreStats
    <3>2. new[p] = diff[2] /\ \A s \in (1 .. n) \ {p} : new[s] = at.last[s]
      BY <1>1
    <3> HIDE DEF new
    <3> QED
      BY <1>1, <3>1, <3>2 DEF Parts
  <2>3. at.totals[k] = SumFunctionOnSet(Old(k), 1 .. n)
    BY <1>3
  <2> HIDE DEF Old, New, new
  <2>4. SumFunctionOnSet(Old(k), 1 .. n) = Old(k)[p] + SumFunctionOnSet(Old(k), (1 .. n) \ {p})
    <3>1. \A x \in 1 .. n : Old(k)[x] \in Int
      BY <2>2
    <3>2. \A x \in 1 .. n : SumFunctionOnSet(Old(k), 1 .. n)
                              = Old(k)[x] + SumFunctionOnSet(Old(k), (1 .. n) \ {x})
      BY <2>1, <3>1, SumWithout
    <3> QED
      BY <1>1, <3>2
  <2>5. SumFunctionOnSet(New(k), 1 .. n) = New(k)[p] + SumFunctionOnSet(New(k), (1 .. n) \ {p})
    <3>1. \A x \in 1 .. n : New(k)[x] \in Int
      BY <2>2
    <3>2. \A x \in 1 .. n : SumFunctionOnSet(New(k), 1 .. n)
                              = New(k)[x] + SumFunctionOnSet(New(k), (1 .. n) \ {x})
      BY <2>1, <3>1, SumWithout
    <3> QED
      BY <1>1, <3>2
  <2>6. SumFunctionOnSet(New(k), (1 .. n) \ {p}) = SumFunctionOnSet(Old(k), (1 .. n) \ {p})
    BY <2>1, <2>2, SumsEqual
  <2>7. SumFunctionOnSet(Old(k), (1 .. n) \ {p}) \in Int
    BY <2>1, <2>2, SumType
  <2>8. Old(k)[p] \in Int /\ New(k)[p] \in Int
    BY <1>1, <2>2
  <2> QED
    BY <2>2, <2>3, <2>4, <2>5, <2>6, <2>7, <2>8
<1>5. Changed(stats, at, diff).last = new
  BY <1>1 DEF Changed
<1>6. Changed(stats, at, diff).totals = Totals(stats, new)
  <2>1. DOMAIN at.totals = 1 .. width
    BY <1>3
  <2>2. Changed(stats, at, diff).totals
          = [k \in 1 .. width |-> at.totals[k] + stats[p][diff[2]][k] - stats[p][at.last[p]][k]]
    BY <2>1 DEF Changed
  <2> HIDE DEF New
  <2> QED
    BY <1>3, <1>4, <2>2
<1> QED
  BY <1>1, <1>2, <1>5, <1>6 DEF IsCounted

\* A list of changes, one after the other.
LEMMA ListIsCounted ==
  ASSUME NEW n \in Nat, n > 0, NEW width \in Nat, NEW stats, AreStats(stats, n, width),
         NEW at, IsCounted(stats, n, at), NEW m \in Nat, NEW ds, DOMAIN ds = 1 .. m,
         \A k \in 1 .. m : IsChange(stats, n, ds[k])
  PROVE  /\ IsCounted(stats, n, AfterChanges(stats, at, ds))
         /\ AreLatest(n, ds, m, at.last, AfterChanges(stats, at, ds).last)
<1>1. PICK g : /\ g[0] = at
               /\ \A i \in 1 .. m : g[i] = Changed(stats, g[i - 1], ds[i])
               /\ AfterChanges(stats, at, ds) = g[m]
  <2>1. ChangeFold!IsFold(m, ds, at, stats, ChangeFold!Folded(ds, at, stats))
    BY ChangeFold!FoldSteps
  <2>2. AfterChanges(stats, at, ds) = ChangeFold!Folded(ds, at, stats)
    BY DEF AfterChanges, FoldLeft, MapThenFoldSet, Max, ChangeFold!Folded,
           ChangeFold!FoldsFrom, ChangeFold!Max, ChangeCounted
  <2> QED
    BY <2>1, <2>2 DEF ChangeFold!IsFold, ChangeCounted
<1> DEFINE Right(i) == /\ IsCounted(stats, n, g[i])
                       /\ AreLatest(n, ds, i, at.last, g[i].last)
           B == {i \in 0 .. m : ~Right(i)}
<1>2. SUFFICES ASSUME B # {} PROVE FALSE
  <2>1. m \in 0 .. m
    OBVIOUS
  <2> HIDE DEF Right
  <2>2. Right(m)
    BY <2>1
  <2> QED
    BY <1>1, <2>2 DEF Right
<1>3. PICK i \in B : \A l \in B : i <= l
  <2>1. B \subseteq Nat
    OBVIOUS
  <2> HIDE DEF B
  <2> QED
    BY <1>2, <2>1, LeastNat
<1>4. i \in 0 .. m /\ ~Right(i)
  BY <1>3
<1>5. CASE i = 0
  <2>1. IsCounted(stats, n, g[0])
    BY <1>1
  <2>2. AreLatest(n, ds, 0, at.last, g[0].last)
    BY <1>1 DEF AreLatest
  <2> QED
    BY <1>4, <1>5, <2>1, <2>2
<1>6. CASE i # 0
  <2>1. i \in 1 .. m /\ i - 1 \in 0 .. m /\ ~(i <= i - 1)
    BY <1>4, <1>6
  <2>2. Right(i - 1)
    <3> HIDE DEF Right
    <3> QED
      BY <1>3, <2>1
  <2> DEFINE old == g[i - 1]
             new == g[i]
             p == ds[i][1]
  <2>3. new = Changed(stats, old, ds[i]) /\ IsChange(stats, n, ds[i]) /\ IsCounted(stats, n, old)
    BY <1>1, <2>1, <2>2
  <2>4. /\ IsCounted(stats, n, new) /\ new.last[p] = ds[i][2]
        /\ \A s \in 1 .. n : s # p => new.last[s] = old.last[s]
    <3> HIDE DEF new, old
    <3> QED
      BY <2>3, ChangeIsCounted
  <2>5. AreLatest(n, ds, i - 1, at.last, old.last)
    BY <2>2
  <2> HIDE DEF old, new
  <2>6. ASSUME NEW s \in 1 .. n
        PROVE  \/ /\ \A k \in 1 .. i : ds[k][1] # s
                  /\ new.last[s] = at.last[s]
               \/ \E k \in 1 .. i : /\ ds[k][1] = s /\ new.last[s] = ds[k][2]
                                    /\ \A l \in 1 .. i : l > k => ds[l][1] # s
    <3>1. CASE s = p
      <4>1. i \in 1 .. i /\ \A l \in 1 .. i : ~(l > i)
        BY <2>1
      <4> QED
        BY <2>4, <3>1, <4>1
    <3>2. CASE s # p
      <4>1. new.last[s] = old.last[s] /\ ds[i][1] # s
        BY <2>4, <3>2
      <4>2. \A k \in 1 .. i : k # i => k \in 1 .. i - 1
        BY <2>1
      <4>3. CASE (\A k \in 1 .. i - 1 : ds[k][1] # s) /\ old.last[s] = at.last[s]
        BY <4>1, <4>2, <4>3
      <4>4. CASE \E k \in 1 .. i - 1 :
                   /\ ds[k][1] = s /\ old.last[s] = ds[k][2]
                   /\ \A l \in 1 .. i - 1 : l > k => ds[l][1] # s
        <5>1. PICK k \in 1 .. i - 1 : /\ ds[k][1] = s /\ old.last[s] = ds[k][2]
                                      /\ \A l \in 1 .. i - 1 : l > k => ds[l][1] # s
          BY <4>4
        <5>2. k \in 1 .. i
          BY <2>1
        <5>3. \A l \in 1 .. i : l > k => ds[l][1] # s
          BY <4>1, <4>2, <5>1
        <5> QED
          BY <4>1, <5>1, <5>2, <5>3
      <4> QED
        BY <2>5, <4>3, <4>4 DEF AreLatest
    <3> QED
      BY <3>1, <3>2
  <2>7. AreLatest(n, ds, i, at.last, new.last)
    BY <2>6 DEF AreLatest
  <2> QED
    BY <1>4, <2>4, <2>7 DEF new
<1> QED
  BY <1>5, <1>6

\* The state of a list of counts: the first is that of the hypotheses at the
\* start, each is of the hypotheses it names, and those of the next are the
\* latest of its list of changes.
AreCounted(stats, n, first, diffs, m, ats) ==
  /\ IsList(ats) /\ Len(ats) = m + 1
  /\ ats[1].last = first
  /\ \A i \in 1 .. m + 1 : IsCounted(stats, n, ats[i])
  /\ \A i \in 1 .. m : AreLatest(n, diffs[i], Len(diffs[i]), ats[i].last, ats[i + 1].last)

\* One more list of changes.
LEMMA MoreAreCounted ==
  ASSUME NEW n \in Nat, n > 0, NEW width \in Nat, NEW stats, AreStats(stats, n, width),
         NEW first, NEW diffs, NEW m \in Nat, m > 0, NEW ats,
         AreCounted(stats, n, first, diffs, m - 1, ats),
         Len(diffs[m]) \in Nat, DOMAIN diffs[m] = 1 .. Len(diffs[m]),
         \A k \in 1 .. Len(diffs[m]) : IsChange(stats, n, diffs[m][k])
  PROVE  AreCounted(stats, n, first, diffs, m, ListCounted(ats, diffs[m], stats))
<1> DEFINE at == ats[m]
           next == AfterChanges(stats, at, diffs[m])
           new == Append(ats, next)
<1>1. /\ IsList(ats) /\ Len(ats) = m /\ ats[1].last = first
      /\ \A i \in 1 .. m : IsCounted(stats, n, ats[i])
      /\ \A i \in 1 .. m - 1 :
           AreLatest(n, diffs[i], Len(diffs[i]), ats[i].last, ats[i + 1].last)
  BY DEF AreCounted
<1>2. 1 \in 1 .. m /\ m \in 1 .. m /\ DOMAIN ats = 1 .. m
  BY <1>1, ListHas
<1>3. /\ IsCounted(stats, n, next)
      /\ AreLatest(n, diffs[m], Len(diffs[m]), at.last, next.last)
  <2>1. IsCounted(stats, n, at)
    BY <1>1, <1>2
  <2> HIDE DEF at
  <2> QED
    BY <2>1, ListIsCounted
<1>4. ListCounted(ats, diffs[m], stats) = new
  BY <1>1 DEF ListCounted, Last
<1>5. /\ IsList(new) /\ Len(new) = m + 1 /\ new[m + 1] = next
      /\ \A i \in 1 .. m : new[i] = ats[i]
  <2> HIDE DEF next
  <2> QED
    BY <1>1, <1>2, ListAppended
<1> HIDE DEF next, new
<1>6. ASSUME NEW i \in 1 .. m + 1 PROVE IsCounted(stats, n, new[i])
  <2>1. i = m + 1 \/ i \in 1 .. m
    OBVIOUS
  <2> QED
    BY <1>1, <1>3, <1>5, <2>1
<1>7. ASSUME NEW i \in 1 .. m
      PROVE  AreLatest(n, diffs[i], Len(diffs[i]), new[i].last, new[i + 1].last)
  <2>1. CASE i = m
    BY <1>3, <1>5, <2>1
  <2>2. CASE i # m
    <3>1. i \in 1 .. m - 1 /\ i + 1 \in 1 .. m
      BY <2>2
    <3> QED
      BY <1>1, <1>5, <3>1
  <2> QED
    BY <2>1, <2>2
<1>8. new[1].last = first
  BY <1>1, <1>2, <1>5
<1> QED
  BY <1>4, <1>5, <1>6, <1>7, <1>8 DEF AreCounted

\* StatisticsBasedScorer::score with lists of changes: for all statistics and
\* any changes, each score is the one that score gives for the hypotheses in
\* question counted anew, and those are, sentence by sentence, the last ones the
\* changes so far have named.  A line search rests on it for every place it tries.
THEOREM ChangesAreCounted ==
  ASSUME NEW n \in Nat, n > 0, NEW width \in Nat, NEW stats, AreStats(stats, n, width),
         NEW first, AreCandidates(stats, n, first),
         NEW m \in Nat, NEW diffs, DOMAIN diffs = 1 .. m,
         \A i \in 1 .. m : /\ Len(diffs[i]) \in Nat /\ DOMAIN diffs[i] = 1 .. Len(diffs[i])
                           /\ \A k \in 1 .. Len(diffs[i]) : IsChange(stats, n, diffs[i][k])
  PROVE  LET ats == Increments(stats, first, diffs)
         IN /\ Len(ats) = m + 1 /\ ats[1].last = first
            /\ \A i \in 1 .. m : AreLatest(n, diffs[i], Len(diffs[i]),
                                           ats[i].last, ats[i + 1].last)
            /\ \A i \in 1 .. m + 1 :
                 /\ AreCandidates(stats, n, ats[i].last)
                 /\ ScoresAt([type |-> "none", window |-> 0], ats)[i] = Score(stats, ats[i].last)
<1> DEFINE start == [totals |-> Totals(stats, first), last |-> first]
           ats == Increments(stats, first, diffs)
<1>1. PICK g : /\ g[0] = <<start>>
               /\ \A i \in 1 .. m : g[i] = ListCounted(g[i - 1], diffs[i], stats)
               /\ ats = g[m]
  <2>1. IncrementFold!IsFold(m, diffs, <<start>>, stats,
                             IncrementFold!Folded(diffs, <<start>>, stats))
    BY IncrementFold!FoldSteps
  <2>2. ats = IncrementFold!Folded(diffs, <<start>>, stats)
    BY DEF Increments, FoldLeft, MapThenFoldSet, Max, IncrementFold!Folded,
           IncrementFold!FoldsFrom, IncrementFold!Max, ListCounted, AfterChanges
  <2> HIDE DEF ats, start
  <2> QED
    BY <2>1, <2>2 DEF IncrementFold!IsFold
<1>2. AreCounted(stats, n, first, diffs, 0, <<start>>)
  <2>1. IsCounted(stats, n, start) /\ start.last = first
    BY DEF IsCounted
  <2> HIDE DEF start
  <2>2. <<start>> = [k \in 1 .. 1 |-> <<start>>[k]] /\ <<start>>[1] = start
    OBVIOUS
  <2>3. IsList(<<start>>) /\ Len(<<start>>) = 1
    BY <2>2, ListIs
  <2> QED
    BY <2>1, <2>2, <2>3 DEF AreCounted
<1> DEFINE Right(i) == AreCounted(stats, n, first, diffs, i, g[i])
           B == {i \in 0 .. m : ~Right(i)}
<1>3. Right(m)
  <2> SUFFICES ASSUME B # {} PROVE FALSE
    <3>1. m \in 0 .. m
      OBVIOUS
    <3> HIDE DEF Right
    <3> QED
      BY <3>1
  <2>1. PICK i \in B : \A l \in B : i <= l
    <3>1. B \subseteq Nat
      OBVIOUS
    <3> HIDE DEF B
    <3> QED
      BY <3>1, LeastNat
  <2>2. i \in 0 .. m /\ ~Right(i)
    BY <2>1
  <2>3. i # 0
    BY <1>1, <1>2, <2>2
  <2>4. i \in 1 .. m /\ i - 1 \in 0 .. m /\ ~(i <= i - 1)
    BY <2>2, <2>3
  <2>5. Right(i - 1)
    <3> HIDE DEF Right
    <3> QED
      BY <2>1, <2>4
  <2>6. AreCounted(stats, n, first, diffs, i, ListCounted(g[i - 1], diffs[i], stats))
    <3>1. i \in Nat /\ i > 0
      BY <2>4
    <3>2. /\ Len(diffs[i]) \in Nat /\ DOMAIN diffs[i] = 1 .. Len(diffs[i])
          /\ \A k \in 1 .. Len(diffs[i]) : IsChange(stats, n, diffs[i][k])
      BY <2>4
    <3> QED
      BY <2>5, <3>1, <3>2, MoreAreCounted
  <2> QED
    BY <1>1, <2>2, <2>4, <2>6
<1>4. AreCounted(stats, n, first, diffs, m, ats)
  BY <1>1, <1>3
<1> HIDE DEF ats
<1>5. /\ IsList(ats) /\ Len(ats) = m + 1 /\ DOMAIN ats = 1 .. m + 1
      /\ ats[1].last = first
      /\ \A i \in 1 .. m + 1 : IsCounted(stats, n, ats[i])
      /\ \A i \in 1 .. m : AreLatest(n, diffs[i], Len(diffs[i]), ats[i].last, ats[i + 1].last)
  BY <1>4, ListHas DEF AreCounted
<1>6. ASSUME NEW i \in 1 .. m + 1
      PROVE  /\ AreCandidates(stats, n, ats[i].last)
             /\ ScoresAt([type |-> "none", window |-> 0], ats)[i] = Score(stats, ats[i].last)
  <2>1. AreCandidates(stats, n, ats[i].last) /\ ats[i].totals = Totals(stats, ats[i].last)
    BY <1>5 DEF IsCounted
  <2>2. ScoresAt([type |-> "none", window |-> 0], ats)[i] = CalculateScore(ats[i].totals)
    BY <1>5 DEF ScoresAt, Regularized
  <2> QED
    BY <2>1, <2>2 DEF Score
<1> QED
  BY <1>5, <1>6 DEF ats

-----------------------------------------------------------------------------
(* removeDuplicates.                                                         *)

\* The places that were visited and stay.
Visited(at) == {j \in 1 .. at.end : j < at.k}

\* The features and the statistics of two places are the same.
SamePair(f, c, g, d) == SameEntry(f, g) /\ SameEntry(c, d)

\* The state of the loop: its fields, and their types.
Visiting(at) ==
  at = [feats |-> at.feats, scores |-> at.scores, k |-> at.k, end |-> at.end,
        lookup |-> at.lookup]

IsVisit(at, n) ==
  /\ Visiting(at)
  /\ at.feats = [j \in 1 .. n |-> at.feats[j]] /\ at.scores = [j \in 1 .. n |-> at.scores[j]]
  /\ at.end \in 0 .. n /\ at.k \in Nat /\ at.k > 0

\* Both arrays hold what they held, side by side, and up to the end a pair like
\* each that there was.
KeepsPairs(at, n, feats, scores) ==
  /\ \A j \in 1 .. n : \E i \in 1 .. n : at.feats[j] = feats[i] /\ at.scores[j] = scores[i]
  /\ \A i \in 1 .. n : \E j \in 1 .. at.end :
       SamePair(at.feats[j], at.scores[j], feats[i], scores[i])

\* No pair was met twice, and those that were met are found by their sums.
KnowsVisited(at) ==
  /\ \A j, l \in Visited(at) : DuplicateOf(at, j, l) => j = l
  /\ \A j \in Visited(at) : LET sum == Sum(at.feats[j].dense)
                            IN sum \in DOMAIN at.lookup /\ j \in at.lookup[sum]
  /\ \A x \in DOMAIN at.lookup : at.lookup[x] \subseteq Visited(at)

VisitInv(at, n, feats, scores) ==
  IsVisit(at, n) /\ KeepsPairs(at, n, feats, scores) /\ KnowsVisited(at)

\* The types of the loop's state, and that they stay when the arrays do.
LEMMA VisitTypes ==
  ASSUME NEW n \in Nat, NEW at, IsVisit(at, n)
  PROVE  /\ at.k \in Nat /\ at.k > 0 /\ at.end \in Nat /\ at.end \in 0 .. n
         /\ at.feats = [j \in 1 .. n |-> at.feats[j]]
         /\ at.scores = [j \in 1 .. n |-> at.scores[j]]
BY DEF IsVisit

LEMMA ArraysStay ==
  ASSUME NEW n \in Nat, NEW at, IsVisit(at, n), NEW new, Visiting(new),
         new.feats = at.feats, new.scores = at.scores,
         new.k \in Nat, new.k > 0, new.end \in 0 .. n
  PROVE  IsVisit(new, n)
<1>1. /\ at.feats = [j \in 1 .. n |-> at.feats[j]]
      /\ at.scores = [j \in 1 .. n |-> at.scores[j]]
  BY VisitTypes
<1>2. /\ new.feats = [j \in 1 .. n |-> new.feats[j]]
      /\ new.scores = [j \in 1 .. n |-> new.scores[j]]
  BY <1>1, Zenon
<1> QED
  BY <1>2, Zenon DEF IsVisit

\* What the loop looks at: the sum of the place's features, the places known by
\* it, and what is looked up after the place was met.
SumOf(at) == Sum(at.feats[at.k].dense)
KnownTo(at) == IF SumOf(at) \in DOMAIN at.lookup THEN at.lookup[SumOf(at)] ELSE {}
Met(at) == [x \in DOMAIN at.lookup \cup {SumOf(at)} |->
              IF x = SumOf(at) THEN KnownTo(at) \cup {at.k} ELSE at.lookup[x]]

\* A pair that is not known yet is looked up from now on.
LEMMA NewIsVisited ==
  ASSUME NEW n \in Nat, NEW feats, NEW scores, NEW at, VisitInv(at, n, feats, scores),
         at.k <= at.end, ~\E j \in KnownTo(at) : DuplicateOf(at, at.k, j),
         NEW new, Visiting(new), new.feats = at.feats, new.scores = at.scores,
         new.k = at.k + 1, new.end = at.end, new.lookup = Met(at)
  PROVE  VisitInv(new, n, feats, scores)
<1> DEFINE sum == SumOf(at)
           known == KnownTo(at)
           table == Met(at)
<1>0. /\ sum = Sum(at.feats[at.k].dense)
      /\ known = IF sum \in DOMAIN at.lookup THEN at.lookup[sum] ELSE {}
      /\ table = [x \in DOMAIN at.lookup \cup {sum} |->
                    IF x = sum THEN known \cup {at.k} ELSE at.lookup[x]]
      /\ ~\E j \in known : DuplicateOf(at, at.k, j)
      /\ new.lookup = table
  BY DEF SumOf, KnownTo, Met
<1> HIDE DEF sum, known, table
<1> DEFINE k == at.k
<1>1. IsVisit(at, n) /\ KeepsPairs(at, n, feats, scores) /\ KnowsVisited(at)
  BY DEF VisitInv
<1>2. /\ new.feats = at.feats /\ new.scores = at.scores /\ new.k = k + 1 /\ new.end = at.end
      /\ new.lookup = table
  BY <1>0
<1>3. Visiting(new)
  OBVIOUS
<1>4. k \in Nat /\ k > 0 /\ at.end \in Nat /\ at.end \in 0 .. n
  <2>1. IsVisit(at, n)
    BY <1>1, Zenon
  <2> QED
    BY <2>1, VisitTypes, Zenon
<1>5. IsVisit(new, n)
  <2>1. k + 1 \in Nat /\ k + 1 > 0
    BY <1>4, SMT
  <2>2. IsVisit(at, n) /\ new.k \in Nat /\ new.k > 0 /\ new.end \in 0 .. n
    BY <1>1, <1>2, <1>4, <2>1, Zenon
  <2> QED
    BY <1>2, <2>2, ArraysStay, Zenon
<1>6. KeepsPairs(new, n, feats, scores)
  BY <1>1, <1>2 DEF KeepsPairs
<1>7. Visited(new) = Visited(at) \cup {k} /\ k \notin Visited(at)
  BY <1>2, <1>4 DEF Visited
<1>8. ASSUME NEW j \in Visited(at) PROVE ~DuplicateOf(at, k, j)
  <2>1. SUFFICES ASSUME DuplicateOf(at, k, j) PROVE FALSE
    OBVIOUS
  <2>2. at.feats[j].dense = at.feats[k].dense
    BY <2>1 DEF DuplicateOf, SameEntry
  <2>3. Sum(at.feats[j].dense) = sum
    BY <1>0, <2>2
  <2>4. sum \in DOMAIN at.lookup /\ j \in at.lookup[sum]
    BY <1>1, <2>3 DEF KnowsVisited
  <2> QED
    BY <1>0, <2>1, <2>4
<1>9. ASSUME NEW j \in Visited(new), NEW l \in Visited(new), DuplicateOf(new, j, l)
      PROVE  j = l
  <2>1. DuplicateOf(at, j, l) /\ DuplicateOf(at, l, j)
    BY <1>2, <1>9 DEF DuplicateOf, SameEntry
  <2> QED
    BY <1>1, <1>7, <1>8, <2>1 DEF KnowsVisited
<1>10. ASSUME NEW j \in Visited(new)
       PROVE  LET x == Sum(new.feats[j].dense) IN x \in DOMAIN new.lookup /\ j \in new.lookup[x]
  <2>1. CASE j = k
    BY <1>0, <1>2, <2>1
  <2>2. CASE j \in Visited(at)
    <3> DEFINE x == Sum(at.feats[j].dense)
    <3>1. x \in DOMAIN at.lookup /\ j \in at.lookup[x]
      BY <1>1, <2>2 DEF KnowsVisited
    <3>2. Sum(new.feats[j].dense) = x
      BY <1>2
    <3> HIDE DEF x
    <3>3. x \in DOMAIN table /\ j \in table[x]
      BY <1>0, <3>1
    <3> QED
      BY <1>2, <3>2, <3>3
  <2> QED
    BY <1>7, <2>1, <2>2
<1>11. ASSUME NEW x \in DOMAIN new.lookup PROVE new.lookup[x] \subseteq Visited(new)
  <2>1. known \subseteq Visited(at)
    BY <1>0, <1>1 DEF KnowsVisited
  <2>2. \A y \in DOMAIN at.lookup : at.lookup[y] \subseteq Visited(at)
    BY <1>1 DEF KnowsVisited
  <2>3. CASE x = sum
    <3>1. new.lookup[x] = known \cup {k}
      BY <1>0, <1>2, <2>3
    <3> QED
      BY <1>7, <2>1, <3>1, Zenon
  <2>4. CASE x # sum
    <3>1. x \in DOMAIN at.lookup /\ new.lookup[x] = at.lookup[x]
      BY <1>0, <1>2, <2>4
    <3> QED
      BY <1>7, <2>2, <3>1, Zenon
  <2> QED
    BY <2>3, <2>4
<1>12. KnowsVisited(new)
  BY <1>9, <1>10, <1>11 DEF KnowsVisited
<1> QED
  BY <1>2, <1>5, <1>6, <1>12 DEF VisitInv

\* A pair that is known gives way to the last one, with its statistics.
LEMMA DuplicateIsSwapped ==
  ASSUME NEW n \in Nat, NEW feats, NEW scores, NEW at, VisitInv(at, n, feats, scores),
         at.k < at.end, NEW known \in Visited(at), DuplicateOf(at, at.k, known),
         NEW new, Visiting(new), new.feats = Swap(at.feats, at.k, at.end),
         new.scores = Swap(at.scores, at.k, at.end),
         new.k = at.k, new.end = at.end - 1, new.lookup = at.lookup
  PROVE  VisitInv(new, n, feats, scores)
<1> DEFINE k == at.k
           e == at.end
<1>1. IsVisit(at, n) /\ KeepsPairs(at, n, feats, scores) /\ KnowsVisited(at)
  BY DEF VisitInv
<1>2. /\ new.feats = Swap(at.feats, k, e) /\ new.scores = Swap(at.scores, k, e)
      /\ new.k = k /\ new.end = e - 1 /\ new.lookup = at.lookup
  OBVIOUS
<1>3. Visiting(new)
  OBVIOUS
<1>4. k \in Nat /\ k > 0 /\ e \in 0 .. n /\ k < e /\ k \in 1 .. n /\ e \in 1 .. n /\ k # e
  BY <1>1 DEF IsVisit
<1> HIDE DEF k, e
<1>5. ASSUME NEW s, s = [j \in 1 .. n |-> s[j]]
      PROVE  /\ Swap(s, k, e) = [j \in 1 .. n |-> Swap(s, k, e)[j]]
             /\ Swap(s, k, e)[k] = s[e] /\ Swap(s, k, e)[e] = s[k]
             /\ \A j \in 1 .. n : j # k /\ j # e => Swap(s, k, e)[j] = s[j]
  <2>1. DOMAIN s = 1 .. n
    BY <1>5
  <2>2. Swap(s, k, e) = [j \in 1 .. n |-> IF j = e THEN s[k] ELSE IF j = k THEN s[e] ELSE s[j]]
    BY <1>4, <2>1 DEF Swap
  <2> QED
    BY <1>4, <2>2
<1>6. /\ at.feats = [j \in 1 .. n |-> at.feats[j]]
      /\ at.scores = [j \in 1 .. n |-> at.scores[j]]
  BY <1>1 DEF IsVisit
<1>7. /\ new.feats[k] = at.feats[e] /\ new.feats[e] = at.feats[k]
      /\ \A j \in 1 .. n : j # k /\ j # e => new.feats[j] = at.feats[j]
      /\ new.feats = [j \in 1 .. n |-> new.feats[j]]
  BY <1>2, <1>5, <1>6
<1>8. /\ new.scores[k] = at.scores[e] /\ new.scores[e] = at.scores[k]
      /\ \A j \in 1 .. n : j # k /\ j # e => new.scores[j] = at.scores[j]
      /\ new.scores = [j \in 1 .. n |-> new.scores[j]]
  BY <1>2, <1>5, <1>6
<1>9. IsVisit(new, n)
  BY <1>2, <1>3, <1>4, <1>7, <1>8 DEF IsVisit
<1>10. known \in 1 .. e - 1 /\ known < k /\ known \in 1 .. n /\ known # k /\ known # e
  BY <1>4 DEF Visited, k, e
<1>11. ASSUME NEW j \in 1 .. n
       PROVE  \E i \in 1 .. n : new.feats[j] = feats[i] /\ new.scores[j] = scores[i]
  <2>1. \E l \in 1 .. n : new.feats[j] = at.feats[l] /\ new.scores[j] = at.scores[l]
    BY <1>4, <1>7, <1>8
  <2> QED
    BY <1>1, <2>1 DEF KeepsPairs
<1>12. ASSUME NEW i \in 1 .. n
       PROVE  \E j \in 1 .. e - 1 : SamePair(new.feats[j], new.scores[j], feats[i], scores[i])
  <2>1. PICK j \in 1 .. e : SamePair(at.feats[j], at.scores[j], feats[i], scores[i])
    BY <1>1 DEF KeepsPairs, e
  <2>2. CASE j = k
    <3>1. SamePair(at.feats[known], at.scores[known], feats[i], scores[i])
      BY <2>1, <2>2 DEF SamePair, DuplicateOf, SameEntry, k
    <3> QED
      BY <1>7, <1>8, <1>10, <3>1
  <2>3. CASE j = e
    <3>1. k \in 1 .. e - 1
      BY <1>4
    <3> QED
      BY <1>7, <1>8, <2>1, <2>3, <3>1
  <2>4. CASE j # k /\ j # e
    <3>1. j \in 1 .. e - 1 /\ j \in 1 .. n
      BY <1>4, <2>4
    <3> QED
      BY <1>7, <1>8, <2>1, <2>4, <3>1
  <2> QED
    BY <2>2, <2>3, <2>4
<1>13. KeepsPairs(new, n, feats, scores)
  BY <1>2, <1>11, <1>12 DEF KeepsPairs
<1>14. /\ Visited(new) = Visited(at)
       /\ \A j \in Visited(at) : new.feats[j] = at.feats[j] /\ new.scores[j] = at.scores[j]
  <2>1. ASSUME NEW j \in Visited(at) PROVE j \in 1 .. n /\ j # k /\ j # e /\ j \in 1 .. e - 1 /\ j < k
    BY <1>4 DEF Visited, k, e
  <2>2. ASSUME NEW j \in 1 .. e - 1, j < k PROVE j \in Visited(at)
    BY <1>4, <2>2 DEF Visited, k, e
  <2>3. Visited(new) = {j \in 1 .. e - 1 : j < k}
    BY <1>2 DEF Visited
  <2> QED
    BY <1>7, <1>8, <2>1, <2>2, <2>3
<1>15. KnowsVisited(new)
  <2>1. \A j, l \in Visited(at) : DuplicateOf(new, j, l) => DuplicateOf(at, j, l)
    BY <1>14 DEF DuplicateOf
  <2>2. \A j \in Visited(at) : Sum(new.feats[j].dense) = Sum(at.feats[j].dense)
    BY <1>14
  <2> QED
    BY <1>1, <1>2, <1>14, <2>1, <2>2 DEF KnowsVisited
<1> QED
  BY <1>9, <1>13, <1>15 DEF VisitInv

\* If it is the last one, it is left out.
LEMMA DuplicateIsDropped ==
  ASSUME NEW n \in Nat, NEW feats, NEW scores, NEW at, VisitInv(at, n, feats, scores),
         at.k = at.end, NEW known \in Visited(at), DuplicateOf(at, at.k, known),
         NEW new, Visiting(new), new.feats = at.feats, new.scores = at.scores,
         new.k = at.k + 1, new.end = at.end - 1, new.lookup = at.lookup
  PROVE  VisitInv(new, n, feats, scores)
<1> DEFINE k == at.k
<1>1. IsVisit(at, n) /\ KeepsPairs(at, n, feats, scores) /\ KnowsVisited(at)
  BY DEF VisitInv
<1>2. /\ new.feats = at.feats /\ new.scores = at.scores
      /\ new.k = k + 1 /\ new.end = k - 1 /\ new.lookup = at.lookup
  OBVIOUS
<1>3. Visiting(new)
  OBVIOUS
<1>4. k \in Nat /\ k > 0 /\ k \in 0 .. n /\ at.end = k
  BY <1>1 DEF IsVisit
<1> HIDE DEF k
<1>5. IsVisit(new, n)
  BY <1>1, <1>2, <1>3, <1>4 DEF IsVisit
<1>6. known \in 1 .. k - 1
  BY <1>4 DEF Visited, k
<1>7. ASSUME NEW i \in 1 .. n
      PROVE  \E j \in 1 .. k - 1 : SamePair(at.feats[j], at.scores[j], feats[i], scores[i])
  <2>1. PICK j \in 1 .. k : SamePair(at.feats[j], at.scores[j], feats[i], scores[i])
    BY <1>1, <1>4 DEF KeepsPairs
  <2>2. CASE j = k
    <3>1. SamePair(at.feats[known], at.scores[known], feats[i], scores[i])
      BY <2>1, <2>2 DEF SamePair, DuplicateOf, SameEntry, k
    <3> QED
      BY <1>6, <3>1
  <2>3. CASE j # k
    <3>1. j \in 1 .. k - 1
      BY <1>4, <2>3
    <3> QED
      BY <2>1, <3>1
  <2> QED
    BY <2>2, <2>3
<1>8. KeepsPairs(new, n, feats, scores)
  BY <1>1, <1>2, <1>7 DEF KeepsPairs
<1>9. Visited(new) = Visited(at)
  <2>1. Visited(new) = {j \in 1 .. k - 1 : j < k + 1}
    BY <1>2 DEF Visited
  <2>2. Visited(at) = {j \in 1 .. k : j < k}
    BY <1>4 DEF Visited, k
  <2> QED
    BY <1>4, <2>1, <2>2
<1>10. KnowsVisited(new)
  BY <1>1, <1>2, <1>9 DEF KnowsVisited, DuplicateOf
<1> QED
  BY <1>5, <1>8, <1>10 DEF VisitInv
\* A state of the loop made of its fields.
Stage(feats, scores, k, end, lookup) ==
  [feats |-> feats, scores |-> scores, k |-> k, end |-> end, lookup |-> lookup]

LEMMA StageIsVisiting ==
  ASSUME NEW f, NEW c, NEW k, NEW e, NEW l, NEW new, new = Stage(f, c, k, e, l)
  PROVE  /\ Visiting(new) /\ new.feats = f /\ new.scores = c /\ new.k = k
         /\ new.end = e /\ new.lookup = l
<1>1. new.feats = f /\ new.scores = c /\ new.k = k /\ new.end = e /\ new.lookup = l
  BY DEF Stage
<1> QED
  BY <1>1 DEF Stage, Visiting

LEMMA StageChanges ==
  ASSUME NEW f0, NEW c0, NEW k0, NEW e0, NEW l0, NEW at, at = Stage(f0, c0, k0, e0, l0),
         NEW f, NEW c, NEW k, NEW e, NEW l
  PROVE  /\ [at EXCEPT !.feats = f] = Stage(f, c0, k0, e0, l0)
         /\ [at EXCEPT !.scores = c] = Stage(f0, c, k0, e0, l0)
         /\ [at EXCEPT !.k = k] = Stage(f0, c0, k, e0, l0)
         /\ [at EXCEPT !.end = e] = Stage(f0, c0, k0, e, l0)
         /\ [at EXCEPT !.lookup = l] = Stage(f0, c0, k0, e0, l)
<1>1. [at EXCEPT !.feats = f] = Stage(f, c0, k0, e0, l0)
  BY DEF Stage
<1>2. [at EXCEPT !.scores = c] = Stage(f0, c, k0, e0, l0)
  BY DEF Stage
<1>3. [at EXCEPT !.k = k] = Stage(f0, c0, k, e0, l0)
  BY DEF Stage
<1>4. [at EXCEPT !.end = e] = Stage(f0, c0, k0, e, l0)
  BY DEF Stage
<1>5. [at EXCEPT !.lookup = l] = Stage(f0, c0, k0, e0, l)
  BY DEF Stage
<1> QED
  BY <1>1, <1>2, <1>3, <1>4, <1>5, Zenon

\* The three steps of the loop.
Swapping(at, f, c, e) == [at EXCEPT !.feats = f, !.scores = c, !.end = e]
Dropping(at, k, e) == [at EXCEPT !.k = k, !.end = e]
Meeting(at, l, k) == [at EXCEPT !.lookup = l, !.k = k]

LEMMA SwappingIs ==
  ASSUME NEW at, Visiting(at), NEW f, NEW c, NEW e
  PROVE  Swapping(at, f, c, e) = Stage(f, c, at.k, e, at.lookup)
<1>1. at = Stage(at.feats, at.scores, at.k, at.end, at.lookup)
  BY Zenon DEF Visiting, Stage
<1> DEFINE a == [at EXCEPT !.feats = f]
           b == [a EXCEPT !.scores = c]
           d == [b EXCEPT !.end = e]
<1>2. a = Stage(f, at.scores, at.k, at.end, at.lookup)
  BY <1>1, StageChanges
<1>3. d = Swapping(at, f, c, e)
  BY DEF Swapping
<1> HIDE DEF a
<1>4. b = Stage(f, c, at.k, at.end, at.lookup)
  BY <1>2, StageChanges
<1> HIDE DEF b
<1>5. d = Stage(f, c, at.k, e, at.lookup)
  BY <1>4, StageChanges
<1> HIDE DEF d
<1> QED
  BY <1>3, <1>5

LEMMA DroppingIs ==
  ASSUME NEW at, Visiting(at), NEW k, NEW e
  PROVE  Dropping(at, k, e) = Stage(at.feats, at.scores, k, e, at.lookup)
<1>1. at = Stage(at.feats, at.scores, at.k, at.end, at.lookup)
  BY Zenon DEF Visiting, Stage
<1> DEFINE a == [at EXCEPT !.k = k]
           b == [a EXCEPT !.end = e]
<1>2. a = Stage(at.feats, at.scores, k, at.end, at.lookup)
  BY <1>1, StageChanges
<1>3. b = Dropping(at, k, e)
  BY DEF Dropping
<1> HIDE DEF a
<1>4. b = Stage(at.feats, at.scores, k, e, at.lookup)
  BY <1>2, StageChanges
<1> HIDE DEF b
<1> QED
  BY <1>3, <1>4

LEMMA MeetingIs ==
  ASSUME NEW at, Visiting(at), NEW l, NEW k
  PROVE  Meeting(at, l, k) = Stage(at.feats, at.scores, k, at.end, l)
<1>1. at = Stage(at.feats, at.scores, at.k, at.end, at.lookup)
  BY Zenon DEF Visiting, Stage
<1> DEFINE a == [at EXCEPT !.lookup = l]
           b == [a EXCEPT !.k = k]
<1>2. a = Stage(at.feats, at.scores, at.k, at.end, l)
  BY <1>1, StageChanges
<1>3. b = Meeting(at, l, k)
  BY DEF Meeting
<1> HIDE DEF a
<1>4. b = Stage(at.feats, at.scores, k, at.end, l)
  BY <1>2, StageChanges
<1> HIDE DEF b
<1> QED
  BY <1>3, <1>4

\* One visit keeps what was found so far, and there is less to visit.
LEMMA VisitKeeps ==
  ASSUME NEW n \in Nat, NEW feats, NEW scores, NEW at, VisitInv(at, n, feats, scores),
         at.k <= at.end
  PROVE  VisitInv(Visit(at), n, feats, scores) /\ Visit(at).end - Visit(at).k < at.end - at.k
<1> DEFINE known == KnownTo(at)
           swapped == Swapping(at, Swap(at.feats, at.k, at.end),
                               Swap(at.scores, at.k, at.end), at.end - 1)
           dropped == Dropping(at, at.k + 1, at.end - 1)
           met == Meeting(at, Met(at), at.k + 1)
           new == Visit(at)
<1>1. IsVisit(at, n) /\ KnowsVisited(at) /\ Visiting(at)
  BY DEF VisitInv, IsVisit
<1>2. at.k \in Nat /\ at.k > 0 /\ at.end \in Nat
  BY <1>1, VisitTypes
<1>3. known \subseteq Visited(at)
  BY <1>1 DEF KnowsVisited, KnownTo, SumOf
<1>4. new = IF \E j \in known : DuplicateOf(at, at.k, j)
            THEN IF at.k < at.end THEN swapped ELSE dropped
            ELSE met
  BY DEF Visit, Swapping, Dropping, Meeting, Met, KnownTo, SumOf
<1> HIDE DEF new, known
<1>5. CASE ~\E j \in known : DuplicateOf(at, at.k, j)
  <2>0. met = Stage(at.feats, at.scores, at.k + 1, at.end, Met(at))
    BY <1>1, MeetingIs
  <2>1. new = Stage(at.feats, at.scores, at.k + 1, at.end, Met(at))
    BY <1>4, <1>5, <2>0
  <2>2. /\ Visiting(new) /\ new.feats = at.feats /\ new.scores = at.scores
        /\ new.k = at.k + 1 /\ new.end = at.end /\ new.lookup = Met(at)
    BY <2>1, StageIsVisiting
  <2>3. VisitInv(new, n, feats, scores)
    BY <1>5, <2>2, NewIsVisited DEF known
  <2>4. new.end - new.k < at.end - at.k
    BY <1>2, <2>2
  <2> QED
    BY <2>3, <2>4 DEF new
<1>6. CASE (\E j \in known : DuplicateOf(at, at.k, j)) /\ at.k < at.end
  <2>0. swapped = Stage(Swap(at.feats, at.k, at.end), Swap(at.scores, at.k, at.end),
                    at.k, at.end - 1, at.lookup)
    BY <1>1, SwappingIs
  <2>1. new = Stage(Swap(at.feats, at.k, at.end), Swap(at.scores, at.k, at.end),
                    at.k, at.end - 1, at.lookup)
    BY <1>4, <1>6, <2>0
  <2>2. /\ Visiting(new) /\ new.feats = Swap(at.feats, at.k, at.end)
        /\ new.scores = Swap(at.scores, at.k, at.end)
        /\ new.k = at.k /\ new.end = at.end - 1 /\ new.lookup = at.lookup
    BY <2>1, StageIsVisiting
  <2>3. PICK j \in Visited(at) : DuplicateOf(at, at.k, j)
    BY <1>3, <1>6
  <2>4. VisitInv(new, n, feats, scores)
    BY <1>6, <2>2, <2>3, DuplicateIsSwapped
  <2>5. new.end - new.k < at.end - at.k
    BY <1>2, <2>2
  <2> QED
    BY <2>4, <2>5 DEF new
<1>7. CASE (\E j \in known : DuplicateOf(at, at.k, j)) /\ ~(at.k < at.end)
  <2>0. dropped = Stage(at.feats, at.scores, at.k + 1, at.end - 1, at.lookup)
    BY <1>1, DroppingIs
  <2>1. new = Stage(at.feats, at.scores, at.k + 1, at.end - 1, at.lookup)
    BY <1>4, <1>7, <2>0
  <2>2. /\ Visiting(new) /\ new.feats = at.feats /\ new.scores = at.scores
        /\ new.k = at.k + 1 /\ new.end = at.end - 1 /\ new.lookup = at.lookup
    BY <2>1, StageIsVisiting
  <2>3. PICK j \in Visited(at) : DuplicateOf(at, at.k, j)
    BY <1>3, <1>7
  <2>4. at.k = at.end
    BY <1>2, <1>7
  <2>5. VisitInv(new, n, feats, scores)
    BY <2>2, <2>3, <2>4, DuplicateIsDropped
  <2>6. new.end - new.k < at.end - at.k
    BY <1>2, <2>2
  <2> QED
    BY <2>5, <2>6 DEF new
<1> QED
  BY <1>5, <1>6, <1>7

\* A turn of the loop.
VisitNext(at, i, p) == IF at.k <= at.end THEN Visit(at) ELSE at

VisitFold == INSTANCE Folding WITH Op <- VisitNext, Good <- Anything

\* The arrays the loop ends with: every place up to the end was visited.
LEMMA AllAreVisited ==
  ASSUME NEW n \in Nat, NEW feats, NEW scores,
         IsList(feats), Len(feats) = n, IsList(scores), Len(scores) = n
  PROVE  \E at : /\ VisitInv(at, n, feats, scores) /\ at.k > at.end
                 /\ Deduped(feats, scores) = Remaining(at)
<1> DEFINE start == [feats |-> feats, scores |-> scores, k |-> 1, end |-> n, lookup |-> <<>>]
           last == VisitFold!Folded(feats, start, 0)
<1>1. /\ DOMAIN feats = 1 .. n /\ feats = [j \in 1 .. n |-> feats[j]]
      /\ DOMAIN scores = 1 .. n /\ scores = [j \in 1 .. n |-> scores[j]]
  BY ListHas
<1>2. PICK g : /\ g[0] = start
               /\ \A i \in 1 .. n : g[i] = VisitNext(g[i - 1], feats[i], 0)
               /\ last = g[n]
  <2>1. VisitFold!IsFold(n, feats, start, 0, last)
    BY <1>1, VisitFold!FoldSteps
  <2> HIDE DEF start, last
  <2> QED
    BY <2>1 DEF VisitFold!IsFold
<1>3. Deduped(feats, scores) = Remaining(last)
  BY DEF Deduped, FoldLeft, MapThenFoldSet, Max, VisitFold!Folded,
         VisitFold!FoldsFrom, VisitFold!Max, VisitNext
<1>4. VisitInv(start, n, feats, scores)
  <2>1. /\ start.feats = feats /\ start.scores = scores /\ start.k = 1 /\ start.end = n
        /\ start.lookup = <<>>
    OBVIOUS
  <2>2. Visiting(start)
    BY DEF Visiting
  <2> HIDE DEF start
  <2>3. IsVisit(start, n)
    BY <1>1, <2>1, <2>2 DEF IsVisit
  <2>4. KeepsPairs(start, n, feats, scores)
    BY <2>1 DEF KeepsPairs, SamePair, SameEntry
  <2>5. Visited(start) = {} /\ DOMAIN <<>> = {}
    BY <2>1 DEF Visited
  <2>6. KnowsVisited(start)
    BY <2>1, <2>5 DEF KnowsVisited
  <2> QED
    BY <2>3, <2>4, <2>6 DEF VisitInv
<1> DEFINE Right(i) == /\ VisitInv(g[i], n, feats, scores)
                       /\ g[i].k <= g[i].end => g[i].end - g[i].k < n - i
           B == {i \in 0 .. n : ~Right(i)}
<1>5. Right(0)
  <2>1. start.k = 1 /\ start.end = n
    OBVIOUS
  <2> HIDE DEF start
  <2> QED
    BY <1>2, <1>4, <2>1
<1> HIDE DEF start, last
<1>6. Right(n)
  <2> SUFFICES ASSUME B # {} PROVE FALSE
    <3>1. n \in 0 .. n
      OBVIOUS
    <3> HIDE DEF Right
    <3> QED
      BY <3>1
  <2>1. PICK i \in B : \A l \in B : i <= l
    <3>1. B \subseteq Nat
      OBVIOUS
    <3> HIDE DEF B
    <3> QED
      BY <3>1, LeastNat
  <2>2. i \in 0 .. n /\ ~Right(i)
    BY <2>1
  <2>3. i # 0
    <3> HIDE DEF Right
    <3> QED
      BY <1>5, <2>2
  <2>4. i \in 1 .. n /\ i - 1 \in 0 .. n /\ ~(i <= i - 1)
    BY <2>2, <2>3
  <2>5. Right(i - 1)
    <3> HIDE DEF Right
    <3> QED
      BY <2>1, <2>4
  <2> DEFINE at == g[i - 1]
  <2>6. /\ VisitInv(at, n, feats, scores)
        /\ at.k <= at.end => at.end - at.k < n - (i - 1)
    BY <2>5
  <2>7. g[i] = VisitNext(at, feats[i], 0)
    BY <1>2, <2>4
  <2> HIDE DEF at
  <2>8. CASE at.k <= at.end
    <3> DEFINE new == Visit(at)
    <3>1. VisitInv(new, n, feats, scores) /\ new.end - new.k < at.end - at.k
      BY <2>6, <2>8, VisitKeeps
    <3>2. g[i] = new
      BY <2>7, <2>8 DEF VisitNext
    <3> HIDE DEF new
    <3>3. /\ at.k \in Nat /\ at.end \in Nat /\ new.k \in Nat /\ new.end \in Nat
      BY <2>6, <3>1, VisitTypes DEF VisitInv
    <3>4. new.end - new.k < n - i
      BY <2>2, <2>6, <2>8, <3>1, <3>3
    <3> QED
      BY <2>2, <3>1, <3>2, <3>4
  <2>9. CASE ~(at.k <= at.end)
    <3>1. g[i] = at
      BY <2>7, <2>9 DEF VisitNext
    <3> QED
      BY <2>2, <2>6, <2>9, <3>1
  <2> QED
    BY <2>8, <2>9
<1>7. VisitInv(last, n, feats, scores) /\ (last.k <= last.end => last.end - last.k < n - n)
  BY <1>2, <1>6
<1>8. last.k \in Nat /\ last.end \in Nat
  BY <1>7, VisitTypes DEF VisitInv
<1>9. last.k > last.end
  BY <1>7, <1>8
<1> QED
  BY <1>3, <1>7, <1>9

\* The first places of a list.
LEMMA FirstOfList ==
  ASSUME NEW n \in Nat, NEW s, s = [j \in 1 .. n |-> s[j]], NEW m \in 0 .. n
  PROVE  Len(SubSeq(s, 1, m)) = m /\ \A j \in 1 .. m : SubSeq(s, 1, m)[j] = s[j]
<1>1. \A j \in 1 .. m : s[j] \in ToSet(s)
  <2>1. DOMAIN s = 1 .. n
    OBVIOUS
  <2> QED
    BY <2>1 DEF ToSet
<1>2. /\ Len(SubSeq(s, 1, m)) = IF 1 <= m THEN m - 1 + 1 ELSE 0
      /\ \A j \in 1 .. m - 1 + 1 : SubSeq(s, 1, m)[j] = s[1 + j - 1]
  BY <1>1, SubSeqProperties
<1>3. m - 1 + 1 = m /\ \A j \in 1 .. m : 1 + j - 1 = j
  OBVIOUS
<1> QED
  BY <1>2, <1>3

\* Data::removeDuplicates: for any hypotheses of a sentence, what is left are
\* hypotheses there were, each with its own statistics although places are
\* swapped in two arrays; every one that there was has its like among them,
\* features and statistics alike; and no two of them are alike.  Nothing is lost
\* or left twice through the place of a duplicate being visited once more.
THEOREM DuplicatesAreRemoved ==
  ASSUME NEW n \in Nat, NEW feats, NEW scores,
         IsList(feats), Len(feats) = n, IsList(scores), Len(scores) = n
  PROVE  LET new == Deduped(feats, scores)
             left == 1 .. Len(new.feats)
         IN /\ Len(new.scores) = Len(new.feats) /\ Len(new.feats) \in 0 .. n
            /\ \A k \in left : \E i \in 1 .. n :
                 new.feats[k] = feats[i] /\ new.scores[k] = scores[i]
            /\ \A i \in 1 .. n : \E k \in left :
                 SamePair(new.feats[k], new.scores[k], feats[i], scores[i])
            /\ \A k, l \in left :
                 SamePair(new.feats[k], new.scores[k], new.feats[l], new.scores[l]) => k = l
<1> DEFINE new == Deduped(feats, scores)
<1>1. PICK at : /\ VisitInv(at, n, feats, scores) /\ at.k > at.end
                /\ new = Remaining(at)
  BY AllAreVisited
<1> HIDE DEF new
<1> DEFINE m == at.end
<1>2. IsVisit(at, n) /\ KeepsPairs(at, n, feats, scores) /\ KnowsVisited(at)
  BY <1>1 DEF VisitInv
<1>3. /\ m \in 0 .. n /\ at.feats = [j \in 1 .. n |-> at.feats[j]]
      /\ at.scores = [j \in 1 .. n |-> at.scores[j]]
  BY <1>2, VisitTypes
<1>4. new.feats = SubSeq(at.feats, 1, m) /\ new.scores = SubSeq(at.scores, 1, m)
  BY <1>1 DEF Remaining
<1>5. /\ Len(new.feats) = m /\ Len(new.scores) = m
      /\ \A j \in 1 .. m : new.feats[j] = at.feats[j] /\ new.scores[j] = at.scores[j]
  BY <1>3, <1>4, FirstOfList
<1>6. \A k \in 1 .. m : \E i \in 1 .. n : new.feats[k] = feats[i] /\ new.scores[k] = scores[i]
  <2>1. \A k \in 1 .. m : k \in 1 .. n
    BY <1>3
  <2> QED
    BY <1>2, <1>5, <2>1 DEF KeepsPairs
<1>7. \A i \in 1 .. n : \E k \in 1 .. m :
        SamePair(new.feats[k], new.scores[k], feats[i], scores[i])
  BY <1>2, <1>5 DEF KeepsPairs
<1>8. ASSUME NEW k \in 1 .. m, NEW l \in 1 .. m,
             SamePair(new.feats[k], new.scores[k], new.feats[l], new.scores[l])
      PROVE  k = l
  <2>1. Visited(at) = 1 .. m
    <3>1. at.k \in Nat /\ at.end \in Nat
      BY <1>2, VisitTypes
    <3> QED
      BY <1>1, <3>1 DEF Visited
  <2>2. DuplicateOf(at, k, l)
    BY <1>5, <1>8 DEF SamePair, DuplicateOf
  <2> QED
    BY <1>2, <2>1, <2>2 DEF KnowsVisited
<1> HIDE DEF m
<1> QED
  BY <1>3, <1>5, <1>6, <1>7, <1>8 DEF new
=============================================================================
