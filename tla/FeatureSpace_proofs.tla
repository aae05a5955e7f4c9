------------------------- MODULE FeatureSpace_proofs -------------------------
(***************************************************************************)
(* The names of features and the merge of operator-, for vectors of any    *)
(* size and any number of hypotheses and updates.                          *)
(***************************************************************************)
EXTENDS FeatureSpace, Folding

-----------------------------------------------------------------------------
(* The order of ids.                                                         *)

\* Ascending lists every id of a finite set once, least first.
LEMMA AscendingLists ==
  ASSUME NEW D, D \subseteq Nat, IsFiniteSet(D)
  PROVE  /\ Cardinality(D) \in Nat
         /\ Ascending(D) \in [1 .. Cardinality(D) -> D]
         /\ \A j, k \in 1 .. Cardinality(D) : j < k => Ascending(D)[j] < Ascending(D)[k]
         /\ \A id \in D : \E k \in 1 .. Cardinality(D) : Ascending(D)[k] = id
<1> DEFINE n == Cardinality(D)
<1>1. n \in Nat
  BY RanksAreAll
<1>2. Ascending(D) = [k \in 1 .. n |-> CHOOSE id \in D : Rank(D, id) = k - 1]
  BY DEF Ascending, Rank
<1>3. ASSUME NEW k \in 1 .. n
      PROVE  Ascending(D)[k] \in D /\ Rank(D, Ascending(D)[k]) = k - 1
  <2>1. k - 1 \in 0 .. n - 1
    BY <1>1
  <2>2. \E id \in D : Rank(D, id) = k - 1
    BY <2>1, RanksAreAll
  <2> QED
    BY <1>2, <2>2
<1>4. ASSUME NEW j \in 1 .. n, NEW k \in 1 .. n, j < k
      PROVE  Ascending(D)[j] < Ascending(D)[k]
  <2> DEFINE p == Ascending(D)[j]
             q == Ascending(D)[k]
  <2>1. /\ p \in D /\ q \in D /\ p \in Nat /\ q \in Nat
        /\ Rank(D, p) = j - 1 /\ Rank(D, q) = k - 1
    BY <1>3
  <2> HIDE DEF p, q
  <2>2. j - 1 < k - 1 /\ j - 1 \in Int /\ k - 1 \in Int
    BY <1>1, <1>4
  <2>3. p # q /\ ~(q < p)
    <3>1. q < p => k - 1 < j - 1
      BY <2>1, RanksAscend
    <3> QED
      BY <2>1, <2>2, <3>1
  <2>4. p < q
    BY <2>1, <2>3
  <2> QED
    BY <2>4 DEF p, q
<1>5. ASSUME NEW id \in D PROVE \E k \in 1 .. n : Ascending(D)[k] = id
  <2>1. Rank(D, id) \in 0 .. n - 1
    BY RanksAreAll
  <2> DEFINE k == Rank(D, id) + 1
  <2>2. k \in 1 .. n /\ k - 1 = Rank(D, id)
    BY <1>1, <2>1
  <2> HIDE DEF k
  <2>3. Ascending(D)[k] \in D /\ Rank(D, Ascending(D)[k]) = Rank(D, id)
    BY <1>3, <2>2
  <2>4. \A p, q \in D : Rank(D, p) = Rank(D, q) => p = q
    BY RanksAreAll
  <2>5. Ascending(D)[k] = id
    BY <2>3, <2>4
  <2> QED
    BY <2>2, <2>5
<1>6. Ascending(D) \in [1 .. n -> D]
  BY <1>2, <1>3
<1> QED
  BY <1>1, <1>4, <1>5, <1>6

-----------------------------------------------------------------------------
(* Sparse lists.                                                             *)

\* A sparse list is in ascending order of its indexes; a value may be 0.
SparseList(s) ==
  /\ s \in Seq(Int \X Int)
  /\ \A k, l \in DOMAIN s : k < l => s[k][1] < s[l][1]

\* From place i on, s gives feature z the value u, which is 0 if it is not listed.
Gives(s, i, z, u) ==
  \/ \E k \in i .. Len(s) : s[k] = <<z, u>>
  \/ u = 0 /\ \A k \in i .. Len(s) : s[k][1] # z

\* From place i on, s lists feature z.
Lists(s, i, z) == \E k \in i .. Len(s) : s[k][1] = z

\* The entries of a sparse list are pairs of integers.
LEMMA EntriesOf ==
  ASSUME NEW s, SparseList(s)
  PROVE  /\ Len(s) \in Nat /\ DOMAIN s = 1 .. Len(s)
         /\ \A k \in 1 .. Len(s) : s[k] \in Int \X Int /\ s[k] = <<s[k][1], s[k][2]>>
<1> QED
  BY DEF SparseList

\* What a list gives from one place on, by the entry there and the place after it.
LEMMA GivesFirst ==
  ASSUME NEW s, SparseList(s), NEW i \in 1 .. Len(s)
  PROVE  /\ \A k \in i + 1 .. Len(s) : s[i][1] < s[k][1]
         /\ \A z, u : Gives(s, i, z, u) <=>
                        IF z = s[i][1] THEN u = s[i][2] ELSE Gives(s, i + 1, z, u)
         /\ \A z : Lists(s, i, z) <=> z = s[i][1] \/ Lists(s, i + 1, z)
        /\ Gives(s, i + 1, s[i][1], 0) /\ ~Lists(s, i + 1, s[i][1])
<1>1. /\ Len(s) \in Nat /\ i \in Nat
      /\ \A k \in 1 .. Len(s) : /\ s[k][1] \in Int /\ s[k] = <<s[k][1], s[k][2]>>
  BY EntriesOf
<1>2. ASSUME NEW k \in i + 1 .. Len(s) PROVE s[i][1] < s[k][1] /\ s[k][1] # s[i][1]
  <2>1. k \in 1 .. Len(s) /\ i < k
    BY <1>1
  <2>2. s[i][1] < s[k][1]
    BY <2>1, EntriesOf DEF SparseList
  <2> QED
    BY <1>1, <2>1, <2>2
<1>3. i .. Len(s) = {i} \cup (i + 1 .. Len(s))
  BY <1>1
<1>4. ASSUME NEW z, NEW u, z = s[i][1] PROVE Gives(s, i, z, u) <=> u = s[i][2]
  <2>1. s[i] = <<z, u>> <=> u = s[i][2]
    BY <1>1, <1>4
  <2>2. \A k \in i + 1 .. Len(s) : s[k] # <<z, u>>
    BY <1>2, <1>4
  <2>3. \E k \in i .. Len(s) : s[k][1] = z
    BY <1>3, <1>4
  <2> QED
    BY <1>3, <2>1, <2>2, <2>3 DEF Gives
<1>5. ASSUME NEW z, NEW u, z # s[i][1] PROVE Gives(s, i, z, u) <=> Gives(s, i + 1, z, u)
  <2>1. s[i] # <<z, u>>
    BY <1>5
  <2> QED
    BY <1>3, <1>5, <2>1 DEF Gives
<1>6. Gives(s, i + 1, s[i][1], 0) /\ ~Lists(s, i + 1, s[i][1])
  BY <1>2 DEF Gives, Lists
<1>7. \A z : Lists(s, i, z) <=> z = s[i][1] \/ Lists(s, i + 1, z)
  BY <1>3 DEF Lists
<1> QED
  BY <1>2, <1>4, <1>5, <1>6, <1>7

\* An entry before a list.
LEMMA ListedBefore ==
  ASSUME NEW t, SparseList(t), NEW e \in Int \X Int,
         \A k \in DOMAIN t : e[1] < t[k][1]
  PROVE  LET s == <<e>> \o t
         IN /\ SparseList(s)
            /\ \A k \in DOMAIN s : s[k] = e \/ \E l \in DOMAIN t : s[k] = t[l]
            /\ \A z, u : Gives(s, 1, z, u) <=>
                           IF z = e[1] THEN u = e[2] ELSE Gives(t, 1, z, u)
            /\ \A z : Lists(s, 1, z) <=> z = e[1] \/ Lists(t, 1, z)
<1> DEFINE s == <<e>> \o t
<1>1. t \in Seq(Int \X Int) /\ Len(t) \in Nat /\ DOMAIN t = 1 .. Len(t)
  BY EntriesOf DEF SparseList
<1>2. /\ s \in Seq(Int \X Int) /\ Len(s) = Len(t) + 1 /\ DOMAIN s = 1 .. Len(t) + 1
      /\ s[1] = e
  BY <1>1
<1>3. \A k \in 1 .. Len(t) : s[k + 1] = t[k]
  BY <1>1
<1> HIDE DEF s
<1> DEFINE n == Len(t)
<1>4. ASSUME NEW k \in 1 .. n + 1, k # 1
      PROVE  k - 1 \in 1 .. n /\ s[k] = t[k - 1]
  <2>1. k - 1 \in 1 .. n /\ (k - 1) + 1 = k
    BY <1>1, <1>4
  <2> QED
    BY <1>3, <2>1
<1>5. ASSUME NEW k \in 1 .. n + 1, NEW l \in 1 .. n + 1, k < l PROVE s[k][1] < s[l][1]
  <2>1. l # 1 /\ l \in Nat /\ k \in Nat
    BY <1>1, <1>5
  <2>2. l - 1 \in 1 .. n /\ s[l] = t[l - 1]
    BY <1>4, <2>1
  <2>3. CASE k = 1
    BY <1>1, <1>2, <2>2, <2>3
  <2>4. CASE k # 1
    <3>1. k - 1 \in 1 .. n /\ s[k] = t[k - 1]
      BY <1>4, <2>4
    <3>2. k - 1 < l - 1
      BY <1>5, <2>1
    <3> QED
      BY <1>1, <2>2, <3>1, <3>2 DEF SparseList
  <2> QED
    BY <2>3, <2>4
<1>7. SparseList(s)
  BY <1>2, <1>5 DEF SparseList
<1>8. 1 \in 1 .. Len(s)
  BY <1>1, <1>2
<1>9. /\ \A z, u : Gives(s, 2, z, u) <=> Gives(t, 1, z, u)
      /\ \A z : Lists(s, 2, z) <=> Lists(t, 1, z)
  <2>1. /\ \A k \in 2 .. Len(s) : k - 1 \in 1 .. Len(t) /\ s[k] = t[k - 1]
        /\ \A k \in 1 .. Len(t) : k + 1 \in 2 .. Len(s) /\ t[k] = s[k + 1]
    <3>1. ASSUME NEW k \in 2 .. Len(s) PROVE k \in 1 .. n + 1 /\ k # 1
      BY <1>1, <1>2
    <3>2. ASSUME NEW k \in 1 .. Len(t) PROVE k + 1 \in 2 .. Len(s)
      BY <1>1, <1>2
    <3> QED
      BY <1>3, <1>4, <3>1, <3>2
  <2>2. ASSUME NEW z, NEW u PROVE Gives(s, 2, z, u) <=> Gives(t, 1, z, u)
    <3>1. (\E k \in 2 .. Len(s) : s[k] = <<z, u>>) <=> \E k \in 1 .. Len(t) : t[k] = <<z, u>>
      BY <2>1
    <3>2. (\A k \in 2 .. Len(s) : s[k][1] # z) <=> \A k \in 1 .. Len(t) : t[k][1] # z
      BY <2>1
    <3> QED
      BY <3>1, <3>2 DEF Gives
  <2>3. \A z : Lists(s, 2, z) <=> Lists(t, 1, z)
    BY <2>1 DEF Lists
  <2> QED
    BY <2>2, <2>3
<1>10. \A z, u : Gives(s, 1, z, u) <=> IF z = e[1] THEN u = e[2] ELSE Gives(t, 1, z, u)
  <2>1. \A z, u : Gives(s, 1, z, u) <=>
                    IF z = s[1][1] THEN u = s[1][2] ELSE Gives(s, 1 + 1, z, u)
    BY <1>7, <1>8, GivesFirst, ZenonT(30)
  <2>2. s[1] = e /\ 1 + 1 = 2
    BY <1>2
  <2> QED
    BY <1>9, <2>1, <2>2, ZenonT(30)
<1>11. \A k \in DOMAIN s : s[k] = e \/ \E l \in DOMAIN t : s[k] = t[l]
  BY <1>1, <1>2, <1>4
<1>12. \A z : Lists(s, 1, z) <=> z = e[1] \/ Lists(t, 1, z)
  <2>1. \A z : Lists(s, 1, z) <=> z = s[1][1] \/ Lists(s, 1 + 1, z)
    BY <1>7, <1>8, GivesFirst, ZenonT(30)
  <2>2. s[1] = e /\ 1 + 1 = 2
    BY <1>2
  <2> QED
    BY <1>9, <2>1, <2>2, ZenonT(30)
<1> QED
  BY <1>7, <1>10, <1>11, <1>12 DEF s

-----------------------------------------------------------------------------
(* The merge of operator-.                                                   *)

Places(x, y) == (1 .. Len(x) + 1) \X (1 .. Len(y) + 1)
End(x, y) == <<Len(x) + 1, Len(y) + 1>>

\* The place after p.
After(x, y, p) ==
  <<IF Takes(x, p[1], y, p[2]) THEN p[1] + 1 ELSE p[1],
    IF Takes(y, p[2], x, p[1]) THEN p[2] + 1 ELSE p[2]>>

\* What the merge lists from p on, by what it lists after the turn at p.
From(x, y, m, p) ==
  IF p = End(x, y) THEN <<>> ELSE Kept(x, p[1], y, p[2]) \o m[After(x, y, p)]

\* How many entries are left at p.
Left(x, y, p) == (Len(x) + 1 - p[1]) + (Len(y) + 1 - p[2])

\* The merge is what the function of its recursion gives for the first place.
LEMMA MergedIsChosen ==
  ASSUME NEW x, NEW y
  PROVE  Merged(x, y) =
           (CHOOSE m : m = [p \in Places(x, y) |-> From(x, y, m, p)])[<<1, 1>>]
<1> QED
  BY DEF Merged, Places, From, After, End

\* Every turn takes an entry, until the end.
LEMMA TurnTakes ==
  ASSUME NEW x, SparseList(x), NEW y, SparseList(y), NEW p \in Places(x, y)
  PROVE  /\ Left(x, y, p) \in Nat
         /\ p # End(x, y) =>
              /\ Takes(x, p[1], y, p[2]) \/ Takes(y, p[2], x, p[1])
              /\ After(x, y, p) \in Places(x, y)
              /\ Left(x, y, After(x, y, p)) < Left(x, y, p)
<1> DEFINE i == p[1]
           j == p[2]
<1>1. Len(x) \in Nat /\ Len(y) \in Nat
  BY EntriesOf
<1>2. i \in 1 .. Len(x) + 1 /\ j \in 1 .. Len(y) + 1 /\ p = <<i, j>>
  BY DEF Places
<1>3. /\ i <= Len(x) => i \in 1 .. Len(x) /\ x[i][1] \in Int
      /\ j <= Len(y) => j \in 1 .. Len(y) /\ y[j][1] \in Int
  <2>1. (i <= Len(x) => i \in 1 .. Len(x)) /\ (j <= Len(y) => j \in 1 .. Len(y))
    BY <1>1, <1>2
  <2> QED
    BY <2>1, EntriesOf
<1> HIDE DEF i, j
<1>4. Left(x, y, p) \in Nat
  BY <1>1, <1>2 DEF Left, i, j
<1>5. ASSUME p # End(x, y)
      PROVE  /\ Takes(x, i, y, j) \/ Takes(y, j, x, i)
             /\ After(x, y, p) \in Places(x, y)
             /\ Left(x, y, After(x, y, p)) < Left(x, y, p)
  <2>1. i <= Len(x) \/ j <= Len(y)
    BY <1>1, <1>2, <1>5 DEF End
  <2>2. Takes(x, i, y, j) \/ Takes(y, j, x, i)
    BY <1>1, <1>2, <1>3, <2>1 DEF Takes
  <2>3. (Takes(x, i, y, j) => i <= Len(x)) /\ (Takes(y, j, x, i) => j <= Len(y))
    BY DEF Takes
  <2> DEFINE k == IF Takes(x, i, y, j) THEN i + 1 ELSE i
             l == IF Takes(y, j, x, i) THEN j + 1 ELSE j
  <2>4. After(x, y, p) = <<k, l>>
    BY DEF After, i, j
  <2>5. k \in 1 .. Len(x) + 1 /\ l \in 1 .. Len(y) + 1 /\ i + j < k + l
    BY <1>1, <1>2, <2>2, <2>3
  <2> HIDE DEF k, l
  <2>6. Left(x, y, p) = (Len(x) + 1 - i) + (Len(y) + 1 - j)
    BY DEF Left, i, j
  <2>7. Left(x, y, <<k, l>>) = (Len(x) + 1 - k) + (Len(y) + 1 - l)
    BY DEF Left
  <2>8. <<k, l>> \in Places(x, y) /\ Left(x, y, <<k, l>>) < Left(x, y, p)
    BY <1>1, <1>2, <2>5, <2>6, <2>7 DEF Places
  <2> QED
    BY <2>2, <2>4, <2>8
<1> QED
  BY <1>4, <1>5 DEF i, j

\* The function of the recursion exists.
LEMMA MergeExists ==
  ASSUME NEW x, SparseList(x), NEW y, SparseList(y)
  PROVE  \E m : m = [p \in Places(x, y) |-> From(x, y, m, p)]
<1> DEFINE P == Places(x, y)
           Near(n) == {p \in P : Left(x, y, p) <= n}
           Known(n) == \E m : \A p \in Near(n) : m[p] = From(x, y, m, p)
           B == {n \in Nat : ~Known(n)}
<1>1. ASSUME NEW n \in Nat, n = 0 \/ Known(n - 1) PROVE Known(n)
  <2>1. PICK m : \A p \in P : Left(x, y, p) < n => m[p] = From(x, y, m, p)
    <3>1. CASE n = 0
      <4>1. \A p \in P : Left(x, y, p) \in Nat
        BY TurnTakes
      <4>2. \A p \in P : ~(Left(x, y, p) < n)
        BY <3>1, <4>1
      <4> QED
        BY <4>2
    <3>2. CASE n # 0 /\ Known(n - 1)
      <4>1. PICK m : \A p \in Near(n - 1) : m[p] = From(x, y, m, p)
        BY <3>2
      <4>2. ASSUME NEW p \in P, Left(x, y, p) < n PROVE p \in Near(n - 1)
        <5>1. Left(x, y, p) \in Nat
          BY TurnTakes
        <5> QED
          BY <4>2, <5>1
      <4> HIDE DEF Near
      <4> QED
        BY <4>1, <4>2
    <3> QED
      BY <1>1, <3>1, <3>2
  <2> DEFINE g == [p \in P |-> From(x, y, m, p)]
  <2>2. ASSUME NEW p \in Near(n) PROVE g[p] = From(x, y, g, p)
    <3>1. p \in P /\ Left(x, y, p) <= n /\ g[p] = From(x, y, m, p)
      OBVIOUS
    <3> DEFINE q == After(x, y, p)
    <3>2. CASE p = End(x, y)
      BY <3>1, <3>2 DEF From
    <3>3. CASE p # End(x, y)
      <4>1. /\ q \in P /\ Left(x, y, q) < Left(x, y, p)
            /\ Left(x, y, q) \in Nat /\ Left(x, y, p) \in Nat
        BY <3>1, <3>3, TurnTakes
      <4>2. Left(x, y, q) < n
        BY <1>1, <3>1, <4>1
      <4>3. g[q] = From(x, y, m, q) /\ m[q] = From(x, y, m, q)
        BY <2>1, <4>1, <4>2
      <4> HIDE DEF g
      <4> QED
        BY <3>1, <3>3, <4>3 DEF From
    <3> QED
      BY <3>2, <3>3
  <2> QED
    BY <2>2
<1>2. B = {}
  <2>1. SUFFICES ASSUME B # {} PROVE FALSE
    OBVIOUS
  <2>2. PICK n \in B : \A k \in B : n <= k
    <3>1. B \subseteq Nat
      OBVIOUS
    <3> HIDE DEF B
    <3> QED
      BY <2>1, <3>1, LeastNat
  <2>3. n \in Nat /\ ~Known(n)
    OBVIOUS
  <2>4. n # 0 => n - 1 \in Nat /\ ~(n <= n - 1)
    BY <2>3
  <2>5. n = 0 \/ Known(n - 1)
    BY <2>2, <2>4
  <2> HIDE DEF Known
  <2> QED
    BY <1>1, <2>3, <2>5
<1> DEFINE n == Len(x) + Len(y)
<1>3. n \in Nat /\ \A p \in P : Left(x, y, p) <= n
  BY EntriesOf DEF Places, Left
<1>4. PICK m : \A p \in P : m[p] = From(x, y, m, p)
  <2>1. Known(n)
    BY <1>2, <1>3
  <2> QED
    BY <1>3, <2>1
<1> DEFINE g == [p \in P |-> From(x, y, m, p)]
<1>5. ASSUME NEW p \in P PROVE From(x, y, m, p) = From(x, y, g, p)
  <2>1. p # End(x, y) => g[After(x, y, p)] = m[After(x, y, p)]
    <3>1. p # End(x, y) => After(x, y, p) \in P
      BY TurnTakes
    <3> QED
      BY <1>4, <3>1
  <2> QED
    BY <2>1 DEF From
<1>6. g = [p \in P |-> From(x, y, g, p)]
  <2> DEFINE h == [p \in P |-> From(x, y, g, p)]
  <2>1. \A p \in P : g[p] = h[p]
    BY <1>5
  <2> QED
    BY <2>1
<1> QED
  BY <1>6

\* From places i of x and j of y on, one of them lists feature z, and not both
\* with one value.
Stays(x, i, y, j, z, u, v) ==
  (Lists(x, i, z) \/ Lists(y, j, z)) /\ ~(Lists(x, i, z) /\ Lists(y, j, z) /\ u = v)

\* What the merge from p on is: a sparse list of the features still left, which
\* gives each of them the difference and lists those that stay.
IsDifference(x, y, p, s) ==
  /\ SparseList(s)
  /\ \A k \in DOMAIN s : \/ \E l \in p[1] .. Len(x) : s[k][1] = x[l][1]
                         \/ \E l \in p[2] .. Len(y) : s[k][1] = y[l][1]
  /\ \A z, u, v \in Int :
       Gives(x, p[1], z, u) /\ Gives(y, p[2], z, v) =>
         /\ Gives(s, 1, z, u - v)
         /\ Lists(s, 1, z) <=> Stays(x, p[1], y, p[2], z, u, v)

\* At the end there is nothing left.
LEMMA EndDiffers ==
  ASSUME NEW x, SparseList(x), NEW y, SparseList(y)
  PROVE  IsDifference(x, y, End(x, y), <<>>)
<1> DEFINE s == <<>>
<1>1. SparseList(s)
  BY DEF SparseList
<1>2. Len(x) \in Nat /\ Len(y) \in Nat
  BY EntriesOf
<1>3. End(x, y)[1] .. Len(x) = {} /\ End(x, y)[2] .. Len(y) = {}
  BY <1>2 DEF End
<1>4. DOMAIN s = {} /\ 1 .. Len(s) = {}
  OBVIOUS
<1> HIDE DEF s
<1>5. ASSUME NEW z \in Int, NEW u \in Int, NEW v \in Int,
             Gives(x, End(x, y)[1], z, u), Gives(y, End(x, y)[2], z, v)
      PROVE  /\ Gives(s, 1, z, u - v)
             /\ Lists(s, 1, z) <=> Stays(x, End(x, y)[1], y, End(x, y)[2], z, u, v)
  <2>1. u = 0 /\ v = 0
    BY <1>3, <1>5 DEF Gives
  <2>2. Gives(s, 1, z, u - v)
    BY <1>4, <2>1 DEF Gives
  <2>3. ~Lists(s, 1, z) /\ ~Stays(x, End(x, y)[1], y, End(x, y)[2], z, u, v)
    BY <1>3, <1>4 DEF Lists, Stays
  <2> QED
    BY <2>2, <2>3
<1> QED
  BY <1>1, <1>4, <1>5 DEF IsDifference, s

\* A turn of the merge.
LEMMA TurnDiffers ==
  ASSUME NEW x, SparseList(x), NEW y, SparseList(y),
         NEW p \in Places(x, y), p # End(x, y),
         NEW t, IsDifference(x, y, After(x, y, p), t)
  PROVE  IsDifference(x, y, p, Kept(x, p[1], y, p[2]) \o t)
<1> DEFINE i == p[1]
           j == p[2]
<1>1. Len(x) \in Nat /\ Len(y) \in Nat
  BY EntriesOf
<1>2. i \in 1 .. Len(x) + 1 /\ j \in 1 .. Len(y) + 1
  BY DEF Places
<1>3. Takes(x, i, y, j) \/ Takes(y, j, x, i)
  BY TurnTakes
<1>4. SparseList(t)
  BY DEF IsDifference
<1>5. IsDifference(x, y, <<IF Takes(x, i, y, j) THEN i + 1 ELSE i,
                           IF Takes(y, j, x, i) THEN j + 1 ELSE j>>, t)
  BY DEF After
<1> HIDE DEF i, j
<1>6. /\ i \in Nat /\ j \in Nat
      /\ \A k \in i + 1 .. Len(x) : k \in i .. Len(x)
      /\ \A k \in j + 1 .. Len(y) : k \in j .. Len(y)
      /\ \A k \in i .. Len(x) : k \in 1 .. Len(x) /\ x[k][1] \in Int
      /\ \A k \in j .. Len(y) : k \in 1 .. Len(y) /\ y[k][1] \in Int
  <2>1. i \in Nat /\ j \in Nat /\ 1 <= i /\ 1 <= j
    BY <1>1, <1>2
  <2>2. /\ \A k \in i .. Len(x) : k \in 1 .. Len(x)
        /\ \A k \in j .. Len(y) : k \in 1 .. Len(y)
        /\ \A k \in i + 1 .. Len(x) : k \in i .. Len(x)
        /\ \A k \in j + 1 .. Len(y) : k \in j .. Len(y)
    BY <1>1, <2>1
  <2> QED
    BY <2>1, <2>2, EntriesOf
<1>7. /\ Takes(x, i, y, j) => /\ i \in 1 .. Len(x) /\ i \in i .. Len(x)
                              /\ j <= Len(y) => x[i][1] <= y[j][1]
      /\ Takes(y, j, x, i) => /\ j \in 1 .. Len(y) /\ j \in j .. Len(y)
                              /\ i <= Len(x) => y[j][1] <= x[i][1]
  BY <1>1, <1>2 DEF Takes
\* The turn takes the entry of x.
<1>8. CASE Takes(x, i, y, j) /\ ~Takes(y, j, x, i)
  <2> DEFINE e == x[i]
             s == <<e>> \o t
  <2>1. Kept(x, i, y, j) = <<e>>
    BY <1>8 DEF Kept
  <2>2. i \in 1 .. Len(x) /\ e \in Int \X Int /\ e[1] \in Int /\ e[2] \in Int /\ i \in i .. Len(x)
    BY <1>7, <1>8, EntriesOf DEF SparseList
  <2>3. \A k \in j .. Len(y) : e[1] < y[k][1]
    <3>1. SUFFICES ASSUME NEW k \in j .. Len(y) PROVE e[1] < y[k][1]
      OBVIOUS
    <3>2. j \in 1 .. Len(y) /\ y[j][1] \in Int /\ y[k][1] \in Int
      BY <1>1, <1>2, <1>6, EntriesOf
    <3>3. e[1] < y[j][1]
      BY <1>1, <1>2, <1>8, <2>2, <3>2 DEF Takes
    <3>4. k = j \/ k \in j + 1 .. Len(y)
      BY <1>1, <1>6
    <3>5. y[j][1] <= y[k][1]
      BY <3>2, <3>4, GivesFirst
    <3> QED
      BY <2>2, <3>2, <3>3, <3>5
  <2>4. /\ IsDifference(x, y, <<i + 1, j>>, t)
        /\ \A k \in DOMAIN t : \/ \E l \in i + 1 .. Len(x) : t[k][1] = x[l][1]
                               \/ \E l \in j .. Len(y) : t[k][1] = y[l][1]
    BY <1>5, <1>8 DEF IsDifference
  <2>5. \A k \in DOMAIN t : e[1] < t[k][1]
    <3>1. \A k \in i + 1 .. Len(x) : e[1] < x[k][1]
      BY <2>2, GivesFirst
    <3> QED
      BY <2>3, <2>4, <3>1
  <2>6. /\ SparseList(s)
        /\ \A k \in DOMAIN s : s[k] = e \/ \E l \in DOMAIN t : s[k] = t[l]
        /\ \A z, u : Gives(s, 1, z, u) <=> IF z = e[1] THEN u = e[2] ELSE Gives(t, 1, z, u)
        /\ \A z : Lists(s, 1, z) <=> z = e[1] \/ Lists(t, 1, z)
    BY <1>4, <2>2, <2>5, ListedBefore
  <2>7. /\ \A z, u : Gives(x, i, z, u) <=>
                       IF z = e[1] THEN u = e[2] ELSE Gives(x, i + 1, z, u)
        /\ \A z : Lists(x, i, z) <=> z = e[1] \/ Lists(x, i + 1, z)
    BY <2>2, GivesFirst
  <2>8. ~Lists(y, j, e[1]) /\ \A v : Gives(y, j, e[1], v) => v = 0
    <3>1. \A k \in j .. Len(y) : y[k][1] # e[1]
      BY <1>6, <2>2, <2>3
    <3> QED
      BY <3>1 DEF Gives, Lists
  <2> HIDE DEF e, s
  <2>9. \A k \in DOMAIN s : \/ \E l \in i .. Len(x) : s[k][1] = x[l][1]
                            \/ \E l \in j .. Len(y) : s[k][1] = y[l][1]
    <3>1. \A k \in DOMAIN t : \/ \E l \in i .. Len(x) : t[k][1] = x[l][1]
                            \/ \E l \in j .. Len(y) : t[k][1] = y[l][1]
      BY <1>6, <2>4
    <3>2. e[1] = x[i][1] /\ i \in i .. Len(x)
      BY <2>2 DEF e
    <3> QED
      BY <2>6, <3>1, <3>2
  <2>10. ASSUME NEW z \in Int, NEW u \in Int, NEW v \in Int,
                Gives(x, i, z, u), Gives(y, j, z, v)
         PROVE  /\ Gives(s, 1, z, u - v)
                /\ Lists(s, 1, z) <=> Stays(x, i, y, j, z, u, v)
    <3>1. CASE z = e[1]
      <4>1. u = e[2] /\ v = 0 /\ u - v = e[2]
        BY <2>2, <2>7, <2>8, <2>10, <3>1
      <4>2. Stays(x, i, y, j, z, u, v)
        BY <2>7, <2>8, <3>1 DEF Stays
      <4> QED
        BY <2>6, <3>1, <4>1, <4>2
    <3>2. CASE z # e[1]
      <4>1. Gives(t, 1, z, u - v) /\ (Lists(t, 1, z) <=> Stays(x, i + 1, y, j, z, u, v))
        BY <2>4, <2>7, <2>10, <3>2 DEF IsDifference
      <4>2. Stays(x, i + 1, y, j, z, u, v) <=> Stays(x, i, y, j, z, u, v)
        BY <2>7, <3>2 DEF Stays
      <4> QED
        BY <2>6, <3>2, <4>1, <4>2
    <3> QED
      BY <3>1, <3>2
  <2>11. IsDifference(x, y, p, s)
    BY <2>6, <2>9, <2>10 DEF IsDifference, i, j
  <2> QED
    BY <2>1, <2>11 DEF s, i, j
\* The turn takes the entry of y.
<1>9. CASE Takes(y, j, x, i) /\ ~Takes(x, i, y, j)
  <2> DEFINE e == Negated(y[j])
             s == <<e>> \o t
  <2>1. Kept(x, i, y, j) = <<e>>
    BY <1>9 DEF Kept
  <2>2. /\ j \in 1 .. Len(y) /\ j \in j .. Len(y) /\ y[j][2] \in Int
        /\ e \in Int \X Int /\ e[1] \in Int /\ e[1] = y[j][1] /\ e[2] = -y[j][2]
        /\ e[2] \in Int
    <3>1. j \in 1 .. Len(y) /\ j \in j .. Len(y)
      BY <1>7, <1>9
    <3>2. y[j] \in Int \X Int /\ y[j][1] \in Int /\ y[j][2] \in Int
      BY <3>1, EntriesOf
    <3> QED
      BY <3>1, <3>2 DEF Negated
  <2>3. \A k \in i .. Len(x) : e[1] < x[k][1]
    <3>1. SUFFICES ASSUME NEW k \in i .. Len(x) PROVE e[1] < x[k][1]
      OBVIOUS
    <3>2. i \in 1 .. Len(x) /\ x[i][1] \in Int /\ x[k][1] \in Int
      BY <1>1, <1>2, <1>6, EntriesOf
    <3>3. e[1] < x[i][1]
      BY <1>1, <1>2, <1>9, <2>2, <3>2 DEF Takes
    <3>4. k = i \/ k \in i + 1 .. Len(x)
      BY <1>1, <1>6
    <3>5. x[i][1] <= x[k][1]
      BY <3>2, <3>4, GivesFirst
    <3> QED
      BY <2>2, <3>2, <3>3, <3>5
  <2>4. /\ IsDifference(x, y, <<i, j + 1>>, t)
        /\ \A k \in DOMAIN t : \/ \E l \in i .. Len(x) : t[k][1] = x[l][1]
                               \/ \E l \in j + 1 .. Len(y) : t[k][1] = y[l][1]
    BY <1>5, <1>9 DEF IsDifference
  <2>5. \A k \in DOMAIN t : e[1] < t[k][1]
    <3>1. \A k \in j + 1 .. Len(y) : e[1] < y[k][1]
      BY <2>2, GivesFirst
    <3> QED
      BY <2>3, <2>4, <3>1
  <2>6. /\ SparseList(s)
        /\ \A k \in DOMAIN s : s[k] = e \/ \E l \in DOMAIN t : s[k] = t[l]
        /\ \A z, u : Gives(s, 1, z, u) <=> IF z = e[1] THEN u = e[2] ELSE Gives(t, 1, z, u)
        /\ \A z : Lists(s, 1, z) <=> z = e[1] \/ Lists(t, 1, z)
    BY <1>4, <2>2, <2>5, ListedBefore
  <2>7. /\ \A z, v : Gives(y, j, z, v) <=>
                       IF z = e[1] THEN v = y[j][2] ELSE Gives(y, j + 1, z, v)
        /\ \A z : Lists(y, j, z) <=> z = e[1] \/ Lists(y, j + 1, z)
    BY <2>2, GivesFirst
  <2>8. ~Lists(x, i, e[1]) /\ \A u : Gives(x, i, e[1], u) => u = 0
    <3>1. \A k \in i .. Len(x) : x[k][1] # e[1]
      BY <1>6, <2>2, <2>3
    <3> QED
      BY <3>1 DEF Gives, Lists
  <2> HIDE DEF e, s
  <2>9. \A k \in DOMAIN s : \/ \E l \in i .. Len(x) : s[k][1] = x[l][1]
                            \/ \E l \in j .. Len(y) : s[k][1] = y[l][1]
    <3>1. \A k \in DOMAIN t : \/ \E l \in i .. Len(x) : t[k][1] = x[l][1]
                            \/ \E l \in j .. Len(y) : t[k][1] = y[l][1]
      BY <1>6, <2>4
    <3> QED
      BY <2>2, <2>6, <3>1
  <2>10. ASSUME NEW z \in Int, NEW u \in Int, NEW v \in Int,
                Gives(x, i, z, u), Gives(y, j, z, v)
         PROVE  /\ Gives(s, 1, z, u - v)
                /\ Lists(s, 1, z) <=> Stays(x, i, y, j, z, u, v)
    <3>1. CASE z = e[1]
      <4>1. v = y[j][2] /\ u = 0
        BY <2>7, <2>8, <2>10, <3>1
      <4>2. u - v = e[2]
        BY <2>2, <4>1
      <4>3. Stays(x, i, y, j, z, u, v)
        BY <2>7, <2>8, <3>1 DEF Stays
      <4> QED
        BY <2>6, <3>1, <4>2, <4>3
    <3>2. CASE z # e[1]
      <4>1. Gives(t, 1, z, u - v) /\ (Lists(t, 1, z) <=> Stays(x, i, y, j + 1, z, u, v))
        BY <2>4, <2>7, <2>10, <3>2 DEF IsDifference
      <4>2. Stays(x, i, y, j + 1, z, u, v) <=> Stays(x, i, y, j, z, u, v)
        BY <2>7, <3>2 DEF Stays
      <4> QED
        BY <2>6, <3>2, <4>1, <4>2
    <3> QED
      BY <3>1, <3>2
  <2>11. IsDifference(x, y, p, s)
    BY <2>6, <2>9, <2>10 DEF IsDifference, i, j
  <2> QED
    BY <2>1, <2>11 DEF s, i, j
\* The turn takes both.
<1>10. CASE Takes(x, i, y, j) /\ Takes(y, j, x, i)
  <2> DEFINE f == x[i][1]
  <2>1. /\ i \in 1 .. Len(x) /\ i \in i .. Len(x) /\ j \in 1 .. Len(y) /\ j \in j .. Len(y)
        /\ x[i][1] <= y[j][1] /\ y[j][1] <= x[i][1]
    BY <1>1, <1>7, <1>10
  <2>2. /\ x[i] \in Int \X Int /\ y[j] \in Int \X Int /\ f \in Int /\ y[j][1] = f
        /\ x[i][2] \in Int /\ y[j][2] \in Int
    <3>1. x[i] \in Int \X Int /\ y[j] \in Int \X Int
      BY <2>1, EntriesOf
    <3> QED
      BY <2>1, <3>1
  <2>3. IsDifference(x, y, <<i + 1, j + 1>>, t)
    BY <1>5, <1>10
  <2>4. /\ \A z, u : Gives(x, i, z, u) <=> IF z = f THEN u = x[i][2] ELSE Gives(x, i + 1, z, u)
        /\ Gives(x, i + 1, f, 0)
        /\ \A z : Lists(x, i, z) <=> z = f \/ Lists(x, i + 1, z)
        /\ \A k \in i + 1 .. Len(x) : f < x[k][1]
    BY <2>1, GivesFirst
  <2>5. /\ \A z, v : Gives(y, j, z, v) <=> IF z = f THEN v = y[j][2] ELSE Gives(y, j + 1, z, v)
        /\ Gives(y, j + 1, f, 0)
        /\ \A z : Lists(y, j, z) <=> z = f \/ Lists(y, j + 1, z)
        /\ \A k \in j + 1 .. Len(y) : f < y[k][1]
    BY <2>1, <2>2, GivesFirst
  <2>6. \A k \in DOMAIN t : f < t[k][1]
    BY <2>3, <2>4, <2>5 DEF IsDifference
  <2> HIDE DEF f
  <2>7. ASSUME NEW z \in Int, NEW u \in Int, NEW v \in Int, z # f,
               Gives(x, i, z, u), Gives(y, j, z, v)
        PROVE  /\ Gives(t, 1, z, u - v)
               /\ Lists(t, 1, z) <=> Stays(x, i, y, j, z, u, v)
    <3>1. /\ Gives(t, 1, z, u - v)
          /\ Lists(t, 1, z) <=> Stays(x, i + 1, y, j + 1, z, u, v)
      BY <2>3, <2>4, <2>5, <2>7 DEF IsDifference
    <3>2. Stays(x, i + 1, y, j + 1, z, u, v) <=> Stays(x, i, y, j, z, u, v)
      BY <2>4, <2>5, <2>7 DEF Stays
    <3> QED
      BY <3>1, <3>2
  <2>8. \A k \in DOMAIN t : \/ \E l \in i .. Len(x) : t[k][1] = x[l][1]
                            \/ \E l \in j .. Len(y) : t[k][1] = y[l][1]
    BY <1>6, <2>3 DEF IsDifference
  <2>9. CASE x[i][2] = y[j][2]
    <3>1. Kept(x, i, y, j) \o t = t
      <4>1. Kept(x, i, y, j) = <<>>
        BY <1>10, <2>9 DEF Kept
      <4> QED
        BY <1>4, <4>1 DEF SparseList
    <3>2. Gives(t, 1, f, 0) /\ ~Lists(t, 1, f)
      <4>1. Gives(t, 1, f, 0 - 0)
        BY <2>2, <2>3, <2>4, <2>5 DEF IsDifference
      <4>2. \A k \in 1 .. Len(t) : t[k][1] # f
        <5>1. \A k \in 1 .. Len(t) : f < t[k][1]
          BY <1>4, <2>6, EntriesOf
        <5> QED
          BY <2>2, <5>1
      <4> QED
        BY <4>1, <4>2 DEF Lists
    <3>3. ASSUME NEW z \in Int, NEW u \in Int, NEW v \in Int,
                 Gives(x, i, z, u), Gives(y, j, z, v)
          PROVE  /\ Gives(t, 1, z, u - v)
                 /\ Lists(t, 1, z) <=> Stays(x, i, y, j, z, u, v)
      <4>1. CASE z = f
        <5>1. u = v /\ u - v = 0
          BY <2>2, <2>4, <2>5, <2>9, <3>3, <4>1
        <5>2. ~Stays(x, i, y, j, z, u, v)
          BY <2>4, <2>5, <4>1, <5>1 DEF Stays
        <5> QED
          BY <3>2, <4>1, <5>1, <5>2
      <4>2. CASE z # f
        BY <2>7, <3>3, <4>2
      <4> QED
        BY <4>1, <4>2
    <3>4. IsDifference(x, y, p, t)
      BY <1>4, <2>8, <3>3 DEF IsDifference, i, j
    <3> QED
      BY <3>1, <3>4 DEF i, j
  <2>10. CASE x[i][2] # y[j][2]
    <3> DEFINE e == <<f, x[i][2] - y[j][2]>>
               s == <<e>> \o t
    <3>1. Kept(x, i, y, j) = <<e>>
      BY <1>10, <2>10 DEF Kept, f
    <3>2. e \in Int \X Int /\ e[1] = f /\ e[2] = x[i][2] - y[j][2]
      BY <2>2
    <3> HIDE DEF e
    <3>3. /\ SparseList(s)
          /\ \A k \in DOMAIN s : s[k] = e \/ \E l \in DOMAIN t : s[k] = t[l]
          /\ \A z, u : Gives(s, 1, z, u) <=> IF z = e[1] THEN u = e[2] ELSE Gives(t, 1, z, u)
          /\ \A z : Lists(s, 1, z) <=> z = e[1] \/ Lists(t, 1, z)
      BY <1>4, <2>6, <3>2, ListedBefore
    <3> HIDE DEF s
    <3>4. \A k \in DOMAIN s : \/ \E l \in i .. Len(x) : s[k][1] = x[l][1]
                              \/ \E l \in j .. Len(y) : s[k][1] = y[l][1]
      BY <2>1, <2>8, <3>2, <3>3 DEF f
    <3>5. ASSUME NEW z \in Int, NEW u \in Int, NEW v \in Int,
                 Gives(x, i, z, u), Gives(y, j, z, v)
          PROVE  /\ Gives(s, 1, z, u - v)
                 /\ Lists(s, 1, z) <=> Stays(x, i, y, j, z, u, v)
      <4>1. CASE z = f
        <5>1. u = x[i][2] /\ v = y[j][2]
          BY <2>4, <2>5, <3>5, <4>1
        <5>2. Stays(x, i, y, j, z, u, v)
          BY <2>4, <2>5, <2>10, <4>1, <5>1 DEF Stays
        <5> QED
          BY <3>2, <3>3, <4>1, <5>1, <5>2
      <4>2. CASE z # f
        BY <2>7, <3>2, <3>3, <3>5, <4>2
      <4> QED
        BY <4>1, <4>2
    <3>6. IsDifference(x, y, p, s)
      BY <3>3, <3>4, <3>5 DEF IsDifference, i, j
    <3> QED
      BY <3>1, <3>6 DEF s, i, j
  <2> QED
    BY <2>9, <2>10
<1> QED
  BY <1>3, <1>8, <1>9, <1>10

\* The merge is the difference, whatever the lists.
LEMMA MergedDiffers ==
  ASSUME NEW x, SparseList(x), NEW y, SparseList(y)
  PROVE  IsDifference(x, y, <<1, 1>>, Merged(x, y))
<1> DEFINE m == CHOOSE m : m = [p \in Places(x, y) |-> From(x, y, m, p)]
           P == Places(x, y)
           Wrong == {p \in P : ~IsDifference(x, y, p, m[p])}
<1>1. Merged(x, y) = m[<<1, 1>>]
  BY MergedIsChosen
<1>2. m = [p \in P |-> From(x, y, m, p)]
  BY MergeExists
<1> HIDE DEF m
<1>3. \A p \in P : m[p] = From(x, y, m, p)
  BY <1>2
<1>4. ASSUME NEW p \in P, p # End(x, y) => IsDifference(x, y, After(x, y, p), m[After(x, y, p)])
      PROVE  IsDifference(x, y, p, m[p])
  <2>1. CASE p = End(x, y)
    BY <1>3, <2>1, EndDiffers DEF From
  <2>2. CASE p # End(x, y)
    <3>1. m[p] = Kept(x, p[1], y, p[2]) \o m[After(x, y, p)]
      BY <1>3, <2>2 DEF From
    <3> HIDE DEF P
    <3>2. p \in Places(x, y)
      BY DEF P
    <3>3. IsDifference(x, y, p, Kept(x, p[1], y, p[2]) \o m[After(x, y, p)])
      BY <1>4, <2>2, <3>2, TurnDiffers
    <3> QED
      BY <3>1, <3>3
  <2> QED
    BY <2>1, <2>2
<1>5. Wrong = {}
  <2>1. SUFFICES ASSUME Wrong # {} PROVE FALSE
    OBVIOUS
  <2> DEFINE N == {Left(x, y, p) : p \in Wrong}
  <2>2. N \subseteq Nat /\ N # {}
    BY <2>1, TurnTakes
  <2>3. PICK n \in N : \A k \in N : n <= k
    <3> HIDE DEF N
    <3> QED
      BY <2>2, LeastNat
  <2>4. PICK p \in Wrong : Left(x, y, p) = n
    OBVIOUS
  <2>5. p \in P /\ ~IsDifference(x, y, p, m[p])
    OBVIOUS
  <2> DEFINE q == After(x, y, p)
  <2>6. p # End(x, y) /\ ~IsDifference(x, y, q, m[q])
    BY <1>4, <2>5
  <2>7. q \in P /\ Left(x, y, q) < Left(x, y, p) /\ Left(x, y, q) \in Nat /\ Left(x, y, p) \in Nat
    BY <2>5, <2>6, TurnTakes
  <2>8. Left(x, y, q) \in N
    BY <2>6, <2>7
  <2> HIDE DEF q, N
  <2> QED
    BY <2>3, <2>4, <2>7, <2>8
<1>6. <<1, 1>> \in P
  BY EntriesOf DEF Places
<1> QED
  BY <1>1, <1>5, <1>6

\* The value listed is the one the list gives.
LEMMA ListedIs ==
  ASSUME NEW s, SparseList(s)
  PROVE  /\ Feats(s) \subseteq Int
         /\ \A z : Gives(s, 1, z, Listed(s, z)) /\ Listed(s, z) \in Int
         /\ \A z, u : Gives(s, 1, z, u) => u = Listed(s, z)
         /\ \A k \in DOMAIN s : Listed(s, s[k][1]) = s[k][2]
         /\ \A z : Lists(s, 1, z) <=> z \in Feats(s)
<1>1. /\ DOMAIN s = 1 .. Len(s) /\ Len(s) \in Nat
      /\ \A k \in 1 .. Len(s) : /\ s[k] = <<s[k][1], s[k][2]>> /\ s[k][1] \in Int
                                /\ s[k][2] \in Int
  BY EntriesOf
<1>2. \A k, l \in 1 .. Len(s) : s[k][1] = s[l][1] => k = l
  <2>1. SUFFICES ASSUME NEW k \in 1 .. Len(s), NEW l \in 1 .. Len(s), s[k][1] = s[l][1]
                 PROVE  k = l
    OBVIOUS
  <2>2. k < l => s[k][1] < s[l][1]
    BY <1>1 DEF SparseList
  <2>3. l < k => s[l][1] < s[k][1]
    BY <1>1 DEF SparseList
  <2>4. s[k][1] \in Int
    BY <1>1
  <2>5. k \in Nat /\ l \in Nat
    BY <1>1
  <2> DEFINE f == s[k][1]
  <2>6. s[l][1] = f /\ f \in Int
    BY <2>1, <2>4
  <2> HIDE DEF f
  <2>7. (k < l => f < f) /\ (l < k => f < f)
    BY <2>1, <2>2, <2>3 DEF f
  <2> QED
    BY <2>5, <2>6, <2>7
<1>3. ASSUME NEW k \in 1 .. Len(s) PROVE Listed(s, s[k][1]) = s[k][2]
  <2> DEFINE l == CHOOSE l \in DOMAIN s : s[l][1] = s[k][1]
  <2>1. l \in 1 .. Len(s) /\ s[l][1] = s[k][1]
    BY <1>1
  <2>2. s[k][1] \in Feats(s)
    BY <1>1 DEF Feats
  <2>3. Listed(s, s[k][1]) = s[l][2]
    BY <2>2 DEF Listed
  <2> HIDE DEF l
  <2> QED
    BY <1>2, <2>1, <2>3
<1>4. ASSUME NEW z, z \notin Feats(s)
      PROVE  Listed(s, z) = 0 /\ \A k \in 1 .. Len(s) : s[k][1] # z
  BY <1>1, <1>4 DEF Listed, Feats
<1>5. ASSUME NEW z PROVE Gives(s, 1, z, Listed(s, z)) /\ Listed(s, z) \in Int
  <2>1. CASE z \in Feats(s)
    <3>1. PICK k \in 1 .. Len(s) : s[k][1] = z
      BY <1>1, <2>1 DEF Feats
    <3>2. s[k] = <<z, Listed(s, z)>> /\ Listed(s, z) \in Int
      BY <1>1, <1>3, <3>1
    <3> QED
      BY <3>2 DEF Gives
  <2>2. CASE z \notin Feats(s)
    BY <1>4, <2>2 DEF Gives
  <2> QED
    BY <2>1, <2>2
<1>6. ASSUME NEW z, NEW u, Gives(s, 1, z, u) PROVE u = Listed(s, z)
  <2>1. CASE \E k \in 1 .. Len(s) : s[k] = <<z, u>>
    <3>1. PICK k \in 1 .. Len(s) : s[k] = <<z, u>>
      BY <2>1
    <3> QED
      BY <1>3, <3>1
  <2>2. CASE u = 0 /\ \A k \in 1 .. Len(s) : s[k][1] # z
    <3>1. z \notin Feats(s)
      BY <1>1, <2>2 DEF Feats
    <3> QED
      BY <1>4, <2>2, <3>1
  <2> QED
    BY <1>6, <2>1, <2>2 DEF Gives
<1>7. Feats(s) \subseteq Int
  BY <1>1 DEF Feats
<1>8. \A z : Lists(s, 1, z) <=> z \in Feats(s)
  BY <1>1 DEF Lists, Feats
<1> QED
  BY <1>1, <1>3, <1>5, <1>6, <1>7, <1>8

\* What DifferenceIsRight says of two vectors.
LEMMA MergeIsRight ==
  ASSUME NEW a, SparseList(a), NEW b, SparseList(b)
  PROVE  LET c == Merged(a, b)
         IN /\ SparseList(c)
            /\ \A z \in Int : Listed(c, z) = Listed(a, z) - Listed(b, z)
            /\ Feats(c) \subseteq Feats(a) \cup Feats(b)
            /\ \A z : z \in Feats(c) <=>
                 /\ z \in Feats(a) \cup Feats(b)
                 /\ ~(z \in Feats(a) \cap Feats(b) /\ Listed(a, z) = Listed(b, z))
<1> DEFINE c == Merged(a, b)
<1>1. IsDifference(a, b, <<1, 1>>, c)
  BY MergedDiffers
<1> HIDE DEF c
<1>2. /\ SparseList(c)
      /\ \A k \in DOMAIN c : \/ \E l \in 1 .. Len(a) : c[k][1] = a[l][1]
                             \/ \E l \in 1 .. Len(b) : c[k][1] = b[l][1]
      /\ \A z, u, v \in Int : Gives(a, 1, z, u) /\ Gives(b, 1, z, v) =>
           Gives(c, 1, z, u - v) /\ (Lists(c, 1, z) <=> Stays(a, 1, b, 1, z, u, v))
  BY <1>1 DEF IsDifference
<1>3. ASSUME NEW z \in Int PROVE Listed(c, z) = Listed(a, z) - Listed(b, z)
  <2>1. /\ Gives(a, 1, z, Listed(a, z)) /\ Listed(a, z) \in Int
        /\ Gives(b, 1, z, Listed(b, z)) /\ Listed(b, z) \in Int
    BY ListedIs
  <2>2. Gives(c, 1, z, Listed(a, z) - Listed(b, z))
    BY <1>2, <2>1
  <2> QED
    BY <1>2, <2>2, ListedIs
<1>4. Feats(c) \subseteq Feats(a) \cup Feats(b)
  <2>1. DOMAIN a = 1 .. Len(a) /\ DOMAIN b = 1 .. Len(b)
    BY EntriesOf
  <2> QED
    BY <1>2, <2>1 DEF Feats
<1>5. ASSUME NEW z
      PROVE  z \in Feats(c) <=>
               /\ z \in Feats(a) \cup Feats(b)
               /\ ~(z \in Feats(a) \cap Feats(b) /\ Listed(a, z) = Listed(b, z))
  <2>1. /\ Gives(a, 1, z, Listed(a, z)) /\ Listed(a, z) \in Int
        /\ Gives(b, 1, z, Listed(b, z)) /\ Listed(b, z) \in Int
    BY ListedIs
  <2>2. /\ Feats(a) \cup Feats(b) \subseteq Int
        /\ Lists(a, 1, z) <=> z \in Feats(a)
        /\ Lists(b, 1, z) <=> z \in Feats(b)
        /\ Lists(c, 1, z) <=> z \in Feats(c)
    BY <1>2, ListedIs
  <2>3. z \in Int => (Lists(c, 1, z) <=> Stays(a, 1, b, 1, z, Listed(a, z), Listed(b, z)))
    BY <1>2, <2>1
  <2> QED
    BY <1>4, <2>2, <2>3 DEF Stays
<1> QED
  BY <1>2, <1>3, <1>4, <1>5 DEF c

-----------------------------------------------------------------------------
(* The dictionary, the hypotheses and the weights.                           *)

Names == SparseNames \cup ToSet(DenseNames)

\* The names a hypothesis lists, the type given.
NamesListed == IF type = "nbest" THEN SparseNames ELSE Names

\* A dictionary has each name once, and unless it is for n-best lists it begins
\* with the dense ones.
IsDictionary(dict) ==
  /\ dict \in Seq(Names) /\ IsInjective(dict)
  /\ type = "nbest" \/ \A k \in 1 .. NumDense : k \in DOMAIN dict /\ dict[k] = DenseNames[k]

\* What is kept of a hypothesis: its dense values, and by id those of the names
\* it lists.
IsRead(r, dict) ==
  /\ r.named \in Hypotheses
  /\ r.dense = [k \in 1 .. NumDense |-> At(r.named, DenseNames[k])]
  /\ \A id \in DOMAIN r.sparse :
       /\ id \in Nat /\ id + 1 \in DOMAIN dict
       /\ dict[id + 1] \in NamesListed \cap DOMAIN r.named
       /\ r.sparse[id] = r.named[dict[id + 1]]
  /\ \A n \in NamesListed \cap DOMAIN r.named : \E id \in DOMAIN r.sparse : dict[id + 1] = n

\* x is the index of a sparse feature, of which the dictionary has the name.
IsSparseIndex(x, dict) ==
  /\ x \in Int /\ x - NumDense \in Nat
  /\ x - NumDense + 1 \in DOMAIN dict /\ dict[x - NumDense + 1] \in SparseNames

IsIndex(x, dict) == x \in 0 .. NumDense - 1 \/ IsSparseIndex(x, dict)

\* The inductive invariant.
FeatureInv ==
  /\ initDenseSize = NumDense
  /\ IsDictionary(m_id_to_name)
  /\ \A r \in read : IsRead(r, m_id_to_name)
  /\ \A x \in DOMAIN m_weights : IsIndex(x, m_id_to_name) /\ m_weights[x] \in Int

\* The names are finitely many, and the values that hypotheses give them integers.
LEMMA NamesAre ==
  /\ IsFiniteSet(Names) /\ IsFiniteSet(SparseNames)
  /\ NumDense \in Nat /\ DOMAIN DenseNames = 1 .. NumDense
  /\ DenseNames \in Seq(Names)
  /\ \A k \in 1 .. NumDense : DenseNames[k] \in Names /\ DenseNames[k] \notin SparseNames
  /\ \A k, l \in 1 .. NumDense : DenseNames[k] = DenseNames[l] => k = l
  /\ \A n \in Names \ SparseNames : \E k \in 1 .. NumDense : DenseNames[k] = n
  /\ \A h \in Hypotheses : DOMAIN h \subseteq Names /\ \A n : At(h, n) \in Int
  /\ Undefined \notin Names
<1>1. NumDense \in Nat /\ DOMAIN DenseNames = 1 .. NumDense
  BY NamesAssumption DEF NumDense
<1>2. ToSet(DenseNames) = {DenseNames[k] : k \in 1 .. NumDense}
  BY <1>1 DEF ToSet
<1>3. IsFiniteSet(ToSet(DenseNames))
  <2>1. IsFiniteSet(1 .. NumDense)
    BY <1>1, FS_Interval
  <2> DEFINE f == [k \in 1 .. NumDense |-> DenseNames[k]]
  <2>2. f \in Surjection(1 .. NumDense, ToSet(DenseNames))
    <3>1. f \in [1 .. NumDense -> ToSet(DenseNames)]
      BY <1>2
    <3>2. \A n \in ToSet(DenseNames) : \E k \in 1 .. NumDense : f[k] = n
      BY <1>2
    <3> HIDE DEF f
    <3> QED
      BY <3>1, <3>2, Fun_IsSurj
  <2> HIDE DEF f
  <2> QED
    BY <2>1, <2>2, FS_Surjection
<1>4. IsFiniteSet(SparseNames)
  BY NamesAssumption
<1>5. IsFiniteSet(Names)
  BY <1>3, <1>4, FS_Union DEF Names
<1>6. DenseNames \in Seq(Names)
  BY NamesAssumption DEF Names
<1>7. \A k, l \in 1 .. NumDense : DenseNames[k] = DenseNames[l] => k = l
  BY <1>1, NamesAssumption DEF IsInjective
<1>8. \A k \in 1 .. NumDense : DenseNames[k] \in Names /\ DenseNames[k] \notin SparseNames
  BY <1>2, NamesAssumption DEF Names
<1>9. \A n \in Names \ SparseNames : \E k \in 1 .. NumDense : DenseNames[k] = n
  BY <1>2 DEF Names
<1>10. /\ \A h \in Hypotheses : DOMAIN h \subseteq Names /\ \A n : At(h, n) \in Int
       /\ Undefined \notin Names
  BY NamesAssumption DEF Names, At
<1> QED
  BY <1>1, <1>4, <1>5, <1>6, <1>7, <1>8, <1>9, <1>10

\* The entries of a dictionary.
LEMMA DictionaryIs ==
  ASSUME NEW dict, IsDictionary(dict)
  PROVE  /\ Len(dict) \in Nat /\ DOMAIN dict = 1 .. Len(dict)
         /\ \A k \in 1 .. Len(dict) : dict[k] \in Names
         /\ \A k, l \in 1 .. Len(dict) : dict[k] = dict[l] => k = l
<1> QED
  BY DEF IsDictionary, IsInjective

\* The place of a name.
LEMMA IdIs ==
  ASSUME NEW dict, IsDictionary(dict), NEW n \in ToSet(dict)
  PROVE  Id(n, dict) \in Nat /\ Id(n, dict) + 1 \in DOMAIN dict /\ dict[Id(n, dict) + 1] = n
<1>1. Len(dict) \in Nat /\ DOMAIN dict = 1 .. Len(dict)
  BY DictionaryIs
<1> DEFINE k == CHOOSE k \in DOMAIN dict : dict[k] = n
<1>2. k \in DOMAIN dict /\ dict[k] = n
  BY DEF ToSet
<1>3. Id(n, dict) = k - 1
  BY DEF Id
<1> HIDE DEF k
<1>4. k - 1 \in Nat /\ (k - 1) + 1 = k
  BY <1>1, <1>2
<1> QED
  BY <1>2, <1>3, <1>4

\* What a list of the sparse features of some ids is.
LEMMA InitSparseIs ==
  ASSUME NEW sparse, DOMAIN sparse \subseteq Nat, IsFiniteSet(DOMAIN sparse),
         \A id \in DOMAIN sparse : sparse[id] \in Int,
         NEW numDense \in Nat, NEW limit \in Nat
  PROVE  LET s == InitSparse(sparse, numDense, limit)
         IN /\ SparseList(s)
            /\ \A k \in DOMAIN s : \E id \in DOMAIN sparse :
                 id >= limit /\ s[k] = <<numDense + id, sparse[id]>>
            /\ \A id \in DOMAIN sparse : id >= limit =>
                 \E k \in DOMAIN s : s[k] = <<numDense + id, sparse[id]>>
<1> DEFINE D == {id \in DOMAIN sparse : id >= limit}
           ids == Ascending(D)
           n == Cardinality(D)
           s == [k \in DOMAIN ids |-> <<numDense + ids[k], sparse[ids[k]]>>]
<1>1. s = InitSparse(sparse, numDense, limit)
  BY DEF InitSparse
<1>2. D \subseteq DOMAIN sparse /\ D \subseteq Nat /\ IsFiniteSet(D)
  <2>1. D \in SUBSET DOMAIN sparse
    OBVIOUS
  <2> HIDE DEF D
  <2> QED
    BY <2>1, FS_Subset
<1>3. \A id : id \in D <=> id \in DOMAIN sparse /\ id >= limit
  OBVIOUS
<1> HIDE DEF D
<1>4. /\ n \in Nat /\ ids \in [1 .. n -> D] /\ DOMAIN ids = 1 .. n
      /\ \A j, k \in 1 .. n : j < k => ids[j] < ids[k]
      /\ \A id \in D : \E k \in 1 .. n : ids[k] = id
  BY <1>2, AscendingLists
<1> HIDE DEF ids, n
<1>5. /\ DOMAIN s = 1 .. n
      /\ \A k \in 1 .. n : s[k] = <<numDense + ids[k], sparse[ids[k]]>>
  BY <1>4
<1>6. \A k \in 1 .. n : /\ ids[k] \in DOMAIN sparse /\ ids[k] >= limit /\ ids[k] \in Nat
                        /\ sparse[ids[k]] \in Int
  BY <1>2, <1>3, <1>4
<1>7. s \in Seq(Int \X Int)
  <2>1. s = [k \in 1 .. n |-> <<numDense + ids[k], sparse[ids[k]]>>]
    BY <1>4
  <2>2. \A k \in 1 .. n : <<numDense + ids[k], sparse[ids[k]]>> \in Int \X Int
    BY <1>6
  <2> QED
    BY <1>4, <2>1, <2>2
<1> HIDE DEF s
<1>8. SparseList(s)
  <2>1. ASSUME NEW k \in 1 .. n, NEW l \in 1 .. n, k < l PROVE s[k][1] < s[l][1]
    BY <1>4, <1>5, <1>6, <2>1
  <2> QED
    BY <1>5, <1>7, <2>1 DEF SparseList
<1>9. \A k \in DOMAIN s : \E id \in DOMAIN sparse :
         id >= limit /\ s[k] = <<numDense + id, sparse[id]>>
  BY <1>5, <1>6
<1>10. ASSUME NEW id \in DOMAIN sparse, id >= limit
       PROVE  \E k \in DOMAIN s : s[k] = <<numDense + id, sparse[id]>>
  BY <1>3, <1>4, <1>5, <1>10
<1> QED
  BY <1>1, <1>8, <1>9, <1>10

\* A vector has the dense values of its hypothesis, and the sparse ones it lists,
\* each at the index of its name; those it does not list are 0.
IsVector(v, r, dict) ==
  /\ v.dense \in [1 .. NumDense -> Int]
  /\ \A k \in 1 .. NumDense : v.dense[k] = At(r.named, DenseNames[k])
  /\ SparseList(v.sparse)
  /\ \A l \in DOMAIN v.sparse :
       /\ IsSparseIndex(v.sparse[l][1], dict)
       /\ v.sparse[l][2] = At(r.named, dict[v.sparse[l][1] - NumDense + 1])
  /\ \A n \in SparseNames : At(r.named, n) # 0 =>
       \E l \in DOMAIN v.sparse : dict[v.sparse[l][1] - NumDense + 1] = n

\* The values of a hypothesis by id.
LEMMA ReadIs ==
  ASSUME NEW dict, IsDictionary(dict), NEW r, IsRead(r, dict)
  PROVE  /\ DOMAIN r.sparse \subseteq Nat /\ IsFiniteSet(DOMAIN r.sparse)
         /\ \A id \in DOMAIN r.sparse : /\ r.sparse[id] \in Int
                                        /\ id \in Nat /\ id + 1 \in 1 .. Len(dict)
                                        /\ dict[id + 1] \in NamesListed
                                        /\ r.sparse[id] = At(r.named, dict[id + 1])
         /\ \A n : At(r.named, n) \in Int
         /\ \A n \in NamesListed : At(r.named, n) # 0 =>
              \E id \in DOMAIN r.sparse : dict[id + 1] = n
         /\ r.dense \in [1 .. NumDense -> Int] /\ Len(r.dense) = NumDense
<1>1. /\ Len(dict) \in Nat /\ DOMAIN dict = 1 .. Len(dict)
      /\ \A k \in 1 .. Len(dict) : dict[k] \in Names
  BY DictionaryIs
<1>2. r.named \in Hypotheses /\ \A n : At(r.named, n) \in Int
  BY NamesAre DEF IsRead
<1>3. \A id \in DOMAIN r.sparse : /\ r.sparse[id] \in Int
                                  /\ id \in Nat /\ id + 1 \in 1 .. Len(dict)
                                  /\ dict[id + 1] \in NamesListed
                                  /\ r.sparse[id] = At(r.named, dict[id + 1])
  <2>1. ASSUME NEW id \in DOMAIN r.sparse
        PROVE  /\ id \in Nat /\ id + 1 \in DOMAIN dict
               /\ dict[id + 1] \in NamesListed \cap DOMAIN r.named
               /\ r.sparse[id] = r.named[dict[id + 1]]
    BY DEF IsRead
  <2>2. ASSUME NEW id \in DOMAIN r.sparse PROVE r.sparse[id] = At(r.named, dict[id + 1])
    BY <2>1 DEF At
  <2> QED
    BY <1>1, <1>2, <2>1, <2>2
<1>4. DOMAIN r.sparse \in SUBSET Nat /\ \A id \in DOMAIN r.sparse : id <= Len(dict)
  BY <1>1, <1>3
<1>5. IsFiniteSet(DOMAIN r.sparse)
  BY <1>1, <1>4, FS_BoundedSetOfNaturals
<1>6. r.dense \in [1 .. NumDense -> Int] /\ Len(r.dense) = NumDense
  <2>1. NumDense \in Nat /\ \A k \in 1 .. NumDense : At(r.named, DenseNames[k]) \in Int
    BY <1>2, NamesAre
  <2> DEFINE d == [k \in 1 .. NumDense |-> At(r.named, DenseNames[k])]
  <2>2. r.dense = d
    BY DEF IsRead
  <2>3. d \in [1 .. NumDense -> Int] /\ d \in Seq(Int) /\ Len(d) = NumDense
    BY <2>1
  <2> QED
    BY <2>2, <2>3
<1>7. \A n \in NamesListed : At(r.named, n) # 0 =>
         \E id \in DOMAIN r.sparse : dict[id + 1] = n
  BY DEF IsRead, At
<1> QED
  BY <1>2, <1>3, <1>4, <1>5, <1>6, <1>7

\* The vector of a hypothesis of either type.
LEMMA VectorIs ==
  ASSUME NEW dict, IsDictionary(dict), NEW r, IsRead(r, dict)
  PROVE  IsVector(Vector(r), r, dict)
<1>1. /\ Len(dict) \in Nat /\ DOMAIN dict = 1 .. Len(dict)
      /\ \A k \in 1 .. Len(dict) : dict[k] \in Names
      /\ \A k, l \in 1 .. Len(dict) : dict[k] = dict[l] => k = l
  BY DictionaryIs
<1>2. /\ NumDense \in Nat
      /\ \A n \in Names \ SparseNames : \E k \in 1 .. NumDense : DenseNames[k] = n
      /\ \A k \in 1 .. NumDense : DenseNames[k] \in Names /\ DenseNames[k] \notin SparseNames
  BY NamesAre
<1>3. /\ DOMAIN r.sparse \subseteq Nat /\ IsFiniteSet(DOMAIN r.sparse)
      /\ \A id \in DOMAIN r.sparse : /\ r.sparse[id] \in Int
                                     /\ id \in Nat /\ id + 1 \in 1 .. Len(dict)
      /\ \A n : At(r.named, n) \in Int
      /\ r.dense \in [1 .. NumDense -> Int] /\ Len(r.dense) = NumDense
  BY ReadIs
<1>4. /\ \A k \in 1 .. NumDense : r.dense[k] = At(r.named, DenseNames[k])
      /\ \A id \in DOMAIN r.sparse : /\ dict[id + 1] \in NamesListed
                                     /\ r.sparse[id] = At(r.named, dict[id + 1])
      /\ \A n \in NamesListed : At(r.named, n) # 0 => \E id \in DOMAIN r.sparse : dict[id + 1] = n
  BY ReadIs DEF IsRead
<1>5. ASSUME NEW limit \in Nat, NEW v, v.sparse = InitSparse(r.sparse, NumDense, limit),
             \A id \in DOMAIN r.sparse : id >= limit <=> dict[id + 1] \in SparseNames,
             SparseNames \subseteq NamesListed
      PROVE  /\ SparseList(v.sparse)
             /\ \A l \in DOMAIN v.sparse :
                  /\ IsSparseIndex(v.sparse[l][1], dict)
                  /\ v.sparse[l][2] = At(r.named, dict[v.sparse[l][1] - NumDense + 1])
             /\ \A n \in SparseNames : At(r.named, n) # 0 =>
                  \E l \in DOMAIN v.sparse : dict[v.sparse[l][1] - NumDense + 1] = n
  <2> DEFINE s == InitSparse(r.sparse, NumDense, limit)
  <2>1. /\ SparseList(s)
        /\ \A k \in DOMAIN s : \E id \in DOMAIN r.sparse :
             id >= limit /\ s[k] = <<NumDense + id, r.sparse[id]>>
        /\ \A id \in DOMAIN r.sparse : id >= limit =>
             \E k \in DOMAIN s : s[k] = <<NumDense + id, r.sparse[id]>>
    <3> DEFINE sp == r.sparse
               numDense == NumDense
    <3>1. /\ DOMAIN sp \subseteq Nat /\ IsFiniteSet(DOMAIN sp)
          /\ \A id \in DOMAIN sp : sp[id] \in Int
          /\ numDense \in Nat
      BY <1>2, <1>3
    <3> HIDE DEF sp, numDense
    <3>2. LET t == InitSparse(sp, numDense, limit)
          IN /\ SparseList(t)
             /\ \A k \in DOMAIN t : \E id \in DOMAIN sp :
                  id >= limit /\ t[k] = <<numDense + id, sp[id]>>
             /\ \A id \in DOMAIN sp : id >= limit =>
                  \E k \in DOMAIN t : t[k] = <<numDense + id, sp[id]>>
      BY <3>1, InitSparseIs
    <3> QED
      BY <3>2 DEF sp, numDense
  <2> HIDE DEF s
  <2>2. \A id \in Nat : (NumDense + id) - NumDense = id /\ NumDense + id \in Int
    BY <1>2
  <2>3. ASSUME NEW l \in DOMAIN s
        PROVE  IsSparseIndex(s[l][1], dict) /\ s[l][2] = At(r.named, dict[s[l][1] - NumDense + 1])
    <3>1. PICK id \in DOMAIN r.sparse : id >= limit /\ s[l] = <<NumDense + id, r.sparse[id]>>
      BY <2>1
    <3>2. s[l][1] = NumDense + id /\ s[l][2] = r.sparse[id]
      BY <3>1
    <3>3. id \in Nat /\ id + 1 \in DOMAIN dict /\ dict[id + 1] \in SparseNames
      BY <1>1, <1>3, <1>5, <3>1
    <3>4. s[l][1] - NumDense = id /\ s[l][1] \in Int
      BY <2>2, <3>2, <3>3
    <3> QED
      BY <1>4, <3>2, <3>3, <3>4 DEF IsSparseIndex
  <2>4. ASSUME NEW n \in SparseNames, At(r.named, n) # 0
        PROVE  \E l \in DOMAIN s : dict[s[l][1] - NumDense + 1] = n
    <3>1. PICK id \in DOMAIN r.sparse : dict[id + 1] = n
      BY <1>4, <1>5, <2>4
    <3>2. PICK l \in DOMAIN s : s[l] = <<NumDense + id, r.sparse[id]>>
      BY <1>5, <2>1, <3>1
    <3>3. s[l][1] - NumDense = id
      BY <1>3, <2>2, <3>2
    <3> QED
      BY <3>1, <3>3
  <2> QED
    BY <1>5, <2>1, <2>3, <2>4 DEF s
<1>6. CASE type = "nbest"
  <2> DEFINE v == OfItem(r.dense, r.sparse)
  <2>1. Vector(r) = v
    BY <1>6 DEF Vector
  <2>2. v.dense = r.dense /\ v.sparse = InitSparse(r.sparse, NumDense, 0)
    BY <1>3 DEF OfItem
  <2>3. NamesListed = SparseNames
    BY <1>6 DEF NamesListed
  <2>4. \A id \in DOMAIN r.sparse : id >= 0 <=> dict[id + 1] \in SparseNames
    BY <1>3, <1>4, <2>3
  <2> HIDE DEF v
  <2> QED
    BY <1>3, <1>4, <1>5, <2>1, <2>2, <2>3, <2>4 DEF IsVector
<1>7. CASE type # "nbest"
  <2> DEFINE v == OfGraph(r.sparse, NumDense)
  <2>1. Vector(r) = v
    BY <1>7 DEF Vector
  <2>2. /\ v.dense = [k \in 1 .. NumDense |->
                        IF k - 1 \in DOMAIN r.sparse THEN r.sparse[k - 1] ELSE 0]
        /\ v.sparse = InitSparse(r.sparse, NumDense, NumDense)
    BY DEF OfGraph
  <2>3. NamesListed = Names /\ SparseNames \subseteq Names
    BY <1>7 DEF NamesListed, Names
  <2>4. \A k \in 1 .. NumDense : k \in 1 .. Len(dict) /\ dict[k] = DenseNames[k]
    BY <1>1, <1>7 DEF IsDictionary
  <2>5. ASSUME NEW id \in DOMAIN r.sparse
        PROVE  id >= NumDense <=> dict[id + 1] \in SparseNames
    <3>1. id \in Nat /\ id + 1 \in 1 .. Len(dict) /\ dict[id + 1] \in Names
      BY <1>1, <1>3
    <3>2. CASE id >= NumDense
      <4>1. SUFFICES ASSUME dict[id + 1] \notin SparseNames PROVE FALSE
        BY <3>2
      <4>2. PICK k \in 1 .. NumDense : DenseNames[k] = dict[id + 1]
        BY <1>2, <3>1, <4>1
      <4>3. k = id + 1
        BY <1>1, <2>4, <3>1, <4>2
      <4> QED
        BY <1>2, <3>1, <3>2, <4>3
    <3>3. CASE ~(id >= NumDense)
      <4>1. id + 1 \in 1 .. NumDense
        BY <1>2, <3>1, <3>3
      <4> QED
        BY <1>2, <2>4, <3>3, <4>1
    <3> QED
      BY <3>2, <3>3
  <2>6. ASSUME NEW k \in 1 .. NumDense
        PROVE  v.dense[k] = At(r.named, DenseNames[k]) /\ v.dense[k] \in Int
    <3>1. k - 1 \in Nat /\ (k - 1) + 1 = k /\ At(r.named, DenseNames[k]) \in Int
      BY <1>2, <1>3
    <3>2. CASE k - 1 \in DOMAIN r.sparse
      <4>1. v.dense[k] = r.sparse[k - 1]
        BY <2>2, <3>2
      <4>2. r.sparse[k - 1] = At(r.named, dict[k])
        BY <1>4, <3>1, <3>2
      <4> QED
        BY <2>4, <3>1, <4>1, <4>2
    <3>3. CASE k - 1 \notin DOMAIN r.sparse
      <4>1. v.dense[k] = 0
        BY <2>2, <3>3
      <4>2. At(r.named, DenseNames[k]) = 0
        <5>1. SUFFICES ASSUME At(r.named, DenseNames[k]) # 0 PROVE FALSE
          OBVIOUS
        <5>2. PICK id \in DOMAIN r.sparse : dict[id + 1] = DenseNames[k]
          BY <1>2, <1>4, <2>3, <5>1
        <5>3. id \in Nat /\ id + 1 \in 1 .. Len(dict)
          BY <1>3
        <5>4. id + 1 = k
          BY <1>1, <2>4, <5>2, <5>3
        <5>5. id = k - 1
          BY <5>3, <5>4
        <5> QED
          BY <3>3, <5>5
      <4> QED
        BY <4>1, <4>2
    <3> QED
      BY <3>2, <3>3
  <2>7. v.dense \in [1 .. NumDense -> Int]
    <3>1. DOMAIN v.dense = 1 .. NumDense /\ v.dense = [k \in 1 .. NumDense |-> v.dense[k]]
      BY <2>2
    <3> HIDE DEF v
    <3> QED
      BY <2>6, <3>1
  <2> HIDE DEF v
  <2> QED
    BY <1>2, <1>5, <2>1, <2>2, <2>3, <2>5, <2>6, <2>7 DEF IsVector
<1> QED
  BY <1>6, <1>7

\* A line that lists the elements of a finite set.
LEMMA LineIs ==
  ASSUME NEW S, IsFiniteSet(S), NEW line \in SetToSeqs(S)
  PROVE  /\ line \in Seq(S) /\ Len(line) \in Nat /\ DOMAIN line = 1 .. Len(line)
         /\ \A k, l \in 1 .. Len(line) : line[k] = line[l] => k = l
         /\ \A x \in S : \E k \in 1 .. Len(line) : line[k] = x
<1> DEFINE n == Cardinality(S)
           D == 1 .. n
<1>1. n \in Nat /\ IsFiniteSet(D) /\ Cardinality(D) = n
  <2>1. n \in Nat
    BY FS_CardinalityType
  <2> HIDE DEF n
  <2>2. /\ IsFiniteSet(1 .. n)
        /\ Cardinality(1 .. n) = IF 1 > n THEN 0 ELSE n - 1 + 1
    BY <2>1, FS_Interval
  <2> QED
    BY <2>1, <2>2
<1>2. line \in [D -> S] /\ \A i, j \in D : i # j => line[i] # line[j]
  BY DEF SetToSeqs
<1> HIDE DEF n
<1>3. line \in Seq(S) /\ Len(line) = n /\ DOMAIN line = 1 .. n
  BY <1>1, <1>2
<1> HIDE DEF D
<1>4. line \in Injection(D, S)
  BY <1>2, Fun_IsInj
<1>5. line \in Surjection(D, S)
  BY <1>1, <1>4, FS_Injection DEF n
<1>6. \A x \in S : \E k \in D : line[k] = x
  BY <1>5, Fun_SurjectionProperties
<1> QED
  BY <1>1, <1>2, <1>3, <1>6 DEF D

\* What grown has in addition to dict.
Grows(dict, grown, new) ==
  /\ IsDictionary(grown)
  /\ \A k \in DOMAIN dict : k \in DOMAIN grown /\ grown[k] = dict[k]
  /\ ToSet(dict) \cup new \subseteq ToSet(grown)

\* New names are put after the others.
LEMMA DictionaryGrows ==
  ASSUME NEW dict, IsDictionary(dict), NEW new \in SUBSET Names, new \cap ToSet(dict) = {},
         NEW line \in SetToSeqs(new)
  PROVE  Grows(dict, dict \o line, new)
<1> DEFINE grown == dict \o line
           m == Len(dict)
           n == Len(line)
<1>1. IsFiniteSet(new)
  BY NamesAre, FS_Subset
<1>2. /\ line \in Seq(new) /\ n \in Nat /\ DOMAIN line = 1 .. n
      /\ \A k, l \in 1 .. n : line[k] = line[l] => k = l
      /\ \A x \in new : \E k \in 1 .. n : line[k] = x
  BY <1>1, LineIs
<1>3. /\ dict \in Seq(Names) /\ m \in Nat /\ DOMAIN dict = 1 .. m
      /\ \A k, l \in 1 .. m : dict[k] = dict[l] => k = l
  BY DictionaryIs DEF IsDictionary
<1>4. line \in Seq(Names)
  BY <1>2
<1>5. grown \in Seq(Names) /\ Len(grown) = m + n /\ DOMAIN grown = 1 .. m + n
  BY <1>2, <1>3, <1>4
<1>6. \A k \in 1 .. m : grown[k] = dict[k] /\ k \in 1 .. m + n
  BY <1>2, <1>3
<1>7. \A k \in 1 .. n : grown[m + k] = line[k] /\ m + k \in 1 .. m + n
  BY <1>2, <1>3
<1>8. \A k \in 1 .. m + n : k \in 1 .. m \/ (k - m \in 1 .. n /\ m + (k - m) = k)
  BY <1>2, <1>3
<1>9. \A k \in 1 .. m : \A l \in 1 .. n : dict[k] # line[l]
  BY <1>2, <1>3 DEF ToSet
<1> HIDE DEF grown, m, n
<1>10. ASSUME NEW k \in 1 .. m + n, NEW l \in 1 .. m + n, grown[k] = grown[l] PROVE k = l
  <2>1. CASE k \in 1 .. m /\ l \in 1 .. m
    BY <1>3, <1>6, <1>10, <2>1
  <2>2. CASE k \in 1 .. m /\ l \notin 1 .. m
    BY <1>6, <1>7, <1>8, <1>9, <1>10, <2>2
  <2>3. CASE k \notin 1 .. m /\ l \in 1 .. m
    BY <1>6, <1>7, <1>8, <1>9, <1>10, <2>3
  <2>4. CASE k \notin 1 .. m /\ l \notin 1 .. m
    <3>1. /\ k - m \in 1 .. n /\ m + (k - m) = k
          /\ l - m \in 1 .. n /\ m + (l - m) = l
      BY <1>8, <2>4
    <3>2. line[k - m] = line[l - m]
      BY <1>7, <1>10, <3>1
    <3>3. k - m = l - m
      BY <1>2, <3>1, <3>2
    <3> QED
      BY <3>1, <3>3
  <2> QED
    BY <2>1, <2>2, <2>3, <2>4
<1>11. IsDictionary(grown)
  <2>1. IsInjective(grown)
    BY <1>5, <1>10 DEF IsInjective
  <2>2. \A k \in 1 .. NumDense : k \in DOMAIN dict /\ dict[k] = DenseNames[k] =>
                                 k \in DOMAIN grown /\ grown[k] = DenseNames[k]
    BY <1>3, <1>5, <1>6
  <2> QED
    BY <1>5, <2>1, <2>2 DEF IsDictionary
<1>12. \A k \in DOMAIN dict : k \in DOMAIN grown /\ grown[k] = dict[k]
  BY <1>3, <1>5, <1>6
<1>13. ASSUME NEW x \in new PROVE x \in ToSet(grown)
  BY <1>2, <1>5, <1>7 DEF ToSet
<1>14. ToSet(dict) \subseteq ToSet(grown)
  BY <1>12 DEF ToSet
<1> QED
  BY <1>11, <1>12, <1>13, <1>14 DEF Grows, grown

\* What was read stays read, and indexes stay indexes.
LEMMA GrownKeeps ==
  ASSUME NEW dict, NEW grown, NEW new, Grows(dict, grown, new)
  PROVE  /\ \A r : IsRead(r, dict) => IsRead(r, grown)
         /\ \A x : IsIndex(x, dict) => IsIndex(x, grown)
<1>1. \A k \in DOMAIN dict : k \in DOMAIN grown /\ grown[k] = dict[k]
  BY DEF Grows
<1>2. ASSUME NEW r, IsRead(r, dict) PROVE IsRead(r, grown)
  BY <1>1, <1>2 DEF IsRead
<1>3. ASSUME NEW x, IsIndex(x, dict) PROVE IsIndex(x, grown)
  BY <1>1, <1>3 DEF IsIndex, IsSparseIndex
<1> QED
  BY <1>2, <1>3

\* A hypothesis that is read.
LEMMA ParsedIs ==
  ASSUME NEW dict, IsDictionary(dict), NEW h \in Hypotheses,
         NamesListed \cap DOMAIN h \subseteq ToSet(dict)
  PROVE  IsRead([named  |-> h,
                 dense  |-> [k \in 1 .. NumDense |-> At(h, DenseNames[k])],
                 sparse |-> Parsed(h, NamesListed, dict)], dict)
<1> DEFINE given == NamesListed \cap DOMAIN h
           ids == {Id(n, dict) : n \in given}
           sparse == [id \in ids |-> h[dict[id + 1]]]
<1>1. Parsed(h, NamesListed, dict) = sparse
  BY DEF Parsed
<1>2. ASSUME NEW n \in given
      PROVE  /\ Id(n, dict) \in Nat /\ Id(n, dict) + 1 \in DOMAIN dict
             /\ dict[Id(n, dict) + 1] = n
  <2>1. n \in ToSet(dict)
    OBVIOUS
  <2> QED
    BY <2>1, IdIs
<1>3. ASSUME NEW id \in DOMAIN sparse
      PROVE  /\ id \in Nat /\ id + 1 \in DOMAIN dict /\ dict[id + 1] \in given
             /\ sparse[id] = h[dict[id + 1]]
  <2>1. PICK n \in given : id = Id(n, dict)
    OBVIOUS
  <2>2. id \in Nat /\ id + 1 \in DOMAIN dict /\ dict[id + 1] = n
    BY <1>2, <2>1
  <2>3. sparse[id] = h[dict[id + 1]]
    OBVIOUS
  <2> QED
    BY <2>1, <2>2, <2>3
<1>4. ASSUME NEW n \in given PROVE \E id \in DOMAIN sparse : dict[id + 1] = n
  <2>1. Id(n, dict) \in DOMAIN sparse
    OBVIOUS
  <2> QED
    BY <1>2, <2>1
<1> HIDE DEF sparse
<1> QED
  BY <1>1, <1>3, <1>4 DEF IsRead

\* The start.
LEMMA FInitInv == FInit => FeatureInv
<1> SUFFICES ASSUME FInit PROVE FeatureInv
  OBVIOUS
<1>1. /\ initDenseSize = NumDense /\ read = {} /\ m_weights = <<>>
      /\ m_id_to_name = DenseNames \/ (type = "nbest" /\ m_id_to_name = <<>>)
  BY DEF FInit
<1>2. DOMAIN m_weights = {}
  BY <1>1
<1>3. IsDictionary(m_id_to_name)
  <2>1. CASE m_id_to_name = DenseNames
    BY <2>1, NamesAre DEF IsDictionary, IsInjective
  <2>2. CASE type = "nbest" /\ m_id_to_name = <<>>
    BY <2>2 DEF IsDictionary, IsInjective
  <2> QED
    BY <1>1, <2>1, <2>2
<1> QED
  BY <1>1, <1>2, <1>3 DEF FeatureInv

\* Reading.
LEMMA ReadInv ==
  ASSUME FeatureInv, NEW h \in Hypotheses, Read(h)
  PROVE  FeatureInv'
<1> DEFINE given == NamesListed \cap DOMAIN h
           new == Unknown(given)
           dict == m_id_to_name
<1>1. UNCHANGED <<type, initDenseSize, m_weights, numUpdates>>
  BY DEF Read
<1>2. PICK line \in SetToSeqs(new) :
        /\ m_id_to_name' = dict \o line
        /\ read' = read \cup
             {[named  |-> h,
               dense  |-> [k \in 1 .. NumDense |-> At(h, DenseNames[k])],
               sparse |-> Parsed(h, NamesListed, dict \o line)]}
  BY DEF Read, NamesListed, Names
<1>3. new \in SUBSET Names /\ new \cap ToSet(dict) = {} /\ given \subseteq ToSet(dict) \cup new
  BY DEF Unknown, NamesListed, Names
<1>4. IsDictionary(dict)
  BY DEF FeatureInv
<1> DEFINE grown == dict \o line
<1> HIDE DEF new
<1>5. Grows(dict, grown, new)
  BY <1>3, <1>4, DictionaryGrows
<1> HIDE DEF dict, grown
<1>6. IsDictionary(grown) /\ given \subseteq ToSet(grown)
  BY <1>3, <1>5 DEF Grows
<1>7. IsRead([named  |-> h,
              dense  |-> [k \in 1 .. NumDense |-> At(h, DenseNames[k])],
              sparse |-> Parsed(h, NamesListed, grown)], grown)
  BY <1>6, ParsedIs
<1>8. \A r \in read' : IsRead(r, grown)
  <2>1. \A r \in read : IsRead(r, dict)
    BY DEF FeatureInv, dict
  <2>2. \A r \in read : IsRead(r, grown)
    BY <1>5, <2>1, GrownKeeps
  <2> QED
    BY <1>2, <1>7, <2>2 DEF grown
<1>9. \A x \in DOMAIN m_weights : IsIndex(x, grown) /\ m_weights[x] \in Int
  <2>1. \A x \in DOMAIN m_weights : IsIndex(x, dict) /\ m_weights[x] \in Int
    BY DEF FeatureInv, dict
  <2> QED
    BY <1>5, <2>1, GrownKeeps
<1>10. m_id_to_name' = grown
  BY <1>2 DEF grown, dict
<1>11. IsDictionary(m_id_to_name)'
  BY <1>1, <1>6, <1>10 DEF IsDictionary
<1>12. (\A r \in read : IsRead(r, m_id_to_name))'
  BY <1>1, <1>8, <1>10 DEF IsRead, NamesListed
<1>13. (\A x \in DOMAIN m_weights : IsIndex(x, m_id_to_name) /\ m_weights[x] \in Int)'
  BY <1>1, <1>9, <1>10 DEF IsIndex, IsSparseIndex
<1>14. (initDenseSize = NumDense)'
  BY <1>1 DEF FeatureInv
<1> QED
  BY <1>11, <1>12, <1>13, <1>14 DEF FeatureInv

-----------------------------------------------------------------------------
(* Updates.                                                                  *)

\* One sequence after another.
LEMMA ConcatIs ==
  ASSUME NEW S, NEW s \in Seq(S), NEW t \in Seq(S)
  PROVE  /\ s \o t \in Seq(S) /\ Len(s) \in Nat /\ Len(t) \in Nat
         /\ Len(s \o t) = Len(s) + Len(t) /\ DOMAIN (s \o t) = 1 .. Len(s) + Len(t)
         /\ \A k \in 1 .. Len(s) : (s \o t)[k] = s[k]
         /\ \A k \in 1 .. Len(t) : (s \o t)[Len(s) + k] = t[k]
<1> QED
  OBVIOUS

\* The features of a vector, dense and then sparse.
LEMMA EntriesAre ==
  ASSUME NEW v, v.dense \in [1 .. NumDense -> Int], SparseList(v.sparse)
  PROVE  LET es == Entries(v)
             n == NumDense + Len(v.sparse)
         IN /\ n \in Nat /\ DOMAIN es = 1 .. n
            /\ \A k \in 1 .. NumDense : k \in 1 .. n /\ es[k] = <<k - 1, v.dense[k]>>
            /\ \A l \in DOMAIN v.sparse : NumDense + l \in 1 .. n /\ es[NumDense + l] = v.sparse[l]
            /\ \A k \in 1 .. n : \/ k \in 1 .. NumDense
                                  \/ /\ k - NumDense \in DOMAIN v.sparse
                                     /\ es[k] = v.sparse[k - NumDense]
            /\ \A k \in 1 .. n : es[k] \in Int \X Int
<1> DEFINE d == [k \in 1 .. NumDense |-> <<k - 1, v.dense[k]>>]
           s == v.sparse
           n == NumDense + Len(s)
           es == Entries(v)
<1>1. NumDense \in Nat
  BY NamesAre
<1>2. s \in Seq(Int \X Int) /\ Len(s) \in Nat /\ DOMAIN s = 1 .. Len(s)
  BY EntriesOf DEF SparseList
<1>3. /\ d \in Seq(Int \X Int) /\ Len(d) = NumDense
      /\ \A k \in 1 .. NumDense : d[k] = <<k - 1, v.dense[k]>>
  <2>1. \A k \in 1 .. NumDense : <<k - 1, v.dense[k]>> \in Int \X Int
    BY <1>1
  <2> QED
    BY <1>1, <2>1
<1>4. es = d \o s
  BY DEF Entries
<1> HIDE DEF d, s, es
<1>5. /\ es \in Seq(Int \X Int) /\ n \in Nat /\ DOMAIN es = 1 .. n
      /\ \A k \in 1 .. NumDense : es[k] = d[k]
      /\ \A l \in 1 .. Len(s) : es[NumDense + l] = s[l]
  <2> DEFINE E == Int \X Int
  <2>1. d \in Seq(E) /\ s \in Seq(E)
    BY <1>2, <1>3
  <2> HIDE DEF E
  <2>2. /\ es \in Seq(E) /\ DOMAIN es = 1 .. Len(d) + Len(s)
        /\ \A k \in 1 .. Len(d) : es[k] = d[k]
        /\ \A l \in 1 .. Len(s) : es[Len(d) + l] = s[l]
    BY <1>4, <2>1, ConcatIs
  <2>3. n \in Nat
    BY <1>1, <1>2
  <2> QED
    BY <1>3, <2>2, <2>3 DEF E
<1>6. \A k \in 1 .. NumDense : k \in 1 .. n /\ es[k] = <<k - 1, v.dense[k]>>
  <2>1. \A k \in 1 .. NumDense : k \in 1 .. n
    BY <1>1, <1>2
  <2> QED
    BY <1>3, <1>5, <2>1
<1>7. \A l \in 1 .. Len(s) : NumDense + l \in 1 .. n /\ es[NumDense + l] = s[l]
  <2>1. \A l \in 1 .. Len(s) : NumDense + l \in 1 .. n
    BY <1>1, <1>2
  <2> QED
    BY <1>5, <2>1
<1>8. \A k \in 1 .. n : k \in 1 .. NumDense \/ k - NumDense \in 1 .. Len(s)
  BY <1>1, <1>2
<1>9. \A k \in 1 .. n : \/ k \in 1 .. NumDense
                        \/ /\ k - NumDense \in DOMAIN s
                           /\ es[k] = s[k - NumDense]
  <2>1. \A k \in 1 .. n : NumDense + (k - NumDense) = k
    BY <1>1, <1>2
  <2> QED
    BY <1>2, <1>7, <1>8, <2>1
<1>10. \A k \in 1 .. n : es[k] \in Int \X Int
  BY <1>5
<1>11. \A l \in DOMAIN s : NumDense + l \in 1 .. n /\ es[NumDense + l] = s[l]
  BY <1>2, <1>7
<1> QED
  BY <1>5, <1>6, <1>9, <1>10, <1>11, Zenon DEF s, es

\* The vectors of hypotheses that are read.
LEMMA VectorsAre ==
  ASSUME FeatureInv, NEW r \in read
  PROVE  /\ IsVector(Vector(r), r, m_id_to_name)
         /\ \A x \in Feats(Vector(r).sparse) : IsSparseIndex(x, m_id_to_name)
<1>1. IsVector(Vector(r), r, m_id_to_name)
  BY VectorIs DEF FeatureInv
<1> QED
  BY <1>1 DEF IsVector, Feats

\* The difference of two vectors of hypotheses is a vector.
LEMMA DifferenceIs ==
  ASSUME FeatureInv, NEW r \in read, NEW q \in read
  PROVE  LET d == Minus(Vector(r), Vector(q))
         IN /\ d.dense \in [1 .. NumDense -> Int]
            /\ SparseList(d.sparse)
            /\ \A x \in Feats(d.sparse) : IsSparseIndex(x, m_id_to_name)
<1> DEFINE a == Vector(r)
           b == Vector(q)
           d == Minus(a, b)
<1>1. /\ a.dense \in [1 .. NumDense -> Int] /\ SparseList(a.sparse)
      /\ \A x \in Feats(a.sparse) : IsSparseIndex(x, m_id_to_name)
      /\ b.dense \in [1 .. NumDense -> Int] /\ SparseList(b.sparse)
      /\ \A x \in Feats(b.sparse) : IsSparseIndex(x, m_id_to_name)
  BY VectorsAre DEF IsVector
<1> HIDE DEF a, b
<1>2. /\ d.dense = [k \in DOMAIN a.dense |-> a.dense[k] - b.dense[k]]
      /\ d.sparse = Merged(a.sparse, b.sparse)
  BY DEF Minus
<1> HIDE DEF d
<1>3. d.dense \in [1 .. NumDense -> Int]
  <2>1. DOMAIN a.dense = 1 .. NumDense
    BY <1>1
  <2>2. \A k \in 1 .. NumDense : a.dense[k] \in Int /\ b.dense[k] \in Int
    BY <1>1
  <2>3. \A k \in 1 .. NumDense : a.dense[k] - b.dense[k] \in Int
    BY <2>2
  <2>4. d.dense = [k \in 1 .. NumDense |-> a.dense[k] - b.dense[k]]
    BY <1>2, <2>1
  <2> QED
    BY <2>3, <2>4
<1>4. SparseList(d.sparse) /\ Feats(d.sparse) \subseteq Feats(a.sparse) \cup Feats(b.sparse)
  <2> DEFINE x == a.sparse
             y == b.sparse
  <2>1. SparseList(x) /\ SparseList(y)
    BY <1>1
  <2> HIDE DEF x, y
  <2>2. LET c == Merged(x, y)
        IN SparseList(c) /\ Feats(c) \subseteq Feats(x) \cup Feats(y)
    BY <2>1, MergeIsRight
  <2> QED
    BY <1>2, <2>2 DEF x, y
<1> QED
  BY <1>1, <1>3, <1>4 DEF a, b, d

\* Weights are integers, those of unknown indexes being 0.
LEMMA WeightIs ==
  ASSUME FeatureInv
  PROVE  \A x : At(m_weights, x) \in Int
<1> QED
  BY DEF FeatureInv, At

\* Updating.
LEMMA UpdateInv ==
  ASSUME FeatureInv, NEW hope \in read, NEW fear \in read, Update(hope, fear)
  PROVE  FeatureInv'
<1> DEFINE d == Minus(Vector(hope), Vector(fear))
           diff == Entries(d)
           n == NumDense + Len(d.sparse)
           feats == {diff[k][1] : k \in DOMAIN diff}
           val == [k \in DOMAIN diff |-> diff[k][2]]
<1>1. /\ UNCHANGED <<type, initDenseSize, m_id_to_name, read>>
      /\ m_weights' = [x \in DOMAIN m_weights \cup feats |->
           At(m_weights, x) + SumFunctionOnSet(val, {k \in DOMAIN diff : diff[k][1] = x})]
  BY DEF Update
<1>2. /\ d.dense \in [1 .. NumDense -> Int] /\ SparseList(d.sparse)
      /\ \A x \in Feats(d.sparse) : IsSparseIndex(x, m_id_to_name)
  BY DifferenceIs
<1> HIDE DEF d
<1>3. /\ n \in Nat /\ DOMAIN diff = 1 .. n
      /\ \A k \in 1 .. NumDense : k \in 1 .. n /\ diff[k] = <<k - 1, d.dense[k]>>
      /\ \A k \in 1 .. n : \/ k \in 1 .. NumDense
                           \/ k - NumDense \in DOMAIN d.sparse /\ diff[k] = d.sparse[k - NumDense]
      /\ \A k \in 1 .. n : diff[k] \in Int \X Int
  BY <1>2, EntriesAre
<1> HIDE DEF n, diff
<1>4. ASSUME NEW k \in 1 .. n PROVE IsIndex(diff[k][1], m_id_to_name)
  <2>1. CASE k \in 1 .. NumDense
    <3>1. diff[k][1] = k - 1 /\ k - 1 \in 0 .. NumDense - 1
      BY <1>3, <2>1, NamesAre
    <3> QED
      BY <3>1 DEF IsIndex
  <2>2. CASE k - NumDense \in DOMAIN d.sparse /\ diff[k] = d.sparse[k - NumDense]
    <3>1. diff[k][1] \in Feats(d.sparse)
      BY <2>2 DEF Feats
    <3> QED
      BY <1>2, <3>1 DEF IsIndex
  <2> QED
    BY <1>3, <2>1, <2>2
<1>5. IsFiniteSet(DOMAIN diff)
  BY <1>3, FS_Interval
<1>6. ASSUME NEW x PROVE SumFunctionOnSet(val, {k \in DOMAIN diff : diff[k][1] = x}) \in Int
  <2> DEFINE K == {k \in DOMAIN diff : diff[k][1] = x}
  <2>1. K \in SUBSET DOMAIN diff /\ \A k \in K : val[k] \in Int
    BY <1>3
  <2> HIDE DEF K, val
  <2>2. IsFiniteSet(K)
    BY <1>5, <2>1, FS_Subset
  <2>3. SumFunctionOnSet(val, K) \in Int
    BY <2>1, <2>2, SumType
  <2> QED
    BY <2>3 DEF K
<1> HIDE DEF val
<1>7. ASSUME NEW x \in DOMAIN m_weights'
      PROVE  IsIndex(x, m_id_to_name) /\ m_weights'[x] \in Int
  <2>1. x \in DOMAIN m_weights \cup feats
    BY <1>1
  <2>2. m_weights'[x] = At(m_weights, x) +
                          SumFunctionOnSet(val, {k \in DOMAIN diff : diff[k][1] = x})
    BY <1>1, <2>1
  <2>3. m_weights'[x] \in Int
    BY <1>6, <2>2, WeightIs
  <2>4. x \in DOMAIN m_weights => IsIndex(x, m_id_to_name)
    BY DEF FeatureInv
  <2>5. x \in feats => IsIndex(x, m_id_to_name)
    BY <1>3, <1>4
  <2> QED
    BY <2>1, <2>3, <2>4, <2>5
<1>8. IsDictionary(m_id_to_name)'
  BY <1>1 DEF FeatureInv, IsDictionary
<1>9. (\A r \in read : IsRead(r, m_id_to_name))'
  BY <1>1 DEF FeatureInv, IsRead, NamesListed
<1>10. (\A x \in DOMAIN m_weights : IsIndex(x, m_id_to_name) /\ m_weights[x] \in Int)'
  BY <1>1, <1>7 DEF IsIndex, IsSparseIndex
<1>11. (initDenseSize = NumDense)'
  BY <1>1 DEF FeatureInv
<1> QED
  BY <1>8, <1>9, <1>10, <1>11 DEF FeatureInv

\* Every step keeps the invariant.
LEMMA FNextInv == FeatureInv /\ [FNext]_fvars => FeatureInv'
<1> SUFFICES ASSUME FeatureInv, [FNext]_fvars PROVE FeatureInv'
  OBVIOUS
<1>1. ASSUME NEW h \in Hypotheses, Read(h) PROVE FeatureInv'
  BY <1>1, ReadInv
<1>2. ASSUME NEW hope \in read, NEW fear \in read, Update(hope, fear) PROVE FeatureInv'
  BY <1>2, UpdateInv
<1>3. CASE UNCHANGED fvars
  <2>1. UNCHANGED <<type, initDenseSize, m_id_to_name, read, m_weights>>
    BY <1>3 DEF fvars
  <2>2. IsDictionary(m_id_to_name)'
    BY <2>1 DEF FeatureInv, IsDictionary
  <2>3. (\A r \in read : IsRead(r, m_id_to_name))'
    BY <2>1 DEF FeatureInv, IsRead, NamesListed
  <2>4. (\A x \in DOMAIN m_weights : IsIndex(x, m_id_to_name) /\ m_weights[x] \in Int)'
    BY <2>1 DEF FeatureInv, IsIndex, IsSparseIndex
  <2> QED
    BY <2>1, <2>2, <2>3, <2>4 DEF FeatureInv
<1> QED
  BY <1>1, <1>2, <1>3 DEF FNext

-----------------------------------------------------------------------------
(* What follows of the difference.                                           *)

\* The invariant says of every two vectors what the merge does to them.
LEMMA InvDifferenceIsRight == FeatureInv => DifferenceIsRight
<1> SUFFICES ASSUME FeatureInv, NEW r \in read, NEW q \in read
             PROVE  LET a == Vector(r).sparse
                        b == Vector(q).sparse
                        c == Minus(Vector(r), Vector(q)).sparse
                        alike == {x \in Feats(a) \cap Feats(b) : Listed(a, x) = Listed(b, x)}
                    IN /\ \A k, l \in DOMAIN c : k < l => c[k][1] < c[l][1]
                       /\ Feats(c) = (Feats(a) \cup Feats(b)) \ alike
                       /\ \A x \in Feats(c) : Listed(c, x) = Listed(a, x) - Listed(b, x)
  BY DEF DifferenceIsRight
<1> DEFINE a == Vector(r).sparse
           b == Vector(q).sparse
           c == Minus(Vector(r), Vector(q)).sparse
<1>1. SparseList(a) /\ SparseList(b)
  BY VectorsAre DEF IsVector
<1>2. c = Merged(a, b)
  BY DEF Minus
<1> HIDE DEF a, b, c
<1>3. /\ SparseList(c) /\ \A z \in Int : Listed(c, z) = Listed(a, z) - Listed(b, z)
      /\ \A z : z \in Feats(c) <=>
           /\ z \in Feats(a) \cup Feats(b)
           /\ ~(z \in Feats(a) \cap Feats(b) /\ Listed(a, z) = Listed(b, z))
  BY <1>1, <1>2, MergeIsRight
<1> DEFINE alike == {x \in Feats(a) \cap Feats(b) : Listed(a, x) = Listed(b, x)}
<1>4. Feats(c) = (Feats(a) \cup Feats(b)) \ alike
  BY <1>3
<1>5. \A k, l \in DOMAIN c : k < l => c[k][1] < c[l][1]
  BY <1>3 DEF SparseList
<1>6. \A x \in Feats(c) : Listed(c, x) = Listed(a, x) - Listed(b, x)
  BY <1>3, ListedIs
<1> QED
  BY <1>4, <1>5, <1>6 DEF a, b, c

\* The merge of operator- computes the difference of the vectors of any two
\* hypotheses that were read feature by feature, and lists in ascending order, each
\* once, the features of either but those both list with the same value
\* (MiraFeatureVector.cpp:107-163), whatever the hypotheses, zeros they list
\* included, the names and the order in which they were met.
THEOREM DifferencesAreRight == FSpec => []DifferenceIsRight
<1>1. FInit => FeatureInv
  BY FInitInv
<1>2. FeatureInv /\ [FNext]_fvars => FeatureInv'
  BY FNextInv
<1>3. FeatureInv => DifferenceIsRight
  BY InvDifferenceIsRight
<1> QED
  BY <1>1, <1>2, <1>3, PTL DEF FSpec

-----------------------------------------------------------------------------
(* What the printed weights mean.                                            *)

\* The name that the weight of an index is printed with.
LEMMA PrintedIs ==
  ASSUME FeatureInv
  PROVE  /\ \A x \in 0 .. NumDense - 1 : Printed(x) = DenseNames[x + 1]
         /\ \A x : IsSparseIndex(x, m_id_to_name) =>
              /\ x \notin 0 .. NumDense - 1
              /\ Printed(x) = m_id_to_name[x - NumDense + 1]
         /\ \A x : IsIndex(x, m_id_to_name) => Printed(x) \in Names
<1>1. initDenseSize = NumDense /\ NumDense \in Nat
  BY NamesAre DEF FeatureInv
<1>2. ASSUME NEW x \in 0 .. NumDense - 1
      PROVE  Printed(x) = DenseNames[x + 1] /\ x + 1 \in 1 .. NumDense
  BY <1>1 DEF Printed
<1>3. ASSUME NEW x, IsSparseIndex(x, m_id_to_name)
      PROVE  /\ x \notin 0 .. NumDense - 1 /\ Printed(x) = m_id_to_name[x - NumDense + 1]
             /\ Printed(x) \in SparseNames
  <2>1. /\ x \in Int /\ x - NumDense \in Nat
        /\ x - NumDense + 1 \in DOMAIN m_id_to_name
        /\ m_id_to_name[x - NumDense + 1] \in SparseNames
    BY <1>3 DEF IsSparseIndex
  <2>2. ~(x < NumDense)
    BY <1>1, <2>1
  <2>3. Printed(x) = m_id_to_name[x - NumDense + 1]
    BY <1>1, <2>1, <2>2 DEF Printed
  <2> QED
    BY <1>1, <2>1, <2>2, <2>3
<1>4. ASSUME NEW x, IsIndex(x, m_id_to_name) PROVE Printed(x) \in Names
  <2>1. CASE x \in 0 .. NumDense - 1
    BY <1>2, <2>1, NamesAre
  <2>2. CASE IsSparseIndex(x, m_id_to_name)
    BY <1>3, <2>2 DEF Names
  <2> QED
    BY <1>4, <2>1, <2>2 DEF IsIndex
<1> QED
  BY <1>2, <1>3, <1>4

\* The weights are finitely many.
LEMMA WeightsFinite ==
  ASSUME FeatureInv
  PROVE  IsFiniteSet(NonZero)
<1>1. NumDense \in Nat /\ Len(m_id_to_name) \in Nat /\ DOMAIN m_id_to_name = 1 .. Len(m_id_to_name)
  BY NamesAre, DictionaryIs DEF FeatureInv
<1> DEFINE n == NumDense + Len(m_id_to_name)
<1>2. n \in Nat
  BY <1>1
<1>3. ASSUME NEW x, IsIndex(x, m_id_to_name) PROVE x \in Nat /\ x <= n
  <2>1. CASE x \in 0 .. NumDense - 1
    BY <1>1, <2>1
  <2>2. CASE IsSparseIndex(x, m_id_to_name)
    BY <1>1, <2>2 DEF IsSparseIndex
  <2> QED
    BY <1>3, <2>1, <2>2 DEF IsIndex
<1>4. NonZero \in SUBSET Nat /\ \A x \in NonZero : x <= n
  BY <1>3 DEF NonZero, FeatureInv
<1> HIDE DEF n
<1> QED
  BY <1>2, <1>4, FS_BoundedSetOfNaturals

\* The invariant says of every hypothesis that its two scores have the same terms.
LEMMA InvScores ==
  ASSUME FeatureInv, NEW r \in read
  PROVE  ScoreOf(Vector(r)) =
           SumFunction([x \in NonZero |-> m_weights[x] * At(r.named, Printed(x))])
<1> DEFINE v == Vector(r)
           w == m_weights
           dict == m_id_to_name
           es == Entries(v)
           n == NumDense + Len(v.sparse)
           f == [k \in DOMAIN es |-> At(w, es[k][1]) * es[k][2]]
           g == [x \in NonZero |-> w[x] * At(r.named, Printed(x))]
           b == [k \in DOMAIN es |-> es[k][1]]
<1>1. ScoreOf(v) = SumFunctionOnSet(f, DOMAIN es) /\ SumFunction(g) = SumFunctionOnSet(g, NonZero)
  <2>1. DOMAIN f = DOMAIN es /\ DOMAIN g = NonZero
    OBVIOUS
  <2>2. ScoreOf(v) = SumFunction(f)
    BY DEF ScoreOf
  <2> HIDE DEF f, g, es
  <2> QED
    BY <2>1, <2>2 DEF SumFunction
<1>2. IsVector(v, r, dict)
  BY VectorsAre
<1>3. /\ v.dense \in [1 .. NumDense -> Int] /\ SparseList(v.sparse)
      /\ \A k \in 1 .. NumDense : v.dense[k] = At(r.named, DenseNames[k])
      /\ \A l \in DOMAIN v.sparse :
           /\ IsSparseIndex(v.sparse[l][1], dict)
           /\ v.sparse[l][2] = At(r.named, dict[v.sparse[l][1] - NumDense + 1])
      /\ \A m \in SparseNames : At(r.named, m) # 0 =>
           \E l \in DOMAIN v.sparse : dict[v.sparse[l][1] - NumDense + 1] = m
  BY <1>2 DEF IsVector
<1> HIDE DEF v
<1>4. /\ n \in Nat /\ DOMAIN es = 1 .. n
      /\ \A k \in 1 .. NumDense : k \in 1 .. n /\ es[k] = <<k - 1, v.dense[k]>>
      /\ \A l \in DOMAIN v.sparse : NumDense + l \in 1 .. n /\ es[NumDense + l] = v.sparse[l]
      /\ \A k \in 1 .. n : \/ k \in 1 .. NumDense
                            \/ /\ k - NumDense \in DOMAIN v.sparse
                               /\ es[k] = v.sparse[k - NumDense]
      /\ \A k \in 1 .. n : es[k] \in Int \X Int
  BY <1>3, EntriesAre
<1> HIDE DEF es, n
<1>5. NumDense \in Nat /\ IsDictionary(dict)
  BY NamesAre DEF FeatureInv
\* The value of a feature is the one of the name its weight is printed with.
<1>6. ASSUME NEW k \in 1 .. n
      PROVE  es[k][1] \in Int /\ es[k][2] \in Int /\ es[k][2] = At(r.named, Printed(es[k][1]))
  <2>1. es[k][1] \in Int /\ es[k][2] \in Int
    BY <1>4
  <2>2. CASE k \in 1 .. NumDense
    <3>1. es[k][1] = k - 1 /\ es[k][2] = v.dense[k]
      BY <1>4, <2>2
    <3>2. k - 1 \in 0 .. NumDense - 1 /\ (k - 1) + 1 = k
      BY <1>5, <2>2
    <3>3. Printed(k - 1) = DenseNames[k]
      BY <3>2, PrintedIs
    <3> QED
      BY <1>3, <2>1, <2>2, <3>1, <3>3
  <2>3. CASE k - NumDense \in DOMAIN v.sparse /\ es[k] = v.sparse[k - NumDense]
    <3>1. /\ IsSparseIndex(es[k][1], dict)
          /\ es[k][2] = At(r.named, dict[es[k][1] - NumDense + 1])
      BY <1>3, <2>3
    <3>2. Printed(es[k][1]) = dict[es[k][1] - NumDense + 1]
      BY <3>1, PrintedIs
    <3> QED
      BY <2>1, <3>1, <3>2
  <2> QED
    BY <1>4, <2>2, <2>3
\* No index has two features.
<1>7. ASSUME NEW k \in 1 .. n, NEW l \in 1 .. n, es[k][1] = es[l][1] PROVE k = l
  <2>1. \A i \in 1 .. NumDense : es[i][1] = i - 1 /\ i - 1 \in 0 .. NumDense - 1
    BY <1>4, <1>5
  <2>2. \A i \in 1 .. n : i \notin 1 .. NumDense =>
           /\ i - NumDense \in DOMAIN v.sparse /\ es[i][1] = v.sparse[i - NumDense][1]
           /\ es[i][1] \notin 0 .. NumDense - 1
    BY <1>3, <1>4, PrintedIs
  <2>3. CASE k \in 1 .. NumDense
    <3>1. l \in 1 .. NumDense
      BY <1>7, <2>1, <2>2, <2>3
    <3>2. k - 1 = l - 1
      BY <1>7, <2>1, <2>3, <3>1
    <3> QED
      BY <2>3, <3>1, <3>2
  <2>4. CASE k \notin 1 .. NumDense
    <3>1. l \notin 1 .. NumDense
      BY <1>7, <2>1, <2>2, <2>4
    <3> DEFINE s == v.sparse
               i == k - NumDense
               j == l - NumDense
    <3>2. i \in DOMAIN s /\ j \in DOMAIN s /\ s[i][1] = s[j][1] /\ i \in Int /\ j \in Int
      BY <1>5, <1>7, <2>2, <2>4, <3>1
    <3>3. Listed(s, s[i][1]) = s[i][2]
      BY <1>3, <3>2, ListedIs
    <3> HIDE DEF s, i, j
    <3>4. i = j
      <4>1. (i < j => s[i][1] < s[j][1]) /\ (j < i => s[j][1] < s[i][1])
        BY <1>3, <3>2 DEF SparseList, s
      <4>2. s[i][1] \in Int
        BY <1>3, <3>2, EntriesOf DEF s
      <4>3. ~(s[i][1] < s[i][1])
        BY <4>2
      <4> QED
        BY <3>2, <4>1, <4>3
    <3> QED
      BY <1>5, <3>4 DEF i, j
  <2> QED
    BY <2>3, <2>4
<1>8. ASSUME NEW x \in NonZero
      PROVE  /\ x \in DOMAIN w /\ w[x] # 0 /\ w[x] \in Int /\ At(w, x) = w[x]
             /\ IsIndex(x, dict) /\ At(r.named, Printed(x)) \in Int
  <2>1. x \in DOMAIN w /\ w[x] # 0 /\ w[x] \in Int /\ IsIndex(x, dict)
    BY DEF NonZero, FeatureInv
  <2>2. Printed(x) \in Names
    BY <2>1, PrintedIs
  <2>3. IsRead(r, dict)
    BY DEF FeatureInv
  <2>4. At(r.named, Printed(x)) \in Int
    BY <1>5, <2>2, <2>3, ReadIs
  <2> QED
    BY <2>1, <2>4 DEF At
\* A weight that counts belongs to a feature of the vector.
<1>9. ASSUME NEW x \in NonZero, At(r.named, Printed(x)) # 0
      PROVE  \E k \in 1 .. n : es[k][1] = x
  <2>1. CASE x \in 0 .. NumDense - 1
    <3>1. x + 1 \in 1 .. NumDense /\ (x + 1) - 1 = x
      BY <1>5, <2>1
    <3> QED
      BY <1>4, <3>1
  <2>2. CASE IsSparseIndex(x, dict)
    <3>1. /\ x \in Int /\ x - NumDense + 1 \in DOMAIN dict
          /\ dict[x - NumDense + 1] \in SparseNames /\ Printed(x) = dict[x - NumDense + 1]
      BY <2>2, PrintedIs DEF IsSparseIndex
    <3>2. PICK l \in DOMAIN v.sparse : dict[v.sparse[l][1] - NumDense + 1] = Printed(x)
      BY <1>3, <1>9, <3>1
    <3> DEFINE z == v.sparse[l][1]
    <3>3. z \in Int /\ z - NumDense + 1 \in DOMAIN dict
      BY <1>3 DEF IsSparseIndex
    <3>4. z - NumDense + 1 = x - NumDense + 1
      BY <1>5, <3>1, <3>2, <3>3, DictionaryIs
    <3>5. z = x
      BY <1>5, <3>1, <3>3, <3>4
    <3> QED
      BY <1>4, <3>5
  <2> QED
    BY <1>8, <2>1, <2>2 DEF IsIndex
<1>10. /\ IsFiniteSet(DOMAIN es) /\ IsFiniteSet(NonZero)
       /\ \A k \in DOMAIN es : f[k] \in Int
       /\ \A x \in NonZero : g[x] \in Int
  <2>1. IsFiniteSet(DOMAIN es)
    BY <1>4, FS_Interval
  <2>2. \A k \in DOMAIN es : f[k] \in Int
    BY <1>4, <1>6, WeightIs
  <2>3. \A x \in NonZero : g[x] \in Int
    BY <1>8
  <2> QED
    BY <2>1, <2>2, <2>3, WeightsFinite
<1>11. Pairs(b, f, DOMAIN es, g, NonZero)
  <2>1. ASSUME NEW k \in 1 .. n
        PROVE  /\ b[k] = es[k][1] /\ f[k] = At(w, es[k][1]) * At(r.named, Printed(es[k][1]))
               /\ At(r.named, Printed(es[k][1])) \in Int
    BY <1>4, <1>6
  <2>2. ASSUME NEW k \in 1 .. n, f[k] # 0 PROVE b[k] \in NonZero /\ g[b[k]] = f[k]
    <3> DEFINE x == es[k][1]
    <3>1. At(w, x) # 0
      <4> DEFINE i == At(r.named, Printed(x))
                 a == At(w, x)
      <4>1. f[k] = a * i /\ i \in Int /\ f[k] # 0
        BY <2>1, <2>2
      <4> HIDE DEF f, a, i
      <4>2. 0 * i = 0
        BY <4>1
      <4> QED
        BY <4>1, <4>2 DEF a
    <3>2. x \in NonZero
      BY <3>1 DEF At, NonZero
    <3> HIDE DEF f
    <3> QED
      BY <1>8, <2>1, <3>2
  <2>3. ASSUME NEW x \in NonZero, g[x] # 0 PROVE \E k \in 1 .. n : f[k] # 0 /\ b[k] = x
    <3>1. g[x] = w[x] * At(r.named, Printed(x))
      OBVIOUS
    <3>2. At(r.named, Printed(x)) # 0
      <4>1. At(r.named, Printed(x)) = 0 => g[x] = 0
        BY <1>8, <3>1
      <4> QED
        BY <2>3, <4>1
    <3>3. PICK k \in 1 .. n : es[k][1] = x
      BY <1>9, <3>2
    <3>4. f[k] = g[x] /\ b[k] = x
      BY <1>8, <2>1, <3>1, <3>3
    <3> HIDE DEF f, g, b
    <3> QED
      BY <2>3, <3>4
  <2> HIDE DEF f, g, b
  <2>4. ASSUME NEW k \in 1 .. n, NEW l \in 1 .. n, b[k] = b[l] PROVE k = l
    <3>1. es[k][1] = es[l][1]
      BY <2>1, <2>4
    <3> QED
      BY <1>7, <3>1
  <2>5. DOMAIN es = 1 .. n
    BY <1>4
  <2> QED
    BY <2>2, <2>3, <2>4, <2>5 DEF Pairs
<1> HIDE DEF f, g, b
<1>12. SumFunctionOnSet(f, DOMAIN es) = SumFunctionOnSet(g, NonZero)
  <2> DEFINE S == DOMAIN es
  <2>1. S = DOMAIN es
    OBVIOUS
  <2> HIDE DEF S
  <2> QED
    BY <1>10, <1>11, <2>1, SumsMatch
<1> QED
  BY <1>1, <1>12 DEF f, g, v

\* The printed weights have names, and mean what was trained.
LEMMA InvPrintedWeightsScore == FeatureInv => PrintedWeightsScore
<1> SUFFICES ASSUME FeatureInv PROVE PrintedWeightsScore
  OBVIOUS
<1>1. ASSUME NEW x \in NonZero PROVE Printed(x) # Undefined
  <2>1. Printed(x) \in Names
    BY PrintedIs DEF NonZero, FeatureInv
  <2> QED
    BY <2>1, NamesAre
<1> QED
  BY <1>1, InvScores DEF PrintedWeightsScore

\* The weights kbmira prints (kbmira.cpp:309-316) mean what was trained: applied by
\* name to the values a hypothesis has in its file they give the score of training,
\* for n-best lists with and without names of the dense features and for graphs,
\* in whatever order names were met and ids given.
THEOREM PrintedWeightsAreTrained == FSpec => []PrintedWeightsScore
<1>1. FInit => FeatureInv
  BY FInitInv
<1>2. FeatureInv /\ [FNext]_fvars => FeatureInv'
  BY FNextInv
<1>3. FeatureInv => PrintedWeightsScore
  BY InvPrintedWeightsScore
<1> QED
  BY <1>1, <1>2, <1>3, PTL DEF FSpec
=============================================================================
