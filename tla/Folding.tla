------------------------------ MODULE Folding ------------------------------
(***************************************************************************)
(* What folds give: sums over finite sets, maxima and ranks in finite sets *)
(* of numbers, sequences put together, and, for any operator, the steps of *)
(* a fold over a sequence and what each step keeps.  An instance of this   *)
(* module gives the last two for an operator of the models; p stands for   *)
(* what its LAMBDA takes from around it.  Sums and ranks are the same      *)
(* whatever the operator is.                                               *)
(***************************************************************************)
EXTENDS Integers, SequencesExt, FiniteSetTheorems, FunctionTheorems,
        SequenceTheorems, WellFoundedInduction, TLAPS

CONSTANTS
  Op(_, _, _),   (* what is made of a value and the next element           *)
  Good(_)        (* what is to be kept                                     *)

-----------------------------------------------------------------------------
(* Sums over a finite set.                                                   *)

\* A set of numbers has a least one.
LEMMA LeastNat ==
  ASSUME NEW T, T \subseteq Nat, T # {}
  PROVE  \E x \in T : \A y \in T : x <= y
<1>1. PICK x \in T : \A y \in T : ~(<<y, x>> \in OpToRel(<, Nat))
  BY NatLessThanWellFounded, WFMin
<1>2. ASSUME NEW y \in T PROVE x <= y
  <2>1. x \in Nat /\ y \in Nat
    OBVIOUS
  <2>2. ~(<<y, x>> \in {ss \in Nat \X Nat : ss[1] < ss[2]})
    BY <1>1 DEF OpToRel
  <2>3. ~(y < x)
    BY <2>1, <2>2
  <2> QED
    BY <2>1, <2>3
<1> QED
  BY <1>2

\* Among subsets of a finite set there is one that has none of the others in it.
LEMMA SmallestSet ==
  ASSUME NEW S, IsFiniteSet(S), NEW B, B \subseteq SUBSET S, B # {}
  PROVE  \E T \in B : \A U \in B : U \subseteq T => U = T
<1> DEFINE N == {Cardinality(T) : T \in B}
<1>1. \A T \in B : IsFiniteSet(T) /\ Cardinality(T) \in Nat
  BY FS_Subset, FS_CardinalityType
<1>2. N \subseteq Nat /\ N # {}
  BY <1>1
<1>3. PICK n \in N : \A m \in N : n <= m
  <2> HIDE DEF N
  <2> QED
    BY <1>2, LeastNat
<1>4. PICK T \in B : Cardinality(T) = n
  OBVIOUS
<1>5. ASSUME NEW U \in B, U \subseteq T PROVE U = T
  <2>1. IsFiniteSet(T) /\ U \in SUBSET T
    BY <1>1, <1>5
  <2>2. Cardinality(U) <= Cardinality(T) /\ (Cardinality(T) = Cardinality(U) => T = U)
    BY <2>1, FS_Subset
  <2>3. Cardinality(T) <= Cardinality(U)
    BY <1>3, <1>4
  <2>4. Cardinality(T) \in Nat /\ Cardinality(U) \in Nat
    BY <1>1
  <2> QED
    BY <2>2, <2>3, <2>4
<1> QED
  BY <1>5

Pick(s) == CHOOSE x \in s : TRUE

\* What the function of the library's fold over the subsets of S is equal to.
SumsFrom(f, S, iter) ==
  [s \in SUBSET S |-> IF s = {} THEN 0 ELSE f[Pick(s)] + iter[s \ {Pick(s)}]]

\* The sum is what that function gives for the whole set.
LEMMA SumIsChosen ==
  ASSUME NEW f, NEW S
  PROVE  SumFunctionOnSet(f, S) = (CHOOSE iter : iter = SumsFrom(f, S, iter))[S]
<1> QED
  BY DEF SumFunctionOnSet, FoldFunctionOnSet, MapThenFoldSet, SumsFrom, Pick

\* Two such functions give the same for the sets both know.
LEMMA SumsAgree ==
  ASSUME NEW f, NEW S, NEW T, IsFiniteSet(T), T \subseteq S,
         NEW i, i = SumsFrom(f, S, i), NEW j, j = SumsFrom(f, T, j)
  PROVE  i[T] = j[T]
<1> DEFINE B == {s \in SUBSET T : i[s] # j[s]}
<1>1. SUFFICES ASSUME B # {} PROVE FALSE
  OBVIOUS
<1>2. PICK s \in B : \A U \in B : U \subseteq s => U = s
  <2>1. B \subseteq SUBSET T
    OBVIOUS
  <2> HIDE DEF B
  <2> QED
    BY <1>1, <2>1, SmallestSet
<1>3. s \in SUBSET T /\ s \in SUBSET S
  OBVIOUS
<1>4. /\ i[s] = IF s = {} THEN 0 ELSE f[Pick(s)] + i[s \ {Pick(s)}]
      /\ j[s] = IF s = {} THEN 0 ELSE f[Pick(s)] + j[s \ {Pick(s)}]
  BY <1>3 DEF SumsFrom
<1>5. s # {} => Pick(s) \in s
  BY DEF Pick
<1>6. ASSUME s # {} PROVE i[s \ {Pick(s)}] = j[s \ {Pick(s)}]
  <2> DEFINE U == s \ {Pick(s)}
  <2>1. U \in SUBSET T /\ U \subseteq s /\ U # s
    BY <1>3, <1>5, <1>6
  <2> HIDE DEF U
  <2>2. U \notin B
    BY <1>2, <2>1
  <2> QED
    BY <2>1, <2>2 DEF U
<1> QED
  BY <1>4, <1>6

\* The sum of a finite set is one of its terms and the sum of the others.
LEMMA SumStep ==
  ASSUME NEW f, NEW S, IsFiniteSet(S)
  PROVE  /\ \E i : i = SumsFrom(f, S, i)
         /\ SumFunctionOnSet(f, S) =
              IF S = {} THEN 0
              ELSE f[Pick(S)] + SumFunctionOnSet(f, S \ {Pick(S)})
<1> DEFINE Sums(T) == \E i : i = SumsFrom(f, T, i)
           B == {T \in SUBSET S : ~Sums(T)}
<1>1. ASSUME NEW T \in SUBSET S, Sums(T), NEW i, i = SumsFrom(f, T, i)
      PROVE  SumFunctionOnSet(f, T) = i[T]
  <2> DEFINE j == CHOOSE j : j = SumsFrom(f, T, j)
  <2>1. j = SumsFrom(f, T, j) /\ SumFunctionOnSet(f, T) = j[T]
    BY <1>1, SumIsChosen
  <2> HIDE DEF j
  <2>2. IsFiniteSet(T)
    BY FS_Subset
  <2> QED
    BY <1>1, <2>1, <2>2, SumsAgree
<1>2. ASSUME NEW T \in SUBSET S, \A U \in SUBSET T : U # T => Sums(U)
      PROVE  LET i == [s \in SUBSET T |->
                         IF s = {} THEN 0
                         ELSE f[Pick(s)] + SumFunctionOnSet(f, s \ {Pick(s)})]
             IN i = SumsFrom(f, T, i)
  <2> DEFINE Sum(s) == IF s = {} THEN 0
                       ELSE f[Pick(s)] + SumFunctionOnSet(f, s \ {Pick(s)})
             i == [s \in SUBSET T |-> Sum(s)]
  <2>1. ASSUME NEW U \in SUBSET T, U # T PROVE SumFunctionOnSet(f, U) = Sum(U)
    <3>1. PICK g : g = SumsFrom(f, U, g)
      BY <1>2, <2>1
    <3>2. SumFunctionOnSet(f, U) = g[U]
      BY <1>1, <1>2, <2>1, <3>1
    <3>3. g[U] = IF U = {} THEN 0 ELSE f[Pick(U)] + g[U \ {Pick(U)}]
      BY <3>1 DEF SumsFrom
    <3>4. ASSUME U # {} PROVE g[U \ {Pick(U)}] = SumFunctionOnSet(f, U \ {Pick(U)})
      <4> DEFINE V == U \ {Pick(U)}
      <4>1. V \in SUBSET U /\ V \in SUBSET T /\ V # T /\ V \in SUBSET S
        BY <2>1
      <4> HIDE DEF V
      <4>2. PICK h : h = SumsFrom(f, V, h)
        BY <1>2, <4>1
      <4>3. SumFunctionOnSet(f, V) = h[V]
        BY <1>1, <4>1, <4>2
      <4>4. IsFiniteSet(V)
        BY <4>1, FS_Subset
      <4>5. g[V] = h[V]
        BY <3>1, <4>1, <4>2, <4>4, SumsAgree
      <4> QED
        BY <4>3, <4>5 DEF V
    <3> QED
      BY <3>2, <3>3, <3>4
  <2>2. ASSUME NEW s \in SUBSET T
        PROVE  Sum(s) = IF s = {} THEN 0 ELSE f[Pick(s)] + i[s \ {Pick(s)}]
    <3>1. CASE s = {}
      BY <3>1
    <3>2. CASE s # {}
      <4>1. Pick(s) \in s
        BY <3>2 DEF Pick
      <4>2. s \ {Pick(s)} \in SUBSET T /\ s \ {Pick(s)} # T
        BY <4>1
      <4>3. i[s \ {Pick(s)}] = SumFunctionOnSet(f, s \ {Pick(s)})
        BY <2>1, <4>2
      <4> QED
        BY <3>2, <4>3
    <3> QED
      BY <3>1, <3>2
  <2>3. i = SumsFrom(f, T, i)
    <3> DEFINE j == SumsFrom(f, T, i)
    <3>1. i = [s \in SUBSET T |-> Sum(s)]
      OBVIOUS
    <3> HIDE DEF i
    <3>2. /\ j = [s \in SUBSET T |-> j[s]]
          /\ \A s \in SUBSET T :
               j[s] = IF s = {} THEN 0 ELSE f[Pick(s)] + i[s \ {Pick(s)}]
      BY DEF SumsFrom
    <3>3. \A s \in SUBSET T : j[s] = Sum(s)
      BY <2>2, <3>2, Zenon
    <3> HIDE DEF j, Sum
    <3>4. i = j
      BY <3>1, <3>2, <3>3
    <3> QED
      BY <3>4 DEF j
  <2> QED
    BY <2>3
<1>3. B = {}
  <2>1. SUFFICES ASSUME B # {} PROVE FALSE
    OBVIOUS
  <2>2. PICK T \in B : \A U \in B : U \subseteq T => U = T
    <3>1. B \subseteq SUBSET S
      OBVIOUS
    <3> HIDE DEF B
    <3> QED
      BY <2>1, <3>1, SmallestSet
  <2>3. \A U \in SUBSET T : U # T => Sums(U)
    BY <2>2
  <2>4. Sums(T)
    BY <1>2, <2>3
  <2> QED
    BY <2>4
<1>4. \A T \in SUBSET S : Sums(T)
  BY <1>3
<1> DEFINE i == [s \in SUBSET S |->
                   IF s = {} THEN 0
                   ELSE f[Pick(s)] + SumFunctionOnSet(f, s \ {Pick(s)})]
<1>5. i = SumsFrom(f, S, i)
  BY <1>2, <1>4
<1>6. i[S] = IF S = {} THEN 0 ELSE f[Pick(S)] + SumFunctionOnSet(f, S \ {Pick(S)})
  OBVIOUS
<1> HIDE DEF i
<1>7. SumFunctionOnSet(f, S) = i[S]
  BY <1>1, <1>4, <1>5
<1> QED
  BY <1>4, <1>6, <1>7

\* Sums of integers are integers, and that of no terms is 0.
LEMMA SumType ==
  ASSUME NEW S, IsFiniteSet(S), NEW f, \A x \in S : f[x] \in Int
  PROVE  SumFunctionOnSet(f, S) \in Int
<1> DEFINE B == {T \in SUBSET S : SumFunctionOnSet(f, T) \notin Int}
<1>1. SUFFICES ASSUME B # {} PROVE FALSE
  OBVIOUS
<1>2. PICK T \in B : \A U \in B : U \subseteq T => U = T
  <2>1. B \subseteq SUBSET S
    OBVIOUS
  <2> HIDE DEF B
  <2> QED
    BY <1>1, <2>1, SmallestSet
<1>3. SumFunctionOnSet(f, T) =
        IF T = {} THEN 0 ELSE f[Pick(T)] + SumFunctionOnSet(f, T \ {Pick(T)})
  <2>1. IsFiniteSet(T)
    BY FS_Subset
  <2> QED
    BY <2>1, SumStep
<1>4. T # {}
  BY <1>3
<1> DEFINE U == T \ {Pick(T)}
<1>5. Pick(T) \in T
  BY <1>4 DEF Pick
<1>6. SumFunctionOnSet(f, U) \in Int
  BY <1>2, <1>5
<1>7. SumFunctionOnSet(f, T) = f[Pick(T)] + SumFunctionOnSet(f, U) /\ f[Pick(T)] \in Int
  BY <1>3, <1>4, <1>5
<1> HIDE DEF U
<1>8. SumFunctionOnSet(f, T) \in Int
  BY <1>6, <1>7
<1> QED
  BY <1>8

\* The step may be made with any of the terms.
LEMMA SumWithout ==
  ASSUME NEW S, IsFiniteSet(S), NEW f, \A x \in S : f[x] \in Int
  PROVE  \A x \in S : SumFunctionOnSet(f, S) = f[x] + SumFunctionOnSet(f, S \ {x})
<1> DEFINE Sum(T) == SumFunctionOnSet(f, T)
           Right(T) == \A x \in T : Sum(T) = f[x] + Sum(T \ {x})
           B == {T \in SUBSET S : ~Right(T)}
<1>1. SUFFICES ASSUME B # {} PROVE FALSE
  OBVIOUS
<1>2. PICK T \in B : \A U \in B : U \subseteq T => U = T
  <2>1. B \subseteq SUBSET S
    OBVIOUS
  <2> HIDE DEF B
  <2> QED
    BY <1>1, <2>1, SmallestSet
<1>3. PICK x \in T : Sum(T) # f[x] + Sum(T \ {x})
  OBVIOUS
<1> DEFINE y == Pick(T)
<1>4. IsFiniteSet(T) /\ y \in T
  BY FS_Subset DEF Pick
<1>5. Sum(T) = f[y] + Sum(T \ {y})
  BY <1>4, SumStep
<1> HIDE DEF y
<1>6. x # y
  BY <1>3, <1>5
<1>7. Right(T \ {x}) /\ Right(T \ {y})
  BY <1>2, <1>4
<1>8. /\ Sum(T \ {y}) = f[x] + Sum((T \ {y}) \ {x})
      /\ Sum(T \ {x}) = f[y] + Sum((T \ {x}) \ {y})
  BY <1>4, <1>6, <1>7
<1>9. (T \ {y}) \ {x} = (T \ {x}) \ {y}
  OBVIOUS
<1> DEFINE rest == Sum((T \ {x}) \ {y})
<1>10. rest \in Int
  <2> DEFINE R == (T \ {x}) \ {y}
  <2>1. R \in SUBSET S /\ IsFiniteSet(R)
    BY FS_Subset
  <2> HIDE DEF R
  <2>2. SumFunctionOnSet(f, R) \in Int
    BY <2>1, SumType
  <2> QED
    BY <2>2 DEF R
<1>11. Sum(T) = f[y] + (f[x] + rest) /\ Sum(T \ {x}) = f[y] + rest
  BY <1>5, <1>8, <1>9
<1>12. f[x] \in Int /\ f[y] \in Int
  BY <1>4
<1> HIDE DEF rest, Sum
<1> QED
  BY <1>3, <1>10, <1>11, <1>12

\* Terms that are 0 add nothing.
LEMMA SumOfZeros ==
  ASSUME NEW S, IsFiniteSet(S), NEW f, \A x \in S : f[x] = 0
  PROVE  SumFunctionOnSet(f, S) = 0
<1> DEFINE B == {T \in SUBSET S : SumFunctionOnSet(f, T) # 0}
<1>1. SUFFICES ASSUME B # {} PROVE FALSE
  OBVIOUS
<1>2. PICK T \in B : \A U \in B : U \subseteq T => U = T
  <2>1. B \subseteq SUBSET S
    OBVIOUS
  <2> HIDE DEF B
  <2> QED
    BY <1>1, <2>1, SmallestSet
<1>3. SumFunctionOnSet(f, T) =
        IF T = {} THEN 0 ELSE f[Pick(T)] + SumFunctionOnSet(f, T \ {Pick(T)})
  <2>1. IsFiniteSet(T)
    BY FS_Subset
  <2> QED
    BY <2>1, SumStep
<1>4. T # {} /\ Pick(T) \in T
  BY <1>3 DEF Pick
<1> DEFINE U == T \ {Pick(T)}
<1>5. SumFunctionOnSet(f, U) = 0
  BY <1>2, <1>4
<1>6. SumFunctionOnSet(f, T) = f[Pick(T)] + SumFunctionOnSet(f, U) /\ f[Pick(T)] = 0
  BY <1>3, <1>4
<1> HIDE DEF U
<1>7. SumFunctionOnSet(f, T) = 0
  BY <1>5, <1>6
<1> QED
  BY <1>7

\* b pairs the terms of f over S that are not 0 with those of g over T.
Pairs(b, f, S, g, T) ==
  /\ \A s \in S : f[s] # 0 => b[s] \in T /\ g[b[s]] = f[s]
  /\ \A s, r \in S : f[s] # 0 /\ f[r] # 0 /\ b[s] = b[r] => s = r
  /\ \A t \in T : g[t] # 0 => \E s \in S : f[s] # 0 /\ b[s] = t

\* Sums whose terms are those of each other, but for 0, are equal.
LEMMA SumsMatch ==
  ASSUME NEW S, IsFiniteSet(S), NEW T, IsFiniteSet(T), NEW f, NEW g, NEW b,
         \A s \in S : f[s] \in Int, \A t \in T : g[t] \in Int,
         Pairs(b, f, S, g, T)
  PROVE  SumFunctionOnSet(f, S) = SumFunctionOnSet(g, T)
<1> DEFINE Differ(U, V) == /\ Pairs(b, f, U, g, V)
                           /\ SumFunctionOnSet(f, U) # SumFunctionOnSet(g, V)
           B == {U \in SUBSET S : \E V \in SUBSET T : Differ(U, V)}
<1>1. SUFFICES ASSUME B # {} PROVE FALSE
  OBVIOUS
<1>2. PICK U \in B : \A W \in B : W \subseteq U => W = U
  <2>1. B \subseteq SUBSET S
    OBVIOUS
  <2> HIDE DEF B
  <2> QED
    BY <1>1, <2>1, SmallestSet
<1>3. PICK V \in SUBSET T : Differ(U, V)
  OBVIOUS
<1>4. U \subseteq S /\ V \subseteq T /\ IsFiniteSet(U) /\ IsFiniteSet(V)
  BY FS_Subset
<1>5. /\ Pairs(b, f, U, g, V)
      /\ SumFunctionOnSet(f, U) # SumFunctionOnSet(g, V)
  BY <1>3
<1>6. ASSUME NEW W \in SUBSET U, W # U, NEW X \in SUBSET V, Pairs(b, f, W, g, X)
      PROVE  SumFunctionOnSet(f, W) = SumFunctionOnSet(g, X)
  <2>1. W \in SUBSET S /\ X \in SUBSET T
    BY <1>4
  <2> QED
    BY <1>2, <1>6, <2>1
<1> HIDE DEF B
<1>7. CASE U = {}
  <2>1. SumFunctionOnSet(f, U) = 0
    BY <1>4, <1>7, SumOfZeros
  <2>2. \A t \in V : g[t] = 0
    BY <1>5, <1>7 DEF Pairs
  <2>3. SumFunctionOnSet(g, V) = 0
    BY <1>4, <2>2, SumOfZeros
  <2> QED
    BY <1>5, <2>1, <2>3
<1>8. ASSUME NEW x \in U PROVE FALSE
  <2> DEFINE W == U \ {x}
  <2>1. W \in SUBSET U /\ W # U /\ W \in SUBSET S /\ IsFiniteSet(W)
    BY <1>4, FS_Subset
  <2>2. SumFunctionOnSet(f, U) = f[x] + SumFunctionOnSet(f, W) /\ f[x] \in Int
    BY <1>4, SumWithout
  <2>3. CASE f[x] = 0
    <3>1. Pairs(b, f, W, g, V)
      BY <1>5, <2>3 DEF Pairs
    <3> HIDE DEF W
    <3>2. SumFunctionOnSet(f, W) = SumFunctionOnSet(g, V)
      BY <1>6, <2>1, <3>1
    <3>3. SumFunctionOnSet(g, V) \in Int
      BY <1>4, SumType
    <3> QED
      BY <1>5, <2>2, <2>3, <3>2, <3>3
  <2>4. CASE f[x] # 0
    <3> DEFINE y == b[x]
               X == V \ {y}
    <3>1. y \in V /\ g[y] = f[x]
      BY <1>5, <2>4 DEF Pairs
    <3>2. Pairs(b, f, W, g, X)
      BY <1>5, <2>4 DEF Pairs
    <3>3. X \in SUBSET V /\ IsFiniteSet(X) /\ \A t \in X : g[t] \in Int
      BY <1>4, FS_Subset
    <3>4. SumFunctionOnSet(g, V) = g[y] + SumFunctionOnSet(g, X)
      BY <1>4, <3>1, SumWithout
    <3> HIDE DEF W, X, y
    <3>5. SumFunctionOnSet(f, W) = SumFunctionOnSet(g, X)
      BY <1>6, <2>1, <3>2, <3>3
    <3>6. SumFunctionOnSet(g, X) \in Int
      BY <3>3, SumType
    <3> QED
      BY <1>5, <2>2, <3>1, <3>4, <3>5, <3>6
  <2> QED
    BY <2>3, <2>4
<1> QED
  BY <1>7, <1>8

\* The sum of a function is that over its domain.
LEMMA SumOfFunction ==
  ASSUME NEW f
  PROVE  SumFunction(f) = SumFunctionOnSet(f, DOMAIN f)
<1> QED
  BY DEF SumFunction, SumFunctionOnSet, FoldFunction

\* A sum is multiplied term by term.
LEMMA SumScaled ==
  ASSUME NEW S, IsFiniteSet(S), NEW f, NEW g, NEW w \in Int,
         \A x \in S : f[x] \in Int /\ g[x] = w * f[x]
  PROVE  SumFunctionOnSet(g, S) = w * SumFunctionOnSet(f, S)
<1> DEFINE B == {T \in SUBSET S : SumFunctionOnSet(g, T) # w * SumFunctionOnSet(f, T)}
<1>1. SUFFICES ASSUME B # {} PROVE FALSE
  OBVIOUS
<1>2. PICK T \in B : \A U \in B : U \subseteq T => U = T
  <2>1. B \subseteq SUBSET S
    OBVIOUS
  <2> HIDE DEF B
  <2> QED
    BY <1>1, <2>1, SmallestSet
<1>3. IsFiniteSet(T) /\ T \subseteq S
  BY FS_Subset
<1>4. CASE T = {}
  <2>1. SumFunctionOnSet(g, T) = 0 /\ SumFunctionOnSet(f, T) = 0
    BY <1>3, <1>4, SumOfZeros
  <2> QED
    BY <2>1
<1>5. ASSUME NEW x \in T PROVE FALSE
  <2> DEFINE U == T \ {x}
  <2>1. /\ SumFunctionOnSet(f, T) = f[x] + SumFunctionOnSet(f, U)
        /\ SumFunctionOnSet(g, T) = g[x] + SumFunctionOnSet(g, U)
    BY <1>3, SumWithout
  <2>2. U \in SUBSET S /\ U \subseteq T /\ U # T /\ IsFiniteSet(U)
    BY <1>3, FS_Subset
  <2> HIDE DEF U
  <2>3. SumFunctionOnSet(g, U) = w * SumFunctionOnSet(f, U)
    BY <1>2, <2>2
  <2>4. SumFunctionOnSet(f, U) \in Int
    BY <1>3, <2>2, SumType
  <2>5. f[x] \in Int /\ g[x] = w * f[x]
    BY <1>3
  <2> DEFINE a == f[x]
             s == SumFunctionOnSet(f, U)
  <2>6. w * (a + s) = w * a + w * s
    <3> HIDE DEF a, s
    <3> QED
      BY <2>4, <2>5 DEF a, s
  <2>7. SumFunctionOnSet(g, T) = w * SumFunctionOnSet(f, T)
    BY <2>1, <2>3, <2>5, <2>6
  <2> QED
    BY <2>7
<1> QED
  BY <1>4, <1>5

\* Sums are compared term by term.
LEMMA SumsCompare ==
  ASSUME NEW S, IsFiniteSet(S), NEW f, NEW g,
         \A x \in S : f[x] \in Int /\ g[x] \in Int /\ f[x] <= g[x]
  PROVE  SumFunctionOnSet(f, S) <= SumFunctionOnSet(g, S)
<1> DEFINE B == {T \in SUBSET S : ~(SumFunctionOnSet(f, T) <= SumFunctionOnSet(g, T))}
<1>1. SUFFICES ASSUME B # {} PROVE FALSE
  OBVIOUS
<1>2. PICK T \in B : \A U \in B : U \subseteq T => U = T
  <2>1. B \subseteq SUBSET S
    OBVIOUS
  <2> HIDE DEF B
  <2> QED
    BY <1>1, <2>1, SmallestSet
<1>3. IsFiniteSet(T) /\ T \subseteq S
  BY FS_Subset
<1>4. CASE T = {}
  <2>1. SumFunctionOnSet(g, T) = 0 /\ SumFunctionOnSet(f, T) = 0
    BY <1>3, <1>4, SumOfZeros
  <2> QED
    BY <2>1
<1>5. ASSUME NEW x \in T PROVE FALSE
  <2> DEFINE U == T \ {x}
  <2>1. /\ SumFunctionOnSet(f, T) = f[x] + SumFunctionOnSet(f, U)
        /\ SumFunctionOnSet(g, T) = g[x] + SumFunctionOnSet(g, U)
    BY <1>3, SumWithout
  <2>2. U \in SUBSET S /\ U \subseteq T /\ U # T /\ IsFiniteSet(U)
    BY <1>3, FS_Subset
  <2> HIDE DEF U
  <2>3. SumFunctionOnSet(f, U) <= SumFunctionOnSet(g, U)
    BY <1>2, <2>2
  <2>4. SumFunctionOnSet(f, U) \in Int /\ SumFunctionOnSet(g, U) \in Int
    BY <1>3, <2>2, SumType
  <2>5. f[x] \in Int /\ g[x] \in Int /\ f[x] <= g[x]
    BY <1>3
  <2> QED
    BY <2>1, <2>3, <2>4, <2>5
<1> QED
  BY <1>4, <1>5

\* Sums of the same terms are equal.
LEMMA SumsEqual ==
  ASSUME NEW S, IsFiniteSet(S), NEW f, NEW g, \A x \in S : f[x] \in Int /\ g[x] = f[x]
  PROVE  SumFunctionOnSet(g, S) = SumFunctionOnSet(f, S)
<1>1. /\ \A x \in S : f[x] \in Int /\ g[x] \in Int /\ f[x] <= g[x]
      /\ \A x \in S : g[x] \in Int /\ f[x] \in Int /\ g[x] <= f[x]
  OBVIOUS
<1>2. /\ SumFunctionOnSet(f, S) <= SumFunctionOnSet(g, S)
      /\ SumFunctionOnSet(g, S) <= SumFunctionOnSet(f, S)
  BY <1>1, SumsCompare
<1>3. SumFunctionOnSet(f, S) \in Int /\ SumFunctionOnSet(g, S) \in Int
  BY <1>1, SumType
<1> QED
  BY <1>2, <1>3

\* A sum of terms that are not negative is 0 only if they all are.
LEMMA SumOfNaturals ==
  ASSUME NEW S, IsFiniteSet(S), NEW f, \A x \in S : f[x] \in Nat
  PROVE  /\ SumFunctionOnSet(f, S) \in Nat
         /\ \A x \in S : f[x] <= SumFunctionOnSet(f, S)
<1>1. ASSUME NEW T \in SUBSET S PROVE SumFunctionOnSet(f, T) \in Nat
  <2> DEFINE z == [x \in T |-> 0]
  <2>1. IsFiniteSet(T) /\ \A x \in T : f[x] \in Int /\ z[x] \in Int /\ z[x] <= f[x] /\ z[x] = 0
    BY FS_Subset
  <2> HIDE DEF z
  <2>2. SumFunctionOnSet(z, T) = 0
    BY <2>1, SumOfZeros
  <2>3. SumFunctionOnSet(z, T) <= SumFunctionOnSet(f, T) /\ SumFunctionOnSet(f, T) \in Int
    BY <2>1, SumsCompare, SumType
  <2> QED
    BY <2>2, <2>3
<1>2. ASSUME NEW x \in S PROVE f[x] <= SumFunctionOnSet(f, S)
  <2> DEFINE U == S \ {x}
  <2>1. SumFunctionOnSet(f, S) = f[x] + SumFunctionOnSet(f, U) /\ U \in SUBSET S
    BY SumWithout
  <2> HIDE DEF U
  <2>2. SumFunctionOnSet(f, U) \in Nat /\ f[x] \in Nat
    BY <1>1, <2>1
  <2> QED
    BY <2>1, <2>2
<1> QED
  BY <1>1, <1>2

-----------------------------------------------------------------------------
(* Maxima.                                                                   *)

\* Of finitely many numbers one is the maximum.
LEMMA MaxOfNumbers ==
  ASSUME NEW S, IsFiniteSet(S), S # {}, \A x \in S : x \in Int
  PROVE  Max(S) \in S /\ \A x \in S : x <= Max(S)
<1> DEFINE Most(T, x) == x \in T /\ \A y \in T : y <= x
           B == {T \in SUBSET S : T # {} /\ ~\E x : Most(T, x)}
<1>1. B = {}
  <2>1. SUFFICES ASSUME B # {} PROVE FALSE
    OBVIOUS
  <2>2. PICK T \in B : \A U \in B : U \subseteq T => U = T
    <3>1. B \subseteq SUBSET S
      OBVIOUS
    <3> HIDE DEF B
    <3> QED
      BY <2>1, <3>1, SmallestSet
  <2>3. T \subseteq S /\ T # {} /\ ~\E x : Most(T, x)
    OBVIOUS
  <2>4. PICK x \in T : TRUE
    BY <2>3
  <2> DEFINE U == T \ {x}
  <2>5. CASE U = {}
    <3>1. T = {x} /\ x \in Int
      BY <2>3, <2>4, <2>5
    <3>2. Most(T, x)
      BY <3>1
    <3> QED
      BY <2>3, <3>2
  <2>6. CASE U # {}
    <3>1. U \in SUBSET S /\ U \subseteq T /\ U # T
      BY <2>3, <2>4
    <3>2. U \notin B
      BY <2>2, <3>1
    <3>3. PICK y : Most(U, y)
      BY <2>6, <3>1, <3>2
    <3>4. x \in Int /\ y \in Int /\ y \in T /\ \A z \in T : z \in Int
      BY <2>3, <2>4, <3>1, <3>3
    <3>5. CASE x <= y
      <4>1. Most(T, y)
        BY <3>3, <3>4, <3>5
      <4> QED
        BY <2>3, <4>1
    <3>6. CASE ~(x <= y)
      <4>1. Most(T, x)
        BY <3>3, <3>4, <3>6
      <4> QED
        BY <2>3, <4>1
    <3> QED
      BY <3>5, <3>6
  <2> QED
    BY <2>5, <2>6
<1>2. PICK x : Most(S, x)
  BY <1>1
<1>3. \E m \in S : \A y \in S : m >= y
  BY <1>2
<1>4. Max(S) \in S /\ \A y \in S : Max(S) >= y
  BY <1>3 DEF Max
<1> QED
  BY <1>4

\* The values of a function on a finite set are finitely many.
LEMMA ValuesAreFinite ==
  ASSUME NEW D, IsFiniteSet(D), NEW f
  PROVE  IsFiniteSet({f[x] : x \in D})
<1> DEFINE S == {f[x] : x \in D}
           g == [x \in D |-> f[x]]
<1>1. g \in [D -> S] /\ \A s \in S : \E x \in D : g[x] = s
  OBVIOUS
<1> HIDE DEF S, g
<1>2. g \in Surjection(D, S)
  BY <1>1, Fun_IsSurj
<1>3. IsFiniteSet(S)
  BY <1>2, FS_Surjection
<1> QED
  BY <1>3 DEF S

\* A member that none of the others exceeds is the maximum.
LEMMA MaxIs ==
  ASSUME NEW S, \A y \in S : y \in Int, NEW x \in S, \A y \in S : y <= x
  PROVE  Max(S) = x
<1>1. \A y \in S : x >= y
  OBVIOUS
<1>2. Max(S) \in S /\ \A y \in S : Max(S) >= y
  BY <1>1 DEF Max
<1>3. Max(S) \in Int /\ x \in Int /\ Max(S) <= x /\ Max(S) >= x
  BY <1>2
<1> QED
  BY <1>3

-----------------------------------------------------------------------------
(* Ranks.                                                                    *)

Rank(ids, id) == Cardinality({i \in ids : i < id})

\* A greater id of a finite set has a greater rank in it.
LEMMA RanksAscend ==
  ASSUME NEW D, D \subseteq Nat, IsFiniteSet(D), NEW p \in D, NEW q \in D, p < q
  PROVE  Rank(D, p) < Rank(D, q)
<1> DEFINE P == {r \in D : r < p}
           Q == {r \in D : r < q}
<1>1. P \in SUBSET Q /\ p \in Q /\ p \notin P /\ Q \in SUBSET D
  <2>1. p < q /\ ~(p < p) /\ \A r \in D : r < p => r < q
    OBVIOUS
  <2> QED
    BY <2>1, Zenon
<1>2. Rank(D, p) = Cardinality(P) /\ Rank(D, q) = Cardinality(Q)
  BY DEF Rank
<1> HIDE DEF P, Q
<1>3. IsFiniteSet(Q) /\ IsFiniteSet(P)
  BY <1>1, FS_Subset
<1>4. Cardinality(P) <= Cardinality(Q) /\ Cardinality(P) # Cardinality(Q)
  BY <1>1, <1>3, FS_Subset
<1>5. Cardinality(P) \in Nat /\ Cardinality(Q) \in Nat
  BY <1>3, FS_CardinalityType
<1> QED
  BY <1>2, <1>4, <1>5

\* The ranks are the numbers below the size of the set, one for each id.
LEMMA RanksAreAll ==
  ASSUME NEW D, D \subseteq Nat, IsFiniteSet(D)
  PROVE  /\ Cardinality(D) \in Nat
         /\ \A p \in D : Rank(D, p) \in 0 .. Cardinality(D) - 1
         /\ \A p, q \in D : Rank(D, p) = Rank(D, q) => p = q
         /\ \A n \in 0 .. Cardinality(D) - 1 : \E p \in D : Rank(D, p) = n
<1> DEFINE n == Cardinality(D)
           R == [p \in D |-> Rank(D, p)]
<1>1. n \in Nat
  BY FS_CardinalityType
<1>2. ASSUME NEW p \in D PROVE Rank(D, p) \in 0 .. n - 1
  <2> DEFINE P == {r \in D : r < p}
  <2>1. P \in SUBSET D /\ p \notin P
    OBVIOUS
  <2>2. Rank(D, p) = Cardinality(P)
    BY DEF Rank
  <2> HIDE DEF P
  <2>3. Cardinality(P) <= n /\ Cardinality(P) # n /\ IsFiniteSet(P)
    BY <2>1, FS_Subset
  <2>4. Cardinality(P) \in Nat
    BY <2>3, FS_CardinalityType
  <2> QED
    BY <1>1, <2>2, <2>3, <2>4
<1>3. ASSUME NEW p \in D, NEW q \in D, Rank(D, p) = Rank(D, q) PROVE p = q
  <2>1. Rank(D, p) \in Nat /\ Rank(D, q) \in Nat
    BY <1>2
  <2>2. (p < q => Rank(D, p) < Rank(D, q)) /\ (q < p => Rank(D, q) < Rank(D, p))
    BY RanksAscend
  <2>3. p \in Nat /\ q \in Nat
    OBVIOUS
  <2> QED
    BY <1>3, <2>1, <2>2, <2>3
<1>4. IsFiniteSet(0 .. n - 1) /\ Cardinality(0 .. n - 1) = n
  <2>1. 0 \in Int /\ n - 1 \in Int
    BY <1>1
  <2> HIDE DEF n
  <2>2. /\ IsFiniteSet(0 .. n - 1)
        /\ Cardinality(0 .. n - 1) = IF 0 > n - 1 THEN 0 ELSE (n - 1) - 0 + 1
    BY <2>1, FS_Interval
  <2> QED
    BY <1>1, <2>2
<1>5. R \in [D -> 0 .. n - 1] /\ \A p, q \in D : R[p] = R[q] => p = q
  BY <1>2, <1>3
<1>6. \A m \in 0 .. n - 1 : \E p \in D : R[p] = m
  <2> DEFINE T == 0 .. n - 1
  <2> HIDE DEF T, R
  <2>1. R \in Injection(D, T)
    BY <1>5, Fun_IsInj DEF T
  <2>2. R \in Surjection(D, T)
    BY <1>4, <2>1, FS_Injection DEF T
  <2>3. \A m \in T : \E p \in D : R[p] = m
    BY <2>2, Fun_SurjectionProperties
  <2> QED
    BY <2>3 DEF T
<1> QED
  BY <1>1, <1>2, <1>3, <1>6

-----------------------------------------------------------------------------
(* Flattening.                                                               *)

\* Sequences one after the other, as FlattenSeq puts them together.
IsFlattening(s, n, g) ==
  /\ g[0] = <<>>
  /\ \A i \in 1 .. n : g[i] = g[i - 1] \o s[i]

\* They can be put together one by one.
LEMMA FlatteningExists ==
  ASSUME NEW S, NEW n \in Nat, NEW s, \A i \in 1 .. n : s[i] \in Seq(S)
  PROVE  \E g \in [0 .. n -> Seq(S)] : IsFlattening(s, n, g)
<1> DEFINE Upto(m) == \E g \in [0 .. m -> Seq(S)] : IsFlattening(s, m, g)
           B == {m \in 0 .. n : ~Upto(m)}
<1>1. SUFFICES ASSUME B # {} PROVE FALSE
  <2>1. n \in 0 .. n
    OBVIOUS
  <2> HIDE DEF Upto
  <2>2. Upto(n)
    BY <2>1
  <2> QED
    BY <2>2 DEF Upto
<1>2. PICK m \in B : \A l \in B : m <= l
  <2>1. B \subseteq Nat
    OBVIOUS
  <2> HIDE DEF B
  <2> QED
    BY <1>1, <2>1, LeastNat
<1>3. CASE m = 0
  <2> DEFINE g == [i \in 0 .. 0 |-> <<>>]
  <2>1. g \in [0 .. 0 -> Seq(S)] /\ g[0] = <<>>
    <3>1. <<>> \in Seq(S) /\ 0 \in 0 .. 0
      BY EmptySeq
    <3> QED
      BY <3>1
  <2> HIDE DEF g
  <2>2. IsFlattening(s, 0, g)
    BY <2>1 DEF IsFlattening
  <2> QED
    BY <1>3, <2>1, <2>2
<1>4. CASE m # 0
  <2>1. m - 1 \in 0 .. n /\ ~(m <= m - 1) /\ m \in 1 .. n /\ m \in Nat
    BY <1>4
  <2>2. Upto(m - 1)
    <3> HIDE DEF Upto
    <3> QED
      BY <1>2, <2>1
  <2>3. PICK g \in [0 .. m - 1 -> Seq(S)] : IsFlattening(s, m - 1, g)
    BY <2>2
  <2> DEFINE h == [i \in 0 .. m |-> IF i = m THEN g[m - 1] \o s[m] ELSE g[i]]
  <2>4. g[m - 1] \in Seq(S) /\ s[m] \in Seq(S)
    BY <2>1
  <2>5. g[m - 1] \o s[m] \in Seq(S)
    BY <2>4, ConcatProperties
  <2>6. h \in [0 .. m -> Seq(S)]
    <3>1. ASSUME NEW i \in 0 .. m, i # m PROVE i \in 0 .. m - 1
      BY <2>1, <3>1
    <3> QED
      BY <2>5, <3>1
  <2>7. h[m] = g[m - 1] \o s[m] /\ \A i \in 0 .. m - 1 : h[i] = g[i]
    <3>1. m \in 0 .. m /\ \A i \in 0 .. m - 1 : i \in 0 .. m /\ i # m
      BY <2>1
    <3> QED
      BY <3>1
  <2> HIDE DEF h
  <2>8. IsFlattening(s, m, h)
    <3>1. h[0] = <<>>
      BY <2>1, <2>3, <2>7 DEF IsFlattening
    <3>2. ASSUME NEW i \in 1 .. m PROVE h[i] = h[i - 1] \o s[i]
      <4>1. CASE i = m
        <5>1. m - 1 \in 0 .. m - 1
          BY <2>1
        <5> QED
          BY <2>7, <4>1, <5>1
      <4>2. CASE i # m
        <5>1. i \in 1 .. m - 1 /\ i \in 0 .. m - 1 /\ i - 1 \in 0 .. m - 1
          BY <2>1, <4>2
        <5> QED
          BY <2>3, <2>7, <5>1 DEF IsFlattening
      <4> QED
        BY <4>1, <4>2
    <3> QED
      BY <3>1, <3>2 DEF IsFlattening
  <2>9. Upto(m)
    BY <2>6, <2>8
  <2> QED
    BY <2>9
<1> QED
  BY <1>3, <1>4

\* FlattenSeq puts them together so.
LEMMA FlattenIs ==
  ASSUME NEW S, NEW n \in Nat, NEW s, DOMAIN s = 1 .. n, s \in Seq(Seq(S))
  PROVE  \E g \in [0 .. n -> Seq(S)] : IsFlattening(s, n, g) /\ FlattenSeq(s) = g[n]
<1>1. Len(s) = n /\ \A i \in 1 .. n : s[i] \in Seq(S)
  OBVIOUS
<1>2. PICK g \in [0 .. n -> Seq(S)] : IsFlattening(s, n, g)
  BY <1>1, FlatteningExists
<1>3. CASE n = 0
  <2>1. s = <<>> /\ FlattenSeq(s) = s
    BY <1>1, <1>3, EmptySeq DEF FlattenSeq
  <2> QED
    BY <1>2, <1>3, <2>1 DEF IsFlattening
<1>4. CASE n # 0
  <2> DEFINE By(f) == [i \in 1 .. n |-> IF i = 1 THEN s[i] ELSE f[i - 1] \o s[i]]
             f == CHOOSE f : f = By(f)
             e == [i \in 1 .. n |-> g[i]]
  <2>1. e = By(e)
    <3>1. ASSUME NEW i \in 1 .. n
          PROVE  g[i] = IF i = 1 THEN s[i] ELSE e[i - 1] \o s[i]
      <4>1. g[i] = g[i - 1] \o s[i]
        BY <1>2 DEF IsFlattening
      <4>2. CASE i = 1
        <5>1. g[i] = <<>> \o s[i]
          <6>1. i - 1 = 0 /\ g[0] = <<>>
            BY <1>2, <4>2 DEF IsFlattening
          <6> QED
            BY <4>1, <6>1
        <5>2. <<>> \o s[i] = s[i]
          BY <1>1, ConcatEmptySeq
        <5> QED
          BY <4>2, <5>1, <5>2
      <4>3. CASE i # 1
        <5>1. i - 1 \in 1 .. n
          BY <4>3
        <5> QED
          BY <4>1, <4>3, <5>1
      <4> QED
        BY <4>2, <4>3
    <3> QED
      BY <3>1
  <2> HIDE DEF e
  <2>2. f = By(f)
    BY <2>1
  <2>3. FlattenSeq(s) = f[n]
    BY <1>1, <1>4 DEF FlattenSeq
  <2> HIDE DEF f
  <2>4. /\ 1 \in 1 .. n /\ n \in 1 .. n /\ f[1] = s[1]
        /\ \A i \in 1 .. n : i # 1 => f[i] = f[i - 1] \o s[i]
    <3>1. 1 \in 1 .. n /\ n \in 1 .. n
      BY <1>4
    <3>2. \A i \in 1 .. n : f[i] = IF i = 1 THEN s[i] ELSE f[i - 1] \o s[i]
      BY <2>2
    <3> QED
      BY <3>1, <3>2
  <2>5. \A i \in 1 .. n : f[i] = g[i]
    <3> DEFINE B == {i \in 1 .. n : f[i] # g[i]}
    <3>1. SUFFICES ASSUME B # {} PROVE FALSE
      OBVIOUS
    <3>2. PICK i \in B : \A l \in B : i <= l
      <4>1. B \subseteq Nat
        OBVIOUS
      <4> HIDE DEF B
      <4> QED
        BY <3>1, <4>1, LeastNat
    <3>3. g[i] = g[i - 1] \o s[i] /\ s[i] \in Seq(S)
      BY <1>1, <1>2 DEF IsFlattening
    <3>4. CASE i = 1
      <4>0. i - 1 = 0 /\ g[0] = <<>>
        BY <1>2, <3>4 DEF IsFlattening
      <4>1. g[i] = <<>> \o s[i] /\ <<>> \o s[i] = s[i]
        BY <3>3, <4>0, ConcatEmptySeq
      <4> QED
        BY <2>4, <3>4, <4>1
    <3>5. CASE i # 1
      <4>1. i - 1 \in 1 .. n /\ ~(i <= i - 1)
        BY <3>5
      <4>2. f[i - 1] = g[i - 1]
        BY <3>2, <4>1
      <4> QED
        BY <2>4, <3>3, <3>5, <4>2
    <3> QED
      BY <3>4, <3>5
  <2> QED
    BY <1>2, <2>3, <2>4, <2>5
<1> QED
  BY <1>3, <1>4

-----------------------------------------------------------------------------
(* A fold over a sequence.                                                   *)

\* The values of a fold on sets of places, as MapThenFoldSet defines them.
FoldsFrom(seq, base, p, S, f) ==
  [s \in SUBSET S |-> IF s = {} THEN base ELSE Op(f[s \ {Max(s)}], seq[Max(s)], p)]

\* The value for all places of a sequence: with the definitions expanded,
\* FoldLeft(LAMBDA a, x : Op(a, x, p), base, seq).
Folded(seq, base, p) ==
  (CHOOSE f : f = FoldsFrom(seq, base, p, DOMAIN seq, f))[DOMAIN seq]

\* The last of some of the first places.
LEMMA LastPlace ==
  ASSUME NEW n \in Nat, NEW s \in SUBSET (1 .. n), s # {}
  PROVE  Max(s) \in s /\ \A i \in s : i <= Max(s)
<1>1. IsFiniteSet(1 .. n)
  BY FS_Interval
<1>2. IsFiniteSet(s)
  BY <1>1, FS_Subset
<1>3. \A x \in s : x \in Int
  OBVIOUS
<1> QED
  BY <1>2, <1>3, MaxOfNumbers

\* The values exist.
LEMMA FoldExists ==
  ASSUME NEW n \in Nat, NEW seq, NEW base, NEW p
  PROVE  \E f : f = FoldsFrom(seq, base, p, 1 .. n, f)
<1> DEFINE Upto(m) == \E f : f = FoldsFrom(seq, base, p, 1 .. m, f)
           B == {m \in 0 .. n : ~Upto(m)}
<1>1. SUFFICES ASSUME B # {} PROVE FALSE
  <2>1. n \in 0 .. n
    OBVIOUS
  <2> HIDE DEF Upto
  <2>2. Upto(n)
    BY <2>1
  <2> QED
    BY <2>2 DEF Upto
<1>2. PICK m \in B : \A l \in B : m <= l
  <2>1. B \subseteq Nat
    OBVIOUS
  <2> HIDE DEF B
  <2> QED
    BY <1>1, <2>1, LeastNat
<1>3. CASE m = 0
  <2> DEFINE f == [s \in SUBSET (1 .. 0) |-> base]
  <2>1. \A s \in SUBSET (1 .. 0) : s = {}
    OBVIOUS
  <2>2. f = FoldsFrom(seq, base, p, 1 .. 0, f)
    BY <2>1 DEF FoldsFrom
  <2> HIDE DEF f
  <2>3. Upto(0)
    BY <2>2
  <2> QED
    BY <1>3, <2>3
<1>4. CASE m # 0
  <2>1. m - 1 \in 0 .. n /\ ~(m <= m - 1) /\ m \in Nat /\ m - 1 \in Nat /\ m \in 1 .. m
    BY <1>4
  <2>2. Upto(m - 1)
    <3> HIDE DEF Upto
    <3> QED
      BY <1>2, <2>1
  <2>3. PICK f : f = FoldsFrom(seq, base, p, 1 .. m - 1, f)
    BY <2>2
  <2> DEFINE h == [s \in SUBSET (1 .. m) |->
                     IF m \in s THEN Op(f[s \ {m}], seq[m], p) ELSE f[s]]
  <2>4. \A s \in SUBSET (1 .. m) : /\ s \ {m} \in SUBSET (1 .. m - 1)
                                   /\ m \notin s => s \in SUBSET (1 .. m - 1)
    BY <2>1
  <2>5. ASSUME NEW s \in SUBSET (1 .. m)
        PROVE  (IF m \in s THEN Op(f[s \ {m}], seq[m], p) ELSE f[s])
                 = IF s = {} THEN base ELSE Op(h[s \ {Max(s)}], seq[Max(s)], p)
    <3>1. CASE m \in s
      <4>1. Max(s) \in s /\ m <= Max(s)
        BY <2>1, <3>1, LastPlace
      <4>2. Max(s) = m
        <5>1. Max(s) \in 1 .. m
          BY <4>1
        <5> QED
          BY <2>1, <4>1, <5>1
      <4>3. s \ {m} \in SUBSET (1 .. m) /\ m \notin s \ {m}
        OBVIOUS
      <4>4. h[s \ {m}] = f[s \ {m}]
        BY <4>3
      <4> HIDE DEF h
      <4> QED
        BY <3>1, <4>2, <4>4
    <3>2. CASE m \notin s /\ s # {}
      <4>1. Max(s) \in s
        BY <2>1, <3>2, LastPlace
      <4>2. s \in SUBSET (1 .. m - 1)
        BY <2>4, <3>2
      <4>3. f[s] = Op(f[s \ {Max(s)}], seq[Max(s)], p)
        BY <2>3, <3>2, <4>2 DEF FoldsFrom
      <4>4. s \ {Max(s)} \in SUBSET (1 .. m) /\ m \notin s \ {Max(s)}
        BY <3>2
      <4>5. h[s \ {Max(s)}] = f[s \ {Max(s)}]
        BY <4>4
      <4> HIDE DEF h
      <4> QED
        BY <3>2, <4>3, <4>5
    <3>3. CASE s = {}
      <4>1. s \in SUBSET (1 .. m - 1) /\ m \notin s
        BY <3>3
      <4>2. f[s] = base
        BY <2>3, <3>3, <4>1 DEF FoldsFrom
      <4> QED
        BY <3>3, <4>1, <4>2
    <3> QED
      BY <3>1, <3>2, <3>3
  <2>6. h = FoldsFrom(seq, base, p, 1 .. m, h)
    BY <2>5 DEF FoldsFrom
  <2> HIDE DEF h
  <2>7. Upto(m)
    BY <2>6
  <2> QED
    BY <2>7
<1> QED
  BY <1>3, <1>4

\* The elements are taken one by one, and value is what there is in the end.
IsFold(n, seq, base, p, value) ==
  \E g : /\ g[0] = base
         /\ \A i \in 1 .. n : g[i] = Op(g[i - 1], seq[i], p)
         /\ value = g[n]

\* A fold takes the elements one by one.
LEMMA FoldSteps ==
  ASSUME NEW n \in Nat, NEW seq, DOMAIN seq = 1 .. n, NEW base, NEW p
  PROVE  IsFold(n, seq, base, p, Folded(seq, base, p))
<1> DEFINE c == CHOOSE f : f = FoldsFrom(seq, base, p, 1 .. n, f)
           g == [i \in 0 .. n |-> c[1 .. i]]
<1>1. c = FoldsFrom(seq, base, p, 1 .. n, c)
  BY FoldExists
<1>2. Folded(seq, base, p) = c[1 .. n]
  BY DEF Folded
<1> HIDE DEF c
<1>3. g[0] = base /\ g[n] = c[1 .. n]
  <2>1. 1 .. 0 = {} /\ 0 \in 0 .. n /\ n \in 0 .. n
    OBVIOUS
  <2>2. c[{}] = base
    BY <1>1 DEF FoldsFrom
  <2> QED
    BY <2>1, <2>2
<1>4. ASSUME NEW i \in 1 .. n PROVE g[i] = Op(g[i - 1], seq[i], p)
  <2>1. /\ 1 .. i \in SUBSET (1 .. n) /\ 1 .. i # {} /\ i \in 1 .. i
        /\ i \in 0 .. n /\ i - 1 \in 0 .. n /\ (1 .. i) \ {i} = 1 .. i - 1
    <3>1. \A j \in 1 .. i : j \in 1 .. n /\ (j # i => j \in 1 .. i - 1)
      OBVIOUS
    <3>2. \A j \in 1 .. i - 1 : j \in 1 .. i /\ j # i
      OBVIOUS
    <3>3. (1 .. i) \ {i} = 1 .. i - 1
      BY <3>1, <3>2
    <3>4. i \in 1 .. i /\ i \in 0 .. n /\ i - 1 \in 0 .. n
      OBVIOUS
    <3> QED
      BY <3>1, <3>3, <3>4
  <2>2. Max(1 .. i) = i
    <3>1. Max(1 .. i) \in 1 .. i /\ i <= Max(1 .. i)
      BY <2>1, LastPlace
    <3> QED
      BY <3>1
  <2>3. c[1 .. i] = Op(c[1 .. i - 1], seq[i], p)
    BY <1>1, <2>1, <2>2 DEF FoldsFrom
  <2> QED
    BY <2>1, <2>3
<1> HIDE DEF g
<1>5. Folded(seq, base, p) = g[n]
  BY <1>2, <1>3
<1> QED
  BY <1>3, <1>4, <1>5 DEF IsFold

\* What every step keeps holds in the end.
LEMMA FoldKeeps ==
  ASSUME NEW n \in Nat, NEW seq, DOMAIN seq = 1 .. n, NEW base, NEW p,
         Good(base),
         \A a : \A i \in 1 .. n : Good(a) => Good(Op(a, seq[i], p))
  PROVE  Good(Folded(seq, base, p))
<1>1. PICK g : /\ g[0] = base
               /\ \A i \in 1 .. n : g[i] = Op(g[i - 1], seq[i], p)
               /\ Folded(seq, base, p) = g[n]
  <2>1. IsFold(n, seq, base, p, Folded(seq, base, p))
    BY FoldSteps
  <2> QED
    BY <2>1 DEF IsFold
<1> DEFINE B == {i \in 0 .. n : ~Good(g[i])}
<1>2. SUFFICES ASSUME B # {} PROVE FALSE
  <2>1. n \in 0 .. n
    OBVIOUS
  <2>2. Good(g[n])
    BY <2>1, Zenon
  <2> QED
    BY <1>1, <2>2, Zenon
<1>3. PICK i \in B : \A l \in B : i <= l
  <2>1. B \subseteq Nat
    <3>1. \A l \in 0 .. n : l \in Nat
      OBVIOUS
    <3> QED
      BY <3>1, Zenon
  <2> HIDE DEF B
  <2> QED
    BY <1>2, <2>1, LeastNat
<1>4. i \in 0 .. n /\ ~Good(g[i])
  BY Zenon
<1>5. i # 0
  BY <1>1, <1>4, Zenon
<1>6. i \in 1 .. n /\ i - 1 \in 0 .. n /\ ~(i <= i - 1)
  BY <1>4, <1>5
<1>7. Good(g[i - 1])
  BY <1>3, <1>6, Zenon
<1>8. Good(Op(g[i - 1], seq[i], p))
  BY <1>6, <1>7, Zenon
<1> QED
  BY <1>1, <1>4, <1>6, <1>8, Zenon

\* The sum of what is made of the elements of a set: with the definitions
\* expanded, MapThenSumSet(LAMBDA x : Op(0, x, p), S).
MappedFrom(S, p, iter) ==
  [s \in SUBSET S |-> IF s = {} THEN 0 ELSE Op(0, Pick(s), p) + iter[s \ {Pick(s)}]]

MappedSum(S, p) == (CHOOSE iter : iter = MappedFrom(S, p, iter))[S]

LEMMA MappedSumIs ==
  ASSUME NEW S, NEW p
  PROVE  MappedSum(S, p) = SumFunctionOnSet([x \in S |-> Op(0, x, p)], S)
<1> DEFINE h == [x \in S |-> Op(0, x, p)]
<1>1. ASSUME NEW iter PROVE MappedFrom(S, p, iter) = SumsFrom(h, S, iter)
  <2>1. ASSUME NEW s \in SUBSET S, s # {} PROVE h[Pick(s)] = Op(0, Pick(s), p)
    <3>1. Pick(s) \in s
      BY <2>1 DEF Pick
    <3>2. Pick(s) \in S
      BY <3>1
    <3> QED
      BY <3>2
  <2> HIDE DEF h
  <2> QED
    BY <2>1 DEF MappedFrom, SumsFrom
<1> HIDE DEF h
<1>2. (CHOOSE iter : iter = MappedFrom(S, p, iter)) = (CHOOSE iter : iter = SumsFrom(h, S, iter))
  BY <1>1
<1> QED
  BY <1>2, SumIsChosen DEF MappedSum, h
=============================================================================
