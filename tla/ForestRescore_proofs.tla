------------------------ MODULE ForestRescore_proofs ------------------------
(***************************************************************************)
(* The graph that pruning leaves is part of the graph, edges are ranked by *)
(* the derivations they are part of, decoding by the model finds the best  *)
(* derivation, and the contexts of vertices are those of their texts: for  *)
(* graphs of every size and shape.                                         *)
(***************************************************************************)
EXTENDS ForestRescore, Folding

-----------------------------------------------------------------------------
(* Derivations.                                                              *)

\* What the proofs need of a graph: edges are finitely many, and an edge has
\* finitely many children, all of them before its head.
IsEdge(g, e) ==
  /\ e.head \in Vertices(g) /\ e.feature \in Int
  /\ IsFiniteSet(Children(e)) /\ \A c \in Children(e) : c \in Nat /\ c < e.head

IsGraph(g) ==
  /\ g.size \in Nat
  /\ \E n \in Nat : DOMAIN g.edges = 1 .. n
  /\ \A k \in DOMAIN g.edges : IsEdge(g, g.edges[k])

\* The derivations of the vertices before n, by those that of gives.
DerivedFrom(g, n, of) ==
  [v \in 0 .. n - 1 |-> UNION {DerivedBy(g, k, of) : k \in Incoming(g, v)}]

\* An edge into a vertex has children before it.
LEMMA ChildrenAre ==
  ASSUME NEW g, IsGraph(g), NEW v, NEW k \in Incoming(g, v)
  PROVE  /\ v \in Vertices(g) /\ k \in DOMAIN g.edges /\ g.edges[k].head = v
         /\ g.edges[k].feature \in Int /\ IsFiniteSet(Children(g.edges[k]))
         /\ \A c \in Children(g.edges[k]) : c \in 0 .. v - 1 /\ c \in Vertices(g) /\ c < v
<1>1. k \in DOMAIN g.edges /\ g.edges[k].head = v /\ IsEdge(g, g.edges[k]) /\ g.size \in Nat
  BY DEF Incoming, IsGraph
<1>2. v \in 0 .. g.size - 1
  BY <1>1 DEF IsEdge, Vertices
<1>3. ASSUME NEW c \in Children(g.edges[k])
      PROVE  c \in 0 .. v - 1 /\ c \in 0 .. g.size - 1 /\ c < v
  <2>1. c \in Nat /\ c < v
    BY <1>1 DEF IsEdge
  <2> QED
    BY <1>1, <1>2, <2>1
<1> QED
  BY <1>1, <1>2, <1>3 DEF IsEdge, Vertices

\* What an edge derives depends on the derivations of its children only.
LEMMA DerivedByChildren ==
  ASSUME NEW g, NEW k, NEW p, NEW q, \A c \in Children(g.edges[k]) : p[c] = q[c]
  PROVE  DerivedBy(g, k, p) = DerivedBy(g, k, q)
<1> DEFINE C == Children(g.edges[k])
           OneOfEach(of) == {f \in [C -> UNION {of[c] : c \in C}] : \A c \in C : f[c] \in of[c]}
<1>1. UNION {p[c] : c \in C} = UNION {q[c] : c \in C}
  OBVIOUS
<1>2. OneOfEach(p) = OneOfEach(q)
  BY <1>1
<1> HIDE DEF OneOfEach
<1> QED
  BY <1>2 DEF DerivedBy, OneOfEach

\* The derivations of the vertices before n exist.
LEMMA DerivationsExist ==
  ASSUME NEW g, IsGraph(g), NEW n \in Nat
  PROVE  \E of : of = DerivedFrom(g, n, of)
<1> DEFINE B == {m \in Nat : ~\E of : of = DerivedFrom(g, m, of)}
<1>1. SUFFICES ASSUME B # {} PROVE FALSE
  OBVIOUS
<1>2. PICK m \in B : \A l \in B : m <= l
  <2>1. B \subseteq Nat
    OBVIOUS
  <2> HIDE DEF B
  <2> QED
    BY <1>1, <2>1, LeastNat
<1>3. CASE m = 0
  <2> DEFINE of == [v \in {} |-> 0]
  <2>1. of = DerivedFrom(g, 0, of)
    BY DEF DerivedFrom
  <2> QED
    BY <1>3, <2>1
<1>4. CASE m # 0
  <2>1. m - 1 \in Nat /\ ~(m <= m - 1)
    BY <1>4
  <2>2. m - 1 \notin B
    BY <1>2, <2>1
  <2>3. PICK of : of = DerivedFrom(g, m - 1, of)
    BY <2>1, <2>2
  <2> DEFINE new == DerivedFrom(g, m, of)
  <2>4. ASSUME NEW c \in 0 .. m - 2 PROVE new[c] = of[c]
    <3>1. c \in 0 .. m - 1 /\ c \in 0 .. (m - 1) - 1
      BY <2>1
    <3> QED
      BY <2>3, <3>1 DEF DerivedFrom
  <2>5. ASSUME NEW v \in 0 .. m - 1, NEW k \in Incoming(g, v)
        PROVE  DerivedBy(g, k, of) = DerivedBy(g, k, new)
    <3>1. \A c \in Children(g.edges[k]) : c \in 0 .. m - 2
      BY <2>1, ChildrenAre
    <3> HIDE DEF new
    <3> QED
      BY <2>4, <3>1, DerivedByChildren
  <2>6. ASSUME NEW v \in 0 .. m - 1
        PROVE  UNION {DerivedBy(g, k, of) : k \in Incoming(g, v)}
                 = UNION {DerivedBy(g, k, new) : k \in Incoming(g, v)}
    <3> HIDE DEF new
    <3> QED
      BY <2>5
  <2>7. new = DerivedFrom(g, m, new)
    <3> DEFINE other == DerivedFrom(g, m, new)
    <3>1. /\ new = [v \in 0 .. m - 1 |-> UNION {DerivedBy(g, k, of) : k \in Incoming(g, v)}]
          /\ other = [v \in 0 .. m - 1 |-> UNION {DerivedBy(g, k, new) : k \in Incoming(g, v)}]
      BY DEF DerivedFrom
    <3> HIDE DEF new, other
    <3>2. new = other
      BY <2>6, <3>1
    <3> QED
      BY <3>2 DEF other
  <2> HIDE DEF new
  <2> QED
    BY <2>7
<1> QED
  BY <1>3, <1>4

\* The derivations of a vertex are what its edges derive.
LEMMA DerivationsAre ==
  ASSUME NEW g, IsGraph(g), NEW v \in Vertices(g)
  PROVE  /\ \A d \in Derivations(g)[v] : \E k \in Incoming(g, v) :
                d \in DerivedBy(g, k, Derivations(g))
         /\ \A k \in Incoming(g, v) : DerivedBy(g, k, Derivations(g)) \subseteq Derivations(g)[v]
<1>1. Derivations(g) = CHOOSE of : of = DerivedFrom(g, g.size, of)
  BY DEF Derivations, DerivedFrom, Vertices
<1>2. g.size \in Nat
  BY DEF IsGraph
<1>3. Derivations(g) = DerivedFrom(g, g.size, Derivations(g))
  BY <1>1, <1>2, DerivationsExist
<1>4. Derivations(g)[v] = UNION {DerivedBy(g, k, Derivations(g)) : k \in Incoming(g, v)}
  BY <1>3 DEF DerivedFrom, Vertices
<1> QED
  BY <1>4

\* f has a derivation of each child of edge k.
IsChoice(g, k, f) ==
  LET C == Children(g.edges[k])
  IN /\ f \in [C -> UNION {Derivations(g)[c] : c \in C}]
     /\ \A c \in C : f[c] \in Derivations(g)[c]

\* The derivation that edge k makes of them.
Joined(g, k, f) ==
  LET e == g.edges[k]
  IN [text    |-> Expand(e, [c \in Children(e) |-> f[c].text]),
      feature |-> e.feature + SumFunction([c \in Children(e) |-> f[c].feature]),
      edges   |-> {k} \cup UNION {f[c].edges : c \in Children(e)}]

\* A derivation of a vertex is an edge into it and one of each of its children.
LEMMA DerivationIs ==
  ASSUME NEW g, IsGraph(g), NEW v \in Vertices(g)
  PROVE  /\ \A d \in Derivations(g)[v] : \E k \in Incoming(g, v) : \E f :
                IsChoice(g, k, f) /\ d = Joined(g, k, f)
         /\ \A k \in Incoming(g, v) : \A f :
                IsChoice(g, k, f) => Joined(g, k, f) \in Derivations(g)[v]
<1>1. ASSUME NEW k
      PROVE  \A d : d \in DerivedBy(g, k, Derivations(g)) <=>
                      \E f : IsChoice(g, k, f) /\ d = Joined(g, k, f)
  BY DEF DerivedBy, IsChoice, Joined
<1> QED
  BY <1>1, DerivationsAre

\* Features of derivations are numbers.
LEMMA FeaturesAreNumbers ==
  ASSUME NEW g, IsGraph(g)
  PROVE  \A v \in Vertices(g) : \A d \in Derivations(g)[v] : d.feature \in Int
<1> DEFINE B == {v \in Vertices(g) : \E d \in Derivations(g)[v] : d.feature \notin Int}
<1>1. SUFFICES ASSUME B # {} PROVE FALSE
  OBVIOUS
<1>2. PICK v \in B : \A l \in B : v <= l
  <2>1. B \subseteq Nat
    BY DEF Vertices
  <2> HIDE DEF B
  <2> QED
    BY <1>1, <2>1, LeastNat
<1>3. PICK d \in Derivations(g)[v] : d.feature \notin Int
  OBVIOUS
<1>4. PICK k \in Incoming(g, v) : \E f : IsChoice(g, k, f) /\ d = Joined(g, k, f)
  BY DerivationIs
<1>5. PICK f : IsChoice(g, k, f) /\ d = Joined(g, k, f)
  BY <1>4
<1> DEFINE C == Children(g.edges[k])
           h == [c \in C |-> f[c].feature]
<1>6. d.feature = g.edges[k].feature + SumFunction(h)
  BY <1>5 DEF Joined
<1>7. /\ g.edges[k].feature \in Int /\ IsFiniteSet(C)
      /\ \A c \in C : c \in Vertices(g) /\ c < v
  BY ChildrenAre
<1>8. ASSUME NEW c \in C PROVE f[c].feature \in Int
  <2>1. f[c] \in Derivations(g)[c]
    BY <1>5 DEF IsChoice
  <2>2. c \in Vertices(g) /\ ~(v <= c)
    BY <1>7 DEF Vertices
  <2> QED
    BY <1>2, <2>1, <2>2
<1>9. \A c \in C : h[c] \in Int
  BY <1>8
<1>10. SumFunction(h) = SumFunctionOnSet(h, C)
  BY SumOfFunction
<1> HIDE DEF h, C
<1>11. SumFunctionOnSet(h, C) \in Int
  BY <1>7, <1>9, SumType
<1> QED
  BY <1>3, <1>6, <1>7, <1>10, <1>11

-----------------------------------------------------------------------------
(* Pruning.                                                                  *)

\* The graphs that are read are graphs as the proofs need them.
LEMMA GraphIs ==
  ASSUME NEW g \in Graphs
  PROVE  IsGraph(g)
<1>1. g.size \in Nat /\ DOMAIN g.edges = 1 .. Len(g.edges) /\ Len(g.edges) \in Nat
  <2>1. g.size \in Nat /\ g.edges \in Seq(ToSet(g.edges))
    BY GraphAssumption
  <2> QED
    BY <2>1
<1>2. ASSUME NEW k \in DOMAIN g.edges PROVE IsEdge(g, g.edges[k])
  <2> DEFINE e == g.edges[k]
  <2>1. e.head \in Vertices(g) /\ e.feature \in Int /\ e.words \in Seq(ToSet(e.words))
    BY GraphAssumption
  <2>2. \A c \in Children(e) : c \in Nat /\ c < e.head
    BY GraphAssumption DEF BottomUp, Children
  <2> HIDE DEF e
  <2>3. DOMAIN e.words = 1 .. Len(e.words) /\ Len(e.words) \in Nat
    BY <2>1
  <2>4. IsFiniteSet(Children(e))
    <3> DEFINE w == e.words
               D == DOMAIN w
               S == {w[i] : i \in D}
    <3>1. IsFiniteSet(D)
      BY <2>3, FS_Interval
    <3>2. w \in [D -> S] /\ \A s \in S : \E i \in D : w[i] = s
      <4>1. w = [i \in D |-> w[i]]
        BY <2>1
      <4> QED
        BY <4>1
    <3>3. w \in Surjection(D, S)
      <4> HIDE DEF w, D, S
      <4> QED
        BY <3>2, Fun_IsSurj
    <3>4. IsFiniteSet(S)
      <4> HIDE DEF w, D, S
      <4> QED
        BY <3>1, <3>3, FS_Surjection
    <3>5. Children(e) \in SUBSET S
      BY DEF Children, ToSet
    <3> HIDE DEF S
    <3> QED
      BY <3>4, <3>5, FS_Subset
  <2> QED
    BY <2>1, <2>2, <2>4 DEF IsEdge, e
<1> QED
  BY <1>1, <1>2 DEF IsGraph

\* copy is e with its vertices numbered anew among those of V.
IsCopy(V, copy, e) ==
  /\ copy.head = NewId(V, e.head) /\ copy.feature = e.feature
  /\ DOMAIN copy.words = DOMAIN e.words
  /\ \A i \in DOMAIN e.words :
       copy.words[i] = IF e.words[i] \in Nat THEN NewId(V, e.words[i]) ELSE e.words[i]

\* The vertices of the edges that are kept are vertices.
LEMMA EndsAre ==
  ASSUME IsGraph(graph), NEW K \in SUBSET DOMAIN graph.edges
  PROVE  /\ Ends(K) \subseteq Vertices(graph) /\ Ends(K) \subseteq Nat
         /\ IsFiniteSet(Ends(K)) /\ Cardinality(Ends(K)) \in Nat
         /\ IsFiniteSet(K) /\ Cardinality(K) \in Nat /\ K \subseteq Nat
         /\ \A k \in K : /\ graph.edges[k].head \in Ends(K)
                         /\ Children(graph.edges[k]) \subseteq Ends(K)
<1>1. ASSUME NEW k \in K
      PROVE  graph.edges[k].head \in Vertices(graph) /\ Children(graph.edges[k]) \subseteq Vertices(graph)
  <2>1. k \in Incoming(graph, graph.edges[k].head)
    BY DEF Incoming
  <2> QED
    BY <2>1, ChildrenAre
<1>2. Ends(K) \subseteq Vertices(graph)
  BY <1>1 DEF Ends
<1>3. IsFiniteSet(Vertices(graph)) /\ Vertices(graph) \subseteq Nat
  <2>1. graph.size \in Nat
    BY DEF IsGraph
  <2>2. 0 \in Int /\ graph.size - 1 \in Int
    BY <2>1
  <2> QED
    BY <2>2, FS_Interval DEF Vertices
<1>4. IsFiniteSet(Ends(K)) /\ Cardinality(Ends(K)) \in Nat
  BY <1>2, <1>3, FS_Subset, FS_CardinalityType
<1>5. IsFiniteSet(K) /\ Cardinality(K) \in Nat /\ K \subseteq Nat
  <2>1. PICK n \in Nat : DOMAIN graph.edges = 1 .. n
    BY DEF IsGraph
  <2>2. IsFiniteSet(1 .. n)
    BY FS_Interval
  <2>3. K \in SUBSET (1 .. n)
    BY <2>1
  <2> QED
    BY <2>2, <2>3, FS_Subset, FS_CardinalityType
<1> QED
  BY <1>2, <1>3, <1>4, <1>5 DEF Ends

\* New numbers are below the size of the new graph, different for different
\* vertices, and in the order of the old ones.
LEMMA NewIdsAre ==
  ASSUME IsGraph(graph), NEW K \in SUBSET DOMAIN graph.edges
  PROVE  LET V == Ends(K)
         IN /\ \A u \in V : NewId(V, u) \in 0 .. Cardinality(V) - 1 /\ NewId(V, u) \in Nat
            /\ \A u, w \in V : NewId(V, u) = NewId(V, w) => u = w
            /\ \A u, w \in V : u < w => NewId(V, u) < NewId(V, w)
            /\ \A n \in 0 .. Cardinality(V) - 1 : \E u \in V : NewId(V, u) = n
<1> DEFINE V == Ends(K)
<1>1. V \subseteq Nat /\ IsFiniteSet(V) /\ Cardinality(V) \in Nat
  BY EndsAre
<1>2. \A u : NewId(V, u) = Rank(V, u)
  BY DEF NewId, NumberedBefore, Rank
<1> HIDE DEF V
<1>3. /\ \A u \in V : NewId(V, u) \in 0 .. Cardinality(V) - 1
      /\ \A u, w \in V : NewId(V, u) = NewId(V, w) => u = w
      /\ \A n \in 0 .. Cardinality(V) - 1 : \E u \in V : NewId(V, u) = n
  <2>1. /\ \A u \in V : Rank(V, u) \in 0 .. Cardinality(V) - 1
        /\ \A u, w \in V : Rank(V, u) = Rank(V, w) => u = w
        /\ \A n \in 0 .. Cardinality(V) - 1 : \E u \in V : Rank(V, u) = n
    BY <1>1, RanksAreAll
  <2> QED
    BY <1>2, <2>1, Zenon
<1>4. ASSUME NEW u \in V, NEW w \in V, u < w PROVE NewId(V, u) < NewId(V, w)
  <2>1. Rank(V, u) < Rank(V, w)
    BY <1>1, <1>4, RanksAscend
  <2> QED
    BY <1>2, <2>1
<1> QED
  BY <1>1, <1>3, <1>4 DEF V

\* The edges of the new graph are copies of edges that are kept.
LEMMA CutIs ==
  ASSUME IsGraph(graph), NEW K \in SUBSET DOMAIN graph.edges
  PROVE  /\ Cut(K).size = Cardinality(Ends(K))
         /\ DOMAIN Cut(K).edges = 1 .. Cardinality(K)
         /\ \A n \in DOMAIN Cut(K).edges : \E k \in K :
              IsCopy(Ends(K), Cut(K).edges[n], graph.edges[k])
<1> DEFINE V == Ends(K)
           Moved(x) == IF x \in Nat THEN NewId(V, x) ELSE x
           Copied(e) == [head    |-> NewId(V, e.head),
                         words   |-> [n \in DOMAIN e.words |-> Moved(e.words[n])],
                         feature |-> e.feature]
           Kept(n) == CHOOSE k \in K : NumberedBefore(K, k) = n - 1
<1>1. /\ Cut(K).size = Cardinality(V)
      /\ Cut(K).edges = [n \in 1 .. Cardinality(K) |-> Copied(graph.edges[Kept(n)])]
  BY DEF Cut
<1>2. ASSUME NEW n \in 1 .. Cardinality(K) PROVE Kept(n) \in K
  <2>1. IsFiniteSet(K) /\ K \subseteq Nat /\ Cardinality(K) \in Nat
    BY EndsAre
  <2>2. n - 1 \in 0 .. Cardinality(K) - 1
    BY <2>1
  <2>3. \E k \in K : Rank(K, k) = n - 1
    BY <2>1, <2>2, RanksAreAll
  <2>4. \E k \in K : NumberedBefore(K, k) = n - 1
    BY <2>3 DEF NumberedBefore, Rank
  <2> QED
    BY <2>4
<1>3. \A e : IsCopy(V, Copied(e), e)
  BY DEF IsCopy
<1> HIDE DEF Kept, Copied, V
<1>4. \A n \in 1 .. Cardinality(K) : Cut(K).edges[n] = Copied(graph.edges[Kept(n)])
  BY <1>1
<1> QED
  BY <1>1, <1>2, <1>3, <1>4 DEF V

\* The children of a copy are those of the edge, by their new numbers.
LEMMA CopiedChildren ==
  ASSUME NEW V, \A u \in V : NewId(V, u) \in Nat, NEW e, NEW copy, IsCopy(V, copy, e),
         Children(e) \subseteq V
  PROVE  /\ \A c \in Children(e) : NewId(V, c) \in Children(copy)
         /\ \A x \in Children(copy) : \E c \in Children(e) : x = NewId(V, c)
<1>1. ASSUME NEW i \in DOMAIN e.words, e.words[i] \in Nat
      PROVE  e.words[i] \in Children(e) /\ copy.words[i] = NewId(V, e.words[i])
             /\ copy.words[i] \in Nat
  BY <1>1 DEF IsCopy, Children, ToSet
<1>2. ASSUME NEW c \in Children(e) PROVE NewId(V, c) \in Children(copy)
  <2>1. c \in Nat /\ \E i \in DOMAIN e.words : e.words[i] = c
    BY DEF Children, ToSet
  <2>2. PICK i \in DOMAIN e.words : e.words[i] = c
    BY <2>1
  <2>3. copy.words[i] = NewId(V, c) /\ copy.words[i] \in Nat /\ i \in DOMAIN copy.words
    BY <1>1, <2>1, <2>2 DEF IsCopy
  <2> QED
    BY <2>3 DEF Children, ToSet
<1>3. ASSUME NEW x \in Children(copy) PROVE \E c \in Children(e) : x = NewId(V, c)
  <2>1. x \in Nat /\ \E i \in DOMAIN copy.words : copy.words[i] = x
    BY DEF Children, ToSet
  <2>2. PICK i \in DOMAIN e.words : copy.words[i] = x
    BY <2>1 DEF IsCopy
  <2>3. e.words[i] \in Nat
    BY <2>1, <2>2 DEF IsCopy
  <2> QED
    BY <1>1, <2>2, <2>3
<1> QED
  BY <1>2, <1>3

\* The new graph is a graph, children before their heads.
LEMMA CutIsGraph ==
  ASSUME IsGraph(graph), NEW K \in SUBSET DOMAIN graph.edges
  PROVE  IsGraph(Cut(K))
<1> DEFINE V == Ends(K)
           g == Cut(K)
<1>1. /\ g.size = Cardinality(V) /\ g.size \in Nat
      /\ \E n \in Nat : DOMAIN g.edges = 1 .. n
  BY CutIs, EndsAre
<1>2. ASSUME NEW n \in DOMAIN g.edges PROVE IsEdge(g, g.edges[n])
  <2>1. PICK k \in K : IsCopy(V, g.edges[n], graph.edges[k])
    BY CutIs
  <2> DEFINE e == graph.edges[k]
             copy == g.edges[n]
  <2>2. /\ e.head \in V /\ Children(e) \subseteq V /\ e.feature \in Int
        /\ IsFiniteSet(Children(e)) /\ \A c \in Children(e) : c < e.head
    BY EndsAre DEF IsGraph, IsEdge
  <2>3. copy.head \in Vertices(g) /\ copy.feature \in Int
    BY <1>1, <2>1, <2>2, NewIdsAre DEF IsCopy, Vertices
  <2>4. /\ \A c \in Children(e) : NewId(V, c) \in Children(copy)
        /\ \A x \in Children(copy) : \E c \in Children(e) : x = NewId(V, c)
    <3>1. \A u \in V : NewId(V, u) \in Nat
      BY NewIdsAre
    <3> HIDE DEF e, copy, V
    <3> QED
      BY <2>1, <2>2, <3>1, CopiedChildren DEF e, copy
  <2>5. \A x \in Children(copy) : x \in Nat /\ x < copy.head
    <3>1. ASSUME NEW x \in Children(copy) PROVE x \in Nat /\ x < copy.head
      <4>1. PICK c \in Children(e) : x = NewId(V, c)
        BY <2>4
      <4>2. c \in V /\ e.head \in V /\ c < e.head
        BY <2>2
      <4>3. NewId(V, c) < NewId(V, e.head) /\ NewId(V, c) \in Nat
        BY <4>2, NewIdsAre
      <4> QED
        BY <2>1, <4>1, <4>3 DEF IsCopy
    <3> QED
      BY <3>1
  <2>6. IsFiniteSet(Children(copy))
    <3>1. Children(copy) \in SUBSET (0 .. copy.head - 1) /\ copy.head \in Nat
      <4>1. copy.head \in Nat
        BY <2>3 DEF Vertices
      <4> QED
        BY <2>5, <4>1
    <3>2. IsFiniteSet(0 .. copy.head - 1)
      <4>1. 0 \in Int /\ copy.head - 1 \in Int
        BY <3>1
      <4> QED
        BY <4>1, FS_Interval
    <3> QED
      BY <3>1, <3>2, FS_Subset
  <2> QED
    BY <2>3, <2>5, <2>6 DEF IsEdge
<1> QED
  BY <1>1, <1>2 DEF IsGraph

\* A copy of an edge derives what the edge does, if its children do.
LEMMA CopyDerives ==
  ASSUME IsGraph(graph), NEW K \in SUBSET DOMAIN graph.edges,
         NEW n \in DOMAIN Cut(K).edges, NEW k \in K,
         IsCopy(Ends(K), Cut(K).edges[n], graph.edges[k]),
         NEW p, IsChoice(Cut(K), n, p),
         NEW f, IsChoice(graph, k, f),
         \A c \in Children(graph.edges[k]) :
           /\ p[NewId(Ends(K), c)].text = f[c].text
           /\ p[NewId(Ends(K), c)].feature = f[c].feature
  PROVE  /\ Joined(Cut(K), n, p).text = Joined(graph, k, f).text
         /\ Joined(Cut(K), n, p).feature = Joined(graph, k, f).feature
<1> DEFINE V == Ends(K)
           g == Cut(K)
           e == graph.edges[k]
           copy == g.edges[n]
           C == Children(e)
           D == Children(copy)
<1>1. /\ C \subseteq V /\ \A u \in V : NewId(V, u) \in Nat
      /\ \A u, w \in V : NewId(V, u) = NewId(V, w) => u = w
  BY EndsAre, NewIdsAre
<1>2. /\ \A c \in C : NewId(V, c) \in D
      /\ \A x \in D : \E c \in C : x = NewId(V, c)
  <2> HIDE DEF V, e, copy
  <2> QED
    BY <1>1, CopiedChildren DEF V, e, copy
<1>3. Joined(g, n, p).text = Joined(graph, k, f).text
  <2> DEFINE text == [c \in C |-> f[c].text]
             new == [c \in D |-> p[c].text]
             Piece(w, t, i) == IF w[i] \in Nat THEN t[w[i]] ELSE <<w[i]>>
  <2>1. DOMAIN copy.words = DOMAIN e.words
    BY DEF IsCopy
  <2>2. ASSUME NEW i \in DOMAIN e.words
        PROVE  Piece(copy.words, new, i) = Piece(e.words, text, i)
    <3>1. CASE e.words[i] \in Nat
      <4>1. e.words[i] \in C
        BY <3>1 DEF Children, ToSet
      <4>2. copy.words[i] = NewId(V, e.words[i]) /\ copy.words[i] \in Nat
            /\ copy.words[i] \in D
        BY <1>1, <1>2, <3>1, <4>1 DEF IsCopy
      <4> QED
        BY <3>1, <4>1, <4>2
    <3>2. CASE e.words[i] \notin Nat
      <4>1. copy.words[i] = e.words[i]
        BY <3>2 DEF IsCopy
      <4> QED
        BY <3>2, <4>1
    <3> QED
      BY <3>1, <3>2
  <2> DEFINE s == [i \in DOMAIN copy.words |-> Piece(copy.words, new, i)]
             q == [i \in DOMAIN e.words |-> Piece(e.words, text, i)]
  <2>3. Expand(copy, new) = FlattenSeq(s) /\ Expand(e, text) = FlattenSeq(q)
    BY DEF Expand
  <2>4. s = q
    <3> HIDE DEF Piece, copy, e
    <3> QED
      BY <2>1, <2>2
  <2>5. Joined(g, n, p).text = Expand(copy, new) /\ Joined(graph, k, f).text = Expand(e, text)
    BY DEF Joined
  <2> HIDE DEF s, q
  <2> QED
    BY <2>3, <2>4, <2>5
<1>4. Joined(g, n, p).feature = Joined(graph, k, f).feature
  <2> DEFINE a == [c \in C |-> f[c].feature]
             b == [c \in D |-> p[c].feature]
             m == [c \in C |-> NewId(V, c)]
  <2>1. /\ Joined(g, n, p).feature = copy.feature + SumFunction(b)
        /\ Joined(graph, k, f).feature = e.feature + SumFunction(a)
        /\ copy.feature = e.feature
    BY DEF Joined, IsCopy
  <2>2. SumFunction(a) = SumFunctionOnSet(a, C) /\ SumFunction(b) = SumFunctionOnSet(b, D)
    <3>1. DOMAIN a = C /\ DOMAIN b = D
      OBVIOUS
    <3> HIDE DEF a, b
    <3> QED
      BY <3>1, SumOfFunction
  <2>3. /\ k \in Incoming(graph, e.head) /\ n \in Incoming(g, copy.head)
        /\ IsGraph(g)
    BY CutIsGraph DEF Incoming
  <2>4. IsFiniteSet(C) /\ IsFiniteSet(D)
        /\ C \subseteq Vertices(graph) /\ D \subseteq Vertices(g)
    BY <2>3, ChildrenAre
  <2>5. /\ \A c \in C : a[c] \in Int
        /\ \A c \in D : b[c] \in Int
    <3>1. /\ \A c \in C : f[c] \in Derivations(graph)[c]
          /\ \A c \in D : p[c] \in Derivations(g)[c]
      BY DEF IsChoice
    <3> QED
      BY <2>3, <2>4, <3>1, FeaturesAreNumbers
  <2>6. Pairs(m, a, C, b, D)
    <3>1. \A c \in C : m[c] = NewId(V, c) /\ m[c] \in D /\ b[m[c]] = a[c]
      BY <1>2
    <3>2. \A c, x \in C : m[c] = m[x] => c = x
      BY <1>1
    <3>3. \A x \in D : \E c \in C : m[c] = x
      BY <1>2
    <3> HIDE DEF a, b, m, C, D
    <3> QED
      BY <3>1, <3>2, <3>3 DEF Pairs
  <2> HIDE DEF a, b, m, C, D
  <2>7. SumFunctionOnSet(a, C) = SumFunctionOnSet(b, D)
    BY <2>4, <2>5, <2>6, SumsMatch
  <2> QED
    BY <2>1, <2>2, <2>7
<1> QED
  BY <1>3, <1>4

\* What a vertex of the new graph derives, its vertex of the old one does.
LEMMA CutIsPart ==
  ASSUME IsGraph(graph), NEW K \in SUBSET DOMAIN graph.edges
  PROVE  \A v \in Vertices(Cut(K)) : \A u \in Ends(K) : NewId(Ends(K), u) = v =>
           \A d \in Derivations(Cut(K))[v] : \E o \in Derivations(graph)[u] :
             d.text = o.text /\ d.feature = o.feature
<1> DEFINE V == Ends(K)
           g == Cut(K)
           Same(d, o) == d.text = o.text /\ d.feature = o.feature
           Part(v) == \A u \in V : NewId(V, u) = v =>
                        \A d \in Derivations(g)[v] : \E o \in Derivations(graph)[u] : Same(d, o)
           B == {v \in Vertices(g) : ~Part(v)}
<1>1. SUFFICES ASSUME B # {} PROVE FALSE
  OBVIOUS
<1>2. PICK v \in B : \A l \in B : v <= l
  <2>1. B \subseteq Nat
    BY DEF Vertices
  <2> HIDE DEF B
  <2> QED
    BY <1>1, <2>1, LeastNat
<1>3. PICK u \in V : NewId(V, u) = v /\ \E d \in Derivations(g)[v] :
                       \A o \in Derivations(graph)[u] : ~Same(d, o)
  OBVIOUS
<1>4. PICK d \in Derivations(g)[v] : \A o \in Derivations(graph)[u] : ~Same(d, o)
  BY <1>3
<1>5. v \in Vertices(g) /\ IsGraph(g)
  BY CutIsGraph
<1>6. PICK n \in Incoming(g, v) : \E p : IsChoice(g, n, p) /\ d = Joined(g, n, p)
  <2> HIDE DEF g
  <2> QED
    BY <1>4, <1>5, DerivationIs
<1>6a. PICK p : IsChoice(g, n, p) /\ d = Joined(g, n, p)
  BY <1>6
<1>7. /\ n \in DOMAIN g.edges /\ g.edges[n].head = v
      /\ \A c \in Children(g.edges[n]) : c \in Vertices(g) /\ c < v
  <2> HIDE DEF g
  <2> QED
    BY <1>5, ChildrenAre
<1>8. PICK k \in K : IsCopy(V, g.edges[n], graph.edges[k])
  BY <1>7, CutIs
<1> DEFINE e == graph.edges[k]
           C == Children(e)
<1>9. /\ e.head \in V /\ C \subseteq V /\ u \in Vertices(graph)
      /\ \A x \in V : NewId(V, x) \in Nat
      /\ \A x, y \in V : NewId(V, x) = NewId(V, y) => x = y
  BY EndsAre, NewIdsAre
<1>10. e.head = u /\ k \in Incoming(graph, u)
  <2>1. NewId(V, e.head) = v
    BY <1>7, <1>8 DEF IsCopy
  <2>2. e.head = u
    BY <1>3, <1>9, <2>1
  <2> QED
    BY <2>2 DEF Incoming
<1>11. ASSUME NEW c \in C
       PROVE  \E o \in Derivations(graph)[c] : Same(p[NewId(V, c)], o)
  <2> DEFINE x == NewId(V, c)
  <2>1. x \in Children(g.edges[n])
    <3> HIDE DEF V, g
    <3> QED
      BY <1>8, <1>9, CopiedChildren
  <2>2. p[x] \in Derivations(g)[x]
    BY <1>6a, <2>1 DEF IsChoice
  <2>3. x \in Vertices(g) /\ ~(v <= x)
    BY <1>5, <1>7, <2>1 DEF Vertices
  <2>4. Part(x)
    BY <1>2, <2>3
  <2> QED
    BY <1>9, <2>2, <2>4
<1> DEFINE f == [c \in C |-> CHOOSE o \in Derivations(graph)[c] : Same(p[NewId(V, c)], o)]
<1>12. \A c \in C : f[c] \in Derivations(graph)[c] /\ Same(p[NewId(V, c)], f[c])
  BY <1>11
<1>13. IsChoice(graph, k, f)
  <2>1. f \in [C -> UNION {Derivations(graph)[c] : c \in C}]
    BY <1>12
  <2> QED
    BY <1>12, <2>1 DEF IsChoice
<1> HIDE DEF f
<1>14. Same(Joined(g, n, p), Joined(graph, k, f))
  BY <1>6a, <1>7, <1>8, <1>12, <1>13, CopyDerives
<1>15. Joined(graph, k, f) \in Derivations(graph)[u]
  BY <1>9, <1>10, <1>13, DerivationIs
<1> QED
  BY <1>4, <1>6a, <1>14, <1>15

\* What is pruned is cut out of a graph that was read.
CutInv ==
  /\ graph \in Graphs
  /\ IF pc = "prune" THEN pruned = [size |-> 0, edges |-> <<>>]
     ELSE \E K \in SUBSET DOMAIN graph.edges : pruned = Cut(K)

\* Nothing is pruned at first.
LEMMA InitCut == VInit => CutInv
<1> QED
  BY DEF VInit, GInit, CutInv

\* Only pruning changes a graph.
LEMMA NextCut == CutInv /\ [VNext]_wvars => CutInv'
<1> SUFFICES ASSUME CutInv, [VNext]_wvars PROVE CutInv'
  OBVIOUS
<1>1. ASSUME gvars' = gvars, pc = "prune" <=> pc' = "prune" PROVE CutInv'
  <2>1. graph' = graph /\ pruned' = pruned
    BY <1>1 DEF gvars
  <2>2. ASSUME NEW K PROVE Cut(K)' = Cut(K)
    BY <2>1 DEF Cut, Ends
  <2> QED
    BY <1>1, <2>1, <2>2 DEF CutInv
<1>2. CASE PruneGraph
  <2>1. graph' = graph /\ pruned' = Cut(Retained) /\ pc' = "start"
    BY <1>2 DEF PruneGraph, Prune
  <2>2. Retained \in SUBSET DOMAIN graph.edges
    BY DEF Retained
  <2>3. PICK K \in SUBSET DOMAIN graph.edges : pruned' = Cut(K)
    BY <2>1, <2>2
  <2>4. Cut(K)' = Cut(K)
    BY <2>1 DEF Cut, Ends
  <2>5. \E k \in SUBSET DOMAIN graph'.edges : pruned' = Cut(k)'
    BY <2>1, <2>3, <2>4
  <2> QED
    BY <2>1, <2>5 DEF CutInv
<1>3. CASE Start
  BY <1>1, <1>3 DEF Start
<1>4. CASE Visit
  BY <1>1, <1>4 DEF Visit, DeadEnd, Throw, Rescore
<1>5. CASE Finish
  BY <1>1, <1>5 DEF Finish
<1>6. CASE UNCHANGED wvars
  BY <1>1, <1>6 DEF wvars
<1> QED
  BY <1>2, <1>3, <1>4, <1>5, <1>6 DEF VNext

\* Both graphs are graphs as the proofs need them.
LEMMA CutInvGraphs == CutInv => IsGraph(graph) /\ (pc # "prune" => IsGraph(pruned))
<1> QED
  BY GraphIs, CutIsGraph DEF CutInv

\* A vertex of what is cut has its derivations from the one it was numbered after.
LEMMA CutInvSuffices == CutInv => PrunedIsPart
<1> SUFFICES ASSUME CutInv, pruned.size > 0 PROVE PrunedIsPart
  BY DEF PrunedIsPart
<1>1. PICK K \in SUBSET DOMAIN graph.edges : pruned = Cut(K)
  BY DEF CutInv
<1>2. IsGraph(graph) /\ IsGraph(pruned)
  BY <1>1, GraphIs, CutIsGraph DEF CutInv
<1>3. BottomUp(pruned) /\ \A k \in DOMAIN pruned.edges : pruned.edges[k].head < pruned.size
  BY <1>2 DEF BottomUp, IsGraph, IsEdge, Vertices
<1>4. ASSUME NEW v \in Vertices(pruned)
      PROVE  \E u \in Vertices(graph) :
               \A d \in Derivations(pruned)[v] : \E o \in Derivations(graph)[u] :
                 d.text = o.text /\ d.feature = o.feature
  <2>1. v \in 0 .. Cardinality(Ends(K)) - 1
    BY <1>1, <1>2, CutIs DEF Vertices
  <2>2. PICK u \in Ends(K) : NewId(Ends(K), u) = v
    BY <1>2, <2>1, NewIdsAre
  <2>3. u \in Vertices(graph)
    BY <1>2, EndsAre
  <2>4. \A d \in Derivations(Cut(K))[v] : \E o \in Derivations(graph)[u] :
          d.text = o.text /\ d.feature = o.feature
    BY <1>1, <1>2, <2>2, CutIsPart
  <2> QED
    BY <1>1, <2>3, <2>4
<1> QED
  BY <1>3, <1>4 DEF PrunedIsPart

\* Whatever edges are cut (Hypergraph.cpp:214-252), with however many children:
\* what is left is numbered bottom-up again and derives nothing new.
THEOREM PrunedGraphsAreParts == VSpec => []PrunedIsPart
<1> QED
  BY InitCut, NextCut, CutInvSuffices, PTL DEF VSpec

-----------------------------------------------------------------------------
(* Scores of edges.                                                          *)

\* What an edge derives scores the edge and what was chosen for its children.
LEMMA JoinedScore ==
  ASSUME NEW g, IsGraph(g), NEW w \in Int, NEW v, NEW k \in Incoming(g, v),
         NEW f, IsChoice(g, k, f)
  PROVE  LET C == Children(g.edges[k])
             score == [c \in C |-> w * f[c].feature]
         IN /\ w * g.edges[k].feature \in Int
            /\ \A c \in C : score[c] \in Int
            /\ w * Joined(g, k, f).feature
                 = w * g.edges[k].feature + SumFunctionOnSet(score, C)
<1> DEFINE e == g.edges[k]
           C == Children(e)
           a == [c \in C |-> f[c].feature]
           score == [c \in C |-> w * f[c].feature]
<1>1. /\ e.feature \in Int /\ IsFiniteSet(C)
      /\ \A c \in C : c \in Vertices(g)
  BY ChildrenAre
<1>2. ASSUME NEW c \in C PROVE f[c].feature \in Int
  <2>1. f[c] \in Derivations(g)[c]
    BY DEF IsChoice
  <2> QED
    BY <1>1, <2>1, FeaturesAreNumbers
<1>3. ASSUME NEW c \in C PROVE a[c] \in Int /\ score[c] = w * a[c] /\ score[c] \in Int
  <2> DEFINE x == f[c].feature
  <2>1. x \in Int /\ a[c] = x /\ score[c] = w * x
    BY <1>2
  <2> HIDE DEF x, a, score
  <2>2. w * x \in Int
    BY <2>1
  <2> QED
    BY <2>1, <2>2
<1>4. Joined(g, k, f).feature = e.feature + SumFunction(a) /\ DOMAIN a = C
  BY DEF Joined
<1> HIDE DEF a, score, C
<1>5. SumFunction(a) = SumFunctionOnSet(a, C)
  BY <1>4, SumOfFunction
<1>6. SumFunctionOnSet(score, C) = w * SumFunctionOnSet(a, C)
  BY <1>1, <1>3, SumScaled
<1>7. SumFunctionOnSet(a, C) \in Int
  BY <1>1, <1>3, SumType
<1> DEFINE x == e.feature
           y == SumFunctionOnSet(a, C)
<1>8. x \in Int /\ y \in Int /\ Joined(g, k, f).feature = x + y
  BY <1>1, <1>4, <1>5, <1>7
<1> HIDE DEF x, y, e
<1>9. w * (x + y) = w * x + w * y /\ w * x \in Int
  BY <1>8
<1>10. w * Joined(g, k, f).feature = w * x + SumFunctionOnSet(score, C)
  BY <1>6, <1>8, <1>9 DEF y
<1> QED
  BY <1>3, <1>9, <1>10 DEF x, score, C, e

\* What scores are given to: every vertex derives something.
Scored ==
  /\ IsGraph(graph) /\ initWeights \in Int
  /\ \A v \in Vertices(graph) : Incoming(graph, v) # {}

\* The edges are numbered, and finitely many.
LEMMA EdgesAre ==
  ASSUME NEW g, IsGraph(g), NEW K, K \subseteq DOMAIN g.edges
  PROVE  IsFiniteSet(K) /\ \A k \in K : k \in Nat \ {0} /\ k \in Incoming(g, g.edges[k].head)
<1>1. PICK n \in Nat : DOMAIN g.edges = 1 .. n
  BY DEF IsGraph
<1>2. IsFiniteSet(1 .. n)
  BY FS_Interval
<1>3. IsFiniteSet(K)
  BY <1>1, <1>2, FS_Subset
<1> QED
  BY <1>1, <1>3 DEF Incoming

\* An edge's backward score by those of its children, and those of the vertices
\* before n by what of gives.
BackwardBy(of, k) == Score(k) + SumFunction([c \in Children(graph.edges[k]) |-> of[c]])
BackwardFrom(n, of) ==
  [v \in 0 .. n - 1 |-> Max({BackwardBy(of, k) : k \in Incoming(graph, v)})]

\* The backward scores of the vertices before n exist.
LEMMA BackwardExists ==
  ASSUME IsGraph(graph), NEW n \in Nat
  PROVE  \E of : of = BackwardFrom(n, of)
<1> DEFINE B == {m \in Nat : ~\E of : of = BackwardFrom(m, of)}
<1>1. SUFFICES ASSUME B # {} PROVE FALSE
  OBVIOUS
<1>2. PICK m \in B : \A l \in B : m <= l
  <2>1. B \subseteq Nat
    OBVIOUS
  <2> HIDE DEF B
  <2> QED
    BY <1>1, <2>1, LeastNat
<1>3. CASE m = 0
  <2> DEFINE of == [v \in {} |-> 0]
  <2>1. of = BackwardFrom(0, of)
    BY DEF BackwardFrom
  <2> QED
    BY <1>3, <2>1
<1>4. CASE m # 0
  <2>1. m - 1 \in Nat /\ ~(m <= m - 1)
    BY <1>4
  <2>2. m - 1 \notin B
    BY <1>2, <2>1
  <2>3. PICK of : of = BackwardFrom(m - 1, of)
    BY <2>1, <2>2
  <2> DEFINE new == BackwardFrom(m, of)
             Of(p, v) == Max({BackwardBy(p, k) : k \in Incoming(graph, v)})
  <2>4. ASSUME NEW c \in 0 .. m - 2 PROVE new[c] = of[c]
    <3>1. c \in 0 .. m - 1 /\ c \in 0 .. (m - 1) - 1
      BY <2>1
    <3> QED
      BY <2>3, <3>1 DEF BackwardFrom
  <2>5. ASSUME NEW v \in 0 .. m - 1, NEW k \in Incoming(graph, v)
        PROVE  BackwardBy(of, k) = BackwardBy(new, k)
    <3>1. \A c \in Children(graph.edges[k]) : c \in 0 .. m - 2
      BY <2>1, ChildrenAre
    <3> HIDE DEF new
    <3>2. [c \in Children(graph.edges[k]) |-> of[c]] = [c \in Children(graph.edges[k]) |-> new[c]]
      BY <2>4, <3>1
    <3> QED
      BY <3>2 DEF BackwardBy
  <2>6. ASSUME NEW v \in 0 .. m - 1 PROVE Of(of, v) = Of(new, v)
    <3> HIDE DEF new
    <3>1. {BackwardBy(of, k) : k \in Incoming(graph, v)}
            = {BackwardBy(new, k) : k \in Incoming(graph, v)}
      BY <2>5
    <3> QED
      BY <3>1
  <2>7. new = BackwardFrom(m, new)
    <3> DEFINE other == BackwardFrom(m, new)
    <3>1. /\ new = [v \in 0 .. m - 1 |-> Of(of, v)]
          /\ other = [v \in 0 .. m - 1 |-> Of(new, v)]
      BY DEF BackwardFrom
    <3> HIDE DEF new, other, Of
    <3>2. new = other
      BY <2>6, <3>1
    <3> QED
      BY <3>2 DEF other
  <2> HIDE DEF new
  <2> QED
    BY <2>7
<1> QED
  BY <1>3, <1>4

\* The backward score of a vertex is the best of those of its edges.
LEMMA BackwardIs ==
  ASSUME IsGraph(graph), NEW v \in Vertices(graph)
  PROVE  BackwardScores[v] = Max({EdgeBackward(k) : k \in Incoming(graph, v)})
<1>1. BackwardScores = CHOOSE of : of = BackwardFrom(graph.size, of)
  BY DEF BackwardScores, BackwardFrom, BackwardBy, Vertices
<1>2. graph.size \in Nat
  BY DEF IsGraph
<1>3. BackwardScores = BackwardFrom(graph.size, BackwardScores)
  BY <1>1, <1>2, BackwardExists
<1>4. BackwardScores[v] = Max({BackwardBy(BackwardScores, k) : k \in Incoming(graph, v)})
  BY <1>3 DEF BackwardFrom, Vertices
<1>5. \A k : BackwardBy(BackwardScores, k) = EdgeBackward(k)
  BY DEF BackwardBy, EdgeBackward
<1> HIDE DEF BackwardScores
<1> QED
  BY <1>4, <1>5

\* An edge scores a number, and so do its children.
LEMMA EdgeBackwardIs ==
  ASSUME Scored, NEW v, NEW k \in Incoming(graph, v),
         \A c \in Children(graph.edges[k]) : BackwardScores[c] \in Int
  PROVE  LET C == Children(graph.edges[k])
         IN /\ Score(k) \in Int /\ EdgeBackward(k) \in Int
            /\ EdgeBackward(k) = Score(k) + SumFunctionOnSet([c \in C |-> BackwardScores[c]], C)
<1> DEFINE e == graph.edges[k]
           C == Children(e)
           s == [c \in C |-> BackwardScores[c]]
<1>1. e.feature \in Int /\ IsFiniteSet(C) /\ initWeights \in Int
  BY ChildrenAre DEF Scored
<1>2. Score(k) \in Int
  <2> DEFINE x == e.feature
  <2>1. x \in Int /\ Score(k) = initWeights * x
    BY <1>1 DEF Score
  <2> HIDE DEF x
  <2> QED
    BY <1>1, <2>1
<1>3. EdgeBackward(k) = Score(k) + SumFunction(s) /\ DOMAIN s = C
  BY DEF EdgeBackward
<1>4. \A c \in C : s[c] \in Int
  OBVIOUS
<1> HIDE DEF s, C
<1>5. SumFunction(s) = SumFunctionOnSet(s, C) /\ SumFunctionOnSet(s, C) \in Int
  BY <1>1, <1>3, <1>4, SumOfFunction, SumType
<1> HIDE DEF e
<1>6. EdgeBackward(k) \in Int /\ EdgeBackward(k) = Score(k) + SumFunctionOnSet(s, C)
  BY <1>2, <1>3, <1>5
<1> QED
  BY <1>2, <1>6 DEF s, C, e

\* Backward scores are numbers.
LEMMA BackwardScored ==
  ASSUME Scored
  PROVE  \A v \in Vertices(graph) : BackwardScores[v] \in Int
<1> DEFINE B == {v \in Vertices(graph) : BackwardScores[v] \notin Int}
<1>1. SUFFICES ASSUME B # {} PROVE FALSE
  OBVIOUS
<1>2. PICK v \in B : \A l \in B : v <= l
  <2>1. B \subseteq Nat
    BY DEF Vertices
  <2> HIDE DEF B
  <2> QED
    BY <1>1, <2>1, LeastNat
<1>3. v \in Vertices(graph) /\ BackwardScores[v] \notin Int /\ IsGraph(graph)
  BY DEF Scored
<1>4. ASSUME NEW k \in Incoming(graph, v) PROVE EdgeBackward(k) \in Int
  <2>1. \A c \in Children(graph.edges[k]) : c \in Vertices(graph) /\ c < v
    BY <1>3, ChildrenAre
  <2>2. \A c \in Children(graph.edges[k]) : BackwardScores[c] \in Int
    <3>1. ASSUME NEW c \in Children(graph.edges[k]) PROVE c \notin B
      <4>1. v \in Int /\ c \in Int
        BY <1>3, <2>1 DEF Vertices
      <4> QED
        BY <1>2, <2>1, <4>1
    <3> QED
      BY <2>1, <3>1
  <2> QED
    BY <2>2, EdgeBackwardIs
<1> DEFINE S == {EdgeBackward(k) : k \in Incoming(graph, v)}
<1>5. S # {} /\ \A x \in S : x \in Int
  BY <1>3, <1>4 DEF Scored
<1>6. IsFiniteSet(S)
  <2>1. Incoming(graph, v) \subseteq DOMAIN graph.edges
    BY DEF Incoming
  <2>2. IsFiniteSet(Incoming(graph, v))
    BY <1>3, <2>1, EdgesAre
  <2> DEFINE f == [k \in Incoming(graph, v) |-> EdgeBackward(k)]
  <2>3. S = {f[k] : k \in Incoming(graph, v)}
    OBVIOUS
  <2> HIDE DEF f, S
  <2> QED
    BY <2>2, <2>3, ValuesAreFinite
<1>7. BackwardScores[v] = Max(S)
  BY <1>3, BackwardIs
<1> HIDE DEF S, B
<1>8. Max(S) \in S
  BY <1>5, <1>6, MaxOfNumbers
<1> QED
  BY <1>3, <1>5, <1>7, <1>8

\* No edge into a vertex scores more than the vertex, and one scores as much.
LEMMA BestIncoming ==
  ASSUME Scored, NEW v \in Vertices(graph)
  PROVE  /\ BackwardScores[v] \in Int
         /\ \A k \in Incoming(graph, v) :
              EdgeBackward(k) \in Int /\ EdgeBackward(k) <= BackwardScores[v]
         /\ \E k \in Incoming(graph, v) : EdgeBackward(k) = BackwardScores[v]
<1>0. IsGraph(graph)
  BY DEF Scored
<1>1. ASSUME NEW k \in Incoming(graph, v) PROVE EdgeBackward(k) \in Int
  <2>1. \A c \in Children(graph.edges[k]) : BackwardScores[c] \in Int
    BY <1>0, ChildrenAre, BackwardScored
  <2> QED
    BY <2>1, EdgeBackwardIs
<1> DEFINE S == {EdgeBackward(k) : k \in Incoming(graph, v)}
<1>2. S # {} /\ \A x \in S : x \in Int
  BY <1>1 DEF Scored
<1>3. IsFiniteSet(S)
  <2>1. Incoming(graph, v) \subseteq DOMAIN graph.edges
    BY DEF Incoming
  <2>2. IsFiniteSet(Incoming(graph, v))
    BY <1>0, <2>1, EdgesAre
  <2> DEFINE f == [k \in Incoming(graph, v) |-> EdgeBackward(k)]
  <2>3. S = {f[k] : k \in Incoming(graph, v)}
    OBVIOUS
  <2> HIDE DEF f, S
  <2> QED
    BY <2>2, <2>3, ValuesAreFinite
<1>4. BackwardScores[v] = Max(S)
  BY <1>0, BackwardIs
<1>5. Max(S) \in S /\ \A x \in S : x <= Max(S)
  <2> HIDE DEF S
  <2> QED
    BY <1>2, <1>3, MaxOfNumbers
<1> QED
  BY <1>1, <1>2, <1>4, <1>5

\* A child scores apart from its siblings.
LEMMA SiblingsAre ==
  ASSUME Scored, NEW h, NEW k \in Incoming(graph, h), NEW v \in Children(graph.edges[k])
  PROVE  LET rest == Children(graph.edges[k]) \ {v}
         IN /\ Score(k) \in Int /\ EdgeBackward(k) \in Int /\ BackwardScores[v] \in Int
            /\ Siblings(k, v) \in Int /\ v \in Vertices(graph) /\ v < h /\ h \in Vertices(graph)
            /\ Siblings(k, v) = SumFunctionOnSet([c \in rest |-> BackwardScores[c]], rest)
            /\ EdgeBackward(k) = Score(k) + Siblings(k, v) + BackwardScores[v]
<1> DEFINE C == Children(graph.edges[k])
           R == C \ {v}
           s == [c \in C |-> BackwardScores[c]]
           r == [c \in R |-> BackwardScores[c]]
<1>1. /\ IsFiniteSet(C) /\ IsFiniteSet(R) /\ v \in Vertices(graph) /\ v < h /\ h \in Vertices(graph)
      /\ \A c \in C : BackwardScores[c] \in Int
  <2>1. IsFiniteSet(C) /\ h \in Vertices(graph) /\ \A c \in C : c \in Vertices(graph) /\ c < h
    BY ChildrenAre DEF Scored
  <2>2. IsFiniteSet(R)
    BY <2>1, FS_Subset
  <2> QED
    BY <2>1, <2>2, BackwardScored
<1>2. /\ Score(k) \in Int /\ EdgeBackward(k) \in Int
      /\ EdgeBackward(k) = Score(k) + SumFunctionOnSet(s, C)
  BY <1>1, EdgeBackwardIs
<1>3. /\ \A c \in C : s[c] \in Int /\ s[c] = BackwardScores[c]
      /\ \A c \in R : s[c] \in Int /\ r[c] = s[c]
      /\ DOMAIN r = R /\ Siblings(k, v) = SumFunction(r)
  BY <1>1 DEF Siblings
<1>4. v \in C /\ R \subseteq C
  OBVIOUS
<1> HIDE DEF s, r
<1>5. Siblings(k, v) = SumFunctionOnSet(r, R)
  <2> HIDE DEF R
  <2> QED
    BY <1>3, SumOfFunction
<1>6. SumFunctionOnSet(s, C) = s[v] + SumFunctionOnSet(s, R)
  <2> HIDE DEF C
  <2> QED
    BY <1>1, <1>3, <1>4, SumWithout
<1>7. SumFunctionOnSet(r, R) = SumFunctionOnSet(s, R) /\ SumFunctionOnSet(s, R) \in Int
  <2> HIDE DEF R, C
  <2> QED
    BY <1>1, <1>3, SumsEqual, SumType
<1>8. /\ Siblings(k, v) \in Int
      /\ EdgeBackward(k) = Score(k) + Siblings(k, v) + BackwardScores[v]
  <2>1. s[v] = BackwardScores[v] /\ s[v] \in Int
    BY <1>3
  <2> HIDE DEF R, C
  <2> QED
    BY <1>2, <1>5, <1>6, <1>7, <2>1
<1> QED
  BY <1>1, <1>2, <1>5, <1>8 DEF r

\* A derivation whose siblings of one child score at most, or exactly, as they
\* may does so itself.
LEMMA JoinedAround ==
  ASSUME Scored, NEW h, NEW k \in Incoming(graph, h), NEW v \in Children(graph.edges[k]),
         NEW f, IsChoice(graph, k, f),
         \A c \in Children(graph.edges[k]) \ {v} : initWeights * f[c].feature <= BackwardScores[c]
  PROVE  LET score == initWeights * Joined(graph, k, f).feature
             most == Score(k) + Siblings(k, v) + initWeights * f[v].feature
         IN /\ score \in Int /\ most \in Int /\ initWeights * f[v].feature \in Int
            /\ score <= most
            /\ (\A c \in Children(graph.edges[k]) \ {v} :
                  initWeights * f[c].feature = BackwardScores[c]) => score = most
<1> DEFINE C == Children(graph.edges[k])
           R == C \ {v}
           p == [c \in C |-> initWeights * f[c].feature]
           r == [c \in R |-> BackwardScores[c]]
<1>1. /\ IsFiniteSet(C) /\ IsFiniteSet(R)
      /\ \A c \in C : BackwardScores[c] \in Int
  <2>1. IsFiniteSet(C) /\ \A c \in C : c \in Vertices(graph)
    BY ChildrenAre DEF Scored
  <2>2. IsFiniteSet(R)
    BY <2>1, FS_Subset
  <2> QED
    BY <2>1, <2>2, BackwardScored
<1>2. /\ Score(k) = initWeights * graph.edges[k].feature
      /\ initWeights * graph.edges[k].feature \in Int /\ \A c \in C : p[c] \in Int
      /\ initWeights * Joined(graph, k, f).feature
           = initWeights * graph.edges[k].feature + SumFunctionOnSet(p, C)
  BY JoinedScore DEF Scored, Score
<1>3. Siblings(k, v) \in Int /\ Siblings(k, v) = SumFunctionOnSet(r, R)
  BY SiblingsAre
<1>4. /\ v \in C /\ R \subseteq C
      /\ \A c \in C : p[c] = initWeights * f[c].feature
      /\ \A c \in R : r[c] = BackwardScores[c] /\ r[c] \in Int /\ p[c] \in Int /\ p[c] <= r[c]
  BY <1>1, <1>2
<1>5. (\A c \in R : initWeights * f[c].feature = BackwardScores[c]) => \A c \in R : r[c] = p[c]
  BY <1>4
<1> DEFINE all == initWeights * graph.edges[k].feature
           joined == initWeights * Joined(graph, k, f).feature
           one == initWeights * f[v].feature
           Exact == \A c \in R : initWeights * f[c].feature = BackwardScores[c]
<1>6. p[v] = one /\ one \in Int
  BY <1>2, <1>4
<1> HIDE DEF p, r, C, all, joined, one, Exact
<1>7. SumFunctionOnSet(p, C) = p[v] + SumFunctionOnSet(p, R)
  BY <1>1, <1>2, <1>4, SumWithout DEF R
<1> HIDE DEF R
<1>8. /\ SumFunctionOnSet(p, R) \in Int /\ SumFunctionOnSet(r, R) \in Int
      /\ SumFunctionOnSet(p, R) <= SumFunctionOnSet(r, R)
  BY <1>1, <1>4, SumType, SumsCompare
<1>9. Exact => SumFunctionOnSet(r, R) = SumFunctionOnSet(p, R)
  <2>1. SUFFICES ASSUME Exact PROVE SumFunctionOnSet(r, R) = SumFunctionOnSet(p, R)
    OBVIOUS
  <2>2. \A c \in R : p[c] \in Int /\ r[c] = p[c]
    BY <1>4, <1>5, <2>1 DEF Exact
  <2> QED
    BY <1>1, <2>2, SumsEqual
<1>10. joined = all + SumFunctionOnSet(p, C) /\ Score(k) = all /\ all \in Int
  BY <1>2 DEF all, joined
<1>11. /\ joined \in Int /\ Score(k) + Siblings(k, v) + one \in Int
       /\ joined <= Score(k) + Siblings(k, v) + one
       /\ Exact => joined = Score(k) + Siblings(k, v) + one
  BY <1>3, <1>6, <1>7, <1>8, <1>9, <1>10
<1> QED
  BY <1>6, <1>11 DEF joined, one, Exact, R, C

\* The best that an edge derives is its backward score.
LEMMA JoinedBackward ==
  ASSUME Scored, NEW h, NEW k \in Incoming(graph, h), NEW f, IsChoice(graph, k, f),
         \A c \in Children(graph.edges[k]) : initWeights * f[c].feature <= BackwardScores[c]
  PROVE  LET score == initWeights * Joined(graph, k, f).feature
         IN /\ score \in Int /\ EdgeBackward(k) \in Int
            /\ score <= EdgeBackward(k)
            /\ (\A c \in Children(graph.edges[k]) :
                  initWeights * f[c].feature = BackwardScores[c]) => score = EdgeBackward(k)
<1> DEFINE C == Children(graph.edges[k])
           p == [c \in C |-> initWeights * f[c].feature]
           s == [c \in C |-> BackwardScores[c]]
<1>1. IsFiniteSet(C) /\ \A c \in C : BackwardScores[c] \in Int
  <2>1. IsFiniteSet(C) /\ \A c \in C : c \in Vertices(graph)
    BY ChildrenAre DEF Scored
  <2> QED
    BY <2>1, BackwardScored
<1>2. /\ Score(k) = initWeights * graph.edges[k].feature
      /\ initWeights * graph.edges[k].feature \in Int /\ \A c \in C : p[c] \in Int
      /\ initWeights * Joined(graph, k, f).feature
           = initWeights * graph.edges[k].feature + SumFunctionOnSet(p, C)
  BY JoinedScore DEF Scored, Score
<1>3. EdgeBackward(k) \in Int /\ EdgeBackward(k) = Score(k) + SumFunctionOnSet(s, C)
  BY <1>1, EdgeBackwardIs
<1>4. \A c \in C : p[c] = initWeights * f[c].feature /\ s[c] = BackwardScores[c]
  OBVIOUS
<1>5. \A c \in C : p[c] \in Int /\ s[c] \in Int /\ p[c] <= s[c]
  BY <1>1, <1>2
<1> DEFINE all == initWeights * graph.edges[k].feature
           joined == initWeights * Joined(graph, k, f).feature
           Exact == \A c \in C : initWeights * f[c].feature = BackwardScores[c]
<1> HIDE DEF p, s, C, all, joined, Exact
<1>6. /\ SumFunctionOnSet(p, C) \in Int /\ SumFunctionOnSet(s, C) \in Int
      /\ SumFunctionOnSet(p, C) <= SumFunctionOnSet(s, C)
  BY <1>1, <1>5, SumType, SumsCompare
<1>7. Exact => SumFunctionOnSet(s, C) = SumFunctionOnSet(p, C)
  <2>1. SUFFICES ASSUME Exact PROVE SumFunctionOnSet(s, C) = SumFunctionOnSet(p, C)
    OBVIOUS
  <2>2. \A c \in C : p[c] \in Int /\ s[c] = p[c]
    BY <1>4, <1>5, <2>1 DEF Exact
  <2> QED
    BY <1>1, <2>2, SumsEqual
<1>8. joined = all + SumFunctionOnSet(p, C) /\ Score(k) = all /\ all \in Int
  BY <1>2 DEF all, joined
<1>9. /\ joined \in Int /\ joined <= EdgeBackward(k)
      /\ Exact => joined = EdgeBackward(k)
  BY <1>3, <1>6, <1>7, <1>8
<1> QED
  BY <1>3, <1>9 DEF joined, Exact, C

\* d is a derivation of v that scores as much as v.
BestOf(v, d) ==
  d \in Derivations(graph)[v] /\ initWeights * d.feature = BackwardScores[v]

\* Best derivations of the children make a choice for the edge.
LEMMA BestChoice ==
  ASSUME NEW k, \A c \in Children(graph.edges[k]) : \E d : BestOf(c, d)
  PROVE  \E f : /\ IsChoice(graph, k, f)
                /\ \A c \in Children(graph.edges[k]) : BestOf(c, f[c])
<1> DEFINE C == Children(graph.edges[k])
           f == [c \in C |-> CHOOSE d : BestOf(c, d)]
<1>1. \A c \in C : BestOf(c, f[c])
  OBVIOUS
<1>2. f = [c \in C |-> f[c]]
  OBVIOUS
<1> HIDE DEF f
<1>3. \A c \in C : f[c] \in Derivations(graph)[c]
  BY <1>1 DEF BestOf
<1>4. f \in [C -> UNION {Derivations(graph)[c] : c \in C}]
  BY <1>2, <1>3
<1>5. IsChoice(graph, k, f)
  BY <1>3, <1>4 DEF IsChoice
<1> QED
  BY <1>1, <1>5

\* The backward score of a vertex is the best score of what it derives.
LEMMA BackwardIsBest ==
  ASSUME Scored
  PROVE  \A v \in Vertices(graph) :
           /\ \A d \in Derivations(graph)[v] : initWeights * d.feature <= BackwardScores[v]
           /\ \E d : BestOf(v, d)
<1> DEFINE Right(v) ==
             /\ \A d \in Derivations(graph)[v] : initWeights * d.feature <= BackwardScores[v]
             /\ \E d : BestOf(v, d)
           B == {v \in Vertices(graph) : ~Right(v)}
<1>1. SUFFICES ASSUME B # {} PROVE FALSE
  OBVIOUS
<1>2. PICK v \in B : \A l \in B : v <= l
  <2>1. B \subseteq Nat
    BY DEF Vertices
  <2> HIDE DEF B
  <2> QED
    BY <1>1, <2>1, LeastNat
<1>3. v \in Vertices(graph) /\ ~Right(v) /\ IsGraph(graph)
  BY DEF Scored
<1>4. ASSUME NEW k \in Incoming(graph, v), NEW c \in Children(graph.edges[k]) PROVE Right(c)
  <2>1. c \in Vertices(graph) /\ c < v /\ v \in Vertices(graph)
    BY <1>3, ChildrenAre
  <2>2. c \notin B
    <3>1. c \in Int /\ v \in Int
      BY <2>1 DEF Vertices
    <3> QED
      BY <1>2, <2>1, <3>1
  <2> QED
    BY <2>1, <2>2
<1> HIDE DEF B
<1>5. ASSUME NEW d \in Derivations(graph)[v] PROVE initWeights * d.feature <= BackwardScores[v]
  <2>1. PICK k \in Incoming(graph, v) : \E f : IsChoice(graph, k, f) /\ d = Joined(graph, k, f)
    BY <1>3, DerivationIs
  <2>2. PICK f : IsChoice(graph, k, f) /\ d = Joined(graph, k, f)
    BY <2>1
  <2>3. \A c \in Children(graph.edges[k]) : initWeights * f[c].feature <= BackwardScores[c]
    BY <1>4, <2>2 DEF IsChoice
  <2> DEFINE x == initWeights * Joined(graph, k, f).feature
  <2>4. x \in Int /\ EdgeBackward(k) \in Int /\ x <= EdgeBackward(k)
    BY <2>2, <2>3, JoinedBackward
  <2>5. EdgeBackward(k) <= BackwardScores[v] /\ BackwardScores[v] \in Int
    BY <1>3, BestIncoming
  <2>6. x = initWeights * d.feature
    BY <2>2
  <2> HIDE DEF x
  <2> QED
    BY <2>4, <2>5, <2>6
<1>6. \E d : BestOf(v, d)
  <2>1. PICK k \in Incoming(graph, v) : EdgeBackward(k) = BackwardScores[v]
    BY <1>3, BestIncoming
  <2>2. PICK f : /\ IsChoice(graph, k, f)
                 /\ \A c \in Children(graph.edges[k]) : BestOf(c, f[c])
    BY <1>4, BestChoice
  <2>3. \A c \in Children(graph.edges[k]) :
          /\ initWeights * f[c].feature <= BackwardScores[c]
          /\ initWeights * f[c].feature = BackwardScores[c]
    <3>1. \A c \in Children(graph.edges[k]) : BackwardScores[c] \in Int
      BY <1>3, ChildrenAre, BackwardScored
    <3> QED
      BY <2>2, <3>1 DEF BestOf
  <2>4. initWeights * Joined(graph, k, f).feature = EdgeBackward(k)
    BY <2>2, <2>3, JoinedBackward
  <2>5. Joined(graph, k, f) \in Derivations(graph)[v]
    BY <1>3, <2>2, DerivationIs
  <2> QED
    BY <2>1, <2>4, <2>5 DEF BestOf
<1> QED
  BY <1>3, <1>5, <1>6

\* An edge out of a vertex goes into one after it.
LEMMA OutgoingAre ==
  ASSUME IsGraph(graph), NEW v, NEW k \in Outgoing(v)
  PROVE  LET h == graph.edges[k].head
         IN /\ k \in DOMAIN graph.edges /\ k \in Incoming(graph, h) /\ v \in Children(graph.edges[k])
            /\ v \in Nat /\ h \in Nat /\ v \in 0 .. graph.size - 1 /\ h \in v + 1 .. graph.size - 1
            /\ v \in Vertices(graph) /\ h \in Vertices(graph) /\ v < h
<1>1. /\ k \in DOMAIN graph.edges /\ v \in Children(graph.edges[k])
      /\ k \in Incoming(graph, graph.edges[k].head)
  BY DEF Outgoing, Incoming
<1>2. v \in Vertices(graph) /\ graph.edges[k].head \in Vertices(graph) /\ v < graph.edges[k].head
  BY <1>1, ChildrenAre
<1>3. graph.size \in Nat
  BY DEF IsGraph
<1> QED
  BY <1>1, <1>2, <1>3 DEF Vertices

\* The forward score of a vertex by those of the heads of its edges, and those of
\* the vertices from n on by what of gives.
AroundBy(of, k, v) == Siblings(k, v) + of[graph.edges[k].head] + Score(k)
ForwardOf(of, v) ==
  IF Outgoing(v) = {} THEN 0 ELSE Max({AroundBy(of, k, v) : k \in Outgoing(v)})
ForwardFrom(n, of) == [v \in n .. graph.size - 1 |-> ForwardOf(of, v)]

\* A forward score depends on those of the heads only.
LEMMA ForwardOfHeads ==
  ASSUME NEW v, NEW p, NEW q,
         \A k \in Outgoing(v) : p[graph.edges[k].head] = q[graph.edges[k].head]
  PROVE  ForwardOf(p, v) = ForwardOf(q, v)
<1>1. \A k \in Outgoing(v) : AroundBy(p, k, v) = AroundBy(q, k, v)
  BY DEF AroundBy
<1>2. {AroundBy(p, k, v) : k \in Outgoing(v)} = {AroundBy(q, k, v) : k \in Outgoing(v)}
  BY <1>1
<1> QED
  BY <1>2 DEF ForwardOf

\* The forward scores of the last m vertices exist.
LEMMA ForwardExists ==
  ASSUME IsGraph(graph), NEW n \in 0 .. graph.size
  PROVE  \E of : of = ForwardFrom(graph.size - n, of)
<1> DEFINE B == {m \in 0 .. graph.size : ~\E of : of = ForwardFrom(graph.size - m, of)}
<1>0. graph.size \in Nat
  BY DEF IsGraph
<1>1. SUFFICES ASSUME B # {} PROVE FALSE
  OBVIOUS
<1>2. PICK m \in B : \A l \in B : m <= l
  <2>1. B \subseteq Nat
    BY <1>0
  <2> HIDE DEF B
  <2> QED
    BY <1>1, <2>1, LeastNat
<1> DEFINE s == graph.size - m
<1>2a. s \in Nat /\ s <= graph.size /\ m \in 0 .. graph.size
  BY <1>0
<1>3. CASE m = 0
  <2> DEFINE of == [v \in {} |-> 0]
  <2>1. s .. graph.size - 1 = {}
    BY <1>0, <1>3
  <2>2. of = ForwardFrom(s, of)
    BY <2>1 DEF ForwardFrom
  <2> QED
    BY <2>2
<1>4. CASE m # 0
  <2>1. m - 1 \in 0 .. graph.size /\ ~(m <= m - 1) /\ graph.size - (m - 1) = s + 1
    BY <1>0, <1>2a, <1>4
  <2>2. m - 1 \notin B
    BY <1>2, <2>1
  <2>3. PICK of : of = ForwardFrom(s + 1, of)
    BY <2>1, <2>2
  <2> DEFINE new == ForwardFrom(s, of)
  <2>4. ASSUME NEW c \in s + 1 .. graph.size - 1 PROVE new[c] = of[c]
    <3>1. c \in s .. graph.size - 1
      BY <1>0, <1>2a
    <3> QED
      BY <2>3, <3>1 DEF ForwardFrom
  <2>5. ASSUME NEW v \in s .. graph.size - 1 PROVE ForwardOf(of, v) = ForwardOf(new, v)
    <3>1. ASSUME NEW k \in Outgoing(v) PROVE of[graph.edges[k].head] = new[graph.edges[k].head]
      <4> DEFINE h == graph.edges[k].head
      <4>1. h \in v + 1 .. graph.size - 1
        BY OutgoingAre
      <4>2. h \in s + 1 .. graph.size - 1
        <5> HIDE DEF h
        <5> QED
          BY <1>0, <1>2a, <4>1
      <4> HIDE DEF h, new
      <4>3. new[h] = of[h]
        BY <2>4, <4>2
      <4> QED
        BY <4>3 DEF h
    <3> HIDE DEF new
    <3> QED
      BY <3>1, ForwardOfHeads
  <2>6. new = ForwardFrom(s, new)
    <3> DEFINE other == ForwardFrom(s, new)
    <3>1. /\ new = [v \in s .. graph.size - 1 |-> ForwardOf(of, v)]
          /\ other = [v \in s .. graph.size - 1 |-> ForwardOf(new, v)]
      BY DEF ForwardFrom
    <3> HIDE DEF new, other, s
    <3>2. new = other
      BY <2>5, <3>1
    <3> QED
      BY <3>2 DEF other
  <2> HIDE DEF new
  <2> QED
    BY <2>6
<1> QED
  BY <1>3, <1>4

\* The forward score of a vertex is by those of the heads of its edges.
LEMMA ForwardIs ==
  ASSUME IsGraph(graph), NEW v \in Vertices(graph)
  PROVE  ForwardScores[v] = ForwardOf(ForwardScores, v)
<1>1. ForwardScores = CHOOSE of : of = [v_1 \in Vertices(graph) |-> ForwardOf(of, v_1)]
  BY DEF ForwardScores, ForwardOf, AroundBy
<1>2. graph.size \in Nat /\ graph.size \in 0 .. graph.size /\ graph.size - graph.size = 0
  BY DEF IsGraph
<1>3. \E of : of = ForwardFrom(0, of)
  BY <1>2, ForwardExists
<1>4. \A of : ForwardFrom(0, of) = [v_1 \in Vertices(graph) |-> ForwardOf(of, v_1)]
  BY DEF ForwardFrom, Vertices
<1>5. ForwardScores = ForwardFrom(0, ForwardScores)
  <2> HIDE DEF ForwardScores, ForwardFrom, ForwardOf
  <2> QED
    BY <1>1, <1>3, <1>4
<1> QED
  BY <1>5 DEF ForwardFrom, Vertices

\* Forward scores are numbers: 0 where nothing goes out, or that of an edge out
\* of the vertex that no other exceeds.
LEMMA BestOutgoing ==
  ASSUME Scored
  PROVE  \A v \in Vertices(graph) :
           /\ ForwardScores[v] \in Int
           /\ Outgoing(v) = {} => ForwardScores[v] = 0
           /\ \A k \in Outgoing(v) : AroundBy(ForwardScores, k, v) <= ForwardScores[v]
           /\ Outgoing(v) # {} =>
                \E k \in Outgoing(v) : AroundBy(ForwardScores, k, v) = ForwardScores[v]
<1> DEFINE Right(v) ==
             /\ ForwardScores[v] \in Int
             /\ Outgoing(v) = {} => ForwardScores[v] = 0
             /\ \A k \in Outgoing(v) : AroundBy(ForwardScores, k, v) <= ForwardScores[v]
             /\ Outgoing(v) # {} =>
                  \E k \in Outgoing(v) : AroundBy(ForwardScores, k, v) = ForwardScores[v]
           B == {v \in Vertices(graph) : ~Right(v)}
<1>0. IsGraph(graph) /\ graph.size \in Nat
  BY DEF Scored, IsGraph
<1>1. SUFFICES ASSUME B # {} PROVE FALSE
  OBVIOUS
<1>2. PICK v \in B : \A l \in B : l <= v
  <2>1. 0 \in Int /\ graph.size - 1 \in Int
    BY <1>0
  <2>2. IsFiniteSet(0 .. graph.size - 1)
    BY <2>1, FS_Interval
  <2>3. IsFiniteSet(B) /\ \A l \in B : l \in Int
    <3>1. B \subseteq 0 .. graph.size - 1
      BY DEF Vertices
    <3>2. \A l \in 0 .. graph.size - 1 : l \in Int
      OBVIOUS
    <3> DEFINE R == 0 .. graph.size - 1
    <3> HIDE DEF B, R
    <3>3. B \in SUBSET R
      BY <3>1 DEF R
    <3>4. IsFiniteSet(R)
      BY <2>2 DEF R
    <3>5. IsFiniteSet(B)
      BY <3>3, <3>4, FS_Subset
    <3> QED
      BY <3>1, <3>2, <3>5
  <2> HIDE DEF B
  <2> QED
    BY <1>1, <2>3, MaxOfNumbers
<1>3. v \in Vertices(graph) /\ ~Right(v)
  OBVIOUS
<1>4. ASSUME NEW k \in Outgoing(v)
      PROVE  AroundBy(ForwardScores, k, v) \in Int
  <2> DEFINE h == graph.edges[k].head
  <2>1. k \in Incoming(graph, h) /\ v \in Children(graph.edges[k]) /\ h \in Vertices(graph)
        /\ v \in Nat /\ h \in Nat /\ v < h
    BY <1>0, OutgoingAre
  <2>2. Right(h)
    <3>1. h \notin B
      <4> HIDE DEF h, B
      <4> QED
        BY <1>2, <2>1
    <3> QED
      BY <2>1, <3>1
  <2>3. ForwardScores[h] \in Int
    BY <2>2
  <2>4. Siblings(k, v) \in Int /\ Score(k) \in Int
    BY <2>1, SiblingsAre
  <2> QED
    BY <2>3, <2>4 DEF AroundBy
<1> HIDE DEF B
<1>5. ForwardScores[v] = ForwardOf(ForwardScores, v)
  BY <1>0, <1>3, ForwardIs
<1>6. CASE Outgoing(v) = {}
  <2>1. ForwardScores[v] = 0
    BY <1>5, <1>6 DEF ForwardOf
  <2> QED
    BY <1>3, <1>6, <2>1
<1>7. CASE Outgoing(v) # {}
  <2> DEFINE f == [k \in Outgoing(v) |-> AroundBy(ForwardScores, k, v)]
             S == {f[k] : k \in Outgoing(v)}
  <2>1. S # {} /\ \A x \in S : x \in Int
    BY <1>4, <1>7
  <2>2. IsFiniteSet(Outgoing(v))
    <3>1. Outgoing(v) \subseteq DOMAIN graph.edges
      BY DEF Outgoing
    <3> QED
      BY <1>0, <3>1, EdgesAre
  <2>3. IsFiniteSet(S)
    <3> HIDE DEF f
    <3> QED
      BY <2>2, ValuesAreFinite
  <2>4. S = {AroundBy(ForwardScores, k, v) : k \in Outgoing(v)}
    OBVIOUS
  <2>5. ForwardScores[v] = Max(S)
    BY <1>5, <1>7, <2>4 DEF ForwardOf
  <2>6. Max(S) \in S /\ \A x \in S : x <= Max(S)
    <3> HIDE DEF S
    <3> QED
      BY <2>1, <2>3, MaxOfNumbers
  <2>7. /\ ForwardScores[v] \in Int
        /\ \A k \in Outgoing(v) : AroundBy(ForwardScores, k, v) <= ForwardScores[v]
        /\ \E k \in Outgoing(v) : AroundBy(ForwardScores, k, v) = ForwardScores[v]
    <3> HIDE DEF S
    <3> QED
      BY <2>1, <2>4, <2>5, <2>6
  <2> QED
    BY <1>3, <1>7, <2>7
<1> QED
  BY <1>6, <1>7

\* The best score of what an edge is part of.
Through(k) == ForwardScores[graph.edges[k].head] + EdgeBackward(k)

\* A vertex scores, around and below, as the best edge out of it and, at a root
\* or not, as the best edge into it.
LEMMA ThroughVertex ==
  ASSUME Scored, NEW v \in Vertices(graph)
  PROVE  LET best == ForwardScores[v] + BackwardScores[v]
         IN /\ best \in Int
            /\ \A k \in Incoming(graph, v) \cup Outgoing(v) : Through(k) \in Int /\ Through(k) <= best
            /\ \E k \in Incoming(graph, v) : Through(k) = best
<1> DEFINE best == ForwardScores[v] + BackwardScores[v]
<1>1. ForwardScores[v] \in Int /\ BackwardScores[v] \in Int
  BY BestOutgoing, BestIncoming
<1>2. ASSUME NEW k \in Incoming(graph, v)
      PROVE  Through(k) = ForwardScores[v] + EdgeBackward(k) /\ EdgeBackward(k) \in Int
             /\ EdgeBackward(k) <= BackwardScores[v]
  <2>1. graph.edges[k].head = v
    BY DEF Incoming
  <2> QED
    BY <2>1, BestIncoming DEF Through
<1>3. ASSUME NEW k \in Outgoing(v)
      PROVE  Through(k) \in Int /\ Through(k) <= best
  <2> DEFINE h == graph.edges[k].head
  <2>1. k \in Incoming(graph, h) /\ v \in Children(graph.edges[k]) /\ h \in Vertices(graph)
    BY OutgoingAre DEF Scored
  <2>2. /\ Siblings(k, v) \in Int /\ Score(k) \in Int /\ EdgeBackward(k) \in Int
        /\ EdgeBackward(k) = Score(k) + Siblings(k, v) + BackwardScores[v]
    BY <2>1, SiblingsAre
  <2>3. ForwardScores[h] \in Int
    BY <2>1, BestOutgoing
  <2>4. Siblings(k, v) + ForwardScores[h] + Score(k) <= ForwardScores[v]
    BY BestOutgoing DEF AroundBy
  <2> HIDE DEF h
  <2>5. Through(k) = ForwardScores[h] + EdgeBackward(k)
    BY DEF Through, h
  <2> QED
    BY <1>1, <2>2, <2>3, <2>4, <2>5
<1>4. PICK k \in Incoming(graph, v) : EdgeBackward(k) = BackwardScores[v]
  BY BestIncoming
<1>5. Through(k) = best
  BY <1>2, <1>4
<1>6. \A l \in Incoming(graph, v) : Through(l) \in Int /\ Through(l) <= best
  BY <1>1, <1>2
<1> QED
  BY <1>1, <1>3, <1>5, <1>6

\* No derivation scores more, with what is best around it, than an edge of it.
LEMMA EdgeBounds ==
  ASSUME Scored
  PROVE  \A v \in Vertices(graph) : \A d \in Derivations(graph)[v] : \A k \in d.edges :
           /\ k \in DOMAIN graph.edges
           /\ initWeights * d.feature + ForwardScores[v] <= Through(k)
<1> DEFINE Right(v) ==
             \A d \in Derivations(graph)[v] : \A k \in d.edges :
               /\ k \in DOMAIN graph.edges
               /\ initWeights * d.feature + ForwardScores[v] <= Through(k)
           B == {v \in Vertices(graph) : ~Right(v)}
<1>1. SUFFICES ASSUME B # {} PROVE FALSE
  OBVIOUS
<1>2. PICK v \in B : \A l \in B : v <= l
  <2>1. B \subseteq Nat
    BY DEF Vertices
  <2> HIDE DEF B
  <2> QED
    BY <1>1, <2>1, LeastNat
<1>3. v \in Vertices(graph) /\ ~Right(v) /\ IsGraph(graph)
  BY DEF Scored
<1>4. ASSUME NEW k \in Incoming(graph, v), NEW c \in Children(graph.edges[k])
      PROVE  Right(c) /\ c \in Vertices(graph)
  <2>1. c \in Vertices(graph) /\ c < v /\ v \in Vertices(graph)
    BY <1>3, ChildrenAre
  <2>2. c \notin B
    <3>1. c \in Int /\ v \in Int
      BY <2>1 DEF Vertices
    <3> QED
      BY <1>2, <2>1, <3>1
  <2> QED
    BY <2>1, <2>2
<1> HIDE DEF B
<1>5. ASSUME NEW d \in Derivations(graph)[v], NEW k \in d.edges
      PROVE  /\ k \in DOMAIN graph.edges
             /\ initWeights * d.feature + ForwardScores[v] <= Through(k)
  <2>1. PICK l \in Incoming(graph, v) : \E f : IsChoice(graph, l, f) /\ d = Joined(graph, l, f)
    BY <1>3, DerivationIs
  <2>2. PICK f : IsChoice(graph, l, f) /\ d = Joined(graph, l, f)
    BY <2>1
  <2> DEFINE C == Children(graph.edges[l])
             x == initWeights * d.feature
  <2>3. \A c \in C : f[c] \in Derivations(graph)[c] /\ c \in Vertices(graph)
    BY <1>4, <2>2 DEF IsChoice
  <2>4. \A c \in C : initWeights * f[c].feature <= BackwardScores[c]
    BY <2>3, BackwardIsBest
  <2>5. d.edges = {l} \cup UNION {f[c].edges : c \in C}
    BY <2>2 DEF Joined
  <2>6. ForwardScores[v] \in Int
    BY <1>3, BestOutgoing
  <2>7. CASE k = l
    <3>1. x \in Int /\ EdgeBackward(l) \in Int /\ x <= EdgeBackward(l)
      BY <2>2, <2>4, JoinedBackward
    <3>2. graph.edges[k].head = v /\ k \in DOMAIN graph.edges
      BY <2>7 DEF Incoming
    <3>3. Through(k) = ForwardScores[v] + EdgeBackward(l)
      BY <2>7, <3>2 DEF Through
    <3> HIDE DEF x
    <3>4. x + ForwardScores[v] <= Through(k)
      BY <2>6, <3>1, <3>3
    <3> QED
      BY <3>2, <3>4 DEF x
  <2>8. ASSUME NEW c \in C, k \in f[c].edges
        PROVE  /\ k \in DOMAIN graph.edges
               /\ x + ForwardScores[v] <= Through(k)
    <3> DEFINE y == initWeights * f[c].feature
    <3>1. /\ k \in DOMAIN graph.edges
          /\ y + ForwardScores[c] <= Through(k)
      BY <1>4, <2>3, <2>8
    <3>2. /\ x \in Int /\ y \in Int /\ x <= Score(l) + Siblings(l, c) + y
      BY <2>2, <2>4, JoinedAround
    <3>3. l \in Outgoing(c) /\ graph.edges[l].head = v
      BY DEF Incoming, Outgoing
    <3>4. /\ ForwardScores[c] \in Int
          /\ Siblings(l, c) + ForwardScores[v] + Score(l) <= ForwardScores[c]
      BY <2>3, <3>3, BestOutgoing DEF AroundBy
    <3>5. Siblings(l, c) \in Int /\ Score(l) \in Int
      BY SiblingsAre
    <3>6. Through(k) \in Int
      <4>1. k \in Incoming(graph, graph.edges[k].head)
        BY <3>1 DEF Incoming
      <4>2. graph.edges[k].head \in Vertices(graph)
        BY <1>3, <4>1, ChildrenAre
      <4> QED
        BY <4>1, <4>2, ThroughVertex
    <3> HIDE DEF x, y
    <3> QED
      BY <2>6, <3>1, <3>2, <3>4, <3>5, <3>6
  <2> QED
    BY <2>5, <2>7, <2>8
<1> QED
  BY <1>3, <1>5

\* A derivation is part of one of a root that scores as what is best around it.
LEMMA DerivationExtends ==
  ASSUME Scored
  PROVE  \A v \in Vertices(graph) : \A o \in Derivations(graph)[v] :
           \E r \in Roots(graph) : \E d \in Derivations(graph)[r] :
             /\ o.edges \subseteq d.edges
             /\ initWeights * d.feature = ForwardScores[v] + initWeights * o.feature
<1> DEFINE Right(v) ==
             \A o \in Derivations(graph)[v] :
               \E r \in Roots(graph) : \E d \in Derivations(graph)[r] :
                 /\ o.edges \subseteq d.edges
                 /\ initWeights * d.feature = ForwardScores[v] + initWeights * o.feature
           B == {v \in Vertices(graph) : ~Right(v)}
<1>0. IsGraph(graph) /\ graph.size \in Nat
  BY DEF Scored, IsGraph
<1>1. SUFFICES ASSUME B # {} PROVE FALSE
  OBVIOUS
<1>2. PICK v \in B : \A l \in B : l <= v
  <2> DEFINE R == 0 .. graph.size - 1
  <2>1. 0 \in Int /\ graph.size - 1 \in Int
    BY <1>0
  <2>2. IsFiniteSet(R) /\ \A l \in R : l \in Int
    BY <2>1, FS_Interval
  <2>3. B \in SUBSET R
    BY DEF Vertices
  <2> HIDE DEF B, R
  <2>4. IsFiniteSet(B)
    BY <2>2, <2>3, FS_Subset
  <2> QED
    BY <1>1, <2>2, <2>3, <2>4, MaxOfNumbers
<1>3. v \in Vertices(graph) /\ ~Right(v)
  OBVIOUS
<1>4. PICK o \in Derivations(graph)[v] :
        ~\E r \in Roots(graph) : \E d \in Derivations(graph)[r] :
           /\ o.edges \subseteq d.edges
           /\ initWeights * d.feature = ForwardScores[v] + initWeights * o.feature
  BY <1>3
<1> DEFINE x == initWeights * o.feature
<1>4a. x \in Int
  <2>1. o.feature \in Int /\ initWeights \in Int
    BY <1>0, <1>3, FeaturesAreNumbers DEF Scored
  <2> DEFINE y == o.feature
  <2> HIDE DEF y
  <2>2. y \in Int => initWeights * y \in Int
    BY <2>1
  <2> QED
    BY <2>1, <2>2 DEF y
<1>5. CASE Outgoing(v) = {}
  <2>1. v \in Roots(graph)
    BY <1>3, <1>5 DEF Roots, Outgoing
  <2>2. ForwardScores[v] = 0
    BY <1>3, <1>5, BestOutgoing
  <2>3. x = ForwardScores[v] + x
    <3> HIDE DEF x
    <3> QED
      BY <1>4a, <2>2
  <2> QED
    BY <1>4, <2>1, <2>3
<1>6. CASE Outgoing(v) # {}
  <2>1. PICK l \in Outgoing(v) : AroundBy(ForwardScores, l, v) = ForwardScores[v]
    BY <1>3, <1>6, BestOutgoing
  <2> DEFINE h == graph.edges[l].head
             C == Children(graph.edges[l])
  <2>2. l \in Incoming(graph, h) /\ v \in C /\ h \in Vertices(graph) /\ v < h
        /\ v \in Int /\ h \in Int
    BY <1>0, OutgoingAre
  <2>3. Right(h)
    <3>1. h \notin B
      BY <1>2, <2>2
    <3> QED
      BY <2>2, <3>1
  <2>4. PICK f : IsChoice(graph, l, f) /\ \A c \in C : BestOf(c, f[c])
    <3>1. \A c \in C : c \in Vertices(graph)
      BY <1>0, <2>2, ChildrenAre
    <3>2. \A c \in C : \E d : BestOf(c, d)
      BY <3>1, BackwardIsBest
    <3> QED
      BY <3>2, BestChoice
  <2> DEFINE q == [c \in C |-> IF c = v THEN o ELSE f[c]]
  <2>5. q[v] = o /\ \A c \in C \ {v} : q[c] = f[c]
    BY <2>2
  <2>6. IsChoice(graph, l, q)
    <3>1. \A c \in C : q[c] \in Derivations(graph)[c]
      BY <2>4 DEF IsChoice
    <3>2. q \in [C -> UNION {Derivations(graph)[c] : c \in C}]
      BY <3>1
    <3> QED
      BY <3>1, <3>2 DEF IsChoice
  <2>7. \A c \in C \ {v} :
          /\ initWeights * q[c].feature = BackwardScores[c]
          /\ initWeights * q[c].feature <= BackwardScores[c]
    <3>1. \A c \in C : BackwardScores[c] \in Int
      BY <1>0, <2>2, ChildrenAre, BackwardScored
    <3> HIDE DEF q
    <3> QED
      BY <2>4, <2>5, <3>1 DEF BestOf
  <2> HIDE DEF q, B, Right
  <2> DEFINE j == Joined(graph, l, q)
             y == initWeights * j.feature
  <2>8. y \in Int /\ y = Score(l) + Siblings(l, v) + x
    <3>1. y = Score(l) + Siblings(l, v) + initWeights * q[v].feature /\ y \in Int
      BY <2>2, <2>6, <2>7, JoinedAround
    <3> QED
      BY <2>5, <3>1
  <2>9. j \in Derivations(graph)[h] /\ o.edges \subseteq j.edges
    <3>1. j \in Derivations(graph)[h]
      BY <1>0, <2>2, <2>6, DerivationIs
    <3>2. o.edges \subseteq j.edges
      BY <2>2, <2>5 DEF Joined
    <3> QED
      BY <3>1, <3>2
  <2> HIDE DEF j
  <2>10. PICK r \in Roots(graph) : \E d \in Derivations(graph)[r] :
           j.edges \subseteq d.edges /\ initWeights * d.feature = ForwardScores[h] + y
    BY <2>3, <2>9 DEF Right
  <2>11. PICK d \in Derivations(graph)[r] :
           j.edges \subseteq d.edges /\ initWeights * d.feature = ForwardScores[h] + y
    BY <2>10
  <2>12. ForwardScores[h] + y = ForwardScores[v] + x
    <3>1. Siblings(l, v) + ForwardScores[h] + Score(l) = ForwardScores[v]
      BY <2>1 DEF AroundBy
    <3>2. Siblings(l, v) \in Int /\ Score(l) \in Int /\ ForwardScores[h] \in Int
      BY <2>2, SiblingsAre, BestOutgoing
    <3> HIDE DEF y, x, h
    <3> QED
      BY <1>4a, <2>8, <3>1, <3>2
  <2> QED
    BY <1>4, <2>9, <2>11, <2>12
<1> QED
  BY <1>5, <1>6

\* The best score of the derivations of the roots that an edge is part of.
LEMMA BestThrough ==
  ASSUME Scored, NEW k \in DOMAIN graph.edges
  PROVE  LET of == Derivations(graph)
             through == {d \in UNION {of[v] : v \in Roots(graph)} : k \in d.edges}
         IN /\ Max({initWeights * d.feature : d \in through}) = Through(k)
            /\ Through(k) \in Int
            /\ \E d \in through : initWeights * d.feature = Through(k)
<1> DEFINE of == Derivations(graph)
           through == {d \in UNION {of[v] : v \in Roots(graph)} : k \in d.edges}
           S == {initWeights * d.feature : d \in through}
           h == graph.edges[k].head
<1>1. IsGraph(graph) /\ initWeights \in Int
  BY DEF Scored
<1>2. k \in Incoming(graph, h) /\ h \in Vertices(graph)
  <2>1. k \in Incoming(graph, h)
    BY DEF Incoming
  <2> QED
    BY <1>1, <2>1, ChildrenAre
<1>3. Through(k) \in Int
  BY <1>2, ThroughVertex
<1>4. ASSUME NEW d \in through
      PROVE  initWeights * d.feature \in Int /\ initWeights * d.feature <= Through(k)
  <2>1. PICK v \in Roots(graph) : d \in of[v]
    OBVIOUS
  <2>2. v \in Vertices(graph) /\ Outgoing(v) = {}
    BY <2>1 DEF Roots, Outgoing
  <2>3. initWeights * d.feature + ForwardScores[v] <= Through(k)
    BY <2>1, <2>2, EdgeBounds
  <2>4. ForwardScores[v] = 0
    BY <2>2, BestOutgoing
  <2>5. d.feature \in Int
    BY <1>1, <2>1, <2>2, FeaturesAreNumbers
  <2> DEFINE x == d.feature
  <2>6. x \in Int /\ initWeights * x + 0 <= Through(k)
    BY <2>3, <2>4, <2>5
  <2> HIDE DEF x
  <2>7. initWeights * x \in Int
    BY <1>1, <2>6
  <2>8. initWeights * x \in Int /\ initWeights * x <= Through(k)
    BY <2>6, <2>7
  <2> QED
    BY <2>8 DEF x
<1>5. \E d \in through : initWeights * d.feature = Through(k)
  <2>1. \A c \in Children(graph.edges[k]) : c \in Vertices(graph)
    BY <1>1, <1>2, ChildrenAre
  <2>2. PICK f : /\ IsChoice(graph, k, f)
                 /\ \A c \in Children(graph.edges[k]) : BestOf(c, f[c])
    BY <2>1, BackwardIsBest, BestChoice
  <2>3. \A c \in Children(graph.edges[k]) :
          /\ initWeights * f[c].feature <= BackwardScores[c]
          /\ initWeights * f[c].feature = BackwardScores[c]
    BY <2>1, <2>2, BackwardScored DEF BestOf
  <2> DEFINE j == Joined(graph, k, f)
  <2>4. initWeights * j.feature = EdgeBackward(k)
    BY <1>2, <2>2, <2>3, JoinedBackward
  <2>5. j \in of[h] /\ k \in j.edges
    <3>1. j \in of[h]
      BY <1>1, <1>2, <2>2, DerivationIs
    <3>2. k \in j.edges
      BY DEF Joined
    <3> QED
      BY <3>1, <3>2
  <2> HIDE DEF j
  <2>6. PICK r \in Roots(graph) : \E d \in of[r] :
          j.edges \subseteq d.edges
          /\ initWeights * d.feature = ForwardScores[h] + initWeights * j.feature
    BY <1>2, <2>5, DerivationExtends
  <2>7. PICK d \in of[r] :
          j.edges \subseteq d.edges
          /\ initWeights * d.feature = ForwardScores[h] + initWeights * j.feature
    BY <2>6
  <2>8. d \in through
    BY <2>5, <2>7
  <2>9. initWeights * d.feature = Through(k)
    BY <2>4, <2>7 DEF Through
  <2> QED
    BY <2>8, <2>9
<1>6. Through(k) \in S /\ \A x \in S : x \in Int /\ x <= Through(k)
  BY <1>4, <1>5
<1>7. Max(S) = Through(k)
  <2> HIDE DEF S
  <2> QED
    BY <1>6, MaxIs
<1> QED
  BY <1>3, <1>5, <1>7

\* The best of the derivations of a vertex score as the vertex does.
LEMMA BestBelow ==
  ASSUME Scored, NEW v \in Vertices(graph)
  PROVE  Max({initWeights * d.feature : d \in Derivations(graph)[v]}) = BackwardScores[v]
<1> DEFINE S == {initWeights * d.feature : d \in Derivations(graph)[v]}
<1>1. BackwardScores[v] \in S /\ \A x \in S : x <= BackwardScores[v]
  BY BackwardIsBest DEF BestOf
<1>2. \A x \in S : x \in Int
  <2>1. ASSUME NEW d \in Derivations(graph)[v] PROVE initWeights * d.feature \in Int
    <3>1. d.feature \in Int /\ initWeights \in Int
      BY FeaturesAreNumbers DEF Scored
    <3> DEFINE x == d.feature
    <3> HIDE DEF x
    <3>2. x \in Int => initWeights * x \in Int
      BY <3>1
    <3> QED
      BY <3>1, <3>2 DEF x
  <2> QED
    BY <2>1
<1> HIDE DEF S
<1>3. Max(S) = BackwardScores[v]
  BY <1>1, <1>2, MaxIs
<1> QED
  BY <1>3 DEF S

\* The siblings of its smallest child are added to the score of an edge again.
LEMMA EdgeScoreIs ==
  ASSUME Scored, NEW k \in DOMAIN graph.edges
  PROVE  LET of == Derivations(graph)
             others == {c \in Children(graph.edges[k]) :
                          \E l \in Children(graph.edges[k]) : l < c}
         IN EdgeScore(k)
              = Through(k)
                + SumFunction([c \in others |-> Max({initWeights * d.feature : d \in of[c]})])
<1> DEFINE e == graph.edges[k]
           C == Children(e)
           of == Derivations(graph)
           Best(c) == Max({initWeights * d.feature : d \in of[c]})
           others == {c \in C : \E l \in C : l < c}
           best == [c \in others |-> Best(c)]
           F == ForwardScores[e.head]
<1>1. IsGraph(graph)
  BY DEF Scored
<1>2. k \in Incoming(graph, e.head) /\ e.head \in Vertices(graph)
      /\ \A c \in C : c \in Vertices(graph) /\ c \in Nat
  <2>1. k \in Incoming(graph, e.head)
    BY DEF Incoming
  <2>2. \A c \in C : c \in Nat
    BY DEF Children
  <2> QED
    BY <1>1, <2>1, <2>2, ChildrenAre
<1>3. F \in Int /\ EdgeBackward(k) \in Int
  BY <1>2, BestOutgoing, BestIncoming
<1>4. best = [c \in others |-> BackwardScores[c]]
  <2>1. \A c \in others : Best(c) = BackwardScores[c]
    BY <1>2, BestBelow
  <2> HIDE DEF Best, others
  <2> QED
    BY <2>1
<1>5. EdgeScore(k) = F + (IF C = {} THEN 0 ELSE Siblings(k, Min(C))) + EdgeBackward(k)
  BY DEF EdgeScore, EdgeForward
<1>6. CASE C = {}
  <2>1. others = {}
    BY <1>6
  <2>2. SumFunction(best) = 0
    <3>1. DOMAIN best = others /\ IsFiniteSet(others) /\ \A x \in others : best[x] = 0
      BY <2>1, FS_EmptySet
    <3> HIDE DEF best, others
    <3> QED
      BY <3>1, SumOfFunction, SumOfZeros
  <2> HIDE DEF F, best
  <2>3. EdgeScore(k) = (F + EdgeBackward(k)) + SumFunction(best)
    BY <1>3, <1>5, <1>6, <2>2
  <2> QED
    BY <2>3 DEF Through, F, best
<1>7. CASE C # {}
  <2> DEFINE v == Min(C)
  <2>1. v \in C /\ \A c \in C : v <= c
    <3>1. \E x \in C : \A y \in C : x <= y
      <4>1. C \subseteq Nat
        BY <1>2
      <4> HIDE DEF C
      <4> QED
        BY <1>7, <4>1, LeastNat
    <3> HIDE DEF C
    <3> QED
      BY <3>1 DEF Min
  <2> HIDE DEF v
  <2>2. others = C \ {v}
    <3>1. ASSUME NEW c \in others PROVE c \in C \ {v}
      <4>1. PICK l \in C : l < c
        OBVIOUS
      <4>2. c \in Nat /\ l \in Nat /\ v \in Nat /\ v <= l
        BY <1>2, <2>1
      <4> QED
        BY <4>1, <4>2
    <3>2. ASSUME NEW c \in C \ {v} PROVE c \in others
      <4>1. c \in Nat /\ v \in Nat /\ v <= c /\ v # c
        BY <1>2, <2>1
      <4>2. v < c
        BY <4>1
      <4> QED
        BY <2>1, <4>2
    <3> QED
      BY <3>1, <3>2
  <2>3. Siblings(k, v) = SumFunction(best)
    BY <1>4, <2>2 DEF Siblings
  <2>4. Siblings(k, v) \in Int
    BY <1>2, <2>1, SiblingsAre
  <2>5. EdgeScore(k) = F + Siblings(k, v) + EdgeBackward(k)
    BY <1>5, <1>7 DEF v
  <2> HIDE DEF F, best
  <2>6. EdgeScore(k) = (F + EdgeBackward(k)) + SumFunction(best)
    BY <1>3, <2>3, <2>4, <2>5
  <2> QED
    BY <2>6 DEF Through, F, best
<1> QED
  BY <1>6, <1>7

\* What pruning starts from, and what it leaves.
PruningInv ==
  /\ graph \in Graphs /\ initWeights \in InitWeights /\ minEdgeCount \in EdgeCounts
  /\ IF pc = "prune" THEN pruned = [size |-> 0, edges |-> <<>>] ELSE pruned = Cut(Retained)

\* The graphs that are read are scored, the weights being numbers.
LEMMA GraphsAreScored == PruningInv => Scored
<1> QED
  BY GraphIs, GraphAssumption, PruningAssumption DEF PruningInv, Scored

\* Nothing is pruned at first.
LEMMA InitPruning == VInit => PruningInv
<1> QED
  BY DEF VInit, GInit, PruningInv

\* What is retained is of the graph, the weights and the count alone.
LEMMA RetainedIsKept ==
  ASSUME graph' = graph, initWeights' = initWeights, minEdgeCount' = minEdgeCount
  PROVE  Cut(Retained)' = Cut(Retained)
<1>1. ASSUME NEW k PROVE Score(k)' = Score(k)
  BY DEF Score
<1>2. BackwardScores' = BackwardScores
  BY DEF BackwardScores, Score
<1>3. ASSUME NEW k PROVE EdgeBackward(k)' = EdgeBackward(k)
  BY <1>1, <1>2 DEF EdgeBackward
<1>4. ASSUME NEW k, NEW v PROVE Siblings(k, v)' = Siblings(k, v)
  BY <1>2 DEF Siblings
<1>5. ASSUME NEW v PROVE Outgoing(v)' = Outgoing(v)
  BY DEF Outgoing
<1>6. ForwardScores' = ForwardScores
  BY DEF ForwardScores, Siblings, BackwardScores, Score, Outgoing
<1>7. ASSUME NEW k PROVE EdgeScore(k)' = EdgeScore(k)
  BY <1>3, <1>4, <1>6 DEF EdgeScore, EdgeForward
<1>8. Retained' = Retained
  BY <1>7 DEF Retained
<1> QED
  BY <1>8 DEF Cut, Ends

\* The graph is pruned once.
LEMMA NextPruning == PruningInv /\ [VNext]_wvars => PruningInv'
<1> SUFFICES ASSUME PruningInv, [VNext]_wvars PROVE PruningInv'
  OBVIOUS
<1>1. ASSUME gvars' = gvars, pc = "prune" <=> pc' = "prune" PROVE PruningInv'
  <2>1. /\ graph' = graph /\ initWeights' = initWeights /\ minEdgeCount' = minEdgeCount
        /\ pruned' = pruned
    BY <1>1 DEF gvars
  <2>2. Cut(Retained)' = Cut(Retained)
    BY <2>1, RetainedIsKept
  <2> QED
    BY <1>1, <2>1, <2>2 DEF PruningInv
<1>2. CASE PruneGraph
  <2>1. /\ graph' = graph /\ initWeights' = initWeights /\ minEdgeCount' = minEdgeCount
        /\ pruned' = Cut(Retained) /\ pc' = "start"
    BY <1>2 DEF PruneGraph, Prune
  <2>2. Cut(Retained)' = Cut(Retained)
    BY <2>1, RetainedIsKept
  <2> QED
    BY <2>1, <2>2 DEF PruningInv
<1>3. CASE Start
  BY <1>1, <1>3 DEF Start
<1>4. CASE Visit
  BY <1>1, <1>4 DEF Visit, DeadEnd, Throw, Rescore
<1>5. CASE Finish
  BY <1>1, <1>5 DEF Finish
<1>6. CASE UNCHANGED wvars
  BY <1>1, <1>6 DEF wvars
<1> QED
  BY <1>2, <1>3, <1>4, <1>5, <1>6 DEF VNext

\* The edges of a graph score as the property says.
LEMMA PruningScores == PruningInv => EdgeScores
<1> SUFFICES ASSUME PruningInv PROVE EdgeScores
  OBVIOUS
<1>1. Scored
  BY GraphsAreScored
<1>2. ASSUME NEW k \in DOMAIN graph.edges
      PROVE  LET of == Derivations(graph)
                 Best(derivations) == Max({initWeights * d.feature : d \in derivations})
                 others == {c \in Children(graph.edges[k]) :
                              \E l \in Children(graph.edges[k]) : l < c}
             IN EdgeScore(k)
                  = Best({d \in UNION {of[v] : v \in Roots(graph)} : k \in d.edges})
                    + SumFunction([c \in others |-> Best(of[c])])
  BY <1>1, BestThrough, EdgeScoreIs
<1> QED
  BY <1>2 DEF EdgeScores

\* The max-product semiring (Hypergraph.h:221-223): the forward and the backward
\* pass (Hypergraph.cpp:106-205) rank an edge by the best derivation it is part
\* of, but for the siblings that count twice, whatever the graph.
THEOREM EdgesScoreAsDerivations == VSpec => []EdgeScores
<1> QED
  BY InitPruning, NextPruning, PruningScores, PTL DEF VSpec

\* Every edge that is kept has its copy.
LEMMA CutHasCopies ==
  ASSUME IsGraph(graph), NEW K \in SUBSET DOMAIN graph.edges, NEW k \in K
  PROVE  \E n \in DOMAIN Cut(K).edges : IsCopy(Ends(K), Cut(K).edges[n], graph.edges[k])
<1> DEFINE V == Ends(K)
           Moved(x) == IF x \in Nat THEN NewId(V, x) ELSE x
           Copied(e) == [head    |-> NewId(V, e.head),
                         words   |-> [n \in DOMAIN e.words |-> Moved(e.words[n])],
                         feature |-> e.feature]
           Kept(n) == CHOOSE l \in K : NumberedBefore(K, l) = n - 1
           n == Rank(K, k) + 1
<1>1. Cut(K).edges = [m \in 1 .. Cardinality(K) |-> Copied(graph.edges[Kept(m)])]
  BY DEF Cut
<1>2. IsFiniteSet(K) /\ K \subseteq Nat /\ Cardinality(K) \in Nat
  BY EndsAre
<1>3. /\ Rank(K, k) \in 0 .. Cardinality(K) - 1
      /\ \A l \in K : Rank(K, l) = Rank(K, k) => l = k
  BY <1>2, RanksAreAll
<1>4. n \in 1 .. Cardinality(K) /\ n - 1 = Rank(K, k)
  BY <1>2, <1>3
<1>5. Kept(n) = k
  <2>1. \A l : NumberedBefore(K, l) = Rank(K, l)
    BY DEF NumberedBefore, Rank
  <2> HIDE DEF n
  <2> QED
    BY <1>3, <1>4, <2>1
<1>6. IsCopy(V, Copied(graph.edges[k]), graph.edges[k])
  BY DEF IsCopy
<1> HIDE DEF Copied, Kept, V, n
<1>7. n \in DOMAIN Cut(K).edges /\ Cut(K).edges[n] = Copied(graph.edges[k])
  BY <1>1, <1>4, <1>5
<1> QED
  BY <1>6, <1>7 DEF V

\* A derivation all of whose edges are kept is one of the new graph.
LEMMA KeptIsDerived ==
  ASSUME IsGraph(graph), NEW K \in SUBSET DOMAIN graph.edges
  PROVE  \A u \in Vertices(graph) : \A o \in Derivations(graph)[u] : o.edges \subseteq K =>
           /\ u \in Ends(K)
           /\ \E d \in Derivations(Cut(K))[NewId(Ends(K), u)] :
                d.text = o.text /\ d.feature = o.feature
<1> DEFINE V == Ends(K)
           g == Cut(K)
           Same(d, o) == d.text = o.text /\ d.feature = o.feature
           Kept(u) == \A o \in Derivations(graph)[u] : o.edges \subseteq K =>
                        u \in V /\ \E d \in Derivations(g)[NewId(V, u)] : Same(d, o)
           B == {u \in Vertices(graph) : ~Kept(u)}
<1>1. SUFFICES ASSUME B # {} PROVE FALSE
  OBVIOUS
<1>2. PICK u \in B : \A l \in B : u <= l
  <2>1. B \subseteq Nat
    BY DEF Vertices
  <2> HIDE DEF B
  <2> QED
    BY <1>1, <2>1, LeastNat
<1>3. u \in Vertices(graph) /\ ~Kept(u)
  OBVIOUS
<1>4. PICK o \in Derivations(graph)[u] :
        /\ o.edges \subseteq K
        /\ ~(u \in V /\ \E d \in Derivations(g)[NewId(V, u)] : Same(d, o))
  BY <1>3
<1>5. PICK k \in Incoming(graph, u) : \E f : IsChoice(graph, k, f) /\ o = Joined(graph, k, f)
  BY <1>3, DerivationIs
<1>6. PICK f : IsChoice(graph, k, f) /\ o = Joined(graph, k, f)
  BY <1>5
<1> DEFINE e == graph.edges[k]
           C == Children(e)
<1>7. /\ k \in K /\ \A c \in C : f[c].edges \subseteq K
  BY <1>4, <1>6 DEF Joined
<1>8. /\ e.head = u /\ u \in V /\ C \subseteq V
      /\ \A c \in C : c \in Vertices(graph) /\ c < u
  BY <1>5, <1>7, EndsAre, ChildrenAre
<1>9. ASSUME NEW c \in C
      PROVE  \E d \in Derivations(g)[NewId(V, c)] : Same(d, f[c])
  <2>1. c \notin B
    <3>1. c \in Int /\ u \in Int
      BY <1>3, <1>8 DEF Vertices
    <3> QED
      BY <1>2, <1>8, <3>1
  <2>2. Kept(c)
    BY <1>8, <2>1
  <2>3. f[c] \in Derivations(graph)[c]
    BY <1>6 DEF IsChoice
  <2> QED
    BY <1>7, <2>2, <2>3
<1> HIDE DEF B, Kept
<1>10. PICK n \in DOMAIN g.edges : IsCopy(V, g.edges[n], e)
  BY <1>7, CutHasCopies
<1> DEFINE D == Children(g.edges[n])
<1>11. /\ \A x \in V : NewId(V, x) \in Nat
       /\ \A x, y \in V : NewId(V, x) = NewId(V, y) => x = y
  BY NewIdsAre
<1>12. /\ \A c \in C : NewId(V, c) \in D
       /\ \A x \in D : \E c \in C : x = NewId(V, c)
  <2> DEFINE copy == g.edges[n]
  <2> HIDE DEF V, e, copy
  <2> QED
    BY <1>8, <1>10, <1>11, CopiedChildren DEF copy
<1> DEFINE Old(x) == CHOOSE c \in C : x = NewId(V, c)
           p == [x \in D |-> CHOOSE d \in Derivations(g)[x] : Same(d, f[Old(x)])]
<1>13. \A c \in C : Old(NewId(V, c)) = c
  BY <1>8, <1>11
<1>14. ASSUME NEW c \in C
       PROVE  p[NewId(V, c)] \in Derivations(g)[NewId(V, c)] /\ Same(p[NewId(V, c)], f[c])
  <2> DEFINE x == NewId(V, c)
  <2>1. x \in D /\ Old(x) = c
    BY <1>12, <1>13
  <2>2. p[x] = CHOOSE d \in Derivations(g)[x] : Same(d, f[c])
    <3> HIDE DEF D, V, g, Same, Old
    <3> QED
      BY <2>1
  <2>3. \E d \in Derivations(g)[x] : Same(d, f[c])
    BY <1>9
  <2> HIDE DEF p, x
  <2>4. p[x] \in Derivations(g)[x] /\ Same(p[x], f[c])
    BY <2>2, <2>3
  <2> QED
    BY <2>4 DEF x
<1>15. IsChoice(g, n, p)
  <2>1. p = [x \in D |-> p[x]]
    OBVIOUS
  <2> HIDE DEF p
  <2>2. \A x \in D : p[x] \in Derivations(g)[x]
    BY <1>12, <1>14
  <2>3. p \in [D -> UNION {Derivations(g)[x] : x \in D}]
    BY <2>1, <2>2
  <2> QED
    BY <2>2, <2>3 DEF IsChoice
<1> HIDE DEF p
<1>16. Same(Joined(g, n, p), o)
  BY <1>6, <1>7, <1>10, <1>14, <1>15, CopyDerives
<1>17. Joined(g, n, p) \in Derivations(g)[NewId(V, u)]
  <2>1. g.edges[n].head = NewId(V, u)
    BY <1>8, <1>10 DEF IsCopy
  <2>2. n \in Incoming(g, NewId(V, u)) /\ IsGraph(g)
    BY <2>1, CutIsGraph DEF Incoming
  <2>3. NewId(V, u) \in Vertices(g)
    BY <2>2, ChildrenAre
  <2> QED
    BY <1>15, <2>2, <2>3, DerivationIs
<1> QED
  BY <1>4, <1>8, <1>16, <1>17

\* In a lattice an edge scores as the best derivation it is part of.
LEMMA LatticeScores ==
  ASSUME Scored, Lattice(graph), NEW k \in DOMAIN graph.edges
  PROVE  EdgeScore(k) = Through(k) /\ Through(k) \in Int
<1> DEFINE C == Children(graph.edges[k])
           others == {c \in C : \E l \in C : l < c}
           best == [c \in others |->
                      Max({initWeights * d.feature : d \in Derivations(graph)[c]})]
<1>1. EdgeScore(k) = Through(k) + SumFunction(best) /\ Through(k) \in Int
  BY EdgeScoreIs, BestThrough
<1>2. IsFiniteSet(C) /\ Cardinality(C) <= 1 /\ \A c \in C : c \in Nat
  <2>1. k \in Incoming(graph, graph.edges[k].head) /\ IsGraph(graph)
    BY DEF Incoming, Scored
  <2>2. IsFiniteSet(C)
    BY <2>1, ChildrenAre
  <2> QED
    BY <2>2 DEF Lattice, Children
<1>3. others = {}
  <2>1. SUFFICES ASSUME NEW c \in C, NEW l \in C, l < c PROVE FALSE
    OBVIOUS
  <2>2. c # l
    BY <1>2, <2>1
  <2>3. Cardinality(C) \in Nat
    BY <1>2, FS_CardinalityType
  <2>4. C = {} \/ \E x : C = {x}
    <3> HIDE DEF C
    <3>1. Cardinality(C) = 0 \/ Cardinality(C) = 1
      BY <1>2, <2>3
    <3> QED
      BY <1>2, <3>1, FS_EmptySet, FS_Singleton
  <2> QED
    BY <2>2, <2>4
<1>4. SumFunction(best) = 0
  <2>1. DOMAIN best = others /\ IsFiniteSet(others) /\ \A x \in others : best[x] = 0
    BY <1>3, FS_EmptySet
  <2> HIDE DEF best, others
  <2> QED
    BY <2>1, SumOfFunction, SumOfZeros
<1> HIDE DEF best
<1> QED
  BY <1>1, <1>4

\* In a lattice an edge that scores as well as one that is kept, or as well as
\* any, is kept.
LEMMA RetainedIsUpward ==
  ASSUME Scored, minEdgeCount \in Nat, Lattice(graph), NEW l \in DOMAIN graph.edges,
         \/ \E k \in Retained : Through(k) <= Through(l)
         \/ \A k \in DOMAIN graph.edges : Through(k) <= Through(l)
  PROVE  l \in Retained
<1> DEFINE E == DOMAIN graph.edges
           score == [k \in E |-> EdgeScore(k)]
           Over(k) == {x \in E : score[x] > score[k]}
           most == Max({1, minEdgeCount})
<1>1. Retained = {k \in E : Cardinality(Over(k)) < most}
  BY DEF Retained
<1>2. \A k \in E : score[k] = Through(k) /\ Through(k) \in Int
  BY LatticeScores
<1>3. most \in Int /\ 1 <= most
  <2>1. IsFiniteSet({1} \cup {minEdgeCount})
    BY FS_Singleton, FS_AddElement
  <2>2. {1} \cup {minEdgeCount} = {1, minEdgeCount}
    OBVIOUS
  <2> QED
    BY <2>1, <2>2, MaxOfNumbers
<1>4. \A k \in E : IsFiniteSet(Over(k)) /\ Cardinality(Over(k)) \in Nat
  <2>1. IsFiniteSet(E)
    BY EdgesAre DEF Scored
  <2>2. \A k \in E : Over(k) \in SUBSET E
    OBVIOUS
  <2> HIDE DEF E, Over
  <2> QED
    BY <2>1, <2>2, FS_Subset, FS_CardinalityType
<1> HIDE DEF score, most
<1>5. CASE \E k \in Retained : Through(k) <= Through(l)
  <2>1. PICK k \in Retained : Through(k) <= Through(l)
    BY <1>5
  <2>2. k \in E /\ Cardinality(Over(k)) < most
    BY <1>1
  <2>3. Over(l) \in SUBSET Over(k)
    BY <1>2, <2>1, <2>2
  <2>4. Cardinality(Over(l)) <= Cardinality(Over(k))
    <3> HIDE DEF Over
    <3> QED
      BY <1>4, <2>2, <2>3, FS_Subset
  <2>5. Cardinality(Over(l)) < most
    <3> HIDE DEF Over
    <3> QED
      BY <1>3, <1>4, <2>2, <2>4
  <2> QED
    BY <1>1, <2>5
<1>6. CASE \A k \in E : Through(k) <= Through(l)
  <2>1. Over(l) = {}
    BY <1>2, <1>6
  <2>2. Cardinality(Over(l)) = 0
    BY <2>1, FS_EmptySet
  <2>3. Cardinality(Over(l)) < most
    <3> HIDE DEF Over
    <3> QED
      BY <1>3, <2>2
  <2> QED
    BY <1>1, <2>3
<1> QED
  BY <1>5, <1>6

\* The last vertex is a root, and keeps being the last.
LEMMA LastIsRoot ==
  ASSUME IsGraph(graph), graph.size > 0
  PROVE  /\ graph.size - 1 \in Roots(graph)
         /\ \A K \in SUBSET DOMAIN graph.edges : graph.size - 1 \in Ends(K) =>
              NewId(Ends(K), graph.size - 1) = Cut(K).size - 1
<1> DEFINE r == graph.size - 1
<1>1. graph.size \in Nat /\ r \in Vertices(graph) /\ \A u \in Vertices(graph) : u \in Nat /\ u <= r
  BY DEF IsGraph, Vertices
<1>2. ASSUME NEW k \in DOMAIN graph.edges PROVE r \notin Children(graph.edges[k])
  <2>1. SUFFICES ASSUME r \in Children(graph.edges[k]) PROVE FALSE
    OBVIOUS
  <2>2. k \in Outgoing(r)
    BY <2>1 DEF Outgoing
  <2> DEFINE h == graph.edges[k].head
  <2>3. h \in Vertices(graph) /\ r < h
    BY <2>2, OutgoingAre
  <2> HIDE DEF h, r
  <2> QED
    BY <1>1, <2>3
<1>3. ASSUME NEW K \in SUBSET DOMAIN graph.edges, r \in Ends(K)
      PROVE  NewId(Ends(K), r) = Cut(K).size - 1
  <2> DEFINE V == Ends(K)
             n == Cardinality(V)
  <2>1. V \subseteq Vertices(graph) /\ n \in Nat /\ Cut(K).size = n
    BY CutIs, EndsAre
  <2>2. NewId(V, r) \in 0 .. n - 1
    BY <1>3, NewIdsAre
  <2>3. n - 1 \in 0 .. n - 1
    BY <2>1, <2>2
  <2>4. PICK u \in V : NewId(V, u) = n - 1
    BY <2>3, NewIdsAre
  <2>5. ASSUME u # r PROVE FALSE
    <3>1. u \in Nat /\ u <= r /\ r \in Nat
      BY <1>1, <2>1
    <3>2. u < r
      BY <2>5, <3>1
    <3>3. NewId(V, u) < NewId(V, r)
      BY <1>3, <3>2, NewIdsAre
    <3> HIDE DEF V, n
    <3> QED
      BY <2>1, <2>2, <2>4, <3>3
  <2> QED
    BY <2>1, <2>4, <2>5
<1> QED
  BY <1>1, <1>2, <1>3 DEF Roots

\* What is retained of a lattice: every edge of a best derivation of its one
\* root, and for every vertex left an edge into it.
LEMMA LatticeIsRetained ==
  ASSUME Scored, minEdgeCount \in Nat, Lattice(graph), Cardinality(Roots(graph)) = 1
  PROVE  /\ graph.size > 0
         /\ \E d : BestOf(graph.size - 1, d) /\ d.edges \subseteq Retained
         /\ \A u \in Ends(Retained) : \E l \in Incoming(graph, u) : l \in Retained
<1> DEFINE r == graph.size - 1
<1>0. IsGraph(graph) /\ graph.size \in Nat
  BY DEF Scored, IsGraph
<1>1. IsFiniteSet(Roots(graph)) /\ Roots(graph) \subseteq Vertices(graph)
  <2>1. 0 \in Int /\ graph.size - 1 \in Int
    BY <1>0
  <2>2. IsFiniteSet(Vertices(graph))
    BY <2>1, FS_Interval DEF Vertices
  <2>3. Roots(graph) \in SUBSET Vertices(graph)
    BY DEF Roots
  <2> QED
    BY <2>2, <2>3, FS_Subset
<1>2. \E x : Roots(graph) = {x}
  BY <1>1, FS_Singleton
<1>3. graph.size > 0 /\ r \in Vertices(graph)
  <2>1. PICK x : x \in Vertices(graph)
    BY <1>1, <1>2
  <2> QED
    BY <1>0, <2>1 DEF Vertices
<1>4. Roots(graph) = {r}
  <2>1. r \in Roots(graph)
    BY <1>0, <1>3, LastIsRoot
  <2> QED
    BY <1>2, <2>1
<1>5. ASSUME NEW k \in DOMAIN graph.edges
      PROVE  Through(k) \in Int /\ Through(k) <= BackwardScores[r]
  <2>1. PICK d \in UNION {Derivations(graph)[v] : v \in Roots(graph)} :
          initWeights * d.feature = Through(k)
    BY BestThrough
  <2>2. d \in Derivations(graph)[r]
    BY <1>4
  <2>3. initWeights * d.feature <= BackwardScores[r]
    BY <1>3, <2>2, BackwardIsBest
  <2>4. Through(k) \in Int
    BY BestThrough
  <2> QED
    BY <2>1, <2>3, <2>4
<1>6. PICK d : BestOf(r, d)
  BY <1>3, BackwardIsBest
<1>7. ASSUME NEW k \in d.edges PROVE k \in Retained
  <2>1. /\ k \in DOMAIN graph.edges
        /\ initWeights * d.feature + ForwardScores[r] <= Through(k)
    BY <1>3, <1>6, EdgeBounds DEF BestOf
  <2>2. ForwardScores[r] = 0
    <3>1. Outgoing(r) = {}
      BY <1>4 DEF Roots, Outgoing
    <3> QED
      BY <1>3, <3>1, BestOutgoing
  <2>3. BackwardScores[r] \in Int /\ initWeights * d.feature = BackwardScores[r]
    BY <1>3, <1>6, BestIncoming DEF BestOf
  <2>4. BackwardScores[r] <= Through(k)
    BY <2>1, <2>2, <2>3
  <2>5. \A x \in DOMAIN graph.edges : Through(x) <= Through(k)
    BY <1>5, <2>1, <2>3, <2>4
  <2> QED
    BY <2>1, <2>5, RetainedIsUpward
<1>8. ASSUME NEW u \in Ends(Retained)
      PROVE  \E l \in Incoming(graph, u) : l \in Retained
  <2>1. PICK k \in Retained : u = graph.edges[k].head \/ u \in Children(graph.edges[k])
    BY DEF Ends
  <2>2. k \in DOMAIN graph.edges
    BY DEF Retained
  <2>3. k \in Incoming(graph, u) \cup Outgoing(u) /\ u \in Vertices(graph)
    <3>1. Retained \in SUBSET DOMAIN graph.edges
      BY DEF Retained
    <3>2. u \in Vertices(graph)
      BY <1>0, <3>1, EndsAre
    <3> QED
      BY <2>1, <2>2, <3>2 DEF Incoming, Outgoing
  <2>4. PICK l \in Incoming(graph, u) : Through(l) = ForwardScores[u] + BackwardScores[u]
    BY <2>3, ThroughVertex
  <2>5. Through(k) <= Through(l)
    BY <2>3, <2>4, ThroughVertex
  <2>6. l \in DOMAIN graph.edges
    BY DEF Incoming
  <2> QED
    BY <2>1, <2>5, <2>6, RetainedIsUpward
<1> QED
  BY <1>3, <1>6, <1>7, <1>8

\* Cut out of a lattice, the new graph derives the best that the old one does.
LEMMA PruningKeepsBest == PruningInv => LatticeKeepsBest
<1> SUFFICES ASSUME PruningInv, pruned.size > 0, Lattice(graph), Cardinality(Roots(graph)) = 1
             PROVE  LatticeKeepsBest
  BY DEF LatticeKeepsBest
<1> DEFINE K == Retained
           V == Ends(K)
           r == graph.size - 1
           last == pruned.size - 1
           Best == {initWeights * d.feature : d \in Derivations(pruned)[last]}
<1>1. Scored /\ IsGraph(graph) /\ minEdgeCount \in Nat /\ initWeights \in Int
  BY GraphsAreScored, PruningAssumption DEF Scored, PruningInv
<1>2. pruned = Cut(K) /\ K \in SUBSET DOMAIN graph.edges
  BY DEF PruningInv, Retained
<1>3. /\ graph.size > 0
      /\ \E d : BestOf(r, d) /\ d.edges \subseteq K
      /\ \A u \in V : \E l \in Incoming(graph, u) : l \in K
  BY <1>1, LatticeIsRetained
<1>4. r \in Vertices(graph)
  BY <1>1, <1>3 DEF IsGraph, Vertices
<1>5. PICK d : BestOf(r, d) /\ d.edges \subseteq K
  BY <1>3
<1> HIDE DEF K
<1>6. /\ r \in V
      /\ \E o \in Derivations(pruned)[NewId(V, r)] : o.feature = d.feature
  BY <1>1, <1>2, <1>4, <1>5, KeptIsDerived DEF BestOf
<1>7. NewId(V, r) = last
  BY <1>1, <1>2, <1>3, <1>6, LastIsRoot
<1>8. PICK o \in Derivations(pruned)[last] : o.feature = d.feature
  BY <1>6, <1>7
<1>9. initWeights * o.feature = BackwardScores[r] /\ BackwardScores[r] \in Best
  BY <1>5, <1>8 DEF BestOf
<1>10. last \in Vertices(pruned)
  BY <1>1, <1>2, CutIsGraph DEF IsGraph, Vertices
<1>11. ASSUME NEW x \in Best PROVE x \in Int /\ x <= BackwardScores[r]
  <2>1. PICK c \in Derivations(pruned)[last] : x = initWeights * c.feature
    OBVIOUS
  <2>2. PICK a \in Derivations(graph)[r] : c.feature = a.feature
    BY <1>1, <1>2, <1>6, <1>7, <1>10, <2>1, CutIsPart
  <2>3. initWeights * a.feature <= BackwardScores[r] /\ a.feature \in Int
    BY <1>1, <1>4, BackwardIsBest, FeaturesAreNumbers
  <2> DEFINE y == a.feature
  <2>4. y \in Int /\ initWeights * y <= BackwardScores[r] /\ x = initWeights * y
    BY <2>1, <2>2, <2>3
  <2> HIDE DEF y
  <2> QED
    BY <1>1, <2>4
<1> HIDE DEF Best
<1>12. Max(Best) = BackwardScores[r]
  BY <1>9, <1>11, MaxIs
<1>13. Max({initWeights * c.feature : c \in Derivations(graph)[r]}) = BackwardScores[r]
  BY <1>1, <1>4, BestBelow
<1>14. ASSUME NEW v \in Vertices(pruned) PROVE Incoming(pruned, v) # {}
  <2>1. v \in 0 .. Cardinality(V) - 1
    BY <1>1, <1>2, CutIs DEF Vertices
  <2>2. PICK u \in V : NewId(V, u) = v
    BY <1>1, <1>2, <2>1, NewIdsAre
  <2>3. PICK l \in Incoming(graph, u) : l \in K
    BY <1>3
  <2>4. PICK n \in DOMAIN Cut(K).edges : IsCopy(V, Cut(K).edges[n], graph.edges[l])
    BY <1>1, <1>2, <2>3, CutHasCopies
  <2>5. n \in DOMAIN pruned.edges /\ pruned.edges[n].head = v
    BY <1>2, <2>2, <2>3, <2>4 DEF IsCopy, Incoming
  <2> QED
    BY <2>5 DEF Incoming
<1> QED
  BY <1>12, <1>13, <1>14 DEF LatticeKeepsBest, Best

\* Whatever the lattice and the weights, the edges that score best are kept
\* (Hypergraph.cpp:196-212) with all that a best derivation and the vertices that
\* are left need.
THEOREM PruningKeepsTheBest == VSpec => []LatticeKeepsBest
<1> QED
  BY InitPruning, NextPruning, PruningKeepsBest, PTL DEF VSpec

-----------------------------------------------------------------------------
(* Decoding.                                                                 *)

\* Dead and FeatureScore of an edge, for any back pointers b and weights w.
DeadOf(b, e) == SumFunction([c \in Children(e) |-> b[c].dead])
ScoreBy(w, b, e) ==
  IF DeadOf(b, e) > 0 THEN 0
  ELSE w * e.feature + SumFunction([c \in Children(e) |-> b[c].score])

\* A back pointer of vertex v: none if nothing comes in, or an edge into it.
IsPointer(g, w, b, v) ==
  /\ b[v].dead \in Nat /\ b[v].score \in Int
  /\ \/ b[v].edge = 0 /\ b[v].dead = 1 /\ Incoming(g, v) = {}
     \/ /\ b[v].edge \in Incoming(g, v)
        /\ b[v].dead = DeadOf(b, g.edges[b[v].edge])
        /\ b[v].score = ScoreBy(w, b, g.edges[b[v].edge])

\* The n first vertices have pointers; dead ends below one leave it nothing.
Pointers(g, w, b, n) ==
  \A v \in 0 .. n - 1 :
    IsPointer(g, w, b, v) /\ (b[v].dead > 0 => Derivations(g)[v] = {})

\* No derivation scores more than the pointers.
BestPointers(g, w, b, n) ==
  \A v \in 0 .. n - 1 : b[v].dead = 0 =>
    \A d \in Derivations(g)[v] : w * d.feature <= b[v].score

\* The dead ends and scores of an edge are those of its children.
LEMMA EdgeSums ==
  ASSUME NEW g, IsGraph(g), NEW w \in Int, NEW b, NEW n \in Nat, n < g.size,
         Pointers(g, w, b, n), NEW k \in Incoming(g, n)
  PROVE  LET e == g.edges[k]
             C == Children(e)
         IN /\ \A c \in C : c \in 0 .. n - 1 /\ c \in Vertices(g)
                            /\ b[c].dead \in Nat /\ b[c].score \in Int
            /\ DeadOf(b, e) \in Nat /\ ScoreBy(w, b, e) \in Int
            /\ DeadOf(b, e) = 0 <=> \A c \in C : b[c].dead = 0
<1> DEFINE e == g.edges[k]
           C == Children(e)
           dead == [c \in C |-> b[c].dead]
           score == [c \in C |-> b[c].score]
<1>1. /\ e.feature \in Int /\ IsFiniteSet(C)
      /\ \A c \in C : c \in 0 .. n - 1 /\ c \in Vertices(g)
  BY ChildrenAre
<1>2. \A c \in C : b[c].dead \in Nat /\ b[c].score \in Int
  BY <1>1 DEF Pointers, IsPointer
<1>3. /\ \A c \in C : dead[c] = b[c].dead /\ dead[c] \in Nat /\ score[c] \in Int
      /\ DOMAIN dead = C /\ DOMAIN score = C
  BY <1>2
<1>4. /\ DeadOf(b, e) = SumFunction(dead)
      /\ ScoreBy(w, b, e) = IF DeadOf(b, e) > 0 THEN 0 ELSE w * e.feature + SumFunction(score)
  BY DEF DeadOf, ScoreBy
<1> HIDE DEF dead, score, C
<1>5. SumFunction(dead) = SumFunctionOnSet(dead, C) /\ SumFunction(score) = SumFunctionOnSet(score, C)
  BY <1>3, SumOfFunction
<1>6. /\ SumFunctionOnSet(dead, C) \in Nat
      /\ \A c \in C : dead[c] <= SumFunctionOnSet(dead, C)
  BY <1>1, <1>3, SumOfNaturals
<1>7. SumFunctionOnSet(score, C) \in Int
  BY <1>1, <1>3, SumType
<1>8. ASSUME \A c \in C : b[c].dead = 0 PROVE SumFunctionOnSet(dead, C) = 0
  BY <1>1, <1>3, <1>8, SumOfZeros
<1>9. ASSUME SumFunctionOnSet(dead, C) = 0, NEW c \in C PROVE b[c].dead = 0
  BY <1>3, <1>6, <1>9
<1>10. w * e.feature \in Int
  <2> DEFINE x == e.feature
  <2>1. x \in Int
    BY <1>1
  <2> HIDE DEF x
  <2>2. w * x \in Int
    BY <2>1
  <2> QED
    BY <2>2 DEF x
<1> HIDE DEF e
<1>11. DeadOf(b, e) \in Nat /\ ScoreBy(w, b, e) \in Int
  BY <1>4, <1>5, <1>6, <1>7, <1>10
<1>12. DeadOf(b, e) = 0 <=> \A c \in C : b[c].dead = 0
  BY <1>4, <1>5, <1>8, <1>9
<1> QED
  BY <1>1, <1>2, <1>11, <1>12 DEF e, C

\* An edge that derives something has no dead ends below.
LEMMA DerivingIsAlive ==
  ASSUME NEW g, IsGraph(g), NEW w \in Int, NEW b, NEW n \in Nat, n < g.size,
         Pointers(g, w, b, n), NEW k \in Incoming(g, n), NEW f, IsChoice(g, k, f)
  PROVE  DeadOf(b, g.edges[k]) = 0
<1>1. ASSUME NEW c \in Children(g.edges[k]) PROVE b[c].dead = 0
  <2>1. c \in 0 .. n - 1 /\ b[c].dead \in Nat
    BY EdgeSums
  <2>2. f[c] \in Derivations(g)[c]
    BY DEF IsChoice
  <2>3. ~(b[c].dead > 0)
    BY <2>1, <2>2 DEF Pointers
  <2> QED
    BY <2>1, <2>3
<1> QED
  BY <1>1, EdgeSums

\* Of the best pointers of its children an edge makes a score that none of what
\* it derives exceeds.
LEMMA EdgeIsBound ==
  ASSUME NEW g, IsGraph(g), NEW w \in Int, NEW b, NEW n \in Nat, n < g.size,
         Pointers(g, w, b, n), BestPointers(g, w, b, n),
         NEW k \in Incoming(g, n), NEW f, IsChoice(g, k, f)
  PROVE  w * Joined(g, k, f).feature <= ScoreBy(w, b, g.edges[k])
<1> DEFINE e == g.edges[k]
           C == Children(e)
           a == [c \in C |-> f[c].feature]
           p == [c \in C |-> w * f[c].feature]
           s == [c \in C |-> b[c].score]
<1>1. /\ e.feature \in Int /\ IsFiniteSet(C)
      /\ \A c \in C : c \in 0 .. n - 1 /\ c \in Vertices(g)
  BY ChildrenAre
<1>2. DeadOf(b, e) = 0 /\ \A c \in C : b[c].dead = 0 /\ b[c].score \in Int
  BY DerivingIsAlive, EdgeSums
<1>3. ASSUME NEW c \in C
      PROVE  f[c].feature \in Int /\ w * f[c].feature <= b[c].score
  <2>1. f[c] \in Derivations(g)[c]
    BY DEF IsChoice
  <2> QED
    BY <1>1, <1>2, <2>1, FeaturesAreNumbers DEF BestPointers
<1>4. ASSUME NEW c \in C
      PROVE  a[c] \in Int /\ p[c] \in Int /\ s[c] \in Int /\ p[c] = w * a[c] /\ p[c] <= s[c]
  <2> DEFINE x == f[c].feature
  <2>1. x \in Int /\ w * x <= b[c].score /\ b[c].score \in Int
    BY <1>2, <1>3
  <2>2. a[c] = x /\ p[c] = w * x /\ s[c] = b[c].score
    OBVIOUS
  <2> HIDE DEF x, a, p, s
  <2>3. w * x \in Int
    BY <2>1
  <2> QED
    BY <2>1, <2>2, <2>3
<1>5. /\ Joined(g, k, f).feature = e.feature + SumFunction(a)
      /\ ScoreBy(w, b, e) = w * e.feature + SumFunction(s)
      /\ DOMAIN a = C /\ DOMAIN s = C
  BY <1>2 DEF Joined, ScoreBy
<1> HIDE DEF a, p, s, C
<1>6. SumFunction(a) = SumFunctionOnSet(a, C) /\ SumFunction(s) = SumFunctionOnSet(s, C)
  BY <1>5, SumOfFunction
<1>7. SumFunctionOnSet(p, C) = w * SumFunctionOnSet(a, C)
  BY <1>1, <1>4, SumScaled
<1>8. SumFunctionOnSet(p, C) <= SumFunctionOnSet(s, C)
  BY <1>1, <1>4, SumsCompare
<1>9. SumFunctionOnSet(a, C) \in Int /\ SumFunctionOnSet(s, C) \in Int
  BY <1>1, <1>4, SumType
<1> DEFINE x == e.feature
           y == SumFunctionOnSet(a, C)
           z == SumFunctionOnSet(s, C)
<1>10. x \in Int /\ y \in Int /\ z \in Int /\ w * y <= z
       /\ Joined(g, k, f).feature = x + y /\ ScoreBy(w, b, e) = w * x + z
  BY <1>1, <1>5, <1>6, <1>7, <1>8, <1>9
<1> HIDE DEF x, y, z, e
<1>11. w * (x + y) = w * x + w * y /\ w * x \in Int /\ w * y \in Int
  BY <1>10
<1>12. w * Joined(g, k, f).feature <= ScoreBy(w, b, e)
  BY <1>10, <1>11
<1> QED
  BY <1>12 DEF e

\* The dead ends and score of an edge are of the pointers of its children only.
LEMMA SumsOfChildren ==
  ASSUME NEW w, NEW b, NEW c, NEW e, \A x \in Children(e) : c[x] = b[x]
  PROVE  DeadOf(c, e) = DeadOf(b, e) /\ ScoreBy(w, c, e) = ScoreBy(w, b, e)
<1>1. /\ [x \in Children(e) |-> c[x].dead] = [x \in Children(e) |-> b[x].dead]
      /\ [x \in Children(e) |-> c[x].score] = [x \in Children(e) |-> b[x].score]
  OBVIOUS
<1> QED
  BY <1>1 DEF DeadOf, ScoreBy

\* A pointer more leaves the first ones what they are.
LEMMA PointersAreKept ==
  ASSUME NEW g, IsGraph(g), NEW w, NEW b, NEW n \in Nat, NEW c,
         \A v \in 0 .. n - 1 : c[v] = b[v]
  PROVE  /\ Pointers(g, w, b, n) => Pointers(g, w, c, n)
         /\ BestPointers(g, w, b, n) => BestPointers(g, w, c, n)
<1>1. ASSUME NEW v \in 0 .. n - 1, IsPointer(g, w, b, v) PROVE IsPointer(g, w, c, v)
  <2>1. c[v] = b[v]
    OBVIOUS
  <2>2. CASE b[v].edge = 0 /\ b[v].dead = 1 /\ Incoming(g, v) = {}
    BY <1>1, <2>1, <2>2 DEF IsPointer
  <2>3. CASE /\ b[v].edge \in Incoming(g, v)
             /\ b[v].dead = DeadOf(b, g.edges[b[v].edge])
             /\ b[v].score = ScoreBy(w, b, g.edges[b[v].edge])
    <3> DEFINE e == g.edges[b[v].edge]
    <3>1. \A x \in Children(e) : x \in 0 .. v - 1
      BY <2>3, ChildrenAre
    <3>2. \A x \in Children(e) : c[x] = b[x]
      BY <3>1
    <3>3. DeadOf(c, e) = DeadOf(b, e) /\ ScoreBy(w, c, e) = ScoreBy(w, b, e)
      <4> HIDE DEF e
      <4> QED
        BY <3>2, SumsOfChildren
    <3> QED
      BY <1>1, <2>1, <2>3, <3>3 DEF IsPointer
  <2> QED
    BY <1>1, <2>2, <2>3 DEF IsPointer
<1>2. ASSUME Pointers(g, w, b, n) PROVE Pointers(g, w, c, n)
  BY <1>1, <1>2 DEF Pointers
<1>3. ASSUME BestPointers(g, w, b, n) PROVE BestPointers(g, w, c, n)
  BY <1>3 DEF BestPointers
<1> QED
  BY <1>2, <1>3

\* The pointer of a vertex nothing comes into.
LEMMA PointerToNothing ==
  ASSUME NEW g, IsGraph(g), NEW w, NEW b, NEW n \in Nat, n < g.size,
         Pointers(g, w, b, n), Incoming(g, n) = {},
         NEW c, \A v \in 0 .. n - 1 : c[v] = b[v],
         c[n] = [edge |-> 0, dead |-> 1, score |-> 0]
  PROVE  /\ Pointers(g, w, c, n + 1)
         /\ BestPointers(g, w, b, n) => BestPointers(g, w, c, n + 1)
<1>1. \A v \in 0 .. (n + 1) - 1 : v \in 0 .. n - 1 \/ v = n
  OBVIOUS
<1>2. Pointers(g, w, c, n) /\ (BestPointers(g, w, b, n) => BestPointers(g, w, c, n))
  BY PointersAreKept
<1>3. n \in Vertices(g)
  BY DEF IsGraph, Vertices
<1>4. Derivations(g)[n] = {}
  BY <1>3, DerivationsAre
<1>5. IsPointer(g, w, c, n)
  BY DEF IsPointer
<1> QED
  BY <1>1, <1>2, <1>4, <1>5 DEF Pointers, BestPointers

\* The pointer of a vertex that has edges, to one with the fewest dead ends; a
\* best one, if its score is the best.
LEMMA PointerToEdge ==
  ASSUME NEW g, IsGraph(g), NEW w \in Int, NEW b, NEW n \in Nat, n < g.size,
         Pointers(g, w, b, n), NEW k \in Incoming(g, n),
         \A l \in Incoming(g, n) : DeadOf(b, g.edges[k]) <= DeadOf(b, g.edges[l]),
         NEW c, \A v \in 0 .. n - 1 : c[v] = b[v],
         c[n] = [edge |-> k, dead |-> DeadOf(b, g.edges[k]), score |-> ScoreBy(w, b, g.edges[k])]
  PROVE  /\ Pointers(g, w, c, n + 1)
         /\ BestPointers(g, w, b, n)
            /\ (\A l \in Incoming(g, n) :
                  DeadOf(b, g.edges[k]) = 0 /\ DeadOf(b, g.edges[l]) = 0 =>
                    ScoreBy(w, b, g.edges[l]) <= ScoreBy(w, b, g.edges[k]))
            => BestPointers(g, w, c, n + 1)
<1> DEFINE e == g.edges[k]
<1>1. \A v \in 0 .. (n + 1) - 1 : v \in 0 .. n - 1 \/ v = n
  OBVIOUS
<1>2. Pointers(g, w, c, n) /\ (BestPointers(g, w, b, n) => BestPointers(g, w, c, n))
  BY PointersAreKept
<1>3. n \in Vertices(g)
  BY DEF IsGraph, Vertices
<1>4. DeadOf(b, e) \in Nat /\ ScoreBy(w, b, e) \in Int /\ \A x \in Children(e) : x \in 0 .. n - 1
  BY EdgeSums
<1>5. DeadOf(c, e) = DeadOf(b, e) /\ ScoreBy(w, c, e) = ScoreBy(w, b, e)
  <2>1. \A x \in Children(e) : c[x] = b[x]
    BY <1>4
  <2> HIDE DEF e
  <2> QED
    BY <2>1, SumsOfChildren
<1>6. IsPointer(g, w, c, n)
  BY <1>4, <1>5 DEF IsPointer
<1>7. ASSUME NEW d \in Derivations(g)[n]
      PROVE  \E l \in Incoming(g, n) : \E f : IsChoice(g, l, f) /\ d = Joined(g, l, f)
  BY <1>3, DerivationIs
<1>8. ASSUME NEW d \in Derivations(g)[n] PROVE c[n].dead = 0
  <2>1. PICK l \in Incoming(g, n) : \E f : IsChoice(g, l, f)
    BY <1>7
  <2>2. DeadOf(b, g.edges[l]) = 0
    BY <2>1, DerivingIsAlive
  <2> QED
    BY <1>4, <2>2
<1>9. Pointers(g, w, c, n + 1)
  <2>1. c[n].dead > 0 => Derivations(g)[n] = {}
    BY <1>8
  <2> QED
    BY <1>1, <1>2, <1>6, <2>1 DEF Pointers
<1>10. ASSUME BestPointers(g, w, b, n),
              \A l \in Incoming(g, n) :
                DeadOf(b, g.edges[k]) = 0 /\ DeadOf(b, g.edges[l]) = 0 =>
                  ScoreBy(w, b, g.edges[l]) <= ScoreBy(w, b, g.edges[k]),
              NEW d \in Derivations(g)[n]
       PROVE  w * d.feature <= c[n].score
  <2>0. PICK l \in Incoming(g, n) : \E f : IsChoice(g, l, f) /\ d = Joined(g, l, f)
    BY <1>7
  <2>1. PICK f : IsChoice(g, l, f) /\ d = Joined(g, l, f)
    BY <2>0
  <2>2. DeadOf(b, g.edges[l]) = 0 /\ DeadOf(b, g.edges[k]) = 0
    <3>1. DeadOf(b, g.edges[l]) = 0
      BY <2>1, DerivingIsAlive
    <3>2. c[n].dead = 0
      BY <1>8
    <3> QED
      BY <3>1, <3>2
  <2>3. w * d.feature <= ScoreBy(w, b, g.edges[l])
    BY <1>10, <2>1, EdgeIsBound
  <2>4. ScoreBy(w, b, g.edges[l]) <= ScoreBy(w, b, g.edges[k])
    BY <1>10, <2>2
  <2>5. ScoreBy(w, b, g.edges[l]) \in Int /\ w * d.feature \in Int
    <3>1. d.feature \in Int
      BY <1>3, FeaturesAreNumbers
    <3> DEFINE x == d.feature
    <3> HIDE DEF x
    <3>2. x \in Int => w * x \in Int
      OBVIOUS
    <3> QED
      BY <3>1, <3>2, EdgeSums DEF x
  <2>6. c[n].score = ScoreBy(w, b, g.edges[k])
    OBVIOUS
  <2> DEFINE x == w * d.feature
             y == ScoreBy(w, b, g.edges[l])
             z == ScoreBy(w, b, g.edges[k])
  <2>7. x \in Int /\ y \in Int /\ z \in Int /\ x <= y /\ y <= z /\ c[n].score = z
    BY <1>4, <2>3, <2>4, <2>5, <2>6
  <2> HIDE DEF x, y, z
  <2>8. x <= c[n].score
    BY <2>7
  <2> QED
    BY <2>8 DEF x
<1> QED
  BY <1>1, <1>2, <1>9, <1>10 DEF BestPointers

\* The hypothesis of an edge, given those of its children.
HypothesisBy(e, of) ==
  [text    |-> Expand(e, [c \in Children(e) |-> of[c].text]),
   feature |-> e.feature + SumFunction([c \in Children(e) |-> of[c].feature])]

\* GetBestHypothesis of the vertices before n, given what of gives.
HypothesesFrom(g, b, n, of) ==
  [v \in 0 .. n - 1 |->
     IF b[v].edge = 0 THEN [text |-> <<>>, feature |-> 0]
     ELSE HypothesisBy(g.edges[b[v].edge], of)]

\* Along pointers the hypotheses exist.
LEMMA HypothesesExist ==
  ASSUME NEW g, IsGraph(g), NEW w, NEW b, NEW n \in Nat, Pointers(g, w, b, n)
  PROVE  \E of : of = HypothesesFrom(g, b, n, of)
<1> DEFINE B == {m \in 0 .. n : ~\E of : of = HypothesesFrom(g, b, m, of)}
<1>1. SUFFICES ASSUME B # {} PROVE FALSE
  <2>1. n \in 0 .. n
    OBVIOUS
  <2> QED
    BY <2>1
<1>2. PICK m \in B : \A l \in B : m <= l
  <2>1. B \subseteq Nat
    OBVIOUS
  <2> HIDE DEF B
  <2> QED
    BY <1>1, <2>1, LeastNat
<1>3. CASE m = 0
  <2> DEFINE of == [v \in {} |-> 0]
  <2>1. of = HypothesesFrom(g, b, 0, of)
    BY DEF HypothesesFrom
  <2> QED
    BY <1>3, <2>1
<1>4. CASE m # 0
  <2>1. m - 1 \in 0 .. n /\ ~(m <= m - 1)
    BY <1>4
  <2>2. m - 1 \notin B
    BY <1>2, <2>1
  <2>3. PICK of : of = HypothesesFrom(g, b, m - 1, of)
    BY <2>1, <2>2
  <2> DEFINE new == HypothesesFrom(g, b, m, of)
             One(v, p) == IF b[v].edge = 0 THEN [text |-> <<>>, feature |-> 0]
                          ELSE HypothesisBy(g.edges[b[v].edge], p)
  <2>4. ASSUME NEW c \in 0 .. m - 2 PROVE new[c] = of[c]
    <3>1. c \in 0 .. m - 1 /\ c \in 0 .. (m - 1) - 1
      BY <2>1
    <3> QED
      BY <2>3, <3>1 DEF HypothesesFrom
  <2>5. ASSUME NEW v \in 0 .. m - 1 PROVE One(v, of) = One(v, new)
    <3>1. CASE b[v].edge = 0
      BY <3>1
    <3>2. CASE b[v].edge # 0
      <4> DEFINE e == g.edges[b[v].edge]
      <4>1. v \in 0 .. n - 1
        OBVIOUS
      <4>2. b[v].edge \in Incoming(g, v)
        BY <3>2, <4>1 DEF Pointers, IsPointer
      <4>3. \A c \in Children(e) : c \in 0 .. m - 2
        BY <2>1, <4>2, ChildrenAre
      <4> HIDE DEF new
      <4>4. \A c \in Children(e) : new[c] = of[c]
        BY <2>4, <4>3
      <4> HIDE DEF e
      <4>5. HypothesisBy(e, of) = HypothesisBy(e, new)
        <5>1. /\ [c \in Children(e) |-> of[c].text] = [c \in Children(e) |-> new[c].text]
              /\ [c \in Children(e) |-> of[c].feature] = [c \in Children(e) |-> new[c].feature]
          BY <4>4
        <5> QED
          BY <5>1 DEF HypothesisBy
      <4> QED
        BY <3>2, <4>5 DEF e
    <3> QED
      BY <3>1, <3>2
  <2>6. new = HypothesesFrom(g, b, m, new)
    <3> DEFINE other == HypothesesFrom(g, b, m, new)
    <3>1. /\ new = [v \in 0 .. m - 1 |-> One(v, of)]
          /\ other = [v \in 0 .. m - 1 |-> One(v, new)]
      BY DEF HypothesesFrom
    <3> HIDE DEF new, other, One
    <3>2. new = other
      BY <2>5, <3>1
    <3> QED
      BY <3>2 DEF other
  <2> HIDE DEF new
  <2> QED
    BY <2>6
<1> QED
  BY <1>3, <1>4

\* The hypothesis of a vertex is that of the edge its pointer names.
LEMMA HypothesisIs ==
  ASSUME IsGraph(pruned), NEW w, vi \in Nat, Pointers(pruned, w, back, vi),
         NEW v \in 0 .. vi - 1, back[v].edge # 0
  PROVE  BestHypothesis[v] = HypothesisBy(pruned.edges[back[v].edge], BestHypothesis)
<1>1. BestHypothesis = CHOOSE of : of = HypothesesFrom(pruned, back, vi, of)
  BY DEF BestHypothesis, HypothesesFrom, HypothesisBy
<1>2. BestHypothesis = HypothesesFrom(pruned, back, vi, BestHypothesis)
  BY <1>1, HypothesesExist
<1> QED
  BY <1>2 DEF HypothesesFrom

\* The hypothesis of a vertex without dead ends is one of its derivations, and
\* its score is that of the pointer.
LEMMA HypothesisIsDerived ==
  ASSUME IsGraph(pruned), NEW w \in Int, vi \in Nat, vi <= pruned.size,
         Pointers(pruned, w, back, vi)
  PROVE  \A v \in 0 .. vi - 1 : back[v].dead = 0 =>
           \E d \in Derivations(pruned)[v] :
             /\ d.text = BestHypothesis[v].text /\ d.feature = BestHypothesis[v].feature
             /\ w * d.feature = back[v].score
<1> DEFINE H == BestHypothesis
           Is(v, d) == /\ d \in Derivations(pruned)[v]
                       /\ d.text = H[v].text /\ d.feature = H[v].feature
                       /\ w * d.feature = back[v].score
           B == {v \in 0 .. vi - 1 : back[v].dead = 0 /\ ~\E d : Is(v, d)}
<1>1. SUFFICES ASSUME B # {} PROVE FALSE
  OBVIOUS
<1>2. PICK v \in B : \A l \in B : v <= l
  <2>1. B \subseteq Nat
    OBVIOUS
  <2> HIDE DEF B
  <2> QED
    BY <1>1, <2>1, LeastNat
<1>3. /\ v \in Nat /\ v < vi /\ v \in 0 .. vi - 1 /\ v < pruned.size /\ v \in Vertices(pruned)
      /\ back[v].dead = 0 /\ ~\E d : Is(v, d)
  BY DEF IsGraph, Vertices
<1>4. /\ back[v].edge \in Incoming(pruned, v)
      /\ DeadOf(back, pruned.edges[back[v].edge]) = 0
      /\ back[v].score = ScoreBy(w, back, pruned.edges[back[v].edge])
  BY <1>3 DEF Pointers, IsPointer
<1> DEFINE k == back[v].edge
           e == pruned.edges[k]
           C == Children(e)
<1>5. Pointers(pruned, w, back, v)
  BY <1>3 DEF Pointers
<1>6. /\ e.feature \in Int /\ IsFiniteSet(C)
      /\ \A c \in C : c \in 0 .. v - 1 /\ c \in Vertices(pruned) /\ c < v
  BY <1>4, ChildrenAre
<1>7. \A c \in C : back[c].dead = 0 /\ back[c].score \in Int
  <2> HIDE DEF B, H
  <2> QED
    BY <1>3, <1>4, <1>5, EdgeSums
<1>8. ASSUME NEW c \in C PROVE \E d : Is(c, d)
  <2>1. c \in 0 .. vi - 1 /\ ~(v <= c)
    BY <1>6
  <2>2. c \notin B
    BY <1>2, <2>1
  <2> HIDE DEF Is
  <2> QED
    BY <1>7, <2>1, <2>2
<1> DEFINE f == [c \in C |-> CHOOSE d : Is(c, d)]
<1>9. \A c \in C : Is(c, f[c])
  BY <1>8
<1> HIDE DEF f, B
<1>10. IsChoice(pruned, k, f)
  <2>1. f \in [C -> UNION {Derivations(pruned)[c] : c \in C}]
    <3>1. f = [c \in C |-> f[c]]
      BY DEF f
    <3> QED
      BY <1>9, <3>1
  <2> QED
    BY <1>9, <2>1 DEF IsChoice
<1> DEFINE d == Joined(pruned, k, f)
<1>11. d \in Derivations(pruned)[v]
  BY <1>3, <1>4, <1>10, DerivationIs
<1>12. k # 0
  <2>1. \A x \in DOMAIN pruned.edges : x # 0
    BY DEF IsGraph
  <2> QED
    BY <1>4, <2>1 DEF Incoming
<1>13. H[v] = HypothesisBy(e, H)
  BY <1>3, <1>12, HypothesisIs
<1> HIDE DEF H
<1>14. d.text = H[v].text /\ d.feature = H[v].feature
  <2>1. /\ [c \in C |-> f[c].text] = [c \in C |-> H[c].text]
        /\ [c \in C |-> f[c].feature] = [c \in C |-> H[c].feature]
    BY <1>9
  <2> QED
    BY <1>13, <2>1 DEF Joined, HypothesisBy
<1>15. w * d.feature = back[v].score
  <2> DEFINE a == [c \in C |-> f[c].feature]
             s == [c \in C |-> back[c].score]
  <2>1. /\ d.feature = e.feature + SumFunction(a)
        /\ back[v].score = w * e.feature + SumFunction(s)
        /\ DOMAIN a = C /\ DOMAIN s = C
    BY <1>4 DEF Joined, ScoreBy
  <2>2. ASSUME NEW c \in C PROVE a[c] \in Int /\ s[c] = w * a[c]
    <3>1. f[c].feature \in Int
      BY <1>6, <1>9, FeaturesAreNumbers
    <3> QED
      BY <1>9, <3>1
  <2> HIDE DEF a, s, C, d
  <2>3. SumFunction(a) = SumFunctionOnSet(a, C) /\ SumFunction(s) = SumFunctionOnSet(s, C)
    BY <2>1, SumOfFunction
  <2>4. SumFunctionOnSet(s, C) = w * SumFunctionOnSet(a, C)
    BY <1>6, <2>2, SumScaled
  <2>5. SumFunctionOnSet(a, C) \in Int
    BY <1>6, <2>2, SumType
  <2> DEFINE x == e.feature
             y == SumFunctionOnSet(a, C)
             z == SumFunctionOnSet(s, C)
  <2>6. x \in Int /\ y \in Int /\ z = w * y /\ d.feature = x + y /\ back[v].score = w * x + z
    BY <1>6, <2>1, <2>3, <2>4, <2>5
  <2> HIDE DEF x, y, z, e
  <2>7. w * (x + y) = w * x + w * y
    BY <2>6
  <2> QED
    BY <2>6, <2>7
<1>16. Is(v, d)
  BY <1>11, <1>14, <1>15
<1> QED
  BY <1>3, <1>16

\* Every vertex visited has its pointer, a best one unless BLEU was added; what
\* decoding returns is the hypothesis of the last vertex.
DecodingInv ==
  /\ CutInv
  /\ weights \in Int /\ bleuWeight \in {-1, 0, 1} /\ vi \in Nat
  /\ pc \in {"prune", "start"} => vi = 0
  /\ pc # "prune" =>
       /\ vi <= pruned.size
       /\ Pointers(pruned, weights, back, vi)
       /\ bleuWeight = 0 => BestPointers(pruned, weights, back, vi)
  /\ pc = "done" =>
       /\ vi = pruned.size
       /\ hypo.text = BestHypothesis[vi - 1].text
       /\ hypo.feature = BestHypothesis[vi - 1].feature

\* No vertex is visited at first.
LEMMA InitDecoding == VInit => DecodingInv
<1> QED
  BY InitCut DEF VInit, DecodingInv

\* The vertex whose turn it is gets its pointer.
LEMMA VisitPoints ==
  ASSUME DecodingInv, Visit, vi' # vi
  PROVE  /\ vi' = vi + 1 /\ pc' = "viterbi"
         /\ Pointers(pruned, weights, back', vi + 1)
         /\ bleuWeight = 0 => BestPointers(pruned, weights, back', vi + 1)
<1>1. /\ IsGraph(pruned) /\ pruned.size \in Nat /\ weights \in Int /\ vi \in Nat /\ vi < pruned.size
      /\ Pointers(pruned, weights, back, vi)
      /\ bleuWeight = 0 => BestPointers(pruned, weights, back, vi)
      /\ pc = "viterbi"
  BY CutInvGraphs DEF DecodingInv, Visit, IsGraph
<1>2. ASSUME NEW x
      PROVE  (\A v \in 0 .. vi - 1 : Extended(back, x)[v] = back[v]) /\ Extended(back, x)[vi] = x
  BY <1>1 DEF Extended
<1>3. CASE DeadEnd
  <2>1. /\ Incoming(pruned, vi) = {} /\ vi' = vi + 1 /\ pc' = pc
        /\ back' = Extended(back, [edge |-> 0, dead |-> 1, score |-> 0])
    BY <1>3 DEF DeadEnd, Reached
  <2>2. /\ \A v \in 0 .. vi - 1 : back'[v] = back[v]
        /\ back'[vi] = [edge |-> 0, dead |-> 1, score |-> 0]
    BY <1>2, <2>1
  <2> QED
    BY <1>1, <2>1, <2>2, PointerToNothing
<1>4. CASE Rescore
  <2> DEFINE Chosen(s, k) ==
               /\ Reached([edge |-> k, dead |-> Dead(pruned.edges[k]),
                           score |-> FeatureScore(pruned.edges[k])],
                          NewState(pruned.edges[k], s[k]))
               /\ pc' = pc
  <2>0. PICK stats : \E k \in Winner(stats) : Chosen(stats, k)
    BY <1>4 DEF Rescore
  <2>1. PICK k \in Winner(stats) : Chosen(stats, k)
    BY <2>0
  <2> DEFINE e(l) == pruned.edges[l]
             in == Incoming(pruned, vi)
             x == [edge |-> k, dead |-> DeadOf(back, e(k)), score |-> ScoreBy(weights, back, e(k))]
  <2>2. \A l : Dead(e(l)) = DeadOf(back, e(l)) /\ FeatureScore(e(l)) = ScoreBy(weights, back, e(l))
    BY DEF Dead, DeadOf, FeatureScore, ScoreBy
  <2>3. vi' = vi + 1 /\ back' = Extended(back, x)
    BY <2>1, <2>2 DEF Reached
  <2>4. (\A v \in 0 .. vi - 1 : back'[v] = back[v]) /\ back'[vi] = x
    BY <1>2, <2>3
  <2>5. \A l \in in : DeadOf(back, e(l)) \in Nat /\ ScoreBy(weights, back, e(l)) \in Int
    BY <1>1, EdgeSums
  <2>6. ASSUME NEW l \in in
        PROVE  /\ k \in in
               /\ DeadOf(back, e(k)) <= DeadOf(back, e(l))
               /\ bleuWeight = 0 /\ DeadOf(back, e(k)) = 0 /\ DeadOf(back, e(l)) = 0
                  => ScoreBy(weights, back, e(l)) <= ScoreBy(weights, back, e(k))
    <3> DEFINE bleu(m) == IF bleuWeight = 0 THEN 0
                          ELSE bleuWeight * Bleu(stats[m].matches, stats[m].totals)
    <3>1. /\ k \in in
          /\ \/ Dead(e(k)) < Dead(e(l))
             \/ /\ Dead(e(k)) = Dead(e(l))
                /\ Dead(e(k)) = 0 => FeatureScore(e(k)) + bleu(k) >= FeatureScore(e(l)) + bleu(l)
      BY <2>1 DEF Winner
    <3>2. /\ DeadOf(back, e(k)) \in Nat /\ ScoreBy(weights, back, e(k)) \in Int
          /\ DeadOf(back, e(l)) \in Nat /\ ScoreBy(weights, back, e(l)) \in Int
      BY <2>5, <3>1
    <3>3. /\ \/ DeadOf(back, e(k)) < DeadOf(back, e(l))
             \/ DeadOf(back, e(k)) = DeadOf(back, e(l))
          /\ DeadOf(back, e(k)) = 0 /\ DeadOf(back, e(l)) = 0 =>
               ScoreBy(weights, back, e(k)) + bleu(k) >= ScoreBy(weights, back, e(l)) + bleu(l)
      BY <2>2, <3>1, <3>2
    <3>4. bleuWeight = 0 => bleu(k) = 0 /\ bleu(l) = 0
      OBVIOUS
    <3> HIDE DEF bleu, e, in
    <3> QED
      BY <3>1, <3>2, <3>3, <3>4
  <2>7. k \in in
    BY <2>1 DEF Winner
  <2> QED
    BY <1>1, <2>1, <2>3, <2>4, <2>6, <2>7, PointerToEdge
<1>5. CASE Throw
  BY <1>5 DEF Throw
<1> QED
  BY <1>3, <1>4, <1>5 DEF Visit

\* Every step keeps the pointers.
LEMMA NextDecoding == DecodingInv /\ [VNext]_wvars => DecodingInv'
<1> SUFFICES ASSUME DecodingInv, [VNext]_wvars PROVE DecodingInv'
  OBVIOUS
<1>1. CutInv'
  BY NextCut DEF DecodingInv
<1>2. CASE PruneGraph
  <2>1. pc' = "start" /\ weights' = weights /\ vi' = vi /\ bleuWeight' = bleuWeight /\ vi = 0
    BY <1>2 DEF PruneGraph, decoding, DecodingInv
  <2>2. CutInv' => (pc # "prune" => IsGraph(pruned))'
    BY CutInvGraphs, PTL
  <2>3. pruned'.size \in Nat
    BY <1>1, <2>1, <2>2 DEF IsGraph
  <2> QED
    BY <1>1, <2>1, <2>3 DEF DecodingInv, Pointers, BestPointers
<1>3. CASE Start
  <2>1. /\ weights' \in Int /\ pc = "start" /\ pc' = "viterbi" /\ pruned' = pruned
        /\ back' = back /\ vi' = vi /\ vi = 0 /\ vi <= pruned.size /\ bleuWeight' \in {-1, 0, 1}
    BY <1>3, DecodingAssumption DEF Start, gvars, DecodingInv
  <2> QED
    BY <1>1, <2>1 DEF DecodingInv, Pointers, BestPointers
<1>4. CASE Visit
  <2>1. /\ pruned' = pruned /\ weights' = weights /\ bleuWeight' = bleuWeight
        /\ pc = "viterbi" /\ vi < pruned.size /\ pruned.size \in Nat /\ vi \in Nat
    BY <1>4, CutInvGraphs DEF Visit, gvars, DecodingInv, IsGraph
  <2>2. CASE vi' = vi
    <3>1. back' = back /\ pc' \in {"threw", "crashed"}
      <4>1. vi' # vi + 1
        BY <2>1, <2>2
      <4>2. CASE DeadEnd
        BY <4>1, <4>2 DEF DeadEnd, Reached
      <4>3. CASE Throw
        BY <4>3 DEF Throw
      <4>4. CASE Rescore
        <5>1. ASSUME NEW b, NEW st PROVE ~Reached(b, st)
          BY <4>1 DEF Reached
        <5>2. pc' = "crashed" /\ UNCHANGED <<vi, back, state>>
          BY <4>4, <5>1 DEF Rescore
        <5> QED
          BY <5>2
      <4> QED
        BY <1>4, <4>2, <4>3, <4>4 DEF Visit
    <3> QED
      BY <1>1, <2>1, <2>2, <3>1 DEF DecodingInv
  <2>3. CASE vi' # vi
    <3>1. /\ vi' = vi + 1 /\ pc' = "viterbi"
          /\ Pointers(pruned, weights, back', vi + 1)
          /\ bleuWeight = 0 => BestPointers(pruned, weights, back', vi + 1)
      BY <1>4, <2>3, VisitPoints
    <3> QED
      BY <1>1, <2>1, <3>1 DEF DecodingInv
  <2> QED
    BY <2>2, <2>3
<1>5. CASE Finish
  <2>1. /\ pruned' = pruned /\ weights' = weights /\ bleuWeight' = bleuWeight
        /\ pc = "viterbi" /\ vi = pruned.size /\ vi' = vi /\ back' = back /\ pc' = "done"
        /\ hypo'.text = BestHypothesis[vi - 1].text
        /\ hypo'.feature = BestHypothesis[vi - 1].feature
    BY <1>5 DEF Finish, gvars
  <2>2. BestHypothesis' = BestHypothesis
    BY <2>1 DEF BestHypothesis
  <2> QED
    BY <1>1, <2>1, <2>2 DEF DecodingInv
<1>6. CASE UNCHANGED wvars
  <2>1. BestHypothesis' = BestHypothesis
    BY <1>6 DEF BestHypothesis, wvars, gvars, decoding
  <2> QED
    BY <1>1, <1>6, <2>1 DEF DecodingInv, wvars, gvars, decoding
<1> QED
  BY <1>2, <1>3, <1>4, <1>5, <1>6 DEF VNext

\* The hypothesis of best pointers is a best derivation.
LEMMA DecodingSuffices == DecodingInv => ModelDecodesBest
<1> SUFFICES ASSUME DecodingInv, pc = "done", bleuWeight = 0, vi > 0,
                    Derivations(pruned)[vi - 1] # {}
             PROVE  /\ weights * hypo.feature
                         = Max({weights * d.feature : d \in Derivations(pruned)[vi - 1]})
                    /\ \E d \in Derivations(pruned)[vi - 1] :
                          d.text = hypo.text /\ d.feature = hypo.feature
  BY DEF ModelDecodesBest
<1> DEFINE D == Derivations(pruned)[vi - 1]
           S == {weights * d.feature : d \in D}
<1>1. /\ IsGraph(pruned) /\ pruned.size \in Nat /\ weights \in Int /\ vi \in Nat /\ vi = pruned.size
      /\ Pointers(pruned, weights, back, vi) /\ BestPointers(pruned, weights, back, vi)
      /\ hypo.text = BestHypothesis[vi - 1].text
      /\ hypo.feature = BestHypothesis[vi - 1].feature
  BY CutInvGraphs DEF DecodingInv, IsGraph
<1>2. vi - 1 \in 0 .. vi - 1 /\ vi - 1 \in Vertices(pruned)
  BY <1>1 DEF Vertices
<1>3. back[vi - 1].dead = 0 /\ back[vi - 1].score \in Int
  BY <1>1, <1>2 DEF Pointers, IsPointer
<1>4. PICK d \in D : /\ d.text = hypo.text /\ d.feature = hypo.feature
                     /\ weights * d.feature = back[vi - 1].score
  <2>1. vi <= pruned.size
    BY <1>1
  <2> QED
    BY <1>1, <1>2, <1>3, <2>1, HypothesisIsDerived
<1>5. \A o \in D : weights * o.feature <= back[vi - 1].score
  BY <1>1, <1>2, <1>3 DEF BestPointers
<1>6. \A o \in D : weights * o.feature \in Int
  <2>1. \A o \in D : o.feature \in Int
    BY <1>1, <1>2, FeaturesAreNumbers
  <2>2. \A x \in Int : weights * x \in Int
    BY <1>1
  <2> QED
    BY <2>1, <2>2
<1>7. weights * hypo.feature = Max(S)
  <2> DEFINE best == weights * hypo.feature
  <2>1. best = back[vi - 1].score /\ best \in S
    BY <1>4
  <2>2. S \subseteq Int /\ \A x \in S : best >= x
    BY <1>3, <1>5, <1>6, <2>1
  <2> HIDE DEF S, best
  <2>3. \A x \in S : (\A y \in S : x >= y) => x = best
    BY <2>1, <2>2
  <2> QED
    BY <2>1, <2>2, <2>3 DEF Max, best
<1> QED
  BY <1>4, <1>7

\* Viterbi over whatever pruning left (ForestRescore.cpp:337-429), decoding by
\* the model: the hypothesis is a derivation of the last vertex, the features
\* summed up along the pointers are its features, and none scores better.
THEOREM DecodingFindsTheBest == VSpec => []ModelDecodesBest
<1> QED
  BY InitDecoding, NextDecoding, DecodingSuffices, PTL DEF VSpec

-----------------------------------------------------------------------------
(* Coming to the end.                                                        *)

\* Of finitely many numbers there is a last greatest one.
LEMMA LastBestExists ==
  ASSUME NEW S, IsFiniteSet(S), S # {}, NEW val, \A x \in S : x \in Nat /\ val[x] \in Int
  PROVE  \E k \in S : \A l \in S : val[k] >= val[l] /\ (val[l] >= val[k] => l <= k)
<1> DEFINE LastBest(T, k) ==
             k \in T /\ \A l \in T : val[k] >= val[l] /\ (val[l] >= val[k] => l <= k)
           B == {T \in SUBSET S : T # {} /\ ~\E k : LastBest(T, k)}
<1>1. SUFFICES ASSUME B # {} PROVE FALSE
  <2>1. S \notin B
    OBVIOUS
  <2>2. \E k : LastBest(S, k)
    BY <2>1
  <2> QED
    BY <2>2
<1>2. PICK T \in B : \A U \in B : U \subseteq T => U = T
  <2>1. B \subseteq SUBSET S
    OBVIOUS
  <2> HIDE DEF B
  <2> QED
    BY <1>1, <2>1, SmallestSet
<1>3. PICK x \in T : x \in Nat /\ val[x] \in Int
  OBVIOUS
<1>4. CASE T \ {x} = {}
  <2>1. LastBest(T, x)
    BY <1>3, <1>4
  <2> QED
    BY <2>1
<1>5. CASE T \ {x} # {}
  <2>1. T \ {x} \in SUBSET S /\ T \ {x} \subseteq T /\ T \ {x} # T
    OBVIOUS
  <2>2. T \ {x} \notin B
    <3> HIDE DEF B
    <3> QED
      BY <1>2, <2>1
  <2>3. PICK y : LastBest(T \ {x}, y)
    BY <1>5, <2>1, <2>2
  <2>4. y \in T /\ y \in Nat /\ val[y] \in Int
    BY <2>3
  <2>5. \A l \in T : l \in Nat /\ val[l] \in Int /\ (l = x \/ l \in T \ {x})
    OBVIOUS
  <2>6. CASE val[x] > val[y] \/ (val[x] = val[y] /\ x > y)
    <3>1. LastBest(T, x)
      BY <1>3, <2>3, <2>4, <2>5, <2>6
    <3> QED
      BY <3>1
  <2>7. CASE ~(val[x] > val[y] \/ (val[x] = val[y] /\ x > y))
    <3>1. LastBest(T, y)
      BY <1>3, <2>3, <2>4, <2>5, <2>7
    <3> QED
      BY <3>1
  <2> QED
    BY <2>6, <2>7
<1> QED
  BY <1>4, <1>5

\* If no vertex is without edges, none has dead ends below it.
LEMMA CompleteIsAlive ==
  ASSUME NEW g, IsGraph(g), NEW w \in Int, NEW b, NEW n \in Nat, n <= g.size,
         Pointers(g, w, b, n), \A v \in Vertices(g) : Incoming(g, v) # {}
  PROVE  \A v \in 0 .. n - 1 : b[v].dead = 0
<1> DEFINE B == {v \in 0 .. n - 1 : b[v].dead # 0}
<1>1. SUFFICES ASSUME B # {} PROVE FALSE
  OBVIOUS
<1>2. PICK v \in B : \A l \in B : v <= l
  <2>1. B \subseteq Nat
    OBVIOUS
  <2> HIDE DEF B
  <2> QED
    BY <1>1, <2>1, LeastNat
<1>3. v \in Nat /\ v < n /\ v \in 0 .. n - 1 /\ v < g.size /\ v \in Vertices(g) /\ b[v].dead # 0
  BY DEF IsGraph, Vertices
<1>4. b[v].edge \in Incoming(g, v) /\ b[v].dead = DeadOf(b, g.edges[b[v].edge])
  BY <1>3 DEF Pointers, IsPointer
<1>5. Pointers(g, w, b, v)
  BY <1>3 DEF Pointers
<1>6. ASSUME NEW c \in Children(g.edges[b[v].edge]) PROVE b[c].dead = 0
  <2>1. c \in 0 .. v - 1
    BY <1>4, ChildrenAre
  <2>2. c \in 0 .. n - 1 /\ ~(v <= c)
    BY <1>3, <2>1
  <2> QED
    BY <1>2, <2>2
<1> HIDE DEF B
<1>7. DeadOf(b, g.edges[b[v].edge]) = 0
  BY <1>3, <1>4, <1>5, <1>6, EdgeSums
<1> QED
  BY <1>3, <1>4, <1>7

\* BLEU is a number, whatever it is computed from.
BleuIsNumber == \A matches, totals : Bleu(matches, totals) \in Int

\* Of edges without dead ends one wins.
LEMMA SomeEdgeWins ==
  ASSUME BleuIsNumber, DecodingInv, pc = "viterbi", vi < pruned.size,
         \A v \in Vertices(pruned) : Incoming(pruned, v) # {}, NEW stats
  PROVE  Winner(stats) # {}
<1> DEFINE in == Incoming(pruned, vi)
           e(k) == pruned.edges[k]
           bleu(k) == IF bleuWeight = 0 THEN 0
                      ELSE bleuWeight * Bleu(stats[k].matches, stats[k].totals)
           val == [k \in in |-> FeatureScore(e(k)) + bleu(k)]
           Better(k, l) ==
             \/ Dead(e(k)) < Dead(e(l))
             \/ /\ Dead(e(k)) = Dead(e(l))
                /\ Dead(e(k)) = 0 => FeatureScore(e(k)) + bleu(k) >= FeatureScore(e(l)) + bleu(l)
<1>1. /\ IsGraph(pruned) /\ pruned.size \in Nat /\ weights \in Int /\ vi \in Nat
      /\ Pointers(pruned, weights, back, vi) /\ vi \in Vertices(pruned) /\ bleuWeight \in Int
  BY CutInvGraphs DEF DecodingInv, IsGraph, Vertices
<1>2. in # {} /\ in \subseteq Nat /\ IsFiniteSet(in)
  <2>1. PICK n \in Nat : DOMAIN pruned.edges = 1 .. n
    BY <1>1 DEF IsGraph
  <2>2. IsFiniteSet(1 .. n) /\ in \in SUBSET (1 .. n)
    BY <2>1, FS_Interval DEF Incoming
  <2> QED
    BY <1>1, <2>2, FS_Subset
<1>3. \A v \in 0 .. vi - 1 : back[v].dead = 0
  <2>1. vi <= pruned.size
    BY <1>1
  <2> QED
    BY <1>1, <2>1, CompleteIsAlive
<1>4. ASSUME NEW k \in in PROVE Dead(e(k)) = 0 /\ FeatureScore(e(k)) \in Int /\ bleu(k) \in Int
  <2>1. /\ \A c \in Children(e(k)) : c \in 0 .. vi - 1
        /\ ScoreBy(weights, back, e(k)) \in Int
        /\ DeadOf(back, e(k)) = 0 <=> \A c \in Children(e(k)) : back[c].dead = 0
    BY <1>1, EdgeSums
  <2>2. DeadOf(back, e(k)) = 0
    BY <1>3, <2>1
  <2>3. Dead(e(k)) = DeadOf(back, e(k)) /\ FeatureScore(e(k)) = ScoreBy(weights, back, e(k))
    BY DEF Dead, DeadOf, FeatureScore, ScoreBy
  <2>4. bleu(k) \in Int
    <3> DEFINE x == Bleu(stats[k].matches, stats[k].totals)
    <3>1. x \in Int
      BY DEF BleuIsNumber
    <3> HIDE DEF x
    <3>2. bleuWeight * x \in Int
      BY <1>1, <3>1
    <3> QED
      BY <3>2 DEF x
  <2> QED
    BY <2>1, <2>2, <2>3, <2>4
<1>5. \A k \in in : val[k] \in Int
  BY <1>4
<1>6. PICK k \in in : \A l \in in : val[k] >= val[l] /\ (val[l] >= val[k] => l <= k)
  <2> HIDE DEF val, in
  <2> QED
    BY <1>2, <1>5, LastBestExists
<1>7. \A x, y \in in : Better(x, y) <=> val[x] >= val[y]
  <2> HIDE DEF bleu, e
  <2> QED
    BY <1>4
<1>8. \A l \in in : Better(k, l) /\ (Better(l, k) => l <= k)
  <2> HIDE DEF Better, val, in
  <2> QED
    BY <1>6, <1>7
<1>9. Dead(e(k)) <= 2
  BY <1>4
<1>10. Winner(stats) = {x \in in : Dead(e(x)) <= 2
                          /\ \A l \in in : Better(x, l) /\ (Better(l, x) => l <= x)}
  BY DEF Winner
<1> HIDE DEF Better, e, in
<1> QED
  BY <1>8, <1>9, <1>10

\* No score is taken for that of a vertex not visited yet, and an edge wins.
LEMMA NextComplete ==
  ASSUME BleuIsNumber
  PROVE  DecodingInv /\ CompleteIsDecoded /\ [VNext]_wvars => CompleteIsDecoded'
<1> SUFFICES ASSUME DecodingInv, CompleteIsDecoded, [VNext]_wvars,
                    (\A v \in Vertices(pruned) : Incoming(pruned, v) # {})',
                    pc' \in {"threw", "crashed"}
             PROVE  FALSE
  BY DEF CompleteIsDecoded
<1>1. CASE PruneGraph
  BY <1>1 DEF PruneGraph
<1>2. CASE Start
  BY <1>2 DEF Start
<1>3. CASE Finish
  BY <1>3 DEF Finish
<1>4. CASE UNCHANGED wvars
  BY <1>4 DEF wvars, gvars, CompleteIsDecoded, Vertices, Incoming
<1>5. CASE Visit
  <2>1. pruned' = pruned /\ pc = "viterbi" /\ vi < pruned.size
    BY <1>5 DEF Visit, gvars
  <2>2. \A v \in Vertices(pruned) : Incoming(pruned, v) # {}
    BY <2>1 DEF Vertices, Incoming
  <2>3. CASE DeadEnd
    BY <2>1, <2>3 DEF DeadEnd
  <2>4. CASE Throw
    <3>1. /\ IsGraph(pruned) /\ pruned.size \in Nat /\ weights \in Int /\ vi \in Nat
          /\ Pointers(pruned, weights, back, vi) /\ vi <= pruned.size
      BY <2>1, CutInvGraphs DEF DecodingInv, IsGraph
    <3>2. \A v \in 0 .. vi - 1 : back[v].dead = 0
      BY <2>2, <3>1, CompleteIsAlive
    <3>3. PICK k \in Incoming(pruned, vi) : \E c \in Children(pruned.edges[k]) : Unvisited(c)
      BY <2>4 DEF Throw
    <3>4. \A c \in Children(pruned.edges[k]) : c \in 0 .. vi - 1
      BY <3>1, ChildrenAre
    <3> QED
      BY <3>2, <3>3, <3>4 DEF Unvisited
  <2>5. CASE Rescore
    <3>1. \A stats : Winner(stats) # {}
      BY <2>1, <2>2, SomeEdgeWins
    <3>2. pc' = pc
      BY <2>5, <3>1 DEF Rescore
    <3> QED
      BY <2>1, <3>2
  <2> QED
    BY <1>5, <2>3, <2>4, <2>5 DEF Visit
<1> QED
  BY <1>1, <1>2, <1>3, <1>4, <1>5 DEF VNext

\* Over a graph that pruning left without dead ends Viterbi comes to the last
\* vertex, with BLEU and without: the exception "Graph was not topologically
\* sorted" (ForestRescore.cpp:360-363) is not thrown and each vertex gets an
\* edge (:389-397), whatever numbers BLEU and the weights are.
THEOREM CompleteGraphsAreDecoded ==
  ASSUME BleuIsNumber
  PROVE  VSpec => []CompleteIsDecoded
<1>1. VInit => CompleteIsDecoded
  BY DEF VInit, CompleteIsDecoded
<1> QED
  BY <1>1, InitDecoding, NextDecoding, NextComplete, PTL DEF VSpec

\* Pruning a lattice by the weights it is decoded with loses nothing: what comes
\* out is a derivation of the whole graph, and none of that has a better score.
PrunedDecodesBest ==
  /\ pc = "done" /\ vi > 0 /\ bleuWeight = 0 /\ weights = initWeights
  /\ Lattice(graph) /\ Cardinality(Roots(graph)) = 1
  => LET whole == Derivations(graph)[graph.size - 1]
     IN /\ weights * hypo.feature = Max({weights * d.feature : d \in whole})
        /\ \E d \in whole : d.text = hypo.text /\ d.feature = hypo.feature

\* Where the best of what is left is the best of all, it is what decoding finds.
LEMMA DecodingLosesNothing == DecodingInv /\ PruningInv => PrunedDecodesBest
<1> DEFINE r == graph.size - 1
           whole == Derivations(graph)[r]
<1> SUFFICES ASSUME DecodingInv, PruningInv, pc = "done", vi > 0, bleuWeight = 0,
                    weights = initWeights, Lattice(graph), Cardinality(Roots(graph)) = 1
             PROVE  /\ weights * hypo.feature = Max({weights * d.feature : d \in whole})
                    /\ \E d \in whole : d.text = hypo.text /\ d.feature = hypo.feature
  BY DEF PrunedDecodesBest
<1> HIDE DEF whole, r
<1>1. /\ IsGraph(pruned) /\ IsGraph(graph) /\ pruned.size \in Nat /\ weights \in Int
      /\ vi \in Nat /\ vi = pruned.size /\ Pointers(pruned, weights, back, vi)
  BY CutInvGraphs DEF DecodingInv, IsGraph
<1>2. /\ \A v \in Vertices(pruned) : Incoming(pruned, v) # {}
      /\ Max({initWeights * d.feature : d \in whole})
           = Max({initWeights * d.feature : d \in Derivations(pruned)[pruned.size - 1]})
  BY <1>1, PruningKeepsBest DEF LatticeKeepsBest, whole, r
<1>3. Derivations(pruned)[vi - 1] # {}
  <2>1. vi - 1 \in 0 .. vi - 1 /\ vi <= pruned.size
    BY <1>1
  <2>2. back[vi - 1].dead = 0
    BY <1>1, <1>2, <2>1, CompleteIsAlive
  <2> QED
    BY <1>1, <2>1, <2>2, HypothesisIsDerived
<1>4. /\ weights * hypo.feature
           = Max({weights * d.feature : d \in Derivations(pruned)[vi - 1]})
      /\ \E d \in Derivations(pruned)[vi - 1] : d.text = hypo.text /\ d.feature = hypo.feature
  BY <1>3, DecodingSuffices DEF ModelDecodesBest
<1>5. \E d \in whole : d.text = hypo.text /\ d.feature = hypo.feature
  <2> DEFINE K == Retained
             V == Ends(K)
  <2>1. Scored /\ minEdgeCount \in Nat
    BY GraphsAreScored, PruningAssumption DEF PruningInv
  <2>2. pruned = Cut(K) /\ K \in SUBSET DOMAIN graph.edges
    BY DEF PruningInv, Retained
  <2>3. /\ graph.size > 0 /\ r \in Vertices(graph)
        /\ \E d : BestOf(r, d) /\ d.edges \subseteq K
    BY <1>1, <2>1, LatticeIsRetained DEF IsGraph, Vertices, r
  <2> HIDE DEF K
  <2>4. r \in V
    BY <1>1, <2>2, <2>3, KeptIsDerived DEF BestOf
  <2>5. NewId(V, r) = vi - 1
    BY <1>1, <2>2, <2>3, <2>4, LastIsRoot DEF r
  <2>6. vi - 1 \in Vertices(pruned)
    BY <1>1 DEF Vertices
  <2>7. \A d \in Derivations(pruned)[vi - 1] : \E o \in whole :
          d.text = o.text /\ d.feature = o.feature
    BY <1>1, <2>2, <2>4, <2>5, <2>6, CutIsPart DEF whole
  <2> QED
    BY <1>4, <2>7
<1> QED
  BY <1>1, <1>2, <1>4, <1>5

\* Pruning and decoding together, for every lattice of one root: by the weights
\* the graph was pruned with (HopeFearDecoder.cpp:180-190) decoding returns a best
\* derivation of the graph that was read.
THEOREM PruningAndDecodingFindTheBest == VSpec => []PrunedDecodesBest
<1> QED
  BY InitDecoding, NextDecoding, InitPruning, NextPruning, DecodingLosesNothing, PTL DEF VSpec

-----------------------------------------------------------------------------
(* Contexts.                                                                 *)

\* The elements of a prefix.
LEMMA PrefixIs ==
  ASSUME NEW S, NEW a \in Seq(S), NEW m \in Nat
  PROVE  /\ Prefix(a, m) \in Seq(S) /\ Len(Prefix(a, m)) = Lesser(m, Len(a))
         /\ \A i \in 1 .. Lesser(m, Len(a)) : Prefix(a, m)[i] = a[i]
<1> DEFINE n == Lesser(m, Len(a))
<1>1. n \in Nat /\ n <= Len(a) /\ Len(a) \in Nat
  BY DEF Lesser
<1>2. Prefix(a, m) = SubSeq(a, 1, n)
  BY DEF Prefix
<1> HIDE DEF n
<1> QED
  BY <1>1, <1>2 DEF n

\* The elements of a suffix.
LEMMA SuffixIs ==
  ASSUME NEW S, NEW a \in Seq(S), NEW m \in Nat
  PROVE  /\ Suffix(a, m) \in Seq(S) /\ Len(Suffix(a, m)) = Lesser(m, Len(a))
         /\ \A i \in 1 .. Lesser(m, Len(a)) : Suffix(a, m)[i] = a[Len(a) - Lesser(m, Len(a)) + i]
<1> DEFINE x == Len(a)
           n == Lesser(m, x)
           s == x - n + 1
           t == SubSeq(a, s, x)
<1>1. n \in Nat /\ n <= x /\ x \in Nat
  BY DEF Lesser
<1>2. Suffix(a, m) = t
  BY DEF Suffix
<1> HIDE DEF n
<1>3. s \in Int /\ x \in Int /\ s >= 1 /\ x - s + 1 = n /\ (s <= x <=> n > 0)
  BY <1>1
<1>4. \A i \in s .. x : a[i] \in S
  BY <1>3
<1> HIDE DEF x, s
<1>5. /\ t \in Seq(S) /\ Len(t) = IF s <= x THEN x - s + 1 ELSE 0
      /\ \A i \in 1 .. x - s + 1 : t[i] = a[s + i - 1]
  BY <1>3, <1>4, SubSeqProperties
<1> HIDE DEF t
<1>6. Len(t) = n
  BY <1>1, <1>3, <1>5
<1>7. \A i \in 1 .. n : t[i] = a[x - n + i]
  <2>1. \A i \in 1 .. n : s + i - 1 = x - n + i
    BY <1>1 DEF s
  <2> QED
    BY <1>3, <1>5, <2>1
<1> QED
  BY <1>2, <1>5, <1>6, <1>7 DEF n, x

\* Texts of the same first words.
LEMMA SamePrefix ==
  ASSUME NEW S, NEW a \in Seq(S), NEW b \in Seq(S), NEW m \in Nat
  PROVE  Prefix(a, m) = Prefix(b, m) <=>
           /\ Lesser(m, Len(a)) = Lesser(m, Len(b))
           /\ \A i \in 1 .. Lesser(m, Len(a)) : a[i] = b[i]
<1> DEFINE p == Prefix(a, m)
           q == Prefix(b, m)
           n == Lesser(m, Len(a))
<1>1. /\ p \in Seq(S) /\ Len(p) = n /\ \A i \in 1 .. n : p[i] = a[i]
      /\ q \in Seq(S) /\ Len(q) = Lesser(m, Len(b))
      /\ \A i \in 1 .. Lesser(m, Len(b)) : q[i] = b[i]
  BY PrefixIs
<1> HIDE DEF p, q, n
<1>2. ASSUME p = q PROVE n = Lesser(m, Len(b)) /\ \A i \in 1 .. n : a[i] = b[i]
  BY <1>1, <1>2
<1>3. ASSUME n = Lesser(m, Len(b)), \A i \in 1 .. n : a[i] = b[i] PROVE p = q
  <2>1. Len(p) = Len(q) /\ \A i \in 1 .. Len(p) : p[i] = q[i]
    BY <1>1, <1>3
  <2> QED
    BY <1>1, <2>1, SeqEqual
<1> QED
  BY <1>2, <1>3 DEF p, q, n

\* Texts of the same last words, counted from the end.
LEMMA SameSuffix ==
  ASSUME NEW S, NEW a \in Seq(S), NEW b \in Seq(S), NEW m \in Nat
  PROVE  Suffix(a, m) = Suffix(b, m) <=>
           /\ Lesser(m, Len(a)) = Lesser(m, Len(b))
           /\ \A i \in 0 .. Lesser(m, Len(a)) - 1 : a[Len(a) - i] = b[Len(b) - i]
<1> DEFINE p == Suffix(a, m)
           q == Suffix(b, m)
           n == Lesser(m, Len(a))
           x == Len(a)
           y == Len(b)
<1>1. /\ p \in Seq(S) /\ Len(p) = n /\ \A i \in 1 .. n : p[i] = a[x - n + i]
      /\ q \in Seq(S) /\ Len(q) = Lesser(m, y)
      /\ \A i \in 1 .. Lesser(m, y) : q[i] = b[y - Lesser(m, y) + i]
  BY SuffixIs
<1>1a. n \in Nat /\ x \in Nat /\ y \in Nat
  BY DEF Lesser
<1> HIDE DEF p, q, n, x, y
<1>2. ASSUME p = q PROVE n = Lesser(m, y) /\ \A i \in 0 .. n - 1 : a[x - i] = b[y - i]
  <2>1. n = Lesser(m, y)
    BY <1>1, <1>2
  <2>2. ASSUME NEW i \in 0 .. n - 1 PROVE a[x - i] = b[y - i]
    <3>1. n - i \in 1 .. n /\ x - n + (n - i) = x - i /\ y - n + (n - i) = y - i
      BY <1>1a
    <3> QED
      BY <1>1, <1>2, <2>1, <3>1
  <2> QED
    BY <2>1, <2>2
<1>3. ASSUME n = Lesser(m, y), \A i \in 0 .. n - 1 : a[x - i] = b[y - i] PROVE p = q
  <2>1. ASSUME NEW i \in 1 .. n PROVE p[i] = q[i]
    <3>1. n - i \in 0 .. n - 1 /\ x - (n - i) = x - n + i /\ y - (n - i) = y - n + i
      BY <1>1a
    <3> QED
      BY <1>1, <1>3, <3>1
  <2>2. Len(p) = Len(q) /\ \A i \in 1 .. Len(p) : p[i] = q[i]
    BY <1>1, <1>3, <2>1
  <2> QED
    BY <1>1, <2>2, SeqEqual
<1> QED
  BY <1>2, <1>3 DEF p, q, n, x, y

\* Of lengths that a bound does not tell apart neither does it tell the sums.
LEMMA LesserAdds ==
  ASSUME NEW m \in Nat, NEW x \in Nat, NEW y \in Nat, NEW z \in Nat, NEW w \in Nat,
         Lesser(m, x) = Lesser(m, z), Lesser(m, y) = Lesser(m, w)
  PROVE  Lesser(m, x + y) = Lesser(m, z + w)
<1> QED
  BY DEF Lesser

\* The first words of two texts put together are of the first words of each.
LEMMA PrefixJoins ==
  ASSUME NEW S, NEW a \in Seq(S), NEW b \in Seq(S), NEW c \in Seq(S), NEW d \in Seq(S),
         NEW m \in Nat, Prefix(a, m) = Prefix(c, m), Prefix(b, m) = Prefix(d, m)
  PROVE  Prefix(a \o b, m) = Prefix(c \o d, m)
<1> DEFINE u == a \o b
           v == c \o d
<1>1. /\ Lesser(m, Len(a)) = Lesser(m, Len(c))
      /\ \A i \in 1 .. Lesser(m, Len(a)) : a[i] = c[i]
      /\ Lesser(m, Len(b)) = Lesser(m, Len(d))
      /\ \A i \in 1 .. Lesser(m, Len(b)) : b[i] = d[i]
  BY SamePrefix
<1>2. /\ Len(a) \in Nat /\ Len(b) \in Nat /\ Len(c) \in Nat /\ Len(d) \in Nat
  OBVIOUS
<1>2a. /\ u \in Seq(S) /\ Len(u) = Len(a) + Len(b)
       /\ \A i \in 1 .. Len(a) + Len(b) : u[i] = IF i <= Len(a) THEN a[i] ELSE b[i - Len(a)]
  BY ConcatProperties
<1>2b. /\ v \in Seq(S) /\ Len(v) = Len(c) + Len(d)
       /\ \A i \in 1 .. Len(c) + Len(d) : v[i] = IF i <= Len(c) THEN c[i] ELSE d[i - Len(c)]
  BY ConcatProperties
<1> HIDE DEF u, v
<1>3. Lesser(m, Len(u)) = Lesser(m, Len(v))
  <2>1. Lesser(m, Len(a) + Len(b)) = Lesser(m, Len(c) + Len(d))
    BY <1>1, <1>2, LesserAdds
  <2> QED
    BY <1>2a, <1>2b, <2>1
<1>4. ASSUME NEW i \in 1 .. Lesser(m, Len(u)) PROVE u[i] = v[i]
  <2>1. i \in Nat /\ 1 <= i /\ i <= m /\ i <= Len(a) + Len(b) /\ i <= Len(c) + Len(d)
    BY <1>2, <1>2a, <1>2b, <1>3 DEF Lesser
  <2>2. CASE i <= Len(a)
    <3>1. i \in 1 .. Lesser(m, Len(a)) /\ i <= Len(c)
      BY <1>1, <1>2, <2>1, <2>2 DEF Lesser
    <3>2. u[i] = a[i] /\ v[i] = c[i]
      BY <1>2, <1>2a, <1>2b, <2>1, <2>2, <3>1
    <3> QED
      BY <1>1, <3>1, <3>2
  <2>3. CASE ~(i <= Len(a))
    <3>1. Len(a) = Len(c)
      BY <1>1, <1>2, <2>1, <2>3 DEF Lesser
    <3>2. i - Len(a) \in 1 .. Lesser(m, Len(b))
      BY <1>2, <2>1, <2>3 DEF Lesser
    <3>3. u[i] = b[i - Len(a)] /\ v[i] = d[i - Len(a)]
      BY <1>2, <1>2a, <1>2b, <2>1, <2>3, <3>1
    <3> QED
      BY <1>1, <3>2, <3>3
  <2> QED
    BY <2>2, <2>3
<1>5. Prefix(u, m) = Prefix(v, m)
  BY <1>2a, <1>2b, <1>3, <1>4, SamePrefix
<1> QED
  BY <1>5 DEF u, v

\* And the last words of the last words of each.
LEMMA SuffixJoins ==
  ASSUME NEW S, NEW a \in Seq(S), NEW b \in Seq(S), NEW c \in Seq(S), NEW d \in Seq(S),
         NEW m \in Nat, Suffix(a, m) = Suffix(c, m), Suffix(b, m) = Suffix(d, m)
  PROVE  Suffix(a \o b, m) = Suffix(c \o d, m)
<1> DEFINE u == a \o b
           v == c \o d
<1>1. /\ Lesser(m, Len(a)) = Lesser(m, Len(c))
      /\ \A i \in 0 .. Lesser(m, Len(a)) - 1 : a[Len(a) - i] = c[Len(c) - i]
      /\ Lesser(m, Len(b)) = Lesser(m, Len(d))
      /\ \A i \in 0 .. Lesser(m, Len(b)) - 1 : b[Len(b) - i] = d[Len(d) - i]
  BY SameSuffix
<1>2. /\ Len(a) \in Nat /\ Len(b) \in Nat /\ Len(c) \in Nat /\ Len(d) \in Nat
  OBVIOUS
<1>2a. /\ u \in Seq(S) /\ Len(u) = Len(a) + Len(b)
       /\ \A i \in 1 .. Len(a) + Len(b) : u[i] = IF i <= Len(a) THEN a[i] ELSE b[i - Len(a)]
  BY ConcatProperties
<1>2b. /\ v \in Seq(S) /\ Len(v) = Len(c) + Len(d)
       /\ \A i \in 1 .. Len(c) + Len(d) : v[i] = IF i <= Len(c) THEN c[i] ELSE d[i - Len(c)]
  BY ConcatProperties
<1> HIDE DEF u, v
<1>3. Lesser(m, Len(u)) = Lesser(m, Len(v))
  <2>1. Lesser(m, Len(a) + Len(b)) = Lesser(m, Len(c) + Len(d))
    BY <1>1, <1>2, LesserAdds
  <2> QED
    BY <1>2a, <1>2b, <2>1
<1>4. ASSUME NEW i \in 0 .. Lesser(m, Len(u)) - 1
      PROVE  u[Len(u) - i] = v[Len(v) - i]
  <2>1. i \in Nat /\ i < m /\ i < Len(a) + Len(b) /\ i < Len(c) + Len(d)
    BY <1>2, <1>2a, <1>2b, <1>3 DEF Lesser
  <2> DEFINE x == Len(u) - i
             y == Len(v) - i
  <2>1a. /\ x = Len(a) + Len(b) - i /\ x \in 1 .. Len(a) + Len(b)
         /\ y = Len(c) + Len(d) - i /\ y \in 1 .. Len(c) + Len(d)
    BY <1>2, <1>2a, <1>2b, <2>1
  <2> HIDE DEF x, y
  <2>1b. /\ u[x] = IF x <= Len(a) THEN a[x] ELSE b[x - Len(a)]
         /\ v[y] = IF y <= Len(c) THEN c[y] ELSE d[y - Len(c)]
    BY <1>2a, <1>2b, <2>1a
  <2>2. CASE i < Len(b)
    <3>1. i \in 0 .. Lesser(m, Len(b)) - 1 /\ i < Len(d)
      BY <1>1, <1>2, <2>1, <2>2 DEF Lesser
    <3>2. /\ ~(x <= Len(a)) /\ x - Len(a) = Len(b) - i
          /\ ~(y <= Len(c)) /\ y - Len(c) = Len(d) - i
      BY <1>2, <2>1, <2>1a, <2>2, <3>1
    <3> QED
      BY <1>1, <2>1b, <3>1, <3>2 DEF x, y
  <2>3. CASE ~(i < Len(b))
    <3>1. Len(b) = Len(d)
      BY <1>1, <1>2, <2>1, <2>3 DEF Lesser
    <3> DEFINE j == i - Len(b)
    <3>2. /\ j \in 0 .. Lesser(m, Len(a)) - 1
          /\ x <= Len(a) /\ x = Len(a) - j
          /\ y <= Len(c) /\ y = Len(c) - j
      BY <1>2, <2>1, <2>1a, <2>3, <3>1 DEF Lesser
    <3> HIDE DEF j
    <3> QED
      BY <1>1, <2>1b, <3>2 DEF x, y
  <2> QED
    BY <2>2, <2>3
<1>5. Suffix(u, m) = Suffix(v, m)
  BY <1>2a, <1>2b, <1>3, <1>4, SameSuffix
<1> QED
  BY <1>5 DEF u, v

\* The first words of the first words are the first words, and likewise the last.
LEMMA PrefixTwice ==
  ASSUME NEW S, NEW a \in Seq(S), NEW m \in Nat
  PROVE  /\ Prefix(a, m) \in Seq(S) /\ Prefix(Prefix(a, m), m) = Prefix(a, m)
         /\ Suffix(a, m) \in Seq(S) /\ Suffix(Suffix(a, m), m) = Suffix(a, m)
<1> DEFINE p == Prefix(a, m)
           q == Suffix(a, m)
           n == Lesser(m, Len(a))
<1>1. /\ p \in Seq(S) /\ Len(p) = n /\ \A i \in 1 .. n : p[i] = a[i]
      /\ q \in Seq(S) /\ Len(q) = n /\ \A i \in 1 .. n : q[i] = a[Len(a) - n + i]
  BY PrefixIs, SuffixIs
<1>2. n \in Nat /\ Len(a) \in Nat /\ n <= m
  BY DEF Lesser
<1> HIDE DEF p, q, n
<1>2a. Lesser(m, n) = n
  BY <1>2 DEF Lesser
<1>3. \A i \in 0 .. n - 1 : q[n - i] = a[Len(a) - i]
  <2>1. ASSUME NEW i \in 0 .. n - 1 PROVE q[n - i] = a[Len(a) - i]
    <3>1. n - i \in 1 .. n /\ Len(a) - n + (n - i) = Len(a) - i
      BY <1>2
    <3> QED
      BY <1>1, <3>1
  <2> QED
    BY <2>1
<1>4. Prefix(p, m) = Prefix(a, m)
  <2>1. /\ Lesser(m, Len(p)) = Lesser(m, Len(a))
        /\ \A i \in 1 .. Lesser(m, Len(p)) : p[i] = a[i]
    BY <1>1, <1>2a DEF n
  <2> QED
    BY <1>1, <2>1, SamePrefix
<1>5. Suffix(q, m) = Suffix(a, m)
  <2>1. /\ Lesser(m, Len(q)) = Lesser(m, Len(a))
        /\ \A i \in 0 .. Lesser(m, Len(q)) - 1 : q[Len(q) - i] = a[Len(a) - i]
    BY <1>1, <1>2a, <1>3 DEF n
  <2> QED
    BY <1>1, <2>1, SameSuffix
<1> QED
  BY <1>1, <1>4, <1>5 DEF p, q

\* Texts put together are a text.
LEMMA FlattenText ==
  ASSUME NEW S, NEW n \in Nat, NEW s, DOMAIN s = 1 .. n, s \in Seq(Seq(S))
  PROVE  FlattenSeq(s) \in Seq(S)
<1>1. PICK g \in [0 .. n -> Seq(S)] : FlattenSeq(s) = g[n]
  BY FlattenIs
<1>2. n \in 0 .. n
  OBVIOUS
<1> QED
  BY <1>1, <1>2

\* Put together, texts of the same first words have the same first words.
LEMMA FlattenPrefix ==
  ASSUME NEW S, NEW n \in Nat, NEW m \in Nat,
         NEW s, DOMAIN s = 1 .. n, s \in Seq(Seq(S)),
         NEW q, DOMAIN q = 1 .. n, q \in Seq(Seq(S)),
         \A i \in 1 .. n : Prefix(s[i], m) = Prefix(q[i], m)
  PROVE  Prefix(FlattenSeq(s), m) = Prefix(FlattenSeq(q), m)
<1>1. PICK g \in [0 .. n -> Seq(S)] : IsFlattening(s, n, g) /\ FlattenSeq(s) = g[n]
  BY FlattenIs
<1>2. PICK h \in [0 .. n -> Seq(S)] : IsFlattening(q, n, h) /\ FlattenSeq(q) = h[n]
  BY FlattenIs
<1>3. \A i \in 1 .. n : s[i] \in Seq(S) /\ q[i] \in Seq(S)
  OBVIOUS
<1> DEFINE B == {i \in 0 .. n : Prefix(g[i], m) # Prefix(h[i], m)}
<1>4. SUFFICES ASSUME B # {} PROVE FALSE
  <2>1. n \in 0 .. n
    OBVIOUS
  <2> QED
    BY <1>1, <1>2, <2>1
<1>5. PICK i \in B : \A l \in B : i <= l
  <2>1. B \subseteq Nat
    OBVIOUS
  <2> HIDE DEF B
  <2> QED
    BY <1>4, <2>1, LeastNat
<1>6. i # 0
  BY <1>1, <1>2 DEF IsFlattening
<1>7. i \in 1 .. n /\ i - 1 \in 0 .. n /\ ~(i <= i - 1)
  BY <1>6
<1>8. Prefix(g[i - 1], m) = Prefix(h[i - 1], m)
  BY <1>5, <1>7
<1>9. g[i] = g[i - 1] \o s[i] /\ h[i] = h[i - 1] \o q[i]
  BY <1>1, <1>2, <1>7 DEF IsFlattening
<1>10. g[i - 1] \in Seq(S) /\ h[i - 1] \in Seq(S)
  BY <1>7
<1>11. Prefix(g[i - 1] \o s[i], m) = Prefix(h[i - 1] \o q[i], m)
  <2> HIDE DEF B
  <2> QED
    BY <1>3, <1>7, <1>8, <1>10, PrefixJoins
<1> QED
  BY <1>9, <1>11

\* Put together, texts of the same last words have the same last words.
LEMMA FlattenSuffix ==
  ASSUME NEW S, NEW n \in Nat, NEW m \in Nat,
         NEW s, DOMAIN s = 1 .. n, s \in Seq(Seq(S)),
         NEW q, DOMAIN q = 1 .. n, q \in Seq(Seq(S)),
         \A i \in 1 .. n : Suffix(s[i], m) = Suffix(q[i], m)
  PROVE  Suffix(FlattenSeq(s), m) = Suffix(FlattenSeq(q), m)
<1>1. PICK g \in [0 .. n -> Seq(S)] : IsFlattening(s, n, g) /\ FlattenSeq(s) = g[n]
  BY FlattenIs
<1>2. PICK h \in [0 .. n -> Seq(S)] : IsFlattening(q, n, h) /\ FlattenSeq(q) = h[n]
  BY FlattenIs
<1>3. \A i \in 1 .. n : s[i] \in Seq(S) /\ q[i] \in Seq(S)
  OBVIOUS
<1> DEFINE B == {i \in 0 .. n : Suffix(g[i], m) # Suffix(h[i], m)}
<1>4. SUFFICES ASSUME B # {} PROVE FALSE
  <2>1. n \in 0 .. n
    OBVIOUS
  <2> QED
    BY <1>1, <1>2, <2>1
<1>5. PICK i \in B : \A l \in B : i <= l
  <2>1. B \subseteq Nat
    OBVIOUS
  <2> HIDE DEF B
  <2> QED
    BY <1>4, <2>1, LeastNat
<1>6. i # 0
  BY <1>1, <1>2 DEF IsFlattening
<1>7. i \in 1 .. n /\ i - 1 \in 0 .. n /\ ~(i <= i - 1)
  BY <1>6
<1>8. Suffix(g[i - 1], m) = Suffix(h[i - 1], m)
  BY <1>5, <1>7
<1>9. g[i] = g[i - 1] \o s[i] /\ h[i] = h[i - 1] \o q[i]
  BY <1>1, <1>2, <1>7 DEF IsFlattening
<1>10. g[i - 1] \in Seq(S) /\ h[i - 1] \in Seq(S)
  BY <1>7
<1>11. Suffix(g[i - 1] \o s[i], m) = Suffix(h[i - 1] \o q[i], m)
  <2> HIDE DEF B
  <2> QED
    BY <1>3, <1>7, <1>8, <1>10, SuffixJoins
<1> QED
  BY <1>9, <1>11

\* An edge as the code reads it: a sequence of words in which no child comes
\* twice.
Worded(e) ==
  /\ \E n \in Nat : DOMAIN e.words = 1 .. n
  /\ \A i, j \in DOMAIN e.words : e.words[i] \in Nat /\ e.words[i] = e.words[j] => i = j

\* What Expand puts together, piece by piece.
Pieces(e, text) ==
  [k \in DOMAIN e.words |-> IF e.words[k] \in Nat THEN text[e.words[k]] ELSE <<e.words[k]>>]

\* The pieces are texts.
LEMMA PiecesAre ==
  ASSUME NEW e, Worded(e), NEW S, ToSet(e.words) \subseteq S,
         NEW t, \A c \in Children(e) : t[c] \in Seq(S)
  PROVE  /\ Expand(e, t) = FlattenSeq(Pieces(e, t))
         /\ DOMAIN Pieces(e, t) = DOMAIN e.words
         /\ Pieces(e, t) \in Seq(Seq(S))
         /\ \A i \in DOMAIN e.words :
              /\ e.words[i] \in Nat => e.words[i] \in Children(e) /\ Pieces(e, t)[i] = t[e.words[i]]
              /\ e.words[i] \notin Nat => Pieces(e, t)[i] = <<e.words[i]>>
              /\ Pieces(e, t)[i] \in Seq(S)
<1> DEFINE w == e.words
           p == Pieces(e, t)
<1>1. PICK n \in Nat : DOMAIN w = 1 .. n
  BY DEF Worded
<1>2. ASSUME NEW i \in DOMAIN w
      PROVE  /\ w[i] \in Nat => w[i] \in Children(e) /\ p[i] = t[w[i]]
             /\ w[i] \notin Nat => p[i] = <<w[i]>>
             /\ p[i] \in Seq(S)
  <2>1. w[i] \in S /\ (w[i] \in Nat => w[i] \in Children(e))
    BY DEF ToSet, Children
  <2>2. <<w[i]>> \in Seq(S)
    BY <2>1
  <2>3. p[i] = IF w[i] \in Nat THEN t[w[i]] ELSE <<w[i]>>
    BY DEF Pieces
  <2> QED
    BY <2>1, <2>2, <2>3
<1>3. DOMAIN p = 1 .. n /\ p = [i \in 1 .. n |-> p[i]]
  BY <1>1 DEF Pieces
<1>4. p \in Seq(Seq(S))
  <2>1. p \in [1 .. n -> Seq(S)]
    <3> HIDE DEF p
    <3> QED
      BY <1>1, <1>2, <1>3
  <2> HIDE DEF p
  <2> QED
    BY <2>1, SeqDef
<1> QED
  BY <1>1, <1>2, <1>3, <1>4 DEF Expand, Pieces

\* Expanding an edge by texts gives a text.
LEMMA ExpandText ==
  ASSUME NEW e, Worded(e), NEW S, ToSet(e.words) \subseteq S,
         NEW t, \A c \in Children(e) : t[c] \in Seq(S)
  PROVE  Expand(e, t) \in Seq(S)
<1>1. PICK n \in Nat : DOMAIN e.words = 1 .. n
  BY DEF Worded
<1>2. /\ Expand(e, t) = FlattenSeq(Pieces(e, t)) /\ Pieces(e, t) \in Seq(Seq(S))
      /\ DOMAIN Pieces(e, t) = 1 .. n
  BY <1>1, PiecesAre
<1> QED
  BY <1>2, FlattenText

\* Expanding an edge by texts of the same first words gives such.
LEMMA ExpandPrefix ==
  ASSUME NEW e, Worded(e), NEW S, ToSet(e.words) \subseteq S, NEW m \in Nat,
         NEW t, \A c \in Children(e) : t[c] \in Seq(S),
         NEW u, \A c \in Children(e) : u[c] \in Seq(S),
         \A c \in Children(e) : Prefix(t[c], m) = Prefix(u[c], m)
  PROVE  Prefix(Expand(e, t), m) = Prefix(Expand(e, u), m)
<1> DEFINE p == Pieces(e, t)
           q == Pieces(e, u)
<1>1. PICK n \in Nat : DOMAIN e.words = 1 .. n
  BY DEF Worded
<1>2. /\ Expand(e, t) = FlattenSeq(p) /\ DOMAIN p = 1 .. n /\ p \in Seq(Seq(S))
      /\ \A i \in 1 .. n :
           /\ e.words[i] \in Nat => e.words[i] \in Children(e) /\ p[i] = t[e.words[i]]
           /\ e.words[i] \notin Nat => p[i] = <<e.words[i]>>
  <2>1. /\ Expand(e, t) = FlattenSeq(p) /\ DOMAIN p = DOMAIN e.words /\ p \in Seq(Seq(S))
        /\ \A i \in DOMAIN e.words :
             /\ e.words[i] \in Nat => e.words[i] \in Children(e) /\ p[i] = t[e.words[i]]
             /\ e.words[i] \notin Nat => p[i] = <<e.words[i]>>
             /\ p[i] \in Seq(S)
    BY PiecesAre
  <2> HIDE DEF p
  <2> QED
    BY <1>1, <2>1
<1>3. /\ Expand(e, u) = FlattenSeq(q) /\ DOMAIN q = 1 .. n /\ q \in Seq(Seq(S))
      /\ \A i \in 1 .. n :
           /\ e.words[i] \in Nat => e.words[i] \in Children(e) /\ q[i] = u[e.words[i]]
           /\ e.words[i] \notin Nat => q[i] = <<e.words[i]>>
  <2>1. /\ Expand(e, u) = FlattenSeq(q) /\ DOMAIN q = DOMAIN e.words /\ q \in Seq(Seq(S))
        /\ \A i \in DOMAIN e.words :
             /\ e.words[i] \in Nat => e.words[i] \in Children(e) /\ q[i] = u[e.words[i]]
             /\ e.words[i] \notin Nat => q[i] = <<e.words[i]>>
             /\ q[i] \in Seq(S)
    BY PiecesAre
  <2> HIDE DEF q
  <2> QED
    BY <1>1, <2>1
<1> HIDE DEF p, q
<1>4. \A i \in 1 .. n : Prefix(p[i], m) = Prefix(q[i], m)
  BY <1>2, <1>3
<1>5. /\ DOMAIN p = 1 .. n /\ p \in Seq(Seq(S))
      /\ DOMAIN q = 1 .. n /\ q \in Seq(Seq(S))
  BY <1>2, <1>3
<1>6. Prefix(FlattenSeq(p), m) = Prefix(FlattenSeq(q), m)
  BY <1>4, <1>5, FlattenPrefix
<1> QED
  BY <1>2, <1>3, <1>6

\* Expanding an edge by texts of the same last words gives such.
LEMMA ExpandSuffix ==
  ASSUME NEW e, Worded(e), NEW S, ToSet(e.words) \subseteq S, NEW m \in Nat,
         NEW t, \A c \in Children(e) : t[c] \in Seq(S),
         NEW u, \A c \in Children(e) : u[c] \in Seq(S),
         \A c \in Children(e) : Suffix(t[c], m) = Suffix(u[c], m)
  PROVE  Suffix(Expand(e, t), m) = Suffix(Expand(e, u), m)
<1> DEFINE p == Pieces(e, t)
           q == Pieces(e, u)
<1>1. PICK n \in Nat : DOMAIN e.words = 1 .. n
  BY DEF Worded
<1>2. /\ Expand(e, t) = FlattenSeq(p) /\ DOMAIN p = 1 .. n /\ p \in Seq(Seq(S))
      /\ \A i \in 1 .. n :
           /\ e.words[i] \in Nat => e.words[i] \in Children(e) /\ p[i] = t[e.words[i]]
           /\ e.words[i] \notin Nat => p[i] = <<e.words[i]>>
  <2>1. /\ Expand(e, t) = FlattenSeq(p) /\ DOMAIN p = DOMAIN e.words /\ p \in Seq(Seq(S))
        /\ \A i \in DOMAIN e.words :
             /\ e.words[i] \in Nat => e.words[i] \in Children(e) /\ p[i] = t[e.words[i]]
             /\ e.words[i] \notin Nat => p[i] = <<e.words[i]>>
             /\ p[i] \in Seq(S)
    BY PiecesAre
  <2> HIDE DEF p
  <2> QED
    BY <1>1, <2>1
<1>3. /\ Expand(e, u) = FlattenSeq(q) /\ DOMAIN q = 1 .. n /\ q \in Seq(Seq(S))
      /\ \A i \in 1 .. n :
           /\ e.words[i] \in Nat => e.words[i] \in Children(e) /\ q[i] = u[e.words[i]]
           /\ e.words[i] \notin Nat => q[i] = <<e.words[i]>>
  <2>1. /\ Expand(e, u) = FlattenSeq(q) /\ DOMAIN q = DOMAIN e.words /\ q \in Seq(Seq(S))
        /\ \A i \in DOMAIN e.words :
             /\ e.words[i] \in Nat => e.words[i] \in Children(e) /\ q[i] = u[e.words[i]]
             /\ e.words[i] \notin Nat => q[i] = <<e.words[i]>>
             /\ q[i] \in Seq(S)
    BY PiecesAre
  <2> HIDE DEF q
  <2> QED
    BY <1>1, <2>1
<1> HIDE DEF p, q
<1>4. \A i \in 1 .. n : Suffix(p[i], m) = Suffix(q[i], m)
  BY <1>2, <1>3
<1>5. /\ DOMAIN p = 1 .. n /\ p \in Seq(Seq(S))
      /\ DOMAIN q = 1 .. n /\ q \in Seq(Seq(S))
  BY <1>2, <1>3
<1>6. Suffix(FlattenSeq(p), m) = Suffix(FlattenSeq(q), m)
  BY <1>4, <1>5, FlattenSuffix
<1> QED
  BY <1>2, <1>3, <1>6

\* The words an edge has itself among its first i, and the children among them.
OwnWords(e, i) == {k \in 1 .. i : e.words[k] \notin Nat}
FirstChildren(e, i) == {e.words[k] : k \in {k \in 1 .. i : e.words[k] \in Nat}}

\* An expanded edge is as long as its own words and what its children stand for.
LEMMA ExpandLength ==
  ASSUME NEW e, Worded(e), NEW S, ToSet(e.words) \subseteq S,
         NEW t, \A c \in Children(e) : t[c] \in Seq(S),
         NEW l, \A c \in Children(e) : l[c] = Len(t[c])
  PROVE  Len(Expand(e, t)) = Cardinality({k \in DOMAIN e.words : e.words[k] \notin Nat})
                             + SumFunctionOnSet(l, Children(e))
<1> DEFINE p == Pieces(e, t)
           w == e.words
<1>1. PICK n \in Nat : DOMAIN w = 1 .. n
  BY DEF Worded
<1>2. /\ Expand(e, t) = FlattenSeq(p) /\ DOMAIN p = 1 .. n /\ p \in Seq(Seq(S))
      /\ \A i \in 1 .. n :
           /\ w[i] \in Nat => w[i] \in Children(e) /\ p[i] = t[w[i]]
           /\ w[i] \notin Nat => p[i] = <<w[i]>>
           /\ p[i] \in Seq(S)
  BY <1>1, PiecesAre
<1>3. \A i, j \in 1 .. n : w[i] \in Nat /\ w[i] = w[j] => i = j
  BY <1>1 DEF Worded
<1> HIDE DEF p
<1>4. PICK g \in [0 .. n -> Seq(S)] : IsFlattening(p, n, g) /\ FlattenSeq(p) = g[n]
  BY <1>2, FlattenIs
<1> DEFINE Own(i) == OwnWords(e, i)
           Kids(i) == FirstChildren(e, i)
           Right(i) == /\ IsFiniteSet(Own(i)) /\ IsFiniteSet(Kids(i)) /\ Kids(i) \subseteq Children(e)
                       /\ Len(g[i]) = Cardinality(Own(i)) + SumFunctionOnSet(l, Kids(i))
           B == {i \in 0 .. n : ~Right(i)}
<1>5. Right(n)
  <2>1. SUFFICES ASSUME B # {} PROVE FALSE
    <3>1. n \in 0 .. n
      OBVIOUS
    <3> HIDE DEF Right
    <3> QED
      BY <3>1
  <2>2. PICK i \in B : \A j \in B : i <= j
    <3>1. B \subseteq Nat
      OBVIOUS
    <3> HIDE DEF B
    <3> QED
      BY <2>1, <3>1, LeastNat
  <2>3. i \in 0 .. n /\ ~Right(i) /\ \A j \in 0 .. n : ~Right(j) => i <= j
    <3> HIDE DEF Right
    <3> QED
      BY <2>2
  <2> HIDE DEF B
  <2>4. CASE i = 0
    <3>1. Own(0) = {} /\ Kids(0) = {}
      BY DEF OwnWords, FirstChildren
    <3>2. g[0] = <<>> /\ Len(g[0]) = 0
      BY <1>4 DEF IsFlattening
    <3>3. IsFiniteSet({}) /\ Cardinality({}) = 0 /\ SumFunctionOnSet(l, {}) = 0
      BY FS_EmptySet, SumOfZeros
    <3> HIDE DEF Own, Kids
    <3>4. Right(0)
      <4>1. Cardinality(Own(0)) = 0 /\ SumFunctionOnSet(l, Kids(0)) = 0
        BY <3>1, <3>3
      <4>2. IsFiniteSet(Own(0)) /\ IsFiniteSet(Kids(0)) /\ Kids(0) \subseteq Children(e)
        BY <3>1, <3>3
      <4>3. Len(g[0]) = Cardinality(Own(0)) + SumFunctionOnSet(l, Kids(0))
        BY <3>2, <4>1
      <4> QED
        BY <4>2, <4>3
    <3> HIDE DEF Right
    <3> QED
      BY <2>3, <2>4, <3>4
  <2>5. CASE i # 0
    <3> DEFINE j == i - 1
    <3>1. /\ i \in 1 .. n /\ i \in Nat /\ j \in 0 .. n /\ ~(i <= j) /\ j \in Nat
          /\ \A k : k \in 1 .. i <=> k \in 1 .. j \/ k = i
          /\ \A k \in 1 .. j : k \in 1 .. n /\ k # i
      BY <2>3, <2>5
    <3>2. Right(j)
      <4> HIDE DEF Right
      <4> QED
        BY <2>3, <3>1
    <3>3. g[i] = g[j] \o p[i] /\ g[j] \in Seq(S) /\ p[i] \in Seq(S)
      BY <1>2, <1>4, <3>1 DEF IsFlattening
    <3> HIDE DEF j
    <3>4. Len(g[i]) = Len(g[j]) + Len(p[i])
      BY <3>3, ConcatProperties
    <3>5. \A c \in Children(e) : l[c] \in Nat
      BY Zenon, LenProperties
    <3>6. CASE w[i] \notin Nat
      <4>1. Own(i) = Own(j) \cup {i} /\ i \notin Own(j) /\ Kids(i) = Kids(j)
        BY <3>1, <3>6 DEF OwnWords, FirstChildren
      <4>2. Len(p[i]) = 1
        <5>1. p[i] = <<w[i]>>
          BY <1>2, <3>1, <3>6
        <5> QED
          BY <5>1
      <4> HIDE DEF Own, Kids
      <4>3. /\ IsFiniteSet(Own(i)) /\ Cardinality(Own(i)) = Cardinality(Own(j)) + 1
            /\ Cardinality(Own(j)) \in Nat
        BY <3>2, <4>1, FS_AddElement, FS_CardinalityType
      <4>4. SumFunctionOnSet(l, Kids(j)) \in Int
        <5>1. \A c \in Kids(j) : l[c] \in Int
          BY <3>2, <3>5
        <5> QED
          BY <3>2, <5>1, SumType
      <4>5. Right(i)
        <5>1. IsFiniteSet(Own(i)) /\ IsFiniteSet(Kids(i)) /\ Kids(i) \subseteq Children(e)
          BY <3>2, <4>1, <4>3
        <5> DEFINE x == Len(g[j])
                   y == Cardinality(Own(j))
                   z == SumFunctionOnSet(l, Kids(j))
        <5>2. /\ y \in Nat /\ z \in Int /\ x = y + z /\ Len(g[i]) = x + 1
              /\ Cardinality(Own(i)) = y + 1 /\ SumFunctionOnSet(l, Kids(i)) = z
          BY <3>2, <3>4, <4>1, <4>2, <4>3, <4>4
        <5> HIDE DEF x, y, z
        <5>3. Len(g[i]) = Cardinality(Own(i)) + SumFunctionOnSet(l, Kids(i))
          BY <5>2
        <5> QED
          BY <5>1, <5>3
      <4> HIDE DEF Right
      <4> QED
        BY <2>3, <4>5
    <3>7. CASE w[i] \in Nat
      <4>1. Own(i) = Own(j) /\ Kids(i) = Kids(j) \cup {w[i]} /\ w[i] \in Children(e)
        <5>1. w[i] \in Children(e)
          BY <1>2, <3>1, <3>7
        <5>2. Own(i) = Own(j)
          BY <3>1, <3>7 DEF OwnWords
        <5>3. ASSUME NEW c PROVE c \in Kids(i) <=> c \in Kids(j) \cup {w[i]}
          BY <3>1, <3>7 DEF FirstChildren
        <5> HIDE DEF Own, Kids
        <5> QED
          BY <5>1, <5>2, <5>3
      <4>2. w[i] \notin Kids(j)
        BY <1>3, <3>1, <3>7 DEF FirstChildren
      <4>3. Len(p[i]) = l[w[i]]
        BY <1>2, <3>1, <3>7
      <4> HIDE DEF Own, Kids
      <4>4. IsFiniteSet(Kids(i)) /\ Kids(i) \subseteq Children(e) /\ Kids(i) \ {w[i]} = Kids(j)
            /\ w[i] \in Kids(i)
        <5>1. IsFiniteSet(Kids(i))
          <6>1. IsFiniteSet(Kids(j) \cup {w[i]})
            BY <3>2, FS_AddElement
          <6> QED
            BY <4>1, <6>1
        <5> QED
          BY <3>2, <4>1, <4>2, <5>1
      <4>5. \A c \in Kids(i) : l[c] \in Int
        BY <3>5, <4>4
      <4>6. SumFunctionOnSet(l, Kids(i)) = l[w[i]] + SumFunctionOnSet(l, Kids(j))
        <5>1. SumFunctionOnSet(l, Kids(i)) = l[w[i]] + SumFunctionOnSet(l, Kids(i) \ {w[i]})
          BY <4>4, <4>5, SumWithout
        <5> QED
          BY <4>4, <5>1
      <4>7. SumFunctionOnSet(l, Kids(j)) \in Int /\ l[w[i]] \in Int
        <5>1. \A c \in Kids(j) : l[c] \in Int
          BY <3>2, <3>5
        <5> QED
          BY <3>2, <4>4, <4>5, <5>1, SumType
      <4>8. Cardinality(Own(j)) \in Nat
        BY <3>2, FS_CardinalityType
      <4>9. Right(i)
        BY <3>2, <3>4, <4>1, <4>3, <4>4, <4>6, <4>7, <4>8
      <4> HIDE DEF Right
      <4> QED
        BY <2>3, <4>9
    <3> QED
      BY <3>6, <3>7
  <2> QED
    BY <2>4, <2>5
<1>6. Own(n) = {k \in DOMAIN w : w[k] \notin Nat} /\ Kids(n) = Children(e)
  BY <1>1 DEF OwnWords, FirstChildren, Children, ToSet
<1>7. Len(Expand(e, t)) = Len(g[n])
  BY <1>2, <1>4
<1> QED
  BY <1>5, <1>6, <1>7

\* Graphs of edges as the code reads them.
GraphWorded(g) == \A k \in DOMAIN g.edges : Worded(g.edges[k])

\* The graphs that are read are such.
LEMMA GraphsAreWorded ==
  ASSUME NEW g \in Graphs
  PROVE  GraphWorded(g)
<1>1. ASSUME NEW k \in DOMAIN g.edges PROVE Worded(g.edges[k])
  <2> DEFINE w == g.edges[k].words
  <2>1. /\ w \in Seq(ToSet(w))
        /\ \A i, j \in DOMAIN w : w[i] \in Nat /\ w[i] = w[j] => i = j
    BY GraphAssumption
  <2>2. DOMAIN w = 1 .. Len(w) /\ Len(w) \in Nat
    <3> HIDE DEF w
    <3> QED
      BY <2>1
  <2> QED
    BY <2>1, <2>2 DEF Worded
<1> QED
  BY <1>1 DEF GraphWorded

\* New numbers keep the children of an edge apart.
LEMMA CutIsWorded ==
  ASSUME IsGraph(graph), GraphWorded(graph), NEW K \in SUBSET DOMAIN graph.edges
  PROVE  GraphWorded(Cut(K))
<1> DEFINE V == Ends(K)
<1>1. /\ \A u \in V : NewId(V, u) \in Nat
      /\ \A u, x \in V : NewId(V, u) = NewId(V, x) => u = x
  BY NewIdsAre
<1>2. ASSUME NEW n \in DOMAIN Cut(K).edges PROVE Worded(Cut(K).edges[n])
  <2>1. PICK k \in K : IsCopy(V, Cut(K).edges[n], graph.edges[k])
    BY CutIs
  <2> DEFINE e == graph.edges[k]
             copy == Cut(K).edges[n]
  <2>2. Worded(e) /\ Children(e) \subseteq V
    BY EndsAre DEF GraphWorded
  <2> HIDE DEF V, e, copy
  <2>3. /\ DOMAIN copy.words = DOMAIN e.words
        /\ \A i \in DOMAIN e.words :
             copy.words[i] = IF e.words[i] \in Nat THEN NewId(V, e.words[i]) ELSE e.words[i]
    BY <2>1 DEF IsCopy, e, copy
  <2>4. ASSUME NEW i \in DOMAIN e.words, NEW j \in DOMAIN e.words,
               copy.words[i] \in Nat, copy.words[i] = copy.words[j]
        PROVE  i = j
    <3>1. e.words[i] \in Nat /\ e.words[j] \in Nat
      BY <2>3, <2>4
    <3>2. e.words[i] \in V /\ e.words[j] \in V
      BY <2>2, <3>1 DEF Children, ToSet
    <3>3. e.words[i] = e.words[j]
      BY <1>1, <2>3, <2>4, <3>1, <3>2
    <3> QED
      BY <2>2, <3>1, <3>3 DEF Worded
  <2>5. Worded(copy)
    BY <2>2, <2>3, <2>4 DEF Worded
  <2> QED
    BY <2>5 DEF copy
<1> QED
  BY <1>2 DEF GraphWorded

\* What is pruned is read as graphs are.
LEMMA PrunedIsWorded == CutInv /\ pc # "prune" => GraphWorded(pruned)
<1> QED
  BY GraphIs, GraphsAreWorded, CutIsWorded DEF CutInv

\* The contexts and the length that UpdateState makes of those s of the children
\* of an edge.
IsContext(e, s, x) ==
  /\ x.left = Prefix(Expand(e, [c \in Children(e) |-> s[c].left]), Order - 1)
  /\ x.right = Suffix(Expand(e, [c \in Children(e) |-> s[c].right]), Order - 1)
  /\ x.length = Cardinality({k \in DOMAIN e.words : e.words[k] \notin Nat})
                + SumFunction([c \in Children(e) |-> s[c].length])

\* The context of a vertex: of its back pointer's edge, or empty.
IsContextOf(v, b, s) ==
  IF b[v].edge = 0 THEN s[v].left = <<>> /\ s[v].right = <<>> /\ s[v].length = 0
  ELSE IsContext(pruned.edges[b[v].edge], s, s[v])

\* Every vertex visited has the context of its back pointer.
ContextInv ==
  /\ DOMAIN state = 0 .. vi - 1
  /\ \A v \in 0 .. vi - 1 : IsContextOf(v, back, state)

\* A context depends on those of the children only.
LEMMA ContextsOfChildren ==
  ASSUME NEW e, NEW s, NEW r, \A c \in Children(e) : r[c] = s[c], NEW x
  PROVE  IsContext(e, r, x) <=> IsContext(e, s, x)
<1>1. /\ [c \in Children(e) |-> r[c].left] = [c \in Children(e) |-> s[c].left]
      /\ [c \in Children(e) |-> r[c].right] = [c \in Children(e) |-> s[c].right]
      /\ [c \in Children(e) |-> r[c].length] = [c \in Children(e) |-> s[c].length]
  OBVIOUS
<1> QED
  BY <1>1 DEF IsContext

\* No vertex has a context at first.
LEMMA InitContexts == VInit => ContextInv
<1> QED
  BY DEF VInit, ContextInv

\* The vertex whose turn it is gets its context, and the others keep theirs.
LEMMA VisitContexts ==
  ASSUME DecodingInv, ContextInv, Visit
  PROVE  ContextInv'
<1>1. /\ IsGraph(pruned) /\ pruned' = pruned /\ vi \in Nat /\ Pointers(pruned, weights, back, vi)
  BY CutInvGraphs DEF DecodingInv, Visit, gvars
<1>2. ASSUME NEW b, NEW st, Reached(b, st),
             \/ b.edge = 0 /\ st = Empty
             \/ b.edge \in Incoming(pruned, vi) /\ IsContext(pruned.edges[b.edge], state, st)
      PROVE  ContextInv'
  <2>1. /\ vi' = vi + 1 /\ DOMAIN state' = 0 .. vi
        /\ back'[vi] = b /\ state'[vi] = st
        /\ \A v \in 0 .. vi - 1 : back'[v] = back[v] /\ state'[v] = state[v]
    BY <1>1, <1>2 DEF Reached, Extended
  <2>2. ASSUME NEW v \in 0 .. vi - 1 PROVE IsContextOf(v, back, state)'
    <3>1. IsContextOf(v, back, state) /\ back'[v] = back[v] /\ state'[v] = state[v]
      BY <2>1 DEF ContextInv
    <3>2. CASE back[v].edge = 0
      BY <1>1, <3>1, <3>2 DEF IsContextOf
    <3>3. CASE back[v].edge # 0
      <4> DEFINE e == pruned.edges[back[v].edge]
      <4>1. back[v].edge \in Incoming(pruned, v)
        BY <1>1, <3>3 DEF Pointers, IsPointer
      <4>2. \A c \in Children(e) : c \in 0 .. vi - 1
        BY <1>1, <4>1, ChildrenAre
      <4>3. \A c \in Children(e) : state'[c] = state[c]
        BY <2>1, <4>2
      <4>4. IsContext(e, state, state[v])
        BY <3>1, <3>3 DEF IsContextOf
      <4> HIDE DEF e
      <4>5. IsContext(e, state', state[v])
        BY <4>3, <4>4, ContextsOfChildren
      <4> QED
        BY <1>1, <3>1, <3>3, <4>5 DEF IsContextOf, e
    <3> QED
      BY <3>2, <3>3
  <2>3. IsContextOf(vi, back', state')
    <3>1. CASE b.edge = 0 /\ st = Empty
      BY <2>1, <3>1 DEF IsContextOf, Empty
    <3>2. CASE b.edge \in Incoming(pruned, vi) /\ IsContext(pruned.edges[b.edge], state, st)
      <4> DEFINE e == pruned.edges[b.edge]
      <4>1. \A c \in Children(e) : c \in 0 .. vi - 1
        BY <1>1, <3>2, ChildrenAre
      <4>2. \A c \in Children(e) : state'[c] = state[c]
        BY <2>1, <4>1
      <4>3. b.edge # 0
        BY <1>1, <3>2 DEF IsGraph, Incoming
      <4> HIDE DEF e
      <4>4. IsContext(e, state', st)
        BY <3>2, <4>2, ContextsOfChildren DEF e
      <4> QED
        BY <2>1, <4>3, <4>4 DEF IsContextOf, e
    <3> QED
      BY <1>2, <3>1, <3>2
  <2>4. IsContextOf(vi, back', state') => \A v : v = vi => IsContextOf(v, back, state)'
    BY <1>1 DEF IsContextOf
  <2>5. DOMAIN state' = 0 .. vi' - 1 /\ \A v \in 0 .. vi' - 1 : v \in 0 .. vi - 1 \/ v = vi
    BY <1>1, <2>1
  <2> QED
    BY <2>2, <2>3, <2>4, <2>5 DEF ContextInv
<1>3. ASSUME UNCHANGED <<vi, back, state>> PROVE ContextInv'
  BY <1>1, <1>3 DEF ContextInv, IsContextOf, IsContext
<1>4. CASE DeadEnd
  BY <1>2, <1>4 DEF DeadEnd
<1>5. CASE Throw
  BY <1>3, <1>5 DEF Throw
<1>6. CASE Rescore
  <2>1. CASE UNCHANGED <<vi, back, state>>
    BY <1>3, <2>1
  <2>2. CASE ~UNCHANGED <<vi, back, state>>
    <3> DEFINE Chosen(s, k) ==
                 /\ k \in Incoming(pruned, vi)
                 /\ Reached([edge |-> k, dead |-> Dead(pruned.edges[k]),
                             score |-> FeatureScore(pruned.edges[k])],
                            NewState(pruned.edges[k], s[k]))
    <3>1. \E s : \E k \in Winner(s) : Chosen(s, k)
      BY <1>6, <2>2 DEF Rescore, Winner
    <3>2. PICK s, k : Chosen(s, k)
      BY <3>1
    <3>3. IsContext(pruned.edges[k], state, NewState(pruned.edges[k], s[k]))
      BY DEF IsContext, NewState
    <3> QED
      BY <1>2, <3>2, <3>3
  <2> QED
    BY <2>1, <2>2
<1> QED
  BY <1>4, <1>5, <1>6 DEF Visit

\* Every step keeps the contexts.
LEMMA NextContexts == DecodingInv /\ ContextInv /\ [VNext]_wvars => ContextInv'
<1> SUFFICES ASSUME DecodingInv, ContextInv, [VNext]_wvars PROVE ContextInv'
  OBVIOUS
<1>1. ASSUME UNCHANGED <<pruned, vi, back, state>> PROVE ContextInv'
  BY <1>1 DEF ContextInv, IsContextOf, IsContext
<1>2. CASE PruneGraph
  <2>1. vi' = 0 /\ vi = 0 /\ state' = state
    BY <1>2 DEF PruneGraph, decoding, DecodingInv
  <2> QED
    BY <2>1 DEF ContextInv
<1>3. CASE Start
  BY <1>1, <1>3 DEF Start, gvars
<1>4. CASE Visit
  BY <1>4, VisitContexts
<1>5. CASE Finish
  BY <1>1, <1>5 DEF Finish, gvars
<1>6. CASE UNCHANGED wvars
  BY <1>1, <1>6 DEF wvars, gvars, decoding
<1> QED
  BY <1>2, <1>3, <1>4, <1>5, <1>6 DEF VNext

\* The hypothesis of a vertex nothing comes into is empty.
LEMMA HypothesisOfNothing ==
  ASSUME IsGraph(pruned), NEW w, vi \in Nat, Pointers(pruned, w, back, vi),
         NEW v \in 0 .. vi - 1, back[v].edge = 0
  PROVE  BestHypothesis[v].text = <<>>
<1>1. BestHypothesis = CHOOSE of : of = HypothesesFrom(pruned, back, vi, of)
  BY DEF BestHypothesis, HypothesesFrom, HypothesisBy
<1>2. BestHypothesis = HypothesesFrom(pruned, back, vi, BestHypothesis)
  BY <1>1, HypothesesExist
<1>3. BestHypothesis[v] = [text |-> <<>>, feature |-> 0]
  BY <1>2 DEF HypothesesFrom
<1> QED
  BY <1>3

\* The first and the last words of no words.
LEMMA ContextOfNothing ==
  ASSUME NEW m \in Nat
  PROVE  Prefix(<<>>, m) = <<>> /\ Suffix(<<>>, m) = <<>>
<1>1. <<>> \in Seq(Nat) /\ Len(<<>>) = 0 /\ Lesser(m, 0) = 0
  BY DEF Lesser
<1>2. /\ Prefix(<<>>, m) \in Seq(Nat) /\ Len(Prefix(<<>>, m)) = 0
      /\ Suffix(<<>>, m) \in Seq(Nat) /\ Len(Suffix(<<>>, m)) = 0
  BY <1>1, PrefixIs, SuffixIs
<1> QED
  BY <1>2, EmptySeq

\* Contexts of the pointers are those of the texts the pointers derive.
LEMMA ContextsSuffice == DecodingInv /\ ContextInv => ContextsFit
<1> SUFFICES ASSUME DecodingInv, ContextInv PROVE ContextsFit
  OBVIOUS
<1> DEFINE M == Order - 1
           H == BestHypothesis
           Words == UNION {ToSet(pruned.edges[k].words) : k \in DOMAIN pruned.edges}
           Fit(v) == /\ H[v].text \in Seq(Words)
                     /\ state[v].left = Prefix(H[v].text, M)
                     /\ state[v].right = Suffix(H[v].text, M)
                     /\ state[v].length = Len(H[v].text)
<1>1. /\ DOMAIN state = 0 .. vi - 1 /\ vi \in Nat /\ M \in Nat
      /\ \A v \in 0 .. vi - 1 : IsContextOf(v, back, state)
  BY DecodingAssumption DEF DecodingInv, ContextInv
<1>2. CASE pc = "prune"
  BY <1>1, <1>2 DEF DecodingInv, ContextsFit
<1>3. CASE pc # "prune"
  <2>1. IsGraph(pruned) /\ GraphWorded(pruned) /\ Pointers(pruned, weights, back, vi)
    BY <1>3, CutInvGraphs, PrunedIsWorded DEF DecodingInv
  <2> DEFINE B == {v \in 0 .. vi - 1 : ~Fit(v)}
  <2>2. SUFFICES ASSUME B # {} PROVE FALSE
    <3>1. \A v \in 0 .. vi - 1 : Fit(v)
      <4> HIDE DEF Fit
      <4> QED
        BY <2>2
    <3> QED
      BY <1>1, <3>1 DEF ContextsFit
  <2> HIDE DEF Fit
  <2>3. PICK v \in B : \A x \in B : v <= x
    <3>1. B \subseteq Nat
      OBVIOUS
    <3> HIDE DEF B
    <3> QED
      BY <2>2, <3>1, LeastNat
  <2>4. v \in 0 .. vi - 1 /\ ~Fit(v) /\ \A x \in 0 .. v - 1 : Fit(x)
    <3>1. ASSUME NEW x \in 0 .. v - 1 PROVE x \in 0 .. vi - 1 /\ ~(v <= x)
      BY <1>1
    <3> QED
      BY <2>3, <3>1
  <2>5. IsContextOf(v, back, state)
    BY <1>1, <2>4
  <2> HIDE DEF B, M
  <2>6. CASE back[v].edge = 0
    <3>1. /\ H[v].text = <<>> /\ state[v].left = <<>> /\ state[v].right = <<>>
          /\ state[v].length = 0
      BY <1>1, <2>1, <2>4, <2>5, <2>6, HypothesisOfNothing DEF IsContextOf
    <3>2. <<>> \in Seq(Words) /\ Len(<<>>) = 0
      BY EmptySeq
    <3>3. Prefix(<<>>, M) = <<>> /\ Suffix(<<>>, M) = <<>>
      BY <1>1, ContextOfNothing
    <3> QED
      BY <2>4, <3>1, <3>2, <3>3 DEF Fit
  <2>7. CASE back[v].edge # 0
    <3> DEFINE k == back[v].edge
               e == pruned.edges[k]
               C == Children(e)
               t == [c \in C |-> H[c].text]
               lefts == [c \in C |-> state[c].left]
               rights == [c \in C |-> state[c].right]
               l == [c \in C |-> state[c].length]
    <3>1. k \in Incoming(pruned, v) /\ k \in DOMAIN pruned.edges
      BY <2>1, <2>4, <2>7 DEF Pointers, IsPointer, Incoming
    <3>2. Worded(e) /\ ToSet(e.words) \subseteq Words
      BY <2>1, <3>1 DEF GraphWorded
    <3>3. H[v].text = Expand(e, t)
      <4>1. H[v] = HypothesisBy(e, H)
        BY <1>1, <2>1, <2>4, <2>7, HypothesisIs
      <4> HIDE DEF H, e
      <4> QED
        BY <4>1 DEF HypothesisBy
    <3>4. /\ state[v].left = Prefix(Expand(e, lefts), M)
          /\ state[v].right = Suffix(Expand(e, rights), M)
          /\ state[v].length = Cardinality({i \in DOMAIN e.words : e.words[i] \notin Nat})
                               + SumFunction(l)
      BY <2>5, <2>7 DEF IsContextOf, IsContext, M
    <3>5. \A c \in C : Fit(c)
      <4>1. \A c \in C : c \in 0 .. v - 1
        BY <2>1, <3>1, ChildrenAre
      <4> QED
        BY <2>4, <4>1
    <3>6. ASSUME NEW c \in C
          PROVE  /\ t[c] \in Seq(Words) /\ lefts[c] \in Seq(Words) /\ rights[c] \in Seq(Words)
                 /\ Prefix(lefts[c], M) = Prefix(t[c], M)
                 /\ Suffix(rights[c], M) = Suffix(t[c], M)
                 /\ l[c] = Len(t[c])
      <4> DEFINE a == H[c].text
      <4>1. /\ a \in Seq(Words) /\ state[c].left = Prefix(a, M) /\ state[c].right = Suffix(a, M)
            /\ state[c].length = Len(a)
        BY <3>5 DEF Fit
      <4>2. t[c] = a /\ lefts[c] = Prefix(a, M) /\ rights[c] = Suffix(a, M) /\ l[c] = Len(a)
        BY <4>1
      <4> HIDE DEF a, t, lefts, rights, l, Words
      <4>3. /\ Prefix(a, M) \in Seq(Words) /\ Prefix(Prefix(a, M), M) = Prefix(a, M)
            /\ Suffix(a, M) \in Seq(Words) /\ Suffix(Suffix(a, M), M) = Suffix(a, M)
        BY <1>1, <4>1, PrefixTwice
      <4> QED
        BY <4>1, <4>2, <4>3
    <3>7. SumFunction(l) = SumFunctionOnSet(l, C)
      BY SumOfFunction
    <3> HIDE DEF t, lefts, rights, l, e, k, H, Words, C
    <3>8. /\ Expand(e, t) \in Seq(Words)
          /\ Prefix(Expand(e, lefts), M) = Prefix(Expand(e, t), M)
          /\ Suffix(Expand(e, rights), M) = Suffix(Expand(e, t), M)
      <4>1. M \in Nat
        BY <1>1
      <4>2. /\ \A c \in Children(e) : t[c] \in Seq(Words)
            /\ \A c \in Children(e) : lefts[c] \in Seq(Words)
            /\ \A c \in Children(e) : rights[c] \in Seq(Words)
        BY <3>6 DEF C
      <4>3. Expand(e, t) \in Seq(Words)
        BY <3>2, <4>2, ExpandText
      <4>4. \A c \in Children(e) : Prefix(lefts[c], M) = Prefix(t[c], M)
        BY <3>6 DEF C
      <4>5. \A c \in Children(e) : Suffix(rights[c], M) = Suffix(t[c], M)
        BY <3>6 DEF C
      <4>6. Prefix(Expand(e, lefts), M) = Prefix(Expand(e, t), M)
        BY <3>2, <4>1, <4>2, <4>4, ExpandPrefix
      <4>7. Suffix(Expand(e, rights), M) = Suffix(Expand(e, t), M)
        BY <3>2, <4>1, <4>2, <4>5, ExpandSuffix
      <4> QED
        BY <4>3, <4>6, <4>7
    <3>9. Len(Expand(e, t)) = Cardinality({i \in DOMAIN e.words : e.words[i] \notin Nat})
                              + SumFunctionOnSet(l, C)
      BY <3>2, <3>6, ExpandLength DEF C
    <3>10. Fit(v)
      BY <3>3, <3>4, <3>7, <3>8, <3>9 DEF Fit
    <3> QED
      BY <2>4, <3>10
  <2> QED
    BY <2>6, <2>7
<1> QED
  BY <1>2, <1>3

\* However contexts and lengths are put together edge by edge
\* (ForestRescore.cpp:245-305), they are those of the text that the back pointers
\* derive: in graphs of every shape, with any number of children to an edge, for
\* n-grams of every order and whatever edges win.
THEOREM ContextsAreOfTexts == VSpec => []ContextsFit
<1> QED
  BY InitDecoding, NextDecoding, InitContexts, NextContexts, ContextsSuffice, PTL DEF VSpec
=============================================================================
