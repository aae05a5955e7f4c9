--------------------------- MODULE HypergraphPrune ---------------------------
(***************************************************************************)
(* Graph::Prune (mert/Hypergraph.cpp:106-253): edges are ranked by forward *)
(* plus backward score and the best minEdgeCount of them, and those that   *)
(* score the same as the last, are copied into a new graph.                *)
(***************************************************************************)
EXTENDS Integers, SequencesExt, FiniteSetsExt
----------------------------------------------------------------------------
(***************************************************************************)
(* Graph, Vertex and Edge (mert/Hypergraph.h) as data, and what a graph    *)
(* stands for: its derivations.                                            *)
(*                                                                         *)
(* A graph is [size, edges].  Its vertices are 0 .. size - 1; an edge is   *)
(* [head, words, feature], where a number among the words is a child (NULL *)
(* and its entry in children_ in the code) and feature stands for the      *)
(* feature vector: its score is weights * feature.                         *)
(***************************************************************************)
Vertices(g) == 0 .. g.size - 1

\* Edge::Children; the children of an edge are distinct, for they cover
\* different parts of the source sentence.
Children(e) == ToSet(e.words) \cap Nat

\* Vertex::GetIncoming, as the numbers of the edges.
Incoming(g, v) == {k \in DOMAIN g.edges : g.edges[k].head = v}

\* What ReadGraph accepts, but for an edge from a vertex to itself, which Prune
\* refuses: children come before their heads.
BottomUp(g) == \A k \in DOMAIN g.edges : \A c \in Children(g.edges[k]) : c < g.edges[k].head

\* The words of an edge with each child replaced by its text.
Expand(e, text) ==
  FlattenSeq([k \in DOMAIN e.words |->
                IF e.words[k] \in Nat THEN text[e.words[k]] ELSE <<e.words[k]>>])

-----------------------------------------------------------------------------
\* The derivations with edge k at the top, given those of each vertex: for each
\* choice of a derivation of every child the text, the features summed up and
\* the edges.
DerivedBy(g, k, of) ==
  LET e == g.edges[k]
      below == {f \in [Children(e) -> UNION {of[c] : c \in Children(e)}] :
                  \A c \in Children(e) : f[c] \in of[c]}
  IN {[text    |-> Expand(e, [c \in Children(e) |-> f[c].text]),
       feature |-> e.feature + SumFunction([c \in Children(e) |-> f[c].feature]),
       edges   |-> {k} \cup UNION {f[c].edges : c \in Children(e)}] : f \in below}

\* The derivations of each vertex.
Derivations(g) ==
  LET Of[v \in Vertices(g)] == UNION {DerivedBy(g, k, Of) : k \in Incoming(g, v)}
  IN Of
----------------------------------------------------------------------------

CONSTANTS
  Graphs,       (* the graphs read from the files                          *)
  InitWeights,  (* the weights kbmira starts from                          *)
  EdgeCounts    (* hg_pruning times the length of the reference            *)

ASSUME GraphAssumption ==
  \A g \in Graphs :
    /\ g.size \in Nat /\ g.edges \in Seq(ToSet(g.edges))
    /\ \A k \in DOMAIN g.edges :
         /\ g.edges[k].head \in Vertices(g) /\ g.edges[k].feature \in Int
         /\ g.edges[k].words \in Seq(ToSet(g.edges[k].words))
    /\ BottomUp(g)
    /\ \A v \in Vertices(g) : Incoming(g, v) # {}
    /\ \A k \in DOMAIN g.edges :
         LET words == g.edges[k].words
         IN \A i, j \in DOMAIN words : words[i] \in Nat /\ words[i] = words[j] => i = j

ASSUME PruningAssumption == InitWeights \subseteq Int /\ EdgeCounts \subseteq Nat

VARIABLES
  graph, initWeights, minEdgeCount,
  pruned        (* the new graph, of size 0 before                         *)

gvars == <<graph, initWeights, minEdgeCount, pruned>>

GInit ==
  /\ graph \in Graphs
  /\ initWeights \in InitWeights
  /\ minEdgeCount \in EdgeCounts
  /\ pruned = [size |-> 0, edges |-> <<>>]

Score(k) == initWeights * graph.edges[k].feature

\* vertexBackwardScores: the best score of what is below a vertex.
BackwardScores ==
  LET Of[v \in Vertices(graph)] ==
        Max({Score(k) + SumFunction([c \in Children(graph.edges[k]) |-> Of[c]]) :
               k \in Incoming(graph, v)})
  IN Of

EdgeBackward(k) ==
  Score(k) + SumFunction([c \in Children(graph.edges[k]) |-> BackwardScores[c]])

Outgoing(v) == {k \in DOMAIN graph.edges : v \in Children(graph.edges[k])}

Siblings(k, v) ==
  SumFunction([c \in Children(graph.edges[k]) \ {v} |-> BackwardScores[c]])

\* A slip: the forward score of the head is left out.
ForwardOfOneEdge ==
  [v \in Vertices(graph) |->
     IF Outgoing(v) = {} THEN 0 ELSE Max({Siblings(k, v) + Score(k) : k \in Outgoing(v)})]

\* vertexForwardScores: the best score of what is around a vertex.
ForwardScores ==
  LET Of[v \in Vertices(graph)] ==
        IF Outgoing(v) = {} THEN 0
        ELSE Max({Siblings(k, v) + Of[graph.edges[k].head] + Score(k) : k \in Outgoing(v)})
  IN Of

\* A slip: the head alone, as if no edge had children.
HeadForward(k) == ForwardScores[graph.edges[k].head]

\* edgeForwardScores is set anew for every child, the smallest being the last.
EdgeForward(k) ==
  LET e == graph.edges[k]
  IN ForwardScores[e.head]
     + IF Children(e) = {} THEN 0 ELSE Siblings(k, Min(Children(e)))

EdgeScore(k) == EdgeForward(k) + EdgeBackward(k)

\* The edges from the lower bound of the score of the minEdgeCount-th on; there
\* is always one.
Retained ==
  LET score == [k \in DOMAIN graph.edges |-> EdgeScore(k)]
  IN {k \in DOMAIN graph.edges :
        Cardinality({l \in DOMAIN graph.edges : score[l] > score[k]})
          < Max({1, minEdgeCount})}

\* The vertices at either end of the edges.
Ends(edges) ==
  UNION {{graph.edges[k].head} \cup Children(graph.edges[k]) : k \in edges}

NumberedBefore(S, x) == Cardinality({y \in S : y < x})

\* A slip: vertices keep their numbers in the new graph.
OldId(vertices, v) == v

\* oldIdToNew
NewId(vertices, v) == NumberedBefore(vertices, v)

\* The new graph: the edges that are kept, in their order.
Cut(edges) ==
  LET vertices == Ends(edges)
      Moved(x) == IF x \in Nat THEN NewId(vertices, x) ELSE x
      Copied(e) == [head    |-> NewId(vertices, e.head),
                    words   |-> [n \in DOMAIN e.words |-> Moved(e.words[n])],
                    feature |-> e.feature]
      Kept(n) == CHOOSE k \in edges : NumberedBefore(edges, k) = n - 1
  IN [size  |-> Cardinality(vertices),
      edges |-> [n \in 1 .. Cardinality(edges) |-> Copied(graph.edges[Kept(n)])]]

Prune ==
  /\ pruned.size = 0
  /\ pruned' = Cut(Retained)
  /\ UNCHANGED <<graph, initWeights, minEdgeCount>>

-----------------------------------------------------------------------------
\* No edge has more than one child, as in the graphs of phrase-based decoding.
Lattice(g) == \A k \in DOMAIN g.edges : Cardinality(Children(g.edges[k])) <= 1

\* The vertices nothing goes out from: the goal is the last of them.
Roots(g) == {v \in Vertices(g) : \A k \in DOMAIN g.edges : v \notin Children(g.edges[k])}

\* "Uses the scores in the max-product semiring to rank edges"
\* (Hypergraph.h:221-223): an edge scores as the best derivation it is part of,
\* but that the siblings of its first child count twice.
EdgeScores ==
  pruned.size = 0 =>
    \A k \in DOMAIN graph.edges :
      LET of == Derivations(graph)
          Best(derivations) == Max({initWeights * d.feature : d \in derivations})
          others == {c \in Children(graph.edges[k]) : \E l \in Children(graph.edges[k]) : l < c}
      IN EdgeScore(k)
           = Best({d \in UNION {of[v] : v \in Roots(graph)} : k \in d.edges})
             + SumFunction([c \in others |-> Best(of[c])])

\* What is left after pruning is part of the graph, bottom-up again: what a
\* vertex of the new one derives, one of the old derives with the same features.
PrunedIsPart ==
  pruned.size > 0 =>
    /\ BottomUp(pruned) /\ \A k \in DOMAIN pruned.edges : pruned.edges[k].head < pruned.size
    /\ \A v \in Vertices(pruned) : \E u \in Vertices(graph) :
         \A d \in Derivations(pruned)[v] : \E o \in Derivations(graph)[u] :
           d.text = o.text /\ d.feature = o.feature

\* Of a lattice with one root, pruning keeps a best derivation, and leaves no
\* vertex without a derivation.
LatticeKeepsBest ==
  pruned.size > 0 /\ Lattice(graph) /\ Cardinality(Roots(graph)) = 1 =>
    /\ \A v \in Vertices(pruned) : Incoming(pruned, v) # {}
    /\ Max({initWeights * d.feature : d \in Derivations(graph)[graph.size - 1]})
         = Max({initWeights * d.feature : d \in Derivations(pruned)[pruned.size - 1]})
=============================================================================
