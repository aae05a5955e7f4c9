--------------------------- MODULE MCForestRescore ---------------------------
(* A lattice, a graph whose edges join two vertices, one that does so twice,  *)
(* and one with an edge of three children, over features of both signs.       *)
EXTENDS ForestRescore

CONSTANTS bos, eos, a, b, c

Edges(shape, features) ==
  [k \in DOMAIN shape |->
     [head |-> shape[k][1], words |-> shape[k][2], feature |-> features[k]]]

LatticeShape ==
  <<<<0, <<bos>>>>, <<1, <<0, a, b>>>>, <<1, <<0, c>>>>,
    <<2, <<1, a>>>>, <<2, <<0, b, c, a>>>>, <<3, <<2, eos>>>>>>

BinaryShape ==
  <<<<0, <<a>>>>, <<0, <<b, a>>>>, <<1, <<c, a>>>>, <<2, <<0, 1>>>>,
    <<2, <<1, b, 0>>>>, <<3, <<bos, 2, eos>>>>>>

TwiceShape ==
  <<<<0, <<a, b>>>>, <<1, <<c>>>>, <<2, <<0, a, 1>>>>, <<3, <<b>>>>, <<4, <<2, 3>>>>>>

\* An edge of three children.
WideShape == <<<<0, <<a>>>>, <<1, <<b>>>>, <<2, <<c>>>>, <<3, <<0, 1, a, 2>>>>>>

MCGraphs ==
       {[size |-> 4, edges |-> Edges(LatticeShape, <<0>> \o f \o <<1>>)] : f \in [1 .. 4 -> {-2, 1}]}
  \cup {[size |-> 4, edges |-> Edges(BinaryShape, f \o <<1>>)] : f \in [1 .. 5 -> {-2, 1}]}
  \cup {[size |-> 5, edges |-> Edges(TwiceShape, f)] : f \in [1 .. 5 -> {-2, 1}]}
  \cup {[size |-> 4, edges |-> Edges(WideShape, <<1, 1, 1, -2>>)]}

MCReferences == <<<<a, b, c, a>>, <<b, a, a>>>>

\* More for longer matches, less for words that do not match.
MCBleu(matches, totals) == matches[1] + 2 * matches[2] + 3 * matches[3] - totals[1]

MCInitWeights == {1}
MCWeights == {1, -1}

MCJunk == {NoCounts, [n \in Orders |-> 7]}
=============================================================================
