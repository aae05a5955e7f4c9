----------------------------- MODULE MCNbestTrain -----------------------------
(* One or two lists of up to three sentences over four hypotheses: two dense *)
(* vectors of one length, one of another, and a sparse twin of the first.    *)
EXTENDS NbestTrain

CONSTANTS s1, s2   (* sparse vectors *)

a == [dense |-> <<1, 0>>, sparse |-> s1]
b == [dense |-> <<0, 1>>, sparse |-> s1]
c == [dense |-> <<1, 0>>, sparse |-> s2]
short == [dense |-> <<1>>, sparse |-> s1]

File(bs) == [blocks |-> bs, cut |-> FALSE]
CutFile(bs) == [blocks |-> bs, cut |-> TRUE]
Scores(file) == [file EXCEPT !.blocks =
                   [k \in DOMAIN @ |-> IF @[k] = Malformed THEN 1 ELSE Len(@[k])]]

Blocks == {<<>>, <<a>>, <<a, b>>, <<b, a, b>>, <<a, c>>, <<a, short>>}

\* First lists: well formed, malformed, empty, cut inside a sentence.
First == {File(bs) : bs \in {<<>>, <<Malformed>>} \cup [1 .. 1 -> Blocks]
                            \cup [1 .. 2 -> Blocks] \cup [1 .. 3 -> {<<a>>, <<c, a>>}]}
         \cup {CutFile(bs) : bs \in [1 .. 2 -> {<<a, b>>, <<c>>}]}

\* Second lists repeat hypotheses of the first; some are longer, some shorter.
Second == {File(<<x, y, z>>) : x \in {<<a>>, <<c, b>>}, y \in {<<b, c>>, <<short>>},
                               z \in {<<>>, Malformed}}
          \cup {File(<<<<c>>>>), File(<<<<c, b>>, <<a>>, <<b>>>>), CutFile(<<<<b>>, <<a>>>>)}

Features == {<<f>> : f \in First} \cup {<<f, g>> : f \in First, g \in Second}

\* Score files that fit the feature files, one with a line too few in a
\* sentence, one that stops early, none, and one for two lists.
OneLineLess(scores) ==
  {[scores EXCEPT ![1].blocks[k] = @ - 1] :
     k \in {k \in DOMAIN scores[1].blocks : scores[1].blocks[k] > 0}}

MCData ==
  UNION {LET fit == [i \in DOMAIN fs |-> Scores(fs[i])]
         IN {[features |-> fs, scores |-> sc] :
               sc \in {fit, <<>>, fit \o fit, [fit EXCEPT ![1].cut = TRUE]}
                      \cup OneLineLess(fit)} :
         fs \in Features}
  \cup {[features |-> <<>>, scores |-> <<>>]}

\* A hash that tells the dense vectors apart, and one that does not.
GoodHash(item) == <<item.dense, item.sparse>>
=============================================================================
