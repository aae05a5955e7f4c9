--------------------------- MODULE LineOptimize ---------------------------
(***************************************************************************)
(* Optimizer::LineOptimize (mert/Optimizer.cpp:98-327): the best point on  *)
(* a line.  Along the line the model score of a hypothesis is a straight   *)
(* line itself, so the best hypothesis of a sentence changes at the        *)
(* corners of an upper envelope, and the corpus score at the corners of    *)
(* all sentences.                                                          *)
(***************************************************************************)
EXTENDS CorpusScore, FiniteSets, TLC
----------------------------------------------------------------------------
(***************************************************************************)
(* The points mert searches among (mert/Point.cpp): a weight for each of   *)
(* the optimized features, the rest being fixed.  Weights and positions on *)
(* a line are whole numbers of units, One of which are 1.0.                *)
(***************************************************************************)
CONSTANT One

ASSUME OneAssumption == One \in Nat \ {0}

\* The static members as the constructor of Optimizer leaves them: indices
\* that are not optimized keep the weight of the first starting point.
Space(pdim, toOptimize, start) ==
  [pdim  |-> pdim,
   opt   |-> toOptimize,
   fixed |-> [i \in IF pdim > Len(toOptimize) THEN (1 .. pdim) \ ToSet(toOptimize) ELSE {}
                |-> start[i]]]

OptimizeAll(sp) == DOMAIN sp.fixed = {}

\* From a full set of weights or one of the optimized weights alone.
FromInit(sp, init) ==
  IF Len(init) = Len(sp.opt) THEN init ELSE [i \in DOMAIN sp.opt |-> init[sp.opt[i]]]

\* Between the limits of each weight, r parts out of parts of the way.
Randomized(low, high, r, parts) ==
  [i \in DOMAIN low |-> low[i] + (r[i] * (high[i] - low[i])) \div parts]

\* operator*(FeatureStats): the fixed weights are part of every product.
Dot(sp, p, f) ==
  IF OptimizeAll(sp) THEN SumFunction([i \in DOMAIN p |-> p[i] * f[i]])
  ELSE SumFunction([i \in DOMAIN p |-> p[i] * f[sp.opt[i]]])
       + SumFunction([i \in DOMAIN sp.fixed |-> sp.fixed[i] * f[i]])

Plus(p, q) == [i \in DOMAIN p |-> p[i] + q[i]]

Scaled(p, x) == [i \in DOMAIN p |-> (p[i] * x) \div One]

NormalizeL1(p) ==
  LET norm == SumFunction([i \in DOMAIN p |-> IF p[i] < 0 THEN -p[i] ELSE p[i]])
  IN IF norm = 0 THEN p ELSE [i \in DOMAIN p |-> (p[i] * One) \div norm]

\* The vector that is written: optimized weights at their indices.
AllWeights(sp, p) ==
  IF OptimizeAll(sp) THEN p
  ELSE [i \in 1 .. sp.pdim |->
          IF i \in DOMAIN sp.fixed THEN sp.fixed[i]
          ELSE p[SelectLastInSeq(sp.opt, LAMBDA o : o = i)]]
----------------------------------------------------------------------------

CONSTANTS
  MinX, MaxX,   (* MIN_FLOAT and MAX_FLOAT                                 *)
  MinInt,       (* the least distance of two corners of a sentence         *)
  Far, Near,    (* how far beyond the first, the last corner a point is    *)
  Snap          (* the distance from the origin that counts as none        *)

ASSUME LineAssumption ==
  /\ MinX \in Int /\ MaxX \in Int /\ MinX < 0 /\ 0 < MaxX
  /\ MinInt \in Nat \ {0} /\ Far \in Nat /\ Near \in Nat /\ Snap \in Nat

\* The lines of the hypotheses of each sentence: gradient m and height b at
\* the origin.
LineOf(sp, origin, direction, h) == [m |-> Dot(sp, direction, h), b |-> Dot(sp, origin, h)]

LinesOf(sp, origin, direction, feats) ==
  LET Line(ls, h) == Append(ls, LineOf(sp, origin, direction, h))
      Sentence(lines, hyps) == Append(lines, FoldLeft(Line, <<>>, hyps))
  IN FoldLeft(Sentence, <<>>, feats)

Intersect(l1, l2) == ((l1.b - l2.b) * One) \div (l2.m - l1.m)

\* The best hypothesis at minus infinity: the first of the highest among the flattest.
FirstBest(ls) ==
  LET flattest == {j \in DOMAIN ls : \A k \in DOMAIN ls : ls[j].m <= ls[k].m}
  IN Min({j \in flattest : \A k \in flattest : ls[k].b <= ls[j].b})

FirstBests(lines) == FoldLeft(LAMBDA js, ls : Append(js, FirstBest(ls)), <<>>, lines)

Steeper(ls, j) == {k \in DOMAIN ls : ls[k].m > ls[j].m}

\* The steepest of some lines, of several the last of the multimap.
Steepest(ls, ks) == Max({k \in ks : \A i \in ks : ls[i].m <= ls[k].m})

CornerAt(ls, j, x) ==
  [x |-> x, hyp |-> Steepest(ls, {k \in Steeper(ls, j) : Intersect(ls[j], ls[k]) = x})]

\* A slip: the last intersection is taken.
LastCorner(ls, j) == CornerAt(ls, j, Max({Intersect(ls[j], ls[k]) : k \in Steeper(ls, j)}))

\* The leftmost intersection of line j with steeper ones.
NextCorner(ls, j) == CornerAt(ls, j, Min({Intersect(ls[j], ls[k]) : k \in Steeper(ls, j)}))

\* The corners of a sentence from left to right.
Corners(ls) ==
  LET Before(corners, next) == <<next>> \o corners
      From[j \in DOMAIN ls] ==
        IF Steeper(ls, j) = {} THEN <<>>
        ELSE LET Then(next) == Before(From[next.hyp], next) IN Then(NextCorner(ls, j))
  IN From[FirstBest(ls)]

\* thresholdmap: positions to lists of <<sentence, new hypothesis>>.
AddThreshold(map, x, diff) ==
  IF x \notin DOMAIN map THEN map @@ (x :> <<diff>>)
  ELSE [map EXCEPT ![x] = IF Last(@)[1] = diff[1] THEN Append(Front(@), diff)
                          ELSE Append(@, diff)]

\* The previous corner of the sentence is too near: all its changes move to x.
MergeThreshold(map, previous, x, diff) ==
  LET kept == Append(Front(map[previous]), diff)
      others == [y \in DOMAIN map \ {previous} |-> map[y]]
  IN IF x = previous THEN [map EXCEPT ![x] = kept]
     ELSE IF x \in DOMAIN map THEN [others EXCEPT ![x] = @ \o kept]
     ELSE others @@ (x :> kept)

Insert(acc, s, corner) ==
  LET diff == <<s, corner.hyp>>
  IN [map  |-> IF corner.x - acc.previous < MinInt
               THEN MergeThreshold(acc.map, acc.previous, corner.x, diff)
               ELSE AddThreshold(acc.map, corner.x, diff),
      previous |-> corner.x]

\* All sentences in turn, over map, which starts with minus infinity.
ThresholdMap(lines) ==
  LET Sentence(map, s) ==
        FoldLeft(LAMBDA acc, corner : Insert(acc, s, corner),
                 [map |-> map, previous |-> MinX], Corners(lines[s])).map
  IN FoldLeft(Sentence, MinX :> <<>>, [s \in DOMAIN lines |-> s])

\* The middle of an interval, or a place beyond the first or last corner.
Inside(xs, i) ==
  LET left  == xs[i]
      right == IF i = Len(xs) THEN MaxX ELSE xs[i + 1]
      x == IF i = 1 THEN right - Far
           ELSE IF right = MaxX THEN left + Near
           ELSE (right + left) \div 2
  IN x

Snapped(x) == IF -Snap < x /\ x < Snap THEN 0 ELSE x

\* No weight that must be positive is zero or less; tested at the left end.
Acceptable(positive, p) == \A k \in DOMAIN p : positive[k] => p[k] > 0

\* The best place among the corners: the first with the highest score.
Usable(o, origin, direction, xs) ==
  {i \in DOMAIN xs : Acceptable(o.positive, Plus(origin, Scaled(direction, xs[i])))}

Highest(scores, places) == {i \in places : \A j \in places : scores[j] <= scores[i]}

Place(xs, best) == IF best = {} THEN MinX ELSE Snapped(Inside(xs, Min(best)))

Result(origin, direction, lines, xs, hyps, scores, best) ==
  [score |-> IF best = {} THEN MinX ELSE scores[Min(best)],
   point |-> Plus(Scaled(direction, Place(xs, best)), origin),
   corners |-> xs, lines |-> lines, hyps |-> hyps]

Scan(o, origin, direction, lines, xs, steps, scores) ==
  Result(origin, direction, lines, xs, [i \in DOMAIN steps |-> steps[i].last], scores,
         Highest(scores, Usable(o, origin, direction, xs)))

AlongMap(o, stats, origin, direction, lines, map) ==
  LET At(xs, steps) == Scan(o, origin, direction, lines, xs, steps, ScoresAt(o.reg, steps))
      Over(xs) == At(xs, Increments(stats, FirstBests(lines),
                                    [i \in 1 .. Len(xs) - 1 |-> map[xs[i + 1]]]))
  IN Over(SetToSortSeq(DOMAIN map, <))

\* feats[s][h] and stats[s][h] are the features and statistics of hypothesis h
\* of sentence s; o holds the space, the weights that must be positive and the
\* regularisation.  Lines, corners and hypotheses are kept for the properties.
LineOptimize(o, feats, stats, origin, direction) ==
  LET Of(lines) == AlongMap(o, stats, origin, direction, lines, ThresholdMap(lines))
  IN Of(LinesOf(o, origin, direction, feats))

\* Get1bests: the first of the best hypotheses of each sentence.
Best1(sp, hyps, p) ==
  LET Of(values) == Min({j \in DOMAIN values : \A k \in DOMAIN values : values[k] <= values[j]})
  IN Of(FoldLeft(LAMBDA values, h : Append(values, Dot(sp, p, h)), <<>>, hyps))

Get1bests(sp, feats, p) == FoldLeft(LAMBDA js, hyps : Append(js, Best1(sp, hyps, p)), <<>>, feats)

GetStatScore(sp, feats, stats, p) == Score(stats, Get1bests(sp, feats, p))
=============================================================================
