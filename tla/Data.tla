-------------------------------- MODULE Data --------------------------------
(***************************************************************************)
(* Class Data (mert/Data.cpp): features and scores side by side, filled    *)
(* from n-best lists or files, with duplicates removed and split into      *)
(* shards.                                                                 *)
(***************************************************************************)
EXTENDS Integers, Sequences, FiniteSets, SequencesExt, TLC
----------------------------------------------------------------------------
(***************************************************************************)
(* The data of mert, pro and the extractor (mert/FeatureData.cpp,          *)
(* ScoreData.cpp, their arrays and entries): for each sentence the features*)
(* and, in parallel, the statistics of its hypotheses; n-best lists, and   *)
(* the files both are saved to.                                            *)
(***************************************************************************)
CONSTANT AvailableSize   (* what an entry made without a size has room for *)

ASSUME AvailableAssumption == AvailableSize \in Nat \ {0}

\* A token: a number, a name that ends in "=" with ("sname") or without "_",
\* a sparse name and its value in one word, or that with the "=" missing.
Num(v) == [t |-> "num", n |-> "", v |-> v]
Named(n) == [t |-> "name", n |-> n, v |-> 0]
SparseNamed(n) == [t |-> "sname", n |-> n, v |-> 0]
Pair(n, v) == [t |-> "pair", n |-> n, v |-> v]
Glued(n, v) == [t |-> "glued", n |-> n, v |-> v]

Sum(values) == SumFunction(values)
----------------------------------------------------------------------------
\* FeatureStats: an array of room for avail values, of which the first are set,
\* and the sparse features: <<name, whether it ends in "=">> to a value.
Stats(size) == [avail |-> size, dense |-> [i \in 1 .. size |-> 0], sparse |-> <<>>]
Empty == [Stats(0) EXCEPT !.avail = AvailableSize]
Reset(e) == [e EXCEPT !.dense = <<>>, !.sparse = <<>>]

AddValue(e, v) ==
  [e EXCEPT !.avail = IF Len(e.dense) >= e.avail THEN 2 * e.avail ELSE e.avail,
            !.dense = Append(@, v)]

AddSparse(e, name, v) == [e EXCEPT !.sparse = (name :> v) @@ @]

InnerProduct(f, g) == Sum([n \in DOMAIN f \cap DOMAIN g |-> f[n] * g[n]])

\* FeatureStats::set: a line of a file; with sparse weights the sparse
\* features become one more dense feature.
SetFromLine(e, line, sparseWeights) ==
  LET Token(acc, tok) ==
        IF tok.t = "pair" THEN AddSparse(acc, <<tok.n, FALSE>>, tok.v)
        ELSE AddValue(acc, IF tok.t = "num" THEN tok.v ELSE 0)
      read == FoldLeft(Token, Reset(e), line)
  IN IF DOMAIN sparseWeights = {} THEN read
     ELSE [AddValue(read, InnerProduct(sparseWeights, read.sparse)) EXCEPT !.sparse = <<>>]

\* operator<<: the values, then the sparse features without a separator.
Line(e) ==
  [i \in DOMAIN e.dense |-> Num(e.dense[i])]
  \o FoldLeft(LAMBDA acc, n : Append(acc, IF n[2] THEN Pair(n[1], e.sparse[n])
                                          ELSE Glued(n[1], e.sparse[n])),
              <<>>, SetToSeq({n \in DOMAIN e.sparse : e.sparse[n] # 0}))

\* operator== looks at the dense values only.
SameEntry(e, f) == e.dense = f.dense
----------------------------------------------------------------------------
\* FeatureArray and ScoreArray: what is known of one sentence.  num and names
\* describe the entries (m_num_features and m_features, or m_num_scores and
\* the type).
Array(index, num, names) == [index |-> index, num |-> num, names |-> names, entries |-> <<>>]

AddEntry(a, e) == [a EXCEPT !.entries = Append(@, e)]
Merge(a, b) == [a EXCEPT !.entries = @ \o b.entries]

\* A block of a file.  Binary blocks hold the dense values alone.
SaveArray(a, bin) ==
  [bin |-> bin, index |-> a.index, num |-> a.num, names |-> a.names,
   lines |-> [i \in DOMAIN a.entries |->
                IF bin THEN [k \in DOMAIN a.entries[i].dense |-> Num(a.entries[i].dense[k])]
                ELSE Line(a.entries[i])]]

\* An entry of num values is filled anew for each line; in a binary block that
\* is as many bytes as it has values.
LoadArray(block, sparseWeights) ==
  [index |-> block.index, num |-> block.num, names |-> block.names,
   entries |-> [i \in DOMAIN block.lines |->
      IF block.bin
      THEN [Stats(block.num) EXCEPT !.dense = [k \in 1 .. block.num |-> block.lines[i][k].v]]
      ELSE SetFromLine(Stats(block.num), block.lines[i], sparseWeights)]]

----------------------------------------------------------------------------
\* FeatureData and ScoreData: arrays in the order their sentences came, and
\* from the index of a sentence to its place.
NoData == [num |-> 0, names |-> <<>>, index |-> <<>>, array |-> <<>>, place |-> <<>>]

Exists(d, index) == index \in DOMAIN d.place /\ d.place[index] <= Len(d.array)

SetIndex(d) ==
  LET known == {d.array[j].index : j \in DOMAIN d.array}
  IN [d EXCEPT !.place = [i \in known \cup DOMAIN @ |->
                            IF i \in known THEN SelectLastInSeq(d.array, LAMBDA a : a.index = i)
                            ELSE @[i]]]

AddArray(d, a) ==
  IF Exists(d, a.index) THEN [d EXCEPT !.array[d.place[a.index]] = Merge(@, a)]
  ELSE SetIndex([d EXCEPT !.array = Append(@, a)])

AddFeatureEntry(d, e, index) ==
  IF Exists(d, index) THEN [d EXCEPT !.array[d.place[index]] = AddEntry(@, e)]
  ELSE AddArray(d, AddEntry(Array(index, d.num, d.names), e))

AddScoreEntry(d, e, index) ==
  IF Exists(d, index) THEN [d EXCEPT !.array[d.place[index]] = AddEntry(@, e)]
  ELSE [d EXCEPT !.array = Append(@, AddEntry(Array(index, d.num, d.names), e)),
                 !.place = [i \in DOMAIN @ \cup {index} |->
                              IF i = index THEN Len(d.array) + 1 ELSE @[i]]]

\* setFeatureMap: the names are numbered on from those there are.
SetFeatureMap(d, names) ==
  [d EXCEPT !.num = Len(names), !.names = names,
            !.index = [n \in ToSet(names) |->
                         Cardinality(DOMAIN d.index)
                           + SelectLastInSeq(names, LAMBDA m : m = n)] @@ @]

\* Places in ascending order.
InOrder(places) ==
  [k \in 1 .. Cardinality(places) |->
     CHOOSE i \in places : Cardinality({j \in places : j < i}) = k - 1]

SaveData(d, bin) ==
  LET full == InOrder({i \in DOMAIN d.array : d.array[i].entries # <<>>})
  IN [k \in DOMAIN full |-> SaveArray(d.array[full[k]], bin)]

\* Loading stops at the first block without entries.
Loadable(file) ==
  LET stop == SelectInSeq(file, LAMBDA b : b.lines = <<>>)
  IN IF stop = 0 THEN file ELSE SubSeq(file, 1, stop - 1)

LoadFeatures(d, file, sparseWeights) ==
  FoldLeft(LAMBDA acc, block :
             AddArray(IF acc.array = <<>> THEN SetFeatureMap(acc, block.names) ELSE acc,
                      LoadArray(block, sparseWeights)),
           d, Loadable(file))

LoadScores(d, file) ==
  FoldLeft(LAMBDA acc, block : AddArray(acc, LoadArray(block, <<>>)), d, Loadable(file))
----------------------------------------------------------------------------

\* num is the number of scores of the scorer.
NewData(scorerNum) == [features |-> NoData, scores |-> [NoData EXCEPT !.num = scorerNum]]

Load(data, featureFile, scoreFile, sparseWeights) ==
  [features |-> LoadFeatures(data.features, featureFile, sparseWeights),
   scores   |-> LoadScores(data.scores, scoreFile)]

Save(data, bin) == [features |-> SaveData(data.features, bin), scores |-> SaveData(data.scores, bin)]
----------------------------------------------------------------------------
\* The names of the dense features of a line: the group and a number in it.
FeatureNames(tokens) ==
  LET Token(acc, tok) ==
        CASE tok.t = "name"  -> [acc EXCEPT !.group = tok.n, !.next = 0]
          [] tok.t = "sname" -> [acc EXCEPT !.skip = TRUE]
          [] tok.t = "num" /\ acc.skip -> [acc EXCEPT !.skip = FALSE]
          [] OTHER -> [acc EXCEPT !.names = Append(@, <<acc.group, acc.next>>), !.next = @ + 1]
  IN FoldLeft(Token, [names |-> <<>>, group |-> "", next |-> 0, skip |-> FALSE], tokens).names

InitFeatureMap(d, tokens) == IF DOMAIN d.index = {} THEN SetFeatureMap(d, FeatureNames(tokens)) ELSE d

\* AddFeatures: a sparse name is followed by its value, and kept with its "=".
EntryOf(tokens) ==
  LET Token(acc, tok) ==
        CASE tok.t = "name"  -> acc
          [] tok.t = "sname" -> [acc EXCEPT !.sparse = tok.n]
          [] tok.t = "num" /\ acc.sparse # "" ->
               [e |-> AddSparse(acc.e, <<acc.sparse, TRUE>>, tok.v), sparse |-> ""]
          [] OTHER -> [acc EXCEPT !.e = AddValue(@, tok.v)]
  IN FoldLeft(Token, [e |-> Empty, sparse |-> ""], tokens).e

ScoreEntryOf(stats) == FoldLeft(AddValue, Empty, stats)

\* One line of an n-best list: its sentence, what prepareStats makes of the
\* translation, and its features.
LoadNBestLine(data, line) ==
  [scores   |-> AddScoreEntry(data.scores, ScoreEntryOf(line.stats), line.sentence),
   features |-> AddFeatureEntry(InitFeatureMap(data.features, line.tokens),
                                EntryOf(line.tokens), line.sentence)]

LoadNBest(data, lines) == FoldLeft(LoadNBestLine, data, lines)
----------------------------------------------------------------------------
\* removeDuplicates of one sentence.  Hypothesis k is looked for among those
\* with the same sum; a duplicate is swapped with the last, and that comes next.
Swap(s, i, j) == [s EXCEPT ![i] = s[j], ![j] = s[i]]

\* A slip: the scores are not looked at.
FeaturesAlone(at, k, j) == SameEntry(at.feats[k], at.feats[j])

DuplicateOf(at, k, j) ==
  /\ SameEntry(at.feats[k], at.feats[j])
  /\ SameEntry(at.scores[k], at.scores[j])

Visit(at) ==
  LET sum == Sum(at.feats[at.k].dense)
      known == IF sum \in DOMAIN at.lookup THEN at.lookup[sum] ELSE {}
  IN IF \E j \in known : DuplicateOf(at, at.k, j)
     THEN IF at.k < at.end
          THEN [at EXCEPT !.feats = Swap(@, at.k, at.end), !.scores = Swap(@, at.k, at.end),
                          !.end = @ - 1]
          ELSE [at EXCEPT !.k = @ + 1, !.end = @ - 1]
     ELSE [at EXCEPT !.lookup = [x \in DOMAIN @ \cup {sum} |->
                                   IF x = sum THEN known \cup {at.k} ELSE @[x]],
                     !.k = @ + 1]

Remaining(at) == [feats |-> SubSeq(at.feats, 1, at.end), scores |-> SubSeq(at.scores, 1, at.end)]

Deduped(feats, scores) ==
  Remaining(FoldLeft(LAMBDA at, i : IF at.k <= at.end THEN Visit(at) ELSE at,
                     [feats |-> feats, scores |-> scores, k |-> 1, end |-> Len(feats),
                      lookup |-> <<>>],
                     feats))

\* Both go through the arrays by place, whatever their indices.
RemoveDuplicates(data) ==
  LET new == [s \in DOMAIN data.features.array |->
                Deduped(data.features.array[s].entries, data.scores.array[s].entries)]
  IN [features |-> [data.features EXCEPT !.array =
                      [s \in DOMAIN @ |-> [@[s] EXCEPT !.entries = new[s].feats]]],
      scores   |-> [data.scores EXCEPT !.array =
                      [s \in DOMAIN @ |-> [@[s] EXCEPT !.entries = new[s].scores]]]]
----------------------------------------------------------------------------
\* createShards without sampling: the places from one rounded limit to the next.
Limit(id, count, n) == (2 * id * n + count) \div (2 * count)

Piece(id, count, n) ==
  [i \in 1 .. Limit(id, count, n) - Limit(id - 1, count, n) |-> Limit(id - 1, count, n) + i]

\* With sampling: that many places, share / parts of the data.
SampleSize(share, parts, n) == (2 * share * n + parts) \div (2 * parts)

Shard(data, contents) ==
  [features |-> FoldLeft(LAMBDA d, s : AddArray(d, data.features.array[s]), NoData, contents),
   scores   |-> FoldLeft(LAMBDA d, s : AddArray(d, data.scores.array[s]),
                         [NoData EXCEPT !.num = data.scores.num], contents)]
----------------------------------------------------------------------------
\* What the optimizers see: dense features and statistics by place.
FeaturesOf(data) ==
  [s \in DOMAIN data.features.array |->
     [h \in DOMAIN data.features.array[s].entries |-> data.features.array[s].entries[h].dense]]

StatsOf(data) ==
  [s \in DOMAIN data.scores.array |->
     [h \in DOMAIN data.scores.array[s].entries |-> data.scores.array[s].entries[h].dense]]
=============================================================================
