-------------------------------- MODULE Mert --------------------------------
(***************************************************************************)
(* The tuning of mert from n-best lists to weights: the extractor          *)
(* (mert/extractor.cpp) turns lists into files, run after run; mert        *)
(* (mert/mert.cpp) loads them, splits them into shards and optimizes each  *)
(* from several starting points on a pool of threads, with Powell's method *)
(* or a random point (mert/Optimizer.cpp), and writes the mean of the best.*)
(***************************************************************************)
EXTENDS LineOptimize, Pro

CONSTANTS
  None,           (* no value yet                                          *)
  NBestLists,     (* the lists a decoder may leave                         *)
  Chainable,      (* those whose files may be given to the next extractor  *)
  Configs,        (* command lines of mert                                 *)
  Threads,        (* --threads                                             *)
  MaxRuns,        (* a bound on the runs of the extractor                  *)
  RandomParts,    (* how finely a random weight is chosen                  *)
  DrawParts,      (* how finely pro draws a translation                    *)
  Binary,         (* --binary                                              *)
  KeepDuplicates  (* --allow-duplicates                                    *)

ASSUME MertAssumption ==
  /\ Threads \in Nat \ {0} /\ MaxRuns \in Nat \ {0} /\ RandomParts \in Nat \ {0}
  /\ DrawParts \in Nat \ {0}
  /\ Binary \in BOOLEAN /\ KeepDuplicates \in BOOLEAN
  /\ \A l \in NBestLists : l \in Seq(ToSet(l))
  /\ \A c \in Configs :
       /\ c.shards \in Nat /\ c.ntry \in Nat
       /\ c.starts \in Seq(ToSet(c.starts)) /\ c.starts # <<>>

VARIABLES
  pc,      (* where mert is, "extract" before it                           *)
  lists,   (* for each pair of files the lists that went into it           *)
  files,   (* the pairs of files written so far                            *)
  config,  (* the command line of mert                                     *)
  data,    (* the variable data of mert                                    *)
  all,     (* what was loaded into it                                      *)
  o,       (* space, positive weights and regularisation                   *)
  starts,  (* startingPoints                                               *)
  shards,
  tasks,   (* the tasks of each shard, in the order they are submitted     *)
  line,    (* the last line search                                         *)
  pro,     (* what pro sampled of the last sentence                        *)
  final    (* the point to be written, before and after normalization      *)

vars == <<pc, lists, files, config, data, all, o, starts, shards, tasks, line, pro, final>>

MInit ==
  /\ pc = "extract" /\ lists = <<>> /\ files = <<>>
  /\ config \in Configs
  /\ data = None /\ all = None /\ o = None /\ line = None /\ pro = None /\ final = None
  /\ starts = <<>> /\ shards = <<>> /\ tasks = <<>>
----------------------------------------------------------------------------
\* One run of the extractor on a list and, perhaps, the files of the last run.
Extract(list, previous, from) ==
  LET old == FoldLeft(LAMBDA d, f : Load(d, f.features, f.scores, <<>>),
                      NewData(Len(list[1].stats)), previous)
      new == LoadNBest(old, list)
  IN /\ pc = "extract" /\ Len(files) < MaxRuns
     /\ lists' = Append(lists, from \o <<list>>)
     /\ files' = Append(files, Save(IF KeepDuplicates THEN new ELSE RemoveDuplicates(new), Binary))
     /\ UNCHANGED <<pc, config, data, all, o, starts, shards, tasks, line, pro, final>>

ExtractSome ==
  \E list \in NBestLists :
    \/ Extract(list, <<>>, <<>>)
    \/ /\ files # <<>> /\ ToSet(Last(lists)) \subseteq Chainable
       /\ Extract(list, <<Last(files)>>, Last(lists))

\* The command line asks for all files or for the last one.
Given == IF config.allFiles THEN files ELSE <<Last(files)>>

\* pro goes through the files side by side; place counts the blocks.  The
\* translations of all files are drawn from as one list, and a block that is
\* missing in a file, or longer in features than in scores, ends the program.
Block == IF pro = None THEN 1 ELSE pro.place + 1

Level(f) ==
  /\ Block <= Len(f.features) /\ Block <= Len(f.scores)
  /\ Len(f.features[Block].lines) = Len(f.scores[Block].lines)

Running == config.type = "pro" /\ pc \in {"extract", "pro"} /\ files # <<>>

Reads == UNCHANGED <<lists, files, config, data, all, o, starts, shards, tasks, line, final>>

SampleSentence ==
  /\ Running /\ Block <= Len(Given[1].features)
  /\ \A i \in DOMAIN Given : Level(Given[i])
  /\ LET blocks == [i \in DOMAIN Given |-> Given[i].scores[Block]]
         hyps  == FlattenSeq([i \in DOMAIN blocks |->
                                [j \in DOMAIN blocks[i].lines |-> <<i, j>>]])
         stats == [h \in ToSet(hyps) |-> [k \in DOMAIN blocks[h[1]].lines[h[2]] |->
                                            blocks[h[1]].lines[h[2]][k].v]]
         Drawn(r) == hyps[1 + (r * (Len(hyps) - 1)) \div DrawParts]
     IN \E r \in [1 .. NCandidates -> (0 .. DrawParts) \X (0 .. DrawParts)] :
          LET drawn == [i \in DOMAIN r |-> <<Drawn(r[i][1]), Drawn(r[i][2])>>]
          IN pro' = [place |-> Block, stats |-> stats, drawn |-> drawn,
                     kept |-> Collected(Samples(drawn, stats))]
  /\ pc' = "pro" /\ Reads

\* The end of the first file is the end, whatever the others still hold.
EndOfFiles ==
  /\ Running /\ Block > Len(Given[1].features)
  /\ pc' = "sampled" /\ Reads /\ UNCHANGED pro

EndedPrematurely ==
  /\ Running /\ Block <= Len(Given[1].features)
  /\ \E i \in DOMAIN Given : ~Level(Given[i])
  /\ pc' = "exit" /\ Reads /\ UNCHANGED pro
----------------------------------------------------------------------------
LoadFiles ==
  LET loaded == FoldLeft(LAMBDA d, f : Load(d, f.features, f.scores, config.sparse),
                         NewData(1), Given)
  IN /\ pc = "extract" /\ files # <<>> /\ config.type # "pro"
     /\ data' = RemoveDuplicates(loaded) /\ all' = data'
     /\ pc' = "loaded"
     /\ UNCHANGED <<lists, files, config, o, starts, shards, tasks, line, pro, final>>

\* Names to optimize as indices; without a list every index is set to the second.
ToOptimize ==
  IF config.optimize = <<>> THEN [i \in 1 .. config.pdim |-> 2]
  ELSE [i \in DOMAIN config.optimize |-> data.features.index[config.optimize[i]]]

NamesKnown ==
  ToSet(config.optimize) \cup config.positive \subseteq DOMAIN data.features.index

\* An unknown name ends the program.  Positive weights are marked by feature.
Starts(restarts) ==
  LET space == Space(config.pdim, ToOptimize, config.starts[1])
      low  == FromInit(space, config.low)
      high == FromInit(space, config.high)
  IN /\ pc = "loaded" /\ NamesKnown
     /\ o' = [pdim |-> space.pdim, opt |-> space.opt, fixed |-> space.fixed,
              positive |-> [i \in 1 .. config.pdim |->
                 \E n \in config.positive : data.features.index[n] = i],
              reg |-> config.reg]
     /\ starts' = [j \in DOMAIN config.starts |-> FromInit(space, config.starts[j])]
                  \o [j \in DOMAIN restarts |-> Randomized(low, high, restarts[j], RandomParts)]
     /\ pc' = "shard"
     /\ UNCHANGED <<lists, files, config, data, all, shards, tasks, line, pro, final>>

Unknown ==
  /\ pc = "loaded" /\ ~NamesKnown
  /\ pc' = "exit"
  /\ UNCHANGED <<lists, files, config, data, all, o, starts, shards, tasks, line, pro, final>>

\* createShards throws if the two halves of the data differ in size.  With
\* sampling any places are drawn, one more than once too.
CreateShards ==
  LET n == Len(data.features.array)
      size == SampleSize(config.share, RandomParts, n)
  IN /\ pc = "shard"
     /\ Len(data.scores.array) = n
     /\ \E drawn \in [1 .. config.shards -> [1 .. size -> 1 .. n]] :
          shards' = [i \in 1 .. config.shards |->
                       Shard(data, IF config.share = 0 THEN Piece(i, config.shards, n)
                                   ELSE drawn[i])]
     /\ pc' = "launch"
     /\ UNCHANGED <<lists, files, config, data, all, o, starts, tasks, line, pro, final>>
----------------------------------------------------------------------------
\* The main thread: data_ref is data itself, so shard i is assigned to it; one
\* optimizer for it and a task for each starting point.
NewTask(d, start) ==
  [feats |-> FeaturesOf(d), stats |-> StatsOf(d), state |-> "queued",
   point |-> start, score |-> 0, best |-> start, bestScore |-> 0, prev |-> 0, d |-> 0]

\* A slip: the optimizer is given the data before the shard is assigned to it.
LaunchUnassigned ==
  LET i == Len(tasks) + 1
  IN /\ pc = "launch"
     /\ i <= Max({1, config.shards})
     /\ data' = IF config.shards > 0 THEN shards[i] ELSE data
     /\ tasks' = Append(tasks, [j \in DOMAIN starts |-> NewTask(data, starts[j])])
     /\ UNCHANGED <<pc, lists, files, config, all, o, starts, shards, line, pro, final>>

Launch ==
  LET i == Len(tasks) + 1
  IN /\ pc = "launch"
     /\ i <= Max({1, config.shards})
     /\ data' = IF config.shards > 0 THEN shards[i] ELSE data
     /\ tasks' = Append(tasks, [j \in DOMAIN starts |-> NewTask(data', starts[j])])
     /\ UNCHANGED <<pc, lists, files, config, all, o, starts, shards, line, pro, final>>

InState(state) == {t \in (DOMAIN tasks) \X (DOMAIN starts) : tasks[t[1]][t[2]].state = state}

\* The queue of the pool is served in order.
NextQueued ==
  CHOOSE t \in InState("queued") :
    \A u \in InState("queued") : t[1] < u[1] \/ (t[1] = u[1] /\ t[2] <= u[2])

Task(t) == tasks[t[1]][t[2]]
SetTask(t, new) == tasks' = [tasks EXCEPT ![t[1]][t[2]] = new]
OnlyTasks == UNCHANGED <<pc, lists, files, config, data, all, o, starts, shards, pro, final>>

CanStart == InState("queued") # {} /\ Cardinality(InState("running")) < Threads
CanScore(t) ==
  /\ Len(t.stats) = Len(t.feats)
  /\ t.feats # <<>>
  /\ Scorable(t.stats, Get1bests(o, t.feats, t.point))

\* Optimizer::Run, and SimpleOptimizer::TrueRun up to its loop.
Begin(t, score) ==
  SetTask(t, [Task(t) EXCEPT !.state = "running", !.score = score, !.best = Task(t).point,
                             !.bestScore = score, !.prev = score, !.d = 1])

StartPowell ==
  LET t == Task(NextQueued)
  IN /\ CanStart /\ CanScore(t) /\ config.type = "powell"
     /\ Begin(NextQueued, GetStatScore(o, t.feats, t.stats, t.point))
     /\ OnlyTasks /\ UNCHANGED line

\* RandomOptimizer::TrueRun.
RunRandom(r) ==
  LET t == Task(NextQueued)
      space == Space(config.pdim, ToOptimize, config.starts[1])
      p == Randomized(FromInit(space, config.low), FromInit(space, config.high), r, RandomParts)
  IN /\ CanStart /\ CanScore(t) /\ config.type = "random"
     /\ SetTask(NextQueued, [t EXCEPT !.state = "done", !.point = p,
                                      !.score = GetStatScore(o, t.feats, t.stats, p)])
     /\ OnlyTasks /\ UNCHANGED line

\* A shard without sentences, or whose halves differ, ends the program.
Fail ==
  /\ pc = "launch" /\ CanStart /\ ~CanScore(Task(NextQueued))
  /\ pc' = "exit"
  /\ UNCHANGED <<lists, files, config, data, all, o, starts, shards, tasks, line, pro, final>>

Dim == Len(o.opt)

\* The next direction of a pass: each dimension, then random ones.
Direction(d, r) ==
  IF d <= Dim THEN [i \in 1 .. Dim |-> IF i = d THEN One ELSE 0]
  ELSE Randomized(FromInit(o, config.low), FromInit(o, config.high), r, RandomParts)

\* The point of a line search is kept if it scores more than all before it.
Found(t, direction, found) ==
  /\ line' = [found |-> found, task |-> t, origin |-> Task(t).point, direction |-> direction]
  /\ SetTask(t, IF found.score > Task(t).bestScore
                THEN [Task(t) EXCEPT !.d = @ + 1, !.bestScore = found.score, !.best = found.point]
                ELSE [Task(t) EXCEPT !.d = @ + 1])

Search(t, r) ==
  LET task == Task(t)
      Along(direction) ==
        Found(t, direction, LineOptimize(o, task.feats, task.stats, task.point, direction))
  IN /\ task.state = "running" /\ task.d <= Dim + config.nrandom
     /\ Along(Direction(task.d, r))
     /\ OnlyTasks

\* A slip: the point of the last pass is kept.
EndPassUnmoved(t) ==
  LET task == Task(t)
  IN /\ task.state = "running" /\ task.d > Dim + config.nrandom
     /\ SetTask(t, IF task.bestScore > task.prev
                   THEN [task EXCEPT !.prev = task.bestScore, !.d = 1]
                   ELSE [task EXCEPT !.score = task.bestScore, !.state = "done"])
     /\ OnlyTasks /\ UNCHANGED line

\* The end of a pass: another if the score has risen.
EndPass(t) ==
  LET task == Task(t)
  IN /\ task.state = "running" /\ task.d > Dim + config.nrandom
     /\ SetTask(t, IF task.bestScore > task.prev
                   THEN [task EXCEPT !.point = task.best, !.prev = task.bestScore, !.d = 1]
                   ELSE [task EXCEPT !.point = task.best, !.score = task.bestScore, !.state = "done"])
     /\ OnlyTasks /\ UNCHANGED line

\* The best task of a shard; the best score starts at 0.
BestOf(ts) ==
  FoldLeft(LAMBDA acc, t : IF t.score > acc.score THEN [score |-> t.score, point |-> t.point] ELSE acc,
           [score |-> 0, point |-> [i \in 1 .. Dim |-> 0]], ts)

\* After pool.Stop: the mean of the best points, normalized if all weights are
\* optimized, and written in full.
Collect ==
  LET best == [i \in DOMAIN tasks |-> BestOf(tasks[i])]
      mean == [k \in 1 .. Dim |->
                 SumFunction([i \in DOMAIN best |-> best[i].point[k]]) \div Len(best)]
  IN /\ pc = "launch"
     /\ Len(tasks) = Max({1, config.shards})
     /\ InState("done") = (DOMAIN tasks) \X (DOMAIN starts)
     /\ final' = [mean |-> mean,
                  weights |-> AllWeights(o, IF Dim = config.pdim THEN NormalizeL1(mean) ELSE mean)]
     /\ pc' = "done"
     /\ UNCHANGED <<lists, files, config, data, all, o, starts, shards, tasks, line, pro>>

\* The only states mert may stop in.
Stopped == pc \in {"done", "sampled", "exit"} /\ UNCHANGED vars
----------------------------------------------------------------------------
Fractions == [1 .. config.pdim -> 0 .. RandomParts]

RunTask ==
  \/ StartPowell
  \/ \E r \in Fractions : RunRandom(r)
  \/ \E t \in (DOMAIN tasks) \X (DOMAIN starts) : EndPass(t)
  \/ \E t \in (DOMAIN tasks) \X (DOMAIN starts) :
       \E r \in IF config.nrandom = 0 THEN {<<>>} ELSE Fractions : Search(t, r)

MNext ==
  \/ ExtractSome
  \/ SampleSentence
  \/ EndOfFiles
  \/ EndedPrematurely
  \/ LoadFiles
  \/ \E restarts \in [1 .. config.ntry -> Fractions] : Starts(restarts)
  \/ Unknown
  \/ CreateShards
  \/ Launch
  \/ RunTask
  \/ Fail
  \/ Collect
  \/ Stopped

MSpec == MInit /\ [][MNext]_vars
----------------------------------------------------------------------------
\* Features and scores are parallel, found by the same index, and no entry has
\* outgrown its array.
Parallel(d) ==
  /\ Len(d.features.array) = Len(d.scores.array)
  /\ \A s \in DOMAIN d.features.array :
       LET f == d.features.array[s]
           c == d.scores.array[s]
       IN /\ f.index = c.index /\ Len(f.entries) = Len(c.entries)
          /\ d.features.place[f.index] = s /\ d.scores.place[c.index] = s
          /\ \A h \in DOMAIN f.entries : Len(f.entries[h].dense) <= f.entries[h].avail

\* The lists whose lines mert should know.
Used == IF config.allFiles THEN FlattenSeq(lists) ELSE Last(lists)

\* What a line says of a translation: its features, a sparse one through the
\* weights that were given, and its statistics.
Says(l) ==
  LET e == EntryOf(l.tokens)
      product == Sum([n \in DOMAIN config.sparse |->
                        config.sparse[n] * IF <<n[1], TRUE>> \in DOMAIN e.sparse
                                           THEN e.sparse[<<n[1], TRUE>>] ELSE 0])
  IN <<IF config.sparse = <<>> THEN e.dense ELSE Append(e.dense, product), l.stats>>

\* What mert works on is what the n-best lists said, through extraction, files
\* and merging: for each sentence every translation's features with its own
\* statistics, and each such pair once.
DataIsNBest ==
  pc = "loaded" =>
    LET lines == UNION {ToSet(Used[i]) : i \in DOMAIN Used}
        feats == data.features.array
        Translation(s, h) == <<feats[s].entries[h].dense, data.scores.array[s].entries[h].dense>>
        Pairs(s) == {Translation(s, h) : h \in DOMAIN feats[s].entries}
    IN /\ Parallel(data)
       /\ {l.sentence : l \in lines} = {feats[s].index : s \in DOMAIN feats}
       /\ \A s \in DOMAIN feats :
            /\ Pairs(s) = {Says(l) : l \in {k \in lines : k.sentence = feats[s].index}}
            /\ Cardinality(Pairs(s)) = Len(feats[s].entries)

\* The pairs pro keeps are of different worth, the better first, no more than
\* are asked for and no fewer than there are, and for none are there more better
\* ones among the pairs drawn.
SamplesAreBest ==
  pro # None =>
    LET Worth(h) == SentenceScore(pro.stats[h])
        Diff(d) == Worth(d[1]) - Worth(d[2])
        Apart(i) == Max({Diff(pro.drawn[i]), -Diff(pro.drawn[i])})
        distinct == {i \in DOMAIN pro.drawn : Apart(i) >= MinDiff}
    IN /\ Len(pro.kept) = Min({NSamples, Cardinality(distinct)})
       /\ \A k \in DOMAIN pro.kept :
            LET pair == pro.kept[k]
            IN /\ Worth(pair.better) - Worth(pair.worse) >= MinDiff
               /\ Cardinality({i \in distinct : Apart(i) > Worth(pair.better) - Worth(pair.worse)})
                    < NSamples

\* Whatever data is assigned meanwhile, the optimizers of shards that are not
\* sampled work on all sentences, each on its own and none twice.
ShardsAreThePartition ==
  Len(tasks) = config.shards /\ config.shards > 0 /\ config.share = 0 =>
    /\ FlattenSeq([i \in DOMAIN tasks |-> tasks[i][1].feats]) = FeaturesOf(all)
    /\ FlattenSeq([i \in DOMAIN tasks |-> tasks[i][1].stats]) = StatsOf(all)

Height(l, x) == l.b * One + l.m * x

\* If no two corners of a sentence are closer than MinInt, then between any two
\* corners the hypotheses whose statistics are counted have the best model score.
LineIsExact ==
  line # None =>
    LET f == line.found
        xs == f.corners
        apart == \A s \in DOMAIN f.lines :
                   LET c == Corners(f.lines[s])
                   IN \A i \in 2 .. Len(c) : c[i].x - c[i - 1].x >= MinInt
        ends(i) == {xs[k] : k \in {i, i + 1} \cap 2 .. Len(xs)}
    IN /\ apart => \A i \in DOMAIN xs, s \in DOMAIN f.lines : \A x \in ends(i) :
                     \A j \in DOMAIN f.lines[s] :
                       Height(f.lines[s][j], x) <= Height(f.lines[s][f.hyps[i][s]], x)
       /\ \A s \in DOMAIN f.lines : \A j \in DOMAIN f.lines[s] :
            f.lines[s][j].m <= f.lines[s][Last(f.hyps)[s]].m

\* One hypothesis of each sentence is better than all others.
NoTies(feats, p) ==
  \A s \in DOMAIN feats : IsInjective([h \in DOMAIN feats[s] |-> Dot(o, p, feats[s][h])])

\* The score a run of Powell's method reports is the score of its point,
\* counted anew.
ScoreIsOfPoint ==
  \A k \in InState("done") :
    LET t == Task(k)
    IN config.type = "powell" /\ config.reg.type = "none" /\ NoTies(t.feats, t.point) =>
         t.score = GetStatScore(o, t.feats, t.stats, t.point)

\* The weights that are written, tried on all of the data, are no worse than
\* any of the starting points.
OutputNoWorse ==
  pc = "done" /\ config.type = "powell" /\ config.reg.type = "none" /\ config.shards = 0
  /\ NoTies(FeaturesOf(all), final.mean) =>
    LET full == [o EXCEPT !.fixed = <<>>, !.opt = [i \in 1 .. o.pdim |-> i]]
        Tried(space, p) == GetStatScore(space, FeaturesOf(all), StatsOf(all), p)
    IN \A j \in DOMAIN starts : Tried(o, starts[j]) <= Tried(full, final.weights)
=============================================================================
