# A TLA+ model of the tuners of Moses

The repository is the tuners of Moses on their own. `kbmira` reads n-best lists
(or hypergraphs) with the statistics of their BLEU scores, trains the weights of a
linear model with batch MIRA, and writes the averaged weights of the best epoch.
`mert`, the older tuner, searches for the point of the best corpus score along
lines. Around them in `mert/` are the scorers and the tools that make their inputs;
`util/` is a library of files, strings, numbers and queues.

These modules model the path from the lists to the weights for both tuners, the
scorers that fill the statistics, the queue and pool of threads, and the conversion
of numbers to text and back; they state and check what makes each right.
`PROJECT.json` maps every definition to the lines it stands for.

## 1. Inventory

| component | state | operations | hard part | what makes it right |
|---|---|---|---|---|
| `MiraWeightVector`, `AvgWeightVector` (mert/MiraWeightVector.cpp) | weights, lazy sums, the update each sum is right up to, number of updates | `update`, `tick`, `avg`, `weight`, `score`, `ToSparse` | sums are brought up to date only when touched; the vector grows on demand; the averaged view is a reference | the lazy sums are the eager ones; a sum is one of weights held |
| `MiraFeatureVector` (mert/MiraFeatureVector.cpp) | dense values, sorted sparse features | construction, `operator-`, `operator==` | merge with three ways to go on; index shift by the number of dense features | the difference, feature by feature |
| `SparseVector` (mert/FeatureStats.cpp) | a global dictionary of names, id -> value | `set`, `get`, `encode`, `decode`, products | ids depend on the order names are met in | one to one; an index never taken for an id |
| file iterators (mert/FeatureDataIterator.cpp, ScoreDataIterator.cpp) | an open file and the sentence read last | `readNext` | truncated and malformed files | no read past the end |
| `StreamingHypPackEnumerator` (mert/HypPackEnumerator.cpp) | two iterators per list, the pack of the current sentence | `reset`, `next`, `finished`, `featuresAt`, `scoresAt` | lists move together; features are copied, scores read through the iterator; deduplication | a vector and its score line are of one hypothesis; each sentence once; no hypothesis lost or doubled |
| `RandomAccessHypPackEnumerator` (same file) | all packs in memory, a permutation | the same | positions in list, pack and memory differ; reset after reset shuffles | memory is what the files say; a pass visits each sentence once |
| `NbestHopeFearDecoder` (mert/HopeFearDecoder.cpp) | the enumerator | `HopeFear`, `MaxModel`, `Evaluate` | rescaling and a second scan | hope, model, fear ordered by BLEU; the loss is not negative |
| `HypergraphHopeFearDecoder` (same file) with `Graph` (mert/Hypergraph.cpp) and `Viterbi` (mert/ForestRescore.cpp) | pruned graphs by sentence | reading, `Prune`, Viterbi with BLEU | dead ends, pruning scores, n-grams across contexts | best derivation kept; n-grams counted once |
| `kbmira` (mert/kbmira.cpp) | weights, background corpus, best BLEU, the output | epochs, evaluation, writing | one cursor and one weight vector serve training and evaluation; the file is truncated for every better epoch | the output is the best epoch's |
| `mert` (mert/mert.cpp), `Optimizer`, `Point` | starting points, tasks, the data or its shards | line search, Powell's passes, restarts, a thread pool | merged thresholds; fixed weights; shards chosen while tasks run | between corners the sweep counts the best hypotheses; a score is that of its point; the result is no worse than the start |
| `Data`, `FeatureData`, `ScoreData` and arrays | hypotheses by sentence | load, save, `removeDuplicates`, `createShards` | parallel arrays changed together | they stay parallel and lose no translation |
| `extractor`, `pro` | the data | merging of earlier files; sampling | files of several runs; partial sorting | every list is in the files; the pairs taken are the most different ones |
| `Scorer`s: BLEU, BLEUDOC, PER, WER, CDER, TER, SemPOS, Hamming, Kendall, METEOR, interpolated | references, one vocabulary for all | `setReferenceFiles`, `prepareStats`, `score` | clipping, effective lengths, scorers beside and after one another | statistics are those of the words |
| TER (mert/TER) | a table of edits, candidate shifts | beamed edit distance, greedy shifts | the beam, ties, offsets of a shift | never below the words that differ, never above the plain distance |
| `evaluator`, `sentence-bleu`, `hgmira` | none of their own | one pass over files | bootstrap | an evaluation is of its parts |
| `util::PCQueue`, `util::ThreadPool` | ring buffer, semaphores, workers | `Produce`, `Consume`, destruction | interleavings; poison | a FIFO; everything handled before the pool is gone |
| double-conversion (util/double-conversion) with `FakeOFStream` and `FilePiece`'s numbers | a `Bignum`, a buffer of digits | `ToShortest`, `ToFixed`, ..., `StringToDouble` | fast algorithms that must know when they fail; carries; double rounding | shortest and nearest; what is written is read back |
| other `util` (FilePiece, hash table, pools, sorted search), filters, streams | buffers | - | mostly system calls | - |

How they interact: `kbmira` owns one decoder and one weight vector. The decoder
owns an enumerator, whose cursor both the training loop and `Evaluate` move
(`reset`, `next`, `finished`). `HopeFear` and `MaxModel` query the pack under the
cursor and score it with the weights. `update` takes the difference of two of its
vectors. `avg()` hands out a view that refers to the weights. All of `kbmira` runs
in one thread.

The extractor turns n-best lists into files of features and of a scorer's
statistics, merging those of earlier runs through `Data`; `mert` and `pro` read
them. `mert` makes a task of each shard and starting point and submits it to a
`Moses::ThreadPool` (of which the repository has only the header), while it goes on
to make the next shard; a task runs an `Optimizer` on the data and asks the scorer
for the corpus score of lists of changes. All scorers of a program share one
vocabulary. `util::ThreadPool` is a pool of its own, on `util::PCQueue`, for any
number of producing threads. double-conversion stands between all of these and
their files.

## 2. Modules

A module models a component; a name in the code is the name in the module where
TLA+ allows it (`m_totals`, `produce_at_`). C++ indexes count from 0 and sequences
from 1: each module says in its head what counts how. The operators called *a
slip* are what a plausible bug would make of the operator after them; none is part
of a specification. They are used by the mutants of `PROJECT.json`, each of which
makes a property fail.

**Weights.** `AveragedWeights` is the abstract self-averaging vector: on each step
the weights change or not, and the new weights are added to an eager total.
`MiraWeightVector` is the class. The three vectors are functions on an initial
segment of the indices; `Update`, `EmptyUpdate` (`tick`) and `Avg` are the
operations, `UpdateIndices` the private `update(index, delta)` all of them use,
growth of the vectors included. It implements `AveragedWeights` with `CaughtUp`,
the sum of a feature if it were brought up to date now, for `total`. `MiraAverage`
adds a history: the initial value, the least and the greatest of each weight.
Weights are integers; what floating point does to sums is left out.

**Enumerators.** `HypPackEnumerator` is the abstract class as a specification: a
cursor that passes each sentence once. `StreamingHypPackEnumerator` models files
as sequences of blocks (a block is a sentence, or malformed; the file may be cut
inside the last), both iterators of each list, and `Prime` with all its exits.
`RandomAccessHypPackEnumerator` extends it: its constructor drains a streaming
enumerator (`Open`, `Load`, `Loaded`), later passes run over a permutation.
`NbestTrain` is the choice between the two by `--streaming`.

**Decoding n-best lists.** `HopeFearDecoder` is the scan of one pack for hope, fear
and model, hypothesis by hypothesis, with the rescaling of safe hope and the second
scan. A score and a BLEU are integers, hope_scale a fraction.

**Training.** `KbMira` is `main` from the initial evaluation to the exit. The
decoder is the abstract `HypPackEnumerator`, whose cursor `Train`, `Example`,
`Evaluate` and `SumSentence` share. A weight vector is named by the number of
updates that made it, an averaged view is the number `avg()` was last called at
and a `Mixture` once the weights have moved on. So the module tells apart what its
properties need: which weights were evaluated, judged and written.

**Features.** `MiraFeatureVector` has the construction of vectors and the merge in
`operator-`, from two places on as a function of them. `FeatureSpace` puts it together
with the dictionary of names, the vectors read from n-best lists or graphs, updates
and the printing of weights by name: a feature has an id in one place and an index
in another. A hypothesis is a function from the names it lists, and a listed value
may be 0: `SparseVector` stores it, and the edges of a graph may cancel out. The
merge passes such a 0 on if one vector alone lists it, and drops a feature only if
both list it with the same value; `DifferenceIsRight` says just that.

**Graphs.** `HypergraphPrune` has the graph as data and its derivations (what a
graph means), and `Graph::Prune` with backward, forward and edge scores,
what is retained and the cut (`Cut`: copies with new numbers). `ForestRescore` is `Viterbi` over what pruning left:
one step for each vertex (`DeadEnd`, `Throw` or `Rescore`), the scorer's walk over
words and contexts (`Walk`, `EdgeNgrams`), its state for each vertex (`NewState`)
and the hypothesis along the back pointers (`Finish`). BLEU is any function of the
counts; a float score is an integer and a number of dead ends below, because
kMinScore/2 swallows whatever finite score is added to it.

**Threads.** `BoundedFifo` is what `PCQueue` promises: a call takes effect at one
moment, or throws and takes none. `PCQueue` has one step for each semaphore, mutex,
copy and post of `Produce` and `Consume`; between the beginning and the end of a
copy other threads run. `WorkerPool` composes it with the pool: construction (a
worker's thread runs before its `poison_` is copied), requests of clients, workers,
the destructor's poisons and joins; a handler or a copy that throws in a worker
ends the process.

**mert.** `CorpusScore` is the sum of statistics and its change hypothesis by
hypothesis, with regularisation; the metric `CalculateScore` is any function of the
totals. `LineOptimize` has the points (`Space`: which weights are optimized and
which fixed, `Dot`), the line of a hypothesis, the envelope of a sentence with its
corners, the map of thresholds with its merging, and the choice of a place. `Data`
has the arrays, n-best lines, files, `RemoveDuplicates` and shards; `Pro` the
sampling. `Mert` composes them: the extractor runs up to `MaxRuns` times, each run
over a list and perhaps the files of the last; then `mert` or `pro` reads some of
the files; starting points, restarts and shards are made, and tasks run on
`Threads` threads while shards are still being made, each of them one line search a
step. A weight is a whole number, `One` of which are 1.0. A random weight is one of
`RandomParts` parts between its limits; a draw of `pro` one of `DrawParts`. What
the step from a corner to an evaluated place does for rounding's sake is `Snap`,
`Near` and `Far` of the same units.

**Scorers.** `Words` is the way from a line to codes: the filter, factors, case and
the vocabulary, which is state. `BleuStats` has n-gram counts, references with
several files and documents; `WordErrors` PER, WER, CDER, SemPOS and the
permutation metrics; `Ter` the beamed edit distance, its path, the shifts and their
greedy choice. `Scorers` is the evaluator around them: for each file and group of
scorers, each scorer reads the references in turn (`Load`), each line is prepared
by each scorer in turn (`Prepare`), and the sums, or bootstrap samples, are scored.
Logarithms, roots and the METEOR process are constants that are functions of the
right arguments.

**Numbers.** `Ieee` is the formats, with their sizes as constants, `DiyFp` and the
cached powers, which are computed and not tabulated; `Bignum` the big integers,
bigit by bigit; `Dtoa` Grisu, the fixed algorithm and the digits of a ratio of
Bignums; `Strtod` the reading of digits, from one exact operation to the comparison
of Bignums. `Decimals` is the calls: `ToShortest`, `ToFixed`, `ToExponential`,
`ToPrecision` and their text, and `StringToDouble` and `StringToFloat` with the
scanning of text. A call that the fast algorithms decide is one step, one that they
leave to Bignums a step a digit.

The modules `KbMira_proofs` (with `MiraAverage`), `NbestTrain_proofs` (with both
enumerators and `HopeFearDecoder`), `FeatureSpace_proofs`, `ForestRescore_proofs`
(with pruning), `Mert_proofs` (with `Data`, `Pro` and `CorpusScore`),
`ScorerStats_proofs` (with `Words`, `BleuStats` and `WordErrors`) and
`WorkerPool_proofs` (with the queue) hold the theorems. `Folding` has the lemmas
about sums, maxima, ranks and lists of lists that several of them use, and what a
fold over a sequence gives, for any operator: each loop that is a fold takes an
instance of it. The `MC...` modules hold the constants of the runs and
nothing else.

## 3. Runs

| run | what it checks | instance |
|---|---|---|
| `averaging` | the sums never ahead of the updates, `ImplementsAveragedWeights`, and that the sum but for the initial weight is one of weights held | 3 indices, 3 initial vectors, 4 updates |
| `nbest_train` | both enumerators: vectors with their own score lines, deduplication, memory as the files, both refinements of `HypPackEnumerator` | one or two lists of up to three sentences, four hypotheses; well-formed, cut, malformed and mismatching files |
| `hope_fear` | `FearModelHope` | up to 3 hypotheses, 5 scores of both signs, 3 BLEU values |
| `kbmira` | whole passes, evaluated weights, the output, termination | 2 sentences, 3 epochs, BLEU 0, 1, 2 or NaN |
| `feature_space` | printed weights, differences | 1 dense and 3 sparse features, 3 of 6 hypotheses read, zeros listed by one or by both, 2 updates, both types |
| `to_sparse_scores` (violation) | `ToSparseScores` | the same |
| `worker_pool` | no race, nobody compares with an unmade poison, `ImplementsFifo`, handled once, termination | 2 clients, 2 workers, the destructor; 2 slots; 3 requests, one of which the handler refuses; a client and a worker whose copies throw |
| `hypergraph` | pruning scores, pruned part, best derivation kept in lattices; contexts, n-gram counts, best decoding, no false dead ends | 81 graphs of 4 or 5 vertices and up to 6 edges, n-grams up to 3, 4 pruning counts, 2 weights, 3 BLEU weights |
| `mert` | the data after extraction, merging and duplicates; pro's pairs; shards under running tasks; each line search; scores of points; the outcome | 5 lists of 2 or 3 sentences with 1 to 3 translations, 13 command lines, 2 threads |
| `fixed_weights` (violation) | `ScoreIsOfPoint` with a fixed weight that is not 0 | one command line of the same |
| `scorers` | statistics of every metric against the words; distances; evaluations of groups | all sentences of up to three of two words and others, one or two reference files, every kind of scorer |
| `decimals` | exact Bignums, right digits, nearest numbers, the way there and back | every number of a format of 4 bits of significand and 4 of exponent (floats: 2 and 3), every mode, up to 4 digits, decimals up to 120 with exponents of up to 5 either way |

Why the bounds are enough:

- *Weights.* Laziness needs a feature updated, others updated after it, an average
  in between and an update after that: four updates on three indices, one beyond
  the initial vectors, so growth with a gap occurs too.
- *Files.* The two lists are of equal, greater and smaller length, every way of
  ending badly occurs at the first sentence and at a later one, and duplicates
  occur within a list, between lists, and between hypotheses that share one part.
  A third sentence is needed for a shuffle that is not its own inverse.
- *Scan.* Three hypotheses can be hope, model and fear separately, with a second
  scan that changes the hope. The theorems hold for every size.
- *Epochs.* Three epochs have a best one in any place, ties and NaN between. The
  theorems hold for any number. Between opening the file and writing it is
  empty, and `OutputIsBest` leaves that window out.
- *Pool.* With two slots and two clients, producers overtake one another between
  mutex and post while consumers do; the three requests and two poisons are more
  than the slots, so the ring wraps and producers block.
- *Graphs.* There are a lattice with parallel edges and the boundary words, graphs
  with two children in either order, a vertex shared by two edges, three children
  (more than two dead ends below one edge), contexts shorter than, as long as and
  longer than n - 1, and n-grams repeated more often than in a reference.
- *Mert.* Lines of one sentence cross at one and at two corners, three of them in a
  point, corners of two sentences fall together, and a line is below the envelope.
  Lists repeat translations, add sentences between earlier ones, lack sentences,
  and give one translation other words; so files of two runs merge in every way.
  There are as many shards as, more than and fewer than sentences. With 240 units a
  corner of the lines used is a whole number. With two threads and
  more tasks a task runs before, while and after a shard is assigned. A task has its
  data by value, since the optimizer keeps the handles it was given and nothing
  changes what they lead to: `ShardsAreThePartition` is about handles given in the
  wrong order, not about arrays changed under a task. `OutputNoWorse` is about runs
  without shards and outcomes without ties.
- *Scorers.* With n-grams of order 2 a word is clipped or not in one, the other or
  both references; reference lengths are on either side of a candidate's, equally
  near, and equal. Candidates are references rearranged in several
  ways, so that TER has blocks to move, or none. Each metric is run alone, after another one, and beside another one.
- *Decimals.* Everything that depends on the size of a format is a constant, and
  the small ones keep the relations of the real ones (named assumptions). A double
  has denormals, a boundary closer below a power of two, numbers that Grisu rejects
  and numbers that it does not, and halves that are to be rounded to even; a float
  may be nearest to a decimal whose nearest double rounds elsewhere. Bigits of 4
  bits give a Bignum up to 10 of them (`BigitCapacity` is the least with which none
  outgrows its buffer), so carries cross several. The capacity is held against the
  digits a result is stored with, not against what an operation asks for on the way. Three branches do not occur at
  this size: the third of `DoubleStrtod` (a product of two powers), the cutting of
  input to the most significant digits, and the widest of the fixed algorithm.

The hypergraph run is also where pruning is seen to go wrong when an edge has
several children: an edge is kept and the edges of its child are not, so the child
becomes a dead end, and decoding throws "Graph was not topologically sorted" (two
dead ends add up to the mark of an unvisited vertex) or reads a null pointer (three
of them). `LatticeKeepsBest` therefore speaks of lattices and `CompleteIsDecoded`
of graphs without dead ends (that none is seen where there is none); `EdgeScores` says how the score of an edge differs
from that of its best derivation. Nothing in the repository promises otherwise, so
these are recorded as hazards and not as findings.

The violation runs are findings, each against a sentence of the repository:

- `to_sparse_scores`: `ToSparse` takes weight indexes for ids, but sparse features
  have been moved up by the number of dense ones: graphs are decoded with the
  weight of another feature (MiraWeightVector.h:67).
- `fixed_weights`: the product of a point and a hypothesis adds the part of the
  fixed weights also when the point is a direction (Optimizer.cpp:113), so slopes
  are off and the score of a line search is not that of the point it returns
  (Optimizer.h:73).

What else was seen while the models were written; the models do it too, and no
property says otherwise:

- The sums of `MiraWeightVector` start with the initial weights but the count does
  not (MiraWeightVector.cpp:153): an average is of one vector too many.
  `AverageButForStart` says what the sum is.
- `operator==` of an n-best item compares a dense vector with itself
  (FeatureDataIterator.cpp:60), so only the hash tells dense vectors apart; and that
  of feature vectors answers no if two dense values are *close*
  (MiraFeatureVector.cpp:170).
- If no epoch has a BLEU above 0, `kbmira` ends with success and writes nothing.
- `FeatureStats` writes sparse features after the dense ones and reads them back
  into both when files of an earlier run are given to the extractor; `removeDuplicates` compares
  dense values only.
- In `mert` positive weights are given by one numbering and asked for by another;
  a corner close to the one before drags along what other sentences change there;
  shards made with replacement merge a sentence drawn twice; more shards than
  sentences end the program; the best score of a shard begins at 0, so that
  scores of 0 or less are never taken.
- `pro` moves the iterators of several files side by side, whatever sentences they
  hold.
- CDER cuts its costs to integers; the maximum in SemPOS is never updated; one
  loop of Permutation.cpp is off by one; BLEUDOC drops the text after the last line
  break; the factory lists two scorers that it refuses to make.
- One vocabulary for all: PER of one factor beside BLEU of another has its codes
  cleared under it. `Scorers.cfg` with `Jobs <- MCFactorJobs` shows it
  (`StatsAreOfWords`); the run `scorers` has scorers of the same words.
- After a number, "e" and a sign are taken although no digit follows
  (double-conversion.cc:793). The invariant `JunkIsNotProcessed` in `Decimals.cfg`
  shows it.
- The borrow in `Bignum::SubtractTimes` is passed on to every other bigit only; at
  this size it does no harm (`RemainderIsExact`).

`CHECK_DEADLOCK FALSE` is set for the programs that just end. `mert`, `scorers`
and `decimals` are checked for deadlock: they stutter where they have ended.

## 4. Fairness

`kbmira`: `Terminates` is checked under `WF_kvars(KNext)`. It is one sequential
program that blocks on nothing, so as long as it can take a step it does.

`worker_pool`: `Terminates` is checked under `FairPSpec`, weak fairness of each
thread (`MainStep`, `ClientStep(c)`, `WorkerStep(w)`): the operating system
schedules every thread that can run for ever. No fairness is asked of semaphores
and mutexes, between threads that wait for one, or of exceptions: a thread may be
overtaken as long as others have something to do.

`mert`, `scorers` and `decimals` state safety only. Nothing else assumes fairness.

## 5. Proofs

TLAPS checks these for every value of the constants that the named assumptions
allow (`SizeAssumption` and `VectorAssumption`: indexes and integers;
`DecoderAssumption`; `NamesAssumption`: dense names are a sequence without
repetition, sparse ones a finite set apart from them, values integers;
`GraphAssumption`: a graph is bottom-up, every vertex of it has edges, its features are
integers and no child occurs twice among the words of an edge; `PruningAssumption`:
the weights that prune are integers, the numbers of edges to keep naturals;
`DecodingAssumption`: weights are integers, the order of n-grams at least 1;
`ProAssumption`: the numbers of `pro` are at least 1; `MertAssumption`: n-best lists
are sequences, the numbers of shards and restarts naturals, and there is at least one
starting point; `DataAssumption`: a file is a sequence of blocks, a block
malformed or a sequence of hypotheses; `KbMiraAssumption`; `QueueAssumption`:
finitely many threads, at least one slot; `PoolAssumption`: who the threads are,
that main, clients and workers are different ones, and what they produce).

- `KbMira_proofs`, the weights. `TypeCorrect`: `TypeOK` is inductive; the point is that
  `m_lastUpdated` is at most the number of updates although both the coming number
  (in an update) and the present one (in `Avg`) are written to it. `LazyIsEager`:
  every step maps to a step of `AveragedWeights` or a stutter. The core is that
  `CaughtUp` of an index that an update touches is the new weight more than before
  plus what it lacked, and of any other index it grows by the weight because the
  number of updates does.
  `AverageIsOfHeldWeights`: `AverageButForStart` speaks only
  of states where every sum is up to date, and so is not inductive. `RangeInv` says
  the same of `CaughtUp` in every state:
  `initial + least * n <= CaughtUp <= initial + greatest * n`.
- `FeatureSpace_proofs`. `FeatureInv`: the dictionary names no feature twice, a
  graph's has the dense names first, every hypothesis read has the values of its
  file under the ids the dictionary gives (ids never change once given), and a
  weight has the index of a feature that has a name.
  `DifferencesAreRight`: two vectors are ascending lists, zeros among them
  (`AscendingLists`, from the ranks of ids), and `Merged` of two such lists is
  right from every pair of places on (`MergeIsRight`, by the number of entries
  left: a pair of places where it is wrong would have a least one). What is listed
  of a feature is said by `Gives`, a relation, since a list gives each feature one
  value (`ListedIs`), and whether it is listed by `Lists`; `Stays` is when it is
  listed in the difference. `PrintedWeightsAreTrained`: both sums are of the same terms
  but for those that are 0; `SumsMatch` says that such sums are equal, and rests on
  `SumStep`, which takes a term off a sum, and on a least set for which they
  differ. The terms are matched by index, and here dense features of graphs, whose
  ids are their indexes, and sparse ones, which move up, part ways.
- `ForestRescore_proofs`. Derivations are a recursion over vertices, which exists and
  is what its definition says because children come before heads
  (`DerivationsExist`, `DerivationIs`, by a least vertex for which it is not so).
  `PrunedGraphsAreParts`: `CutInv` says that the graph decoded is `Cut` of *some* edges
  of one that was read, so the scores that chose them do not matter. New numbers are
  ranks among the vertices kept, so they are below the size, different and in the old
  order (`NewIdsAre`); the children of a copy are those of its edge (`CopiedChildren`),
  an edge and its copy make the same of the same derivations (`CopyDerives`), and so
  does everything above them (`CutIsPart`). `DecodingFindsTheBest`: `DecodingInv` says
  that each vertex visited has a pointer whose dead ends and score are those of its
  edge, that dead ends leave a vertex no derivation (`Pointers`), and that, without
  BLEU, none of its derivations scores more (`BestPointers`). A step keeps this because
  the winner has the fewest dead ends and of those the best score, and an edge makes
  of bounds of its children one of its own (`EdgeIsBound`). That the bound is reached,
  by the text and features `GetBestHypothesis` puts together, is `HypothesisIsDerived`,
  by a least vertex again. `CompleteGraphsAreDecoded`: where each vertex has an edge no
  pointer has a dead end below (`CompleteIsAlive`), so no vertex looks like one not
  visited, and of finitely many scores there is a last best one (`LastBestExists`). Its
  hypothesis `BleuIsNumber` says that the constant `Bleu` gives an integer for all
  arguments, those read past the end of the statistics included; the theorem then holds
  with BLEU as without.
- `ForestRescore_proofs`, pruning. `EdgesScoreAsDerivations`: the forward pass gives the best
  derivation of a vertex, and the backward pass, from the roots down, the best that is
  around it, so `Through` is the best of those an edge is part of, but for the siblings,
  which are counted twice. One half bounds every derivation from above, by the least
  vertex for which it is not so (`EdgeBounds`), the other shows one that reaches the
  bound, by extending a derivation upwards (`DerivationExtends`). `PruningKeepsTheBest`:
  with an edge all that score at least as much are kept (`Retained` is upward closed),
  and what a best derivation is made of scores no less than it does; the invariant
  `PruningInv` ties the graph decoded to the edges so chosen. `PruningAndDecodingFindTheBest`
  puts both ends together: where the graph read has one root, decoding what is left by the
  weights that pruned it finds a best derivation of the graph that was read. It follows
  from `LatticeKeepsBest` and `ModelDecodesBest`, so no run checks it apart from them.
- `ForestRescore_proofs`, contexts. `ContextsAreOfTexts`: `ContextInv` says that the state of each
  vertex visited is what `UpdateState` makes of those of the children of its back
  pointer's edge. By a least vertex again, it is that of the text its pointers derive: the
  length, the first `Order - 1` words and the last. For the words and children of an edge
  are put together one by one, and a prefix and a suffix of each part are enough for those
  of the whole (`FlattenPrefix`, `FlattenSuffix`).
- `Mert_proofs`, `pro`. `SamplesAreTheBest`: what `nth_element` finds is a difference that fewer
  pairs than are asked for surpass and as many reach. `NthExists` shows that there is one however
  many tie, by the greatest difference that enough pairs reach; what is collected are pairs that
  reach it, and the ranks of places make of them pairs that were drawn. The constant that
  gives a sentence its score may be any operator: the theorem speaks of every state in which
  the scores of the pairs drawn are numbers (`ScoresAreNumbers`).
- `Mert_proofs`, the data. `OptimizersShareTheData`: `IsData` says of an array with its index map
  that no sentence is in it twice and each is found at its place. Every way by which
  data comes about keeps it: adding an entry, loading, merging, removing duplicates, a
  shard; for loops over lines, blocks and files by instances of `Folding`. So a shard
  whose contents are different sentences holds them as they are (`TakenInOrder`); the limits
  of shards ascend from 0 to the number of sentences, and pieces between ascending limits
  put together are all of them (`FlattenSeq`). `ShardInv` ties what is loaded, the shards
  made and the tasks to one another while threads take them.
  `DuplicatesAreRemoved` is about `Deduped` alone, the loop of `removeDuplicates` that
  swaps a duplicate with the last hypothesis and looks at the same place again. `VisitInv`:
  features and statistics are swapped alike (`KeepsPairs`, and each pair that there was
  has its like before the end), and those visited are different and found by their sums
  (`KnowsVisited`), since no swap touches a place visited. With each visit the places left
  are fewer, so as many turns as there were hypotheses suffice (`AllAreVisited`).
- `Mert_proofs`, scores. `ChangesAreCounted`: `CorpusScore` never sums a corpus again but takes
  off and adds what a change of hypotheses makes. `IsCounted` says that the totals are
  the sums of the hypotheses named last; one change keeps it (`SumWithout`), so a list
  does, and so do lists of lists.
- `ScorerStats_proofs`, words. `CodesTellWords`: a vocabulary names no word twice and only
  grows, by a fold over the words of a line. What follows is about scorers as they
  are called for one line, with a vocabulary that knows the words of the references, and
  compares what they make of codes with the words. `BleuStatsAreOfWords`: places where
  spans of codes are the same are those where spans of words are (`SameCodes`), for
  a word that is in no reference gets -1, which none of theirs has. The statistics
  are a sum over different n-grams, the predicate `BleuOfWords` of the runs one over places that
  are covered: of the places with one n-gram as many are covered as there are up to the
  limit (`FirstOnesAreCounted`), and the sets of places of different n-grams share none
  (`PlacesAddUp`). Merging the counts of references keeps the most of each
  (`MergedAreMost`). `PerCountsWordsOnce` is the same with words for n-grams and a list
  that words are struck off.
- `ScorerStats_proofs`, edits. `WerIsEditDistance` and `CderIsBetween` compare the
  rows of `computeCD`, which are folds, with the table `Edits`. That takes the place before in both
  sentences when two words are the same, without a look at the others; this is
  right because neighbours in the table differ by at most 1 (`TableIsNear`), so that it has the
  least of all three (`TableIsLeast`). `IsCost` is what holds of every cell of a
  row: no more than the table, with equality where there are no long jumps, no less than the
  words missing so far, and 0 on the diagonal of equal prefixes only. The first row has it and each row
  hands it on (`NextRowIs`, `CostsOfNextRow`), long jumps included (`JumpsKeepCosts`).
  `ErrorsAreOfBestReference` adds codes and the choice among references.
- `ScorerStats_proofs`, orders. `AlignmentsGiveOrders`: `Ranked` gives a word as its
  place how many come before it. The relation is a strict order of all words, so
  places are different, and as many as there are words (`RankedIsOrder`).
- `NbestTrain_proofs`, the decoder. `HopeBeatsFear` (the run's `FearModelHope`), and
  `DecoderTypes` and `LossIsNotNegative`, which no run needs any more.
  The invariant `DInv` says that at `i` each of the three indexes is the best of
  the hypotheses before `i` by its own score under the present scale. BLEU order
  then follows by comparing the hope's and the model's two inequalities, which
  works because the scale is between 0 and 1 (`scale.num <= scale.den`); the loss
  needs the fear's inequality at the hope only.
- `NbestTrain_proofs`, the enumerators. The streaming part
  has `StreamInv`: all iterators stand at the sentence `m_sentenceId`, at most one
  past the end of the first list (`CursorInv`), the pack is what `prime` makes of
  the sentence they stand at (`PackInv`), and its dense vectors have one length
  (`DenseInv`). It is kept by every step of either enumerator (`SStep`), which is
  what lets the memory be proved from it: `MemoryInv` says that as many sentences
  have been copied as `next()` was called (`LoadedSoFar`), that each is stored with
  its own score lines (`Stored`), and that `m_indexes` counts up while the
  constructor runs and is a bijection of the sentences ever after (`PassOrder`).
  `PacksMatchScores` and `MemoryIsOfFiles` follow, and both refinements of
  `HypPackEnumerator`: `StreamingEnumerates`, and `RandomAccessEnumerates`, in which
  an injective order makes `next()` come to a sentence not visited before and a
  surjective one leaves none out. `PacksAreDeduped` has the hypothesis
  `NoCollision`, without which it is false: `operator==` compares a dense vector
  with itself, so two hypotheses of the data with the same sparse vector and the
  same hash must be the same. What `Distinct` keeps is the first of each class
  (`DistinctKeepsFirst`, by the well-foundedness of the naturals), and `InOrder`
  lists it without gaps (`InOrderLists`, from the ranks of its elements).
- `KbMira_proofs`, the main loop. `PassesAreWhole` and `EvaluationsAreWhole`: `PassInv` ties the
  cursor to what was summed up or trained on, and the view that is read to the
  update number it was made at. `OutputIsBestEpoch`: `ResultInv` says whether the BLEU of the
  epoch before was recorded (`Recorded`) or is judged but not written (`Pending`),
  and carries the first best epoch through opening and writing.
- `WorkerPool_proofs`, the queue. The semaphores alone are no invariant, for between a semaphore
  and its post a thread has what neither counts. `QInv` counts it: `Held` values
  (posted, or with a thread at "post_used", "lock_consume" or "copy_out") and `Free`
  places (likewise) add up to `Size`, and `produce_at_` is `Held` slots after
  `consume_at_`. `QueueTypes` and `QueueIsSafe` follow: a copy in is counted in
  `Free` and a copy out in `Held`, so with both neither is 0 or `Size`, and the two
  ends of the ring differ. Steps but the two copies leave `Held` and the slots of
  `Queue` alone (`HandOver`, `QueueStays`; a copy that throws spoils only the slot
  after them); a copy in appends and a copy out takes the head. So `QueueIsFifo`:
  each call takes effect with its copy. `CountMoves`, on which the counting rests,
  says how the number of threads at a set of places changes when one moves.
- `WorkerPool_proofs`, the pool. `PoolIsSafe` and `PoolIsFifo`: a step of the pool is one of
  the queue, so both hold of the specification that run `worker_pool` checks.
  `PoolTypesHold` and `RequestsAreHandledOnce` rest on `PoolInv`: where each kind of
  thread can be in each phase of the pool (`PoolPlaces`, `PoolPhases`), that the
  FIFO behind the ring holds requests first and poisons after them, and none but
  poisons once a worker has one (`PoolOrder`), that a request is in one place only
  of what clients have to do, threads carry and the queue holds, and in none when it
  has been handled (`PoolOnce`), and that an accepted one is in the queue, carried
  by a worker or handled (`PoolKeeps`). Before the pool is constructed the queue
  holds nothing, so nobody compares; when the destructor is done every worker has
  met a poison, so no request is left. The second theorem assumes `Workers # {}`: a
  pool of no workers accepts requests until the queue is full and drops them.

An invariant and its strengthening were model-checked before they were proved.

Induction over data is done by the least place at which something is wrong: a fold's
values exist and are taken one from another (`Folding`), a recursive function has the values
its definition says where a measure decreases (`Merged`, `Derivations`, the sums).

Only model-checked:

- both `Terminates`: liveness and `ENABLED` are beyond the prover;
- what holds of the instance and not of all values of the constants. `NgramsCountedOnce` needs
  graphs whose texts have the boundary words at their ends and nowhere else;
  `DataIsNBest` lists such that one run's list may follow another's; `LineIsExact`, `ScoreIsOfPoint` and
  `OutputNoWorse` weights and slopes whose divisions leave no rest, so that the rounding
  the model keeps does not occur;
- the evaluator as a whole: `StatsAreOfWords`, `DistancesAreLeast` and
  `EvaluationIsOfParts` speak of every kind of scorer, loaded and called in turn. Of the
  first two the parts about BLEU, PER, WER, CDER and the orders are proved of the
  operators, one call at a time; that the vocabulary knows the words of the references
  at each call, and so all of the three, is checked by the run. BLEUDOC, SEMPOS, TER and the
  average over references are only checked: TER and the reading of documents
  use `SelectSeq`, of which the prover has no definition;
- the numbers: `RemainderIsExact`, `PrintedIsRight`, `ReadIsNearest`,
  `WrittenIsReadBack`. Their algorithms are recursions over digits with errors that
  the cached powers of a format decide.

## 6. What is not modelled

- Floating point: weights and scores are integers or fractions. NaN, the minus
  infinity of dead ends and the swallowing of scores are modelled where the code
  compares with them, and numbers as such in `Ieee`.
- BLEU as a number. Its logarithms are out of reach of the tools; every module that
  needs BLEU takes any value, or any function of the counts. So `sentence-bleu`, a
  loop around a smoothed formula, is left out.
- Options, signals and the format of messages; of reading, the tokens of features
  in n-best lists are modelled, and other blocks are well formed or not.
- Without `--dense-init` (`initDenseSize` 0), and the decay of the background
  corpus in `kbmira`; `hgmira`, which decodes graphs without training.
- `RandomDirectionOptimizer`, which draws all its directions; those that Powell's
  method draws after the dimensions are modelled.
- `SentenceLevelScorer`, of which no scorer is made; the process behind METEOR;
  `WERCalculation` of TER, which nothing calls, and the alignments TER prints;
  collisions of its hashes.
- Of double-conversion: other radices, hexadecimal text of a Bignum, words of 128
  bits, and the flags that none of the callers sets.
- The rest of `util`: the buffer of `FilePiece`, decompression, mmap, the hash
  table, bit packing: thin layers over the system, or containers that the tuners
  hardly use.

## 7. Plan

Done: the training path of `kbmira` for n-best lists and graphs, the queue and the
pool, `mert` and `pro` from lists to weights, the scorers with TER, and the decimal
library. Proved, but for termination: that path for n-best lists, what pruning keeps and
decoding finds in graphs, the queue and the pool, the data of `mert` on its way to the
optimizers, the sampling of `pro`, and what BLEU, PER, WER and CDER make of a line. What would
add most now, in this order:

1. The vocabulary between the calls of scorers: that it knows the words of the references at
   every line, of which §3 says when it is not so; this would make of the theorems about
   calls one about `StatsAreOfWords`. `NgramsCountedOnce` for all graphs whose sentences
   have their boundary words, and `DataIsNBest` for all lists that may follow one another.
2. `util`: the buffer of `FilePiece` against the text it reads (`get` looks at
   `at_end_` after `Shift`), the probing hash table against a map, the intersection
   of sorted ranges.
3. The random directions of the optimizer, and smoothed sentence BLEU as far as it
   is counts.
4. Proofs about the decimal library, from the big integers up.
