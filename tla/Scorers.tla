------------------------------ MODULE Scorers ------------------------------
(***************************************************************************)
(* The evaluator (mert/evaluator.cpp) and the scorers it makes             *)
(* (ScorerFactory.cpp), one alone or several interpolated                  *)
(* (InterpolatedScorer.cpp).  For each candidate file and each group of    *)
(* scorers: the scorers read the reference files in turn, prepare the      *)
(* statistics of each candidate line in turn, and the statistics of the    *)
(* sentences, or of samples of them, are scored.                           *)
(***************************************************************************)
EXTENDS BleuStats, Ter

CONSTANTS
  Jobs,                 (* the command lines, with the contents of files   *)
  BleuScore(_),         (* the BLEU of statistics with no order at 0       *)
  MeteorStats(_, _),    (* METEOR, an external program: what it answers of *)
  MeteorScore(_)        (* references and a text, and of statistics        *)

VARIABLES
  job,          (* the command line                                        *)
  files,        (* the candidate files                                     *)
  file, group,  (* the file and the group of scorers at work               *)
  phase,
  vocab,        (* the vocabulary of the program                           *)
  refs,         (* what each scorer of the group knows of the references   *)
  entries,      (* the statistics of the lines so far                      *)
  samples,      (* the scores of the bootstrap samples so far              *)
  printed       (* what was printed                                        *)

vars == <<job, files, file, group, phase, vocab, refs, entries, samples, printed>>

Scorers == job.groups[group].scorers
Candidates == files[file]
----------------------------------------------------------------------------
\* ScorerFactory::getScorer; MERGE and LRSCORE are listed by getTypes only.
Types == {"BLEU", "BLEUDOC", "PER", "TER", "CDER", "WER", "SEMPOS", "HAMMING", "KENDALL", "METEOR"}

UseAlignment(scorer) == scorer.type \in {"HAMMING", "KENDALL"}

NumberOfScores(scorer) ==
  CASE scorer.type \in {"BLEU", "BLEUDOC"} -> 2 * Order + 1
    [] scorer.type \in {"PER", "TER"} -> 3
    [] scorer.type \in {"WER", "CDER", "HAMMING", "KENDALL"} -> 2
    [] scorer.type = "SEMPOS" -> IF scorer.overlapping = "cap-micro" THEN 2 ELSE 2 * MaxNOC
    [] scorer.type = "METEOR" -> Len(MeteorStats(<<>>, <<>>))

\* What a scorer keeps of the reference files.
References(scorer, v, references) ==
  LET Private(r) == IF r.ok THEN Returned(v, [maps |-> r.vocab, sentences |-> r.value]) ELSE Thrown(v)
      Text(u, line) == IF Preprocessable(scorer, line.words)
                       THEN Returned(u, Preprocessed(scorer, line.words)) ELSE Thrown(u)
  IN CASE scorer.type = "BLEU"    -> BleuReferences(scorer, references)
       [] scorer.type = "BLEUDOC" -> DocReferences(scorer, references)
       [] scorer.type = "PER"     -> PerReferences(scorer, v, references)
       [] scorer.type \in {"WER", "CDER", "TER"} -> EncodeFiles(scorer, v, references)
       [] scorer.type = "SEMPOS"  ->
            Private(SemposReferences(scorer, SemposMaps(scorer.weights), references))
       [] scorer.type = "METEOR"  -> Calls(v, LAMBDA u, lines : Calls(u, Text, lines), references)
       [] UseAlignment(scorer)    -> Returned(v, ReferencePerms(scorer, references))

\* prepareStats of one scorer, for the line with number sid (from 1): its
\* references, which only SEMPOS changes, and the statistics.
Prepare(scorer, v, ref, sid, line) ==
  LET Same(r) == IF r.ok THEN Returned(r.vocab, [ref |-> ref, stats |-> r.value]) ELSE r
      Private(r) == IF r.ok THEN Returned(v, [ref |-> [ref EXCEPT !.maps = r.vocab],
                                              stats |-> r.value])
                    ELSE Thrown(v)
      Meteor == IF /\ Preprocessable(scorer, line.words)
                   /\ \A rid \in DOMAIN ref : sid <= Len(ref[rid])
                THEN Returned(v, MeteorStats([rid \in DOMAIN ref |-> ref[rid][sid]], line.words))
                ELSE Thrown(v)
      Ordered == IF Alignable(scorer, sid, line.align)
                 THEN Returned(v, PermutationPrepare(scorer, ref, sid, line.words, line.align))
                 ELSE Thrown(v)
  IN CASE scorer.type = "BLEU"    -> Same(BleuPrepare(scorer, v, ref, sid, line.words))
       [] scorer.type = "BLEUDOC" -> Same(DocPrepare(scorer, v, ref, sid, line.words))
       [] scorer.type = "PER"     -> Same(PerPrepare(scorer, v, ref, sid, line.words))
       [] scorer.type \in {"WER", "CDER"} -> Same(CderPrepare(scorer, v, ref, sid, line.words))
       [] scorer.type = "TER"     -> Same(TerPrepare(scorer, v, ref, sid, line.words))
       [] scorer.type = "SEMPOS"  ->
            Private(SemposPrepare(scorer, ref.maps, ref.sentences, sid, line.words))
       [] scorer.type = "METEOR"  -> Same(Meteor)
       [] UseAlignment(scorer)    -> Same(Ordered)

\* calculateScore, in units of MultFact.
CalculateScore(scorer, comps) ==
  LET Share(num, den) == (MultFact * num) \div den
      Class(i) == Share(comps[2 * i - 1], comps[2 * i])
      counted == {i \in 1 .. Len(comps) \div 2 : comps[2 * i] > 0}
  IN CASE scorer.type \in {"BLEU", "BLEUDOC"} ->
            IF \E k \in 1 .. Order : comps[2 * k - 1] = 0 THEN 0 ELSE BleuScore(comps)
       [] scorer.type = "PER" ->
            IF comps[3] = 0 THEN 0 ELSE Share(comps[1] - Max({0, comps[2] - comps[3]}), comps[3])
       [] scorer.type \in {"WER", "CDER", "TER"} ->
            IF comps[2] = 0 THEN MultFact ELSE MultFact - Share(comps[1], comps[2])
       [] scorer.type = "SEMPOS" ->
            IF counted = {} THEN MultFact
            ELSE MapThenSumSet(Class, counted) \div Cardinality(counted)
       [] scorer.type = "METEOR" -> MeteorScore(comps)
       [] UseAlignment(scorer)   -> comps[1] \div comps[2]
----------------------------------------------------------------------------
\* The weights of a group add up to one; without any they are the same.
Weights(g) == IF g.weights = <<>> THEN [k \in DOMAIN g.scorers |-> 1] ELSE g.weights

\* A slip: every scorer takes its part from the start of the statistics.
SliceFromStart(g, stats, k) == SubSeq(stats, 1, NumberOfScores(g.scorers[k]))

\* setScoreData: the part of the statistics that is of scorer k.
Slice(g, stats, k) ==
  LET before == FoldLeft(LAMBDA sum, s : sum + NumberOfScores(s), 0, SubSeq(g.scorers, 1, k - 1))
  IN SubSeq(stats, before + 1, before + NumberOfScores(g.scorers[k]))

Totalled(g, sentences, k) ==
  FoldLeft(AddStats, Slice(g, Head(sentences), k),
           [j \in 1 .. Len(sentences) - 1 |-> Slice(g, sentences[j + 1], k)])

\* The score of sentences; there is none of no sentence, and a weight of 0 is
\* taken for a missing one.
Scorable(g, sentences) ==
  sentences # <<>> /\ (Len(g.scorers) > 1 => \A k \in DOMAIN g.scorers : Weights(g)[k] # 0)

Score(g, sentences) ==
  FoldLeft(LAMBDA sum, k : sum + Weights(g)[k] * CalculateScore(g.scorers[k], Totalled(g, sentences, k)),
           0, Integers1To(Len(g.scorers)))
  \div FoldLeft(+, 0, Weights(g))
----------------------------------------------------------------------------
SCInit ==
  /\ job \in Jobs
  /\ files \in [1 .. job.files -> job.candidates]
  /\ file = 1 /\ group = 1
  /\ phase = "new"
  /\ vocab = <<>> /\ refs = <<>> /\ entries = <<>> /\ samples = <<>> /\ printed = <<>>

Throw == phase' = "failed" /\ UNCHANGED <<job, files, file, group, refs, samples, printed>>

\* getScorer for the next group.
NewScorer ==
  /\ phase = "new"
  /\ LET g == job.groups[group]
     IN IF /\ \A k \in DOMAIN g.scorers : g.scorers[k].type \in Types
           /\ Len(Weights(g)) = Len(g.scorers)
        THEN /\ phase' = "references"
             /\ UNCHANGED <<job, files, file, group, vocab, refs, entries, samples, printed>>
        ELSE Throw /\ UNCHANGED <<vocab, entries>>

\* setReferenceFiles of the next scorer of the group.
SetReferences ==
  /\ phase = "references"
  /\ LET Read(r) == /\ vocab' = r.vocab
                    /\ IF r.ok
                       THEN /\ refs' = Append(refs, r.value)
                            /\ phase' = IF Len(refs) + 1 = Len(Scorers) THEN "lines" ELSE phase
                            /\ UNCHANGED <<job, files, file, group, entries, samples, printed>>
                       ELSE Throw /\ UNCHANGED entries
     IN Read(References(Scorers[Len(refs) + 1], vocab, job.references))

\* prepareStats of the group for its next line: that of each scorer in turn.
PrepareGroup(g, v, known, sid, line) ==
  Calls(v, LAMBDA u, k : Prepare(g.scorers[k], u, known[k], sid, line), Integers1To(Len(g.scorers)))

PrepareLine ==
  /\ phase = "lines"
  /\ Len(entries) < Len(Candidates)
  /\ LET Prepared(r) ==
           /\ vocab' = r.vocab
           /\ IF r.ok
              THEN /\ refs' = [k \in DOMAIN r.value |-> r.value[k].ref]
                   /\ entries' = Append(entries, FlattenSeq([k \in DOMAIN r.value |-> r.value[k].stats]))
                   /\ UNCHANGED <<job, files, file, group, phase, samples, printed>>
              ELSE Throw /\ UNCHANGED entries
     IN Prepared(PrepareGroup(job.groups[group], vocab, refs, Len(entries) + 1,
                              Candidates[Len(entries) + 1]))

Report(result) ==
  /\ printed' = Append(printed, result)
  /\ phase' = "delete"
  /\ UNCHANGED <<job, files, file, group, vocab, refs, entries, samples>>

\* The score of all lines.
Evaluate ==
  /\ phase = "lines"
  /\ Len(entries) = Len(Candidates)
  /\ job.bootstrap = 0
  /\ IF Scorable(job.groups[group], entries)
     THEN Report([score |-> Score(job.groups[group], entries), low |-> 0, high |-> 0])
     ELSE Throw /\ UNCHANGED <<vocab, entries>>

\* One more bootstrap sample: as many lines, each drawn from all of them.
Sampled(draw) == [j \in DOMAIN draw |-> entries[draw[j]]]

Draw ==
  /\ phase = "lines"
  /\ Len(entries) = Len(Candidates)
  /\ Len(samples) < job.bootstrap
  /\ IF Scorable(job.groups[group], entries)
     THEN \E draw \in [DOMAIN entries -> DOMAIN entries] :
            /\ samples' = Append(samples, Score(job.groups[group], Sampled(draw)))
            /\ UNCHANGED <<job, files, file, group, phase, vocab, refs, entries, printed>>
     ELSE Throw /\ UNCHANGED <<vocab, entries>>

\* The mean of the samples and the limits that leave g_alpha of them out.
Interval(scores) ==
  LET sorted == SortSeq(scores, <)
      n == Len(scores)
  IN [score |-> FoldLeft(+, 0, scores) \div n,
      low   |-> sorted[(n * 25) \div 1000 + 1],
      high  |-> sorted[(n * 975) \div 1000 + 1]]

Summarise ==
  /\ phase = "lines"
  /\ job.bootstrap > 0 /\ Len(samples) = job.bootstrap
  /\ Report(Interval(samples))

\* delete g_scorer, which takes the vocabulary with it; then the next group of
\* scorers, or the first for the next file.
DeleteScorer ==
  /\ phase = "delete"
  /\ vocab' = <<>> /\ refs' = <<>> /\ entries' = <<>> /\ samples' = <<>>
  /\ IF group < Len(job.groups) THEN group' = group + 1 /\ UNCHANGED file
     ELSE group' = 1 /\ file' = file + 1
  /\ phase' = IF group = Len(job.groups) /\ file = Len(files) THEN "done" ELSE "new"
  /\ UNCHANGED <<job, files, printed>>

Finished == phase \in {"done", "failed"} /\ UNCHANGED vars

SCNext ==
  \/ NewScorer
  \/ SetReferences
  \/ PrepareLine
  \/ Evaluate
  \/ Draw
  \/ Summarise
  \/ DeleteScorer
  \/ Finished

SCSpec == SCInit /\ [][SCNext]_vars
----------------------------------------------------------------------------
(***************************************************************************)
(* What the statistics mean, in words and not in codes.                    *)
(***************************************************************************)
Texts(scorer, line) == WordsOf(scorer, Preprocessed(scorer, line))

\* The reference sentences for line sid, of the files that have one.
ReferenceTexts(scorer, sid) ==
  LET with == {f \in DOMAIN job.references : sid <= Len(job.references[f])}
  IN [f \in with |-> Texts(scorer, job.references[f][sid].words)]

\* The sentences of document sid in a reference file.
Segments(lines, sid) ==
  LET starts == SelectSeq(Integers1To(Len(lines)), LAMBDA i : lines[i].tag = "doc")
      last == IF sid < Len(starts) THEN starts[sid + 1] - 1 ELSE Len(lines)
  IN IF sid > Len(starts) THEN <<>>
     ELSE SelectSeq(SubSeq(lines, starts[sid] + 1, last), LAMBDA l : l.tag = "seg")

DocOfWords(scorer, stats, sid, line) ==
  LET parts == SplitDoc(line)
      Told(i) == [f \in {f \in DOMAIN job.references : i <= Len(Segments(job.references[f], sid))} |->
                    Texts(scorer, Segments(job.references[f], sid)[i].words)]
      Sum(Of(_)) == MapThenSumSet(Of, DOMAIN parts)
  IN \A n \in 1 .. Order :
       /\ stats[2 * n - 1] = Sum(LAMBDA i : Cardinality(Covered(Texts(scorer, parts[i]), Told(i), n)))
       /\ stats[2 * n] = Sum(LAMBDA i : Cardinality(Spots(Texts(scorer, parts[i]), n)))

\* Of SEMPOS the items that have a class; the weight of one is by its name.
Classed(words) == {w \in ToSet(words) : w[2] # NoClass}

SemposOfWords(scorer, stats, words, texts) ==
  LET reference == Classed(texts[Max(DOMAIN texts)])
      Weight(w) == IF w[1] \in DOMAIN scorer.weights THEN scorer.weights[w[1]] ELSE Thousand
      Half(r) == MapThenSumSet(LAMBDA k : stats[2 * k - r], 1 .. Len(stats) \div 2)
  IN /\ Half(1) = MapThenSumSet(Weight, Classed(words) \cap reference)
     /\ Half(0) = MapThenSumSet(Weight, reference)

\* A sentence, its line and its statistics.
Prepared == IF phase = "lines" /\ entries # <<>> THEN {Len(entries)} ELSE {}

Parts(sid) == [k \in DOMAIN Scorers |-> Slice(job.groups[group], entries[sid], k)]

\* What is counted of a line is what its words say, whatever codes the
\* vocabulary gave them, whoever else has put words into it and in whatever
\* order files and lines came: matches of BLEU and BLEUDOC are clipped to the
\* most any reference has, PER counts each word of the reference once, SEMPOS
\* sums up the weights of the items in the last reference, and the reference
\* length is the one the strategy asks for (prepareStats of the scorers).
StatsAreOfWords ==
  \A sid \in Prepared : \A k \in DOMAIN Scorers :
    LET scorer == Scorers[k]
        stats == Parts(sid)[k]
        line == Candidates[sid].words
        words == Texts(scorer, line)
        texts == ReferenceTexts(scorer, sid)
    IN CASE scorer.type = "BLEU" -> BleuOfWords(scorer, stats, words, texts)
         [] scorer.type = "BLEUDOC" -> DocOfWords(scorer, stats, sid, line)
         [] scorer.type = "PER" ->
              stats = <<Cardinality(Covered(words, texts, 1)), Len(words), Len(texts[1])>>
         [] scorer.type = "SEMPOS" -> SemposOfWords(scorer, stats, words, texts)
         [] OTHER -> TRUE
----------------------------------------------------------------------------
\* An empty sentence is one empty word to TER.
TerWords(words) == IF words = <<>> THEN << <<>> >> ELSE words

\* What is left to do after the shifts, with the words in their new order, is
\* no more than edits alone would be, and a shift costs one edit.
TerIsLeast(stats, words, texts) ==
  \E f \in DOMAIN texts :
    LET hyp == TerWords(words)
        ref == TerWords(texts[f])
        ter == TER(hyp, ref)
    IN /\ stats[1] = 100 * ter.edits
       /\ ter.done /\ \A w \in ToSet(hyp) \cup ToSet(ter.words) : Count(hyp, w) = Count(ter.words, w)
       /\ ter.edits = ter.shifts + Edits(ter.words, ref)
       /\ ter.edits <= Edits(hyp, ref)
       /\ \A g \in DOMAIN texts : stats[1] <= 100 * Edits(hyp, TerWords(texts[g]))

\* In the order of a translation every source word has a place of its own, the
\* words keep the order of their least targets, and of all references the one
\* that fits best counts.
OrderIsBest(scorer, stats, sid, line) ==
  LET pairs == StandardFormat(line.align)
      hyp == Permutation(pairs, scorer.sources[sid], Len(line.words))
      least == Targets(pairs, scorer.sources[sid])
      values == {Distance(scorer.type, hyp, refs[CHOOSE k \in DOMAIN Scorers : Scorers[k] = scorer][f][sid])
                   : f \in DOMAIN scorer.refalign}
  IN /\ CheckValid(hyp.array)
     /\ \A s, t \in DOMAIN least : least[s] < least[t] => hyp.array[s] < hyp.array[t]
     /\ Invert(Invert(hyp.array)) = hyp.array
     /\ CalculateKendall(hyp.array, hyp.array) = (IF scorer.sources[sid] = 0 THEN 0 ELSE MultFact)
     /\ IF scorer.refchoice = "average" THEN Min(values) <= stats[1] /\ stats[1] <= Max(values)
        ELSE stats[1] = Max(values)

\* Distances are least: WER is the edit distance to a reference, CDER no more
\* than that and no less than the words that are missing, both 0 for the words
\* of a reference; TER with its greedy shifts is never worse than edits without
\* shifts; and permutations are ordered (CderScorer.cpp, tercalc.cpp,
\* Permutation.cpp).
DistancesAreLeast ==
  \A sid \in Prepared : \A k \in DOMAIN Scorers :
    LET scorer == Scorers[k]
        stats == Parts(sid)[k]
        words == Texts(scorer, Candidates[sid].words)
        texts == ReferenceTexts(scorer, sid)
        same == \E f \in DOMAIN texts : texts[f] = words
    IN CASE scorer.type = "WER" ->
              /\ \E f \in DOMAIN texts : stats = <<Edits(words, texts[f]), Len(texts[f])>>
              /\ same => stats[1] = 0
         [] scorer.type = "CDER" ->
              /\ \E f \in DOMAIN texts : /\ stats[2] = Len(texts[f])
                                         /\ Missing(words, texts[f]) <= stats[1]
                                         /\ stats[1] <= Edits(words, texts[f])
              /\ same <=> stats[1] = 0
         [] scorer.type = "TER" -> TerIsLeast(stats, words, texts)
         [] UseAlignment(scorer) -> OrderIsBest(scorer, stats, sid, Candidates[sid])
         [] OTHER -> TRUE
----------------------------------------------------------------------------
\* The score of lines by one scorer that has the program to itself.
Alone(scorer, lines, chosen) ==
  LET g == [scorers |-> <<scorer>>, weights |-> <<>>]
      Line(acc, sid) ==
        LET Of(r) == [vocab |-> r.vocab, known |-> <<r.value[1].ref>>,
                      stats |-> Append(acc.stats, r.value[1].stats)]
        IN Of(PrepareGroup(g, acc.vocab, acc.known, sid, lines[sid]))
      All(r) == FoldLeft(Line, [vocab |-> r.vocab, known |-> <<r.value>>, stats |-> <<>>],
                         Integers1To(Len(lines))).stats
      Of(stats) == Score(g, [j \in DOMAIN chosen |-> stats[chosen[j]]])
  IN Of(All(References(scorer, <<>>, job.references)))

Together(g, lines, chosen) ==
  MapThenSumSet(LAMBDA k : Weights(g)[k] * Alone(g.scorers[k], lines, chosen), DOMAIN g.scorers)
  \div FoldLeft(+, 0, Weights(g))

\* What is printed for a file and a group is the weighted mean of what each
\* scorer of the group would print if it were alone, and does not depend on the
\* files and groups before it; the score of a bootstrap sample is that of some
\* choice of as many lines (InterpolatedScorer.cpp, evaluator.cpp).
EvaluationIsOfParts ==
  LET g == job.groups[group]
      all == Integers1To(Len(Candidates))
  IN /\ phase = "delete" /\ job.bootstrap = 0 => Last(printed).score = Together(g, Candidates, all)
     /\ phase = "lines" /\ samples # <<>> =>
          \E chosen \in [DOMAIN all -> DOMAIN all] : Last(samples) = Together(g, Candidates, chosen)
=============================================================================
