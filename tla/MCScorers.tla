----------------------------- MODULE MCScorers -----------------------------
(* Command lines for every kind of scorer, alone and interpolated, with one  *)
(* or two reference files of one to three sentences, and candidate files with*)
(* all short sentences over a few words, or with ones that are rearranged.   *)
EXTENDS Scorers, TLC

MCLowerCase(factor) == IF factor = "A" THEN "a" ELSE factor

MCLineBreak == <<"NL">>

\* A filter that leaves out the last word.
MCProcess(command, line) ==
  IF command = "shorten" /\ line # <<>> THEN Front(line) ELSE line

\* Functions with the shape of the real ones: more is right, more is better.
MCBleuScore(comps) ==
  (MultFact * comps[1] * comps[3]) \div (comps[2] * comps[4] + Max({0, comps[5] - comps[2]}))
MCRoot(num, den) ==
  CHOOSE r \in 0 .. MultFact : r * r * den <= num * MultFact * MultFact
                               /\ (r + 1) * (r + 1) * den > num * MultFact * MultFact
MCBrief(value, refLength, length) == (value * length) \div refLength
MCMeteorStats(references, text) == <<Len(text), IF references = <<>> THEN 0 ELSE Len(references[1])>>
MCMeteorScore(comps) == IF comps[1] = comps[2] THEN MultFact ELSE 0
----------------------------------------------------------------------------
Text(words) == [i \in DOMAIN words |-> <<words[i]>>]
Line(words) == [words |-> Text(words), align |-> <<>>]
Ref(words) == [tag |-> "text", words |-> Text(words)]
Texts2(one, two) == <<Ref(one), Ref(two)>>

Upto(words, n) == UNION {[1 .. k -> words] : k \in 0 .. n}

Short == {Line(w) : w \in Upto({"a", "b"}, 3)} \cup {Line(<<"c", "a", "c">>), Line(<<"A", "b">>)}

\* Files whose first lines are fixed, then any of the given lines.
Files(first, lines, count) == {first \o rest : rest \in [1 .. count -> lines]}

S(type) ==
  [type |-> type, factors |-> <<>>, filter |-> "none", keepCase |-> TRUE, reflen |-> "closest",
   refchoice |-> "closest", refalign |-> <<>>, sources |-> <<>>, overlapping |-> "cap-micro",
   weights |-> <<>>]

Group(scorers, weights) == [scorers |-> scorers, weights |-> weights]
One(scorer) == Group(<<scorer>>, <<>>)

Job(groups, references, candidates) ==
  [groups |-> groups, references |-> references, files |-> 1, candidates |-> candidates,
   bootstrap |-> 0]

RefsA == Texts2(<<"a", "b", "a">>, <<"b", "a">>)
RefsB == Texts2(<<"b", "a", "b", "b", "a">>, <<"a">>)
RefsC == Texts2(<<"A", "b">>, <<"b", "b", "c", "a">>)

BleuJobs ==
  {Job(<<One([S("BLEU") EXCEPT !.reflen = r, !.keepCase = k])>>, <<RefsA, f>>, Files(<<>>, Short, 1))
     : r \in {"closest", "average", "shortest"}, k \in BOOLEAN, f \in {RefsB, RefsC}}
  \cup {Job(<<One(S("BLEU"))>>, <<RefsA, <<Ref(<<"b", "b">>)>>>>, Files(<<Line(<<"b">>)>>, Short, 1)),
        Job(<<One(S("BLEU"))>>, <<<<Ref(<<"b", "b">>)>>, RefsA>>, Files(<<>>, Short, 1)),
        Job(<<One(S("BLEU"))>>, <<<<Ref(<<"b", "b">>)>>>>, Files(<<Line(<<"b">>)>>, {Line(<<"a">>)}, 1))}

\* Documents of two and one sentences, and a second file with more of them.
Doc == [tag |-> "doc", words |-> <<>>]
Seg(words) == [tag |-> "seg", words |-> Text(words)]
DocFile == <<Ref(<<>>), Doc, Seg(<<"a", "b">>), Seg(<<"b", "a", "a">>), Ref(<<>>), Doc, Seg(<<"a">>)>>
DocAgain == <<Doc, Seg(<<"a", "a">>), Doc, Seg(<<"a", "b", "b">>)>>

DocLines ==
  {Line(w) : w \in {<<"a", "NL", "a", "b">>, <<"b", "a", "NL", "a", "a", "NL", "NL", "b">>,
                    <<"NL", "a", "b", "NL", "b", "NL", "c">>, <<"a">>, <<"NL", "NL", "NL">>,
                    <<"a", "NL", "b", "NL", "a", "NL", "b">>}}

DocJobs ==
  {Job(<<One(S("BLEUDOC"))>>, f, Files(<<>>, DocLines, 2)) : f \in {<<DocFile>>, <<DocFile, DocAgain>>}}
  \cup {Job(<<One(S("BLEUDOC"))>>, <<DocAgain, DocFile>>, Files(<<>>, DocLines, 1)),
        Job(<<One(S("BLEUDOC"))>>, <<DocFile, DocAgain>>, Files(<<Line(<<>>), Line(<<>>)>>, DocLines, 1))}

\* Several metrics of the same files, one after the other.
ErrorJobs ==
  {Job(<<One(S("WER")), One(S("CDER"))>>, f, Files(<<>>, Short, 2)) : f \in {<<RefsA>>}}
  \cup {Job(<<One(S("PER")), One([S("CDER") EXCEPT !.keepCase = FALSE]), One(S("WER"))>>, f,
            Files(<<>>, Short, 1)) : f \in {<<RefsA>>, <<RefsC>>, <<RefsA, RefsB>>}}
  \cup {Job(<<One(S("CDER")), One(S("WER"))>>, <<RefsC, RefsB>>, Files(<<>>, Short, 1))}

Rearranged ==
  {Line(w) : w \in {<<"a", "b", "c", "d">>, <<"c", "d", "a", "b">>, <<"d", "c", "b", "a">>,
                    <<"b", "a", "d", "c">>, <<"b", "c", "d", "a", "e">>, <<"e", "b", "b", "c">>,
                    <<"a", "a", "b">>, <<>>, <<"c">>}}

TerJobs ==
  {Job(<<One(S("TER"))>>, r, Files(<<>>, Rearranged, 1))
     : r \in {<<Texts2(<<"a", "b", "c", "d">>, <<>>)>>,
              <<Texts2(<<"b", "c", "a">>, <<>>), Texts2(<<"d", "a", "b", "c", "a">>, <<>>)>>,
              <<Texts2(<<>>, <<>>)>>, <<Texts2(<<>>, <<>>), Texts2(<<>>, <<>>)>>}}

\* Items with classes; the weight of one item is a half.
Item(i, c) == <<i, c>>
Deep(ws) == [words |-> ws, align |-> <<>>]
DeepRef(ws) == [tag |-> "text", words |-> ws]
DeepLines ==
  {Deep(w) : w \in Upto({Item("a", "x"), Item("b", "y"), Item("a", "-"), Item("b", "x")}, 2)}
SemposJobs ==
  {Job(<<One([S("SEMPOS") EXCEPT !.overlapping = o, !.weights = "a" :> 5])>>, r, Files(<<>>, DeepLines, 1))
     : o \in {"cap-micro", "cap-macro"},
       r \in {<<<<DeepRef(<<Item("a", "x"), Item("b", "y")>>)>>>>,
              <<<<DeepRef(<<Item("a", "x"), Item("b", "-")>>)>>,
                <<DeepRef(<<Item("b", "x"), Item("a", "x"), Item("b", "x")>>)>>>>}}
  \cup {Job(<<One(S("SEMPOS"))>>, <<<<DeepRef(<<Item("a", "x"), Item("b", "y")>>)>>>>,
            {<<Deep(<<Item("a", "z")>>)>>, <<Deep(<<<<"a">>>>)>>})}

\* Source sentences of three words and of one; target lengths come from the
\* references.
Pairs(s) == [i \in DOMAIN s |-> Words1(s[i][1], s[i][2])]
Orders ==
  {Pairs(<<<<0, 0>>, <<1, 1>>, <<2, 2>>>>), Pairs(<<<<0, 2>>, <<1, 0>>, <<2, 0>>, <<2, 1>>>>), <<>>,
   Pairs(<<<<2, 0>>>>), Pairs(<<<<4, 0>>>>),
   <<Aligned(<<0, 1>>, <<1, 2>>, TRUE), Aligned(<<2, 2>>, <<0, 0>>, TRUE)>>,
   <<Aligned(<<0, 0>>, <<2, 2>>, TRUE)>> \o Pairs(<<<<1, 0>>>>)}
Ordered(n) == {[words |-> Text(SubSeq(<<"a", "b", "a">>, 1, n)), align |-> o] : o \in Orders}
P(type, choice) ==
  [S(type) EXCEPT !.refchoice = choice, !.sources = <<3, 1>>,
     !.refalign = <<<<Pairs(<<<<0, 1>>, <<1, 0>>, <<2, 2>>>>), Pairs(<<<<0, 0>>>>)>>,
                    <<Pairs(<<<<1, 2>>, <<2, 0>>>>), Pairs(<<<<0, 1>>>>)>>>>]
Tail1 == [words |-> Text(<<"a">>), align |-> Pairs(<<<<0, 1>>>>)]
OrderJobs ==
  {Job(<<One(P(t, c))>>, <<RefsA, RefsB>>, {<<line, Tail1>> : line \in Ordered(0) \cup Ordered(2)})
     : t \in {"HAMMING", "KENDALL"}, c \in {"closest", "average"}}

\* Interpolated scorers, with errors of the command line among them.
Mixed == Files(<<>>, {Line(<<"b", "a">>), Line(<<"c", "a", "b">>), Line(<<>>)}, 2)
MixedJobs ==
  {Job(<<g, One(S("BLEU"))>>, <<RefsA>>, Mixed)
     : g \in {Group(<<S("PER"), S("BLEU")>>, <<>>), Group(<<S("CDER"), S("PER"), S("TER")>>, <<1, 3, 2>>),
              Group(<<S("BLEU"), S("METEOR")>>, <<3, 1>>), Group(<<S("WER"), S("PER")>>, <<2, 0>>),
              Group(<<S("WER"), S("PER")>>, <<2>>), One(S("LRSCORE")),
              Group(<<[S("PER") EXCEPT !.filter = "shorten"], S("BLEU")>>, <<>>),
              Group(<<[S("WER") EXCEPT !.factors = <<1>>], S("BLEU")>>, <<>>)}}
  \cup {Job(<<Group(<<P("HAMMING", "closest"), S("BLEU")>>, <<2, 1>>)>>, <<RefsA, RefsB>>,
            {<<line, Tail1>> : line \in Ordered(3)})}
  \cup {[Job(<<Group(<<S("BLEU"), S("PER")>>, <<>>)>>, <<RefsA>>, Mixed \cup {<<>>})
           EXCEPT !.bootstrap = 3]}
  \cup {[Job(<<One(S("PER")), One(S("BLEU"))>>, <<RefsA>>, Mixed) EXCEPT !.files = 2]}

MCJobs == BleuJobs \cup DocJobs \cup ErrorJobs \cup TerJobs \cup SemposJobs \cup OrderJobs \cup MixedJobs
----------------------------------------------------------------------------
\* PER of the first factors and BLEU of the second ones.
Two(ws) == [i \in DOMAIN ws |-> <<ws[i], IF ws[i] = "a" THEN "n" ELSE "v">>]
MCFactorJobs ==
  {Job(<<Group(<<[S("PER") EXCEPT !.factors = <<0>>], [S("BLEU") EXCEPT !.factors = <<1>>]>>, <<>>)>>,
       <<<<[tag |-> "text", words |-> Two(<<"a", "b", "c">>)]>>>>,
       {<<[words |-> Two(w), align |-> <<>>]>> : w \in Upto({"a", "b", "c"}, 3)})}
=============================================================================
