-------------------------------- MODULE Ter --------------------------------
(***************************************************************************)
(* The translation error rate (mert/TER/tercalc.cpp): blocks of words of   *)
(* the hypothesis are moved, one after the other, as long as the cheapest  *)
(* way to turn it into the reference with a shift of cost 1 gets no longer;*)
(* and the statistics TerScorer.cpp makes of it.                           *)
(***************************************************************************)
EXTENDS WordErrors

CONSTANTS
  MaxShiftSize,     (* MAX_SHIFT_SIZE                                      *)
  MaxShiftDist,     (* MAX_SHIFT_DIST                                      *)
  BeamWidth,        (* BEAM_WIDTH                                          *)
  Inf               (* INF, more than any cost                             *)

ASSUME ShiftAssumption == {MaxShiftSize, MaxShiftDist, BeamWidth, Inf} \subseteq Nat

EmptyWord == -2

\* stringToVector: an empty sentence is one empty word.
Split(codes) == IF codes = <<>> THEN <<EmptyWord>> ELSE codes
----------------------------------------------------------------------------
\* A cell of the table: the cost of a prefix of the reference and of the
\* hypothesis, and the last edit; cost -1 when it was not reached.
Cell(cost, edit) == [cost |-> cost, edit |-> edit]
Unreached == Cell(-1, "0")

\* A cell takes the new cost if that is less, or the cell was not reached.
Relaxed(cell, cost, edit) ==
  IF cell.cost < 0 \/ cost < cell.cost THEN Cell(cost, edit) ELSE cell

Put(column, i, cell) == [k \in DOMAIN column |-> IF k = i THEN cell ELSE column[k]]

\* One prefix i of the reference in the column of prefix j of the hypothesis:
\* its costs go on to the cells after it, in this column and the next.
Relax(hyp, ref, j, col, i) ==
  LET cell == col.cells[i + 1]
      more == j < Len(hyp)
      skip == \/ i < col.firstGood \/ i > col.lastGood \/ cell.cost < 0
              \/ more /\ cell.cost > col.lastBest + BeamWidth
      match == more /\ i < Len(ref) /\ ref[i + 1] = hyp[j + 1]
      both == cell.cost + (IF match THEN 0 ELSE 1)
      taken == match \/ Relaxed(col.next[i + 2], both, "S") # col.next[i + 2]
      Across(next) ==
        IF more /\ i < Len(ref)
        THEN Put(next, i + 2, Relaxed(next[i + 2], both, IF match THEN " " ELSE "S")) ELSE next
      Inserted(next) ==
        IF more THEN Put(next, i + 1, Relaxed(next[i + 1], cell.cost + 1, "I")) ELSE next
      Deleted(cells) ==
        IF i < Len(ref) THEN Put(cells, i + 2, Relaxed(cells[i + 2], cell.cost + 1, "D")) ELSE cells
      With(cells, next) ==
        [cells     |-> cells,
         next      |-> next,
         firstGood |-> col.firstGood,
         lastGood  |-> IF cells # col.cells /\ i >= col.lastGood THEN i + 1 ELSE col.lastGood,
         lastBest  |-> col.lastBest,
         best      |-> IF more /\ i < Len(ref) /\ taken THEN Min({col.best, both}) ELSE col.best,
         newFirst  |-> IF col.newFirst = -1 THEN i ELSE col.newFirst,
         newLast   |-> i + 1]
  IN IF skip THEN col ELSE With(Deleted(col.cells), Inserted(Across(col.next)))

\* The columns of the table for each prefix of the hypothesis.
Column(hyp, ref, acc, j) ==
  LET start == [cells |-> acc.next, next |-> [k \in DOMAIN acc.next |-> Unreached],
                firstGood |-> acc.newFirst, lastGood |-> acc.newLast, lastBest |-> acc.best,
                best |-> Inf, newFirst |-> -1, newLast |-> -1]
      Done(col) == [columns |-> Append(acc.columns, col.cells), next |-> col.next,
                    newFirst |-> col.newFirst, newLast |-> col.newLast, best |-> col.best]
  IN Done(FoldLeft(LAMBDA col, i : Relax(hyp, ref, j, col, i), start,
                   [k \in 1 .. Len(ref) + 1 |-> k - 1]))

Columns(hyp, ref) ==
  LET first == [k \in 1 .. Len(ref) + 1 |-> IF k = 1 THEN Cell(0, "0") ELSE Unreached]
      start == [columns |-> <<>>, next |-> first, newFirst |-> 0, newLast |-> 0, best |-> Inf]
  IN FoldLeft(LAMBDA acc, j : Column(hyp, ref, acc, j), start,
              [k \in 1 .. Len(hyp) + 1 |-> k - 1]).columns

\* The edits of a cheapest path, from the last cell back to the first.
Path(columns, hyp, ref) ==
  LET Step(at, n) ==
        LET edit == columns[at.j + 1][at.i + 1].edit
        IN IF at.i = 0 /\ at.j = 0 THEN at
           ELSE [i |-> IF edit = "I" THEN at.i ELSE at.i - 1,
                 j |-> IF edit = "D" THEN at.j ELSE at.j - 1,
                 path |-> <<edit>> \o at.path]
  IN FoldLeft(Step, [i |-> Len(ref), j |-> Len(hyp), path |-> <<>>],
              [n \in 1 .. Len(ref) + Len(hyp) |-> n]).path

MinEditDist(hyp, ref) ==
  LET Of(columns) == [edits |-> columns[Len(hyp) + 1][Len(ref) + 1].cost,
                      path  |-> Path(columns, hyp, ref), words |-> hyp]
  IN Of(Columns(hyp, ref))
----------------------------------------------------------------------------
\* FindAlignErr: which words of both sides are in error, and the word of the
\* hypothesis (or -1) each word of the reference is at.
FindAlignErr(path) ==
  LET Edit(acc, e) ==
        LET h == IF e = "D" THEN acc.h ELSE acc.h + 1
            r == IF e = "I" THEN acc.r ELSE acc.r + 1
        IN [h |-> h, r |-> r,
            herr |-> IF e \in {"S", "I"} THEN acc.herr \cup {h} ELSE acc.herr,
            rerr |-> IF e \in {"S", "D"} THEN acc.rerr \cup {r} ELSE acc.rerr,
            ralign |-> IF e = "I" THEN acc.ralign ELSE Append(acc.ralign, h)]
  IN FoldLeft(Edit, [h |-> -1, r |-> -1, herr |-> {}, rerr |-> {}, ralign |-> <<>>], path)

\* Words first .. last, counted from 0.
Block(words, first, last) == SubSeq(words, first + 1, last + 1)

\* BuildWordMatches: where the reference has a block, if its words are all in
\* the hypothesis and it is not too long; the hashes are taken as exact.
Matches(hyp, ref, block) ==
  IF Len(block) > MaxShiftSize + 1 \/ ~ToSet(block) \subseteq ToSet(hyp) THEN <<>>
  ELSE SelectSeq([k \in DOMAIN ref |-> k - 1], LAMBDA m : /\ m + Len(block) <= Len(ref)
                                                        /\ Span(ref, m + 1, Len(block)) = block)

\* The block first .. last may go to where the reference has it at moveto.
MayMoveTo(err, first, last, moveto) ==
  LET at == err.ralign[moveto + 1]
  IN /\ at < first \/ at > last
     /\ at - first <= MaxShiftDist /\ first - at <= MaxShiftDist

\* The places to put it: before the first word, or after a word that is aligned
\* in the block or just before it.
Places(err, first, last, moveto) ==
  LET At(roff) == err.ralign[moveto + roff + 1]
      Possible(roff) ==
        IF roff = -1 /\ moveto = 0 THEN TRUE
        ELSE first # At(roff) /\ (roff = 0 \/ At(roff) # At(0))
      offsets == SelectSeq([k \in 1 .. last - first + 2 |-> k - 2], Possible)
  IN [k \in DOMAIN offsets |->
        IF offsets[k] = -1 /\ moveto = 0 THEN -1 ELSE At(offsets[k])]

Shift(first, last, newloc) == [first |-> first, last |-> last, newloc |-> newloc]

\* GatherAllPossShifts, those of one block; only where both sides have errors.
ShiftsOf(hyp, ref, cur, err, first, last) ==
  LET targets ==
        SelectSeq(Matches(hyp, ref, Block(cur, first, last)),
                  LAMBDA m : /\ MayMoveTo(err, first, last, m)
                             /\ (m .. m + last - first) \cap err.rerr # {})
      Of(m) == LET places == Places(err, first, last, m)
               IN [k \in DOMAIN places |-> Shift(first, last, places[k])]
  IN IF (first .. last) \cap err.herr = {} THEN <<>>
     ELSE FlattenSeq([k \in DOMAIN targets |-> Of(targets[k])])

\* Whether a block of one word less was worth looking at, so that a longer one
\* from the same word is looked at too.
Extensible(hyp, ref, cur, err, first, last) ==
  /\ Matches(hyp, ref, Block(cur, first, last)) # <<>>
  /\ \/ (first .. last) \cap err.herr = {}
     \/ \E k \in DOMAIN Matches(hyp, ref, Block(cur, first, last)) :
          MayMoveTo(err, first, last, Matches(hyp, ref, Block(cur, first, last))[k])

Startable(hyp, ref, cur, err, first) ==
  \E k \in DOMAIN Matches(hyp, ref, Block(cur, first, first)) :
    LET at == err.ralign[Matches(hyp, ref, Block(cur, first, first))[k] + 1]
    IN first # at /\ at - first <= MaxShiftDist /\ first - at - 1 <= MaxShiftDist

\* The possible shifts of blocks of size words, from left to right.
PossShifts(hyp, ref, cur, err, size) ==
  LET Of(first) ==
        IF /\ first + size <= Len(cur) /\ size <= MaxShiftSize
           /\ Startable(hyp, ref, cur, err, first)
           /\ \A n \in 1 .. size - 1 : Extensible(hyp, ref, cur, err, first, first + n - 1)
        THEN ShiftsOf(hyp, ref, cur, err, first, first + size - 1) ELSE <<>>
  IN FlattenSeq([k \in DOMAIN cur |-> Of(k - 1)])

\* PerformShift: the block goes after word newloc; inside the block, as many
\* words past its end as newloc is past its start come before it.
PerformShift(words, s) ==
  LET block == Block(words, s.first, s.last)
      rest == Block(words, 0, s.first - 1) \o Block(words, s.last + 1, Len(words) - 1)
      before == CASE s.newloc < s.first -> s.newloc + 1
                  [] s.newloc > s.last  -> s.newloc - Len(block) + 1
                  [] OTHER -> Min({s.newloc, Len(rest)})
  IN SubSeq(rest, 1, before) \o block \o SubSeq(rest, before + 1, Len(rest))

\* CalcBestShift: from the longest blocks to the shortest; one is taken when it
\* gains something on the best so far, or nothing is lost by the first one.
\* No further block is looked at when its length cannot make up for the best.
CalcBestShift(hyp, ref, cur, align) ==
  LET err == FindAlignErr(align.path)
      Total(best) == best.cost + best.align.edits
      Enough(best, size) ==
        LET fix == align.edits - Total(best)
        IN fix > 2 * size \/ (best.cost # 0 /\ fix = 2 * size)
      Try(best, new) ==
        LET gain == Total(best) - (new.edits + 1)
        IN IF gain > 0 \/ (best.cost = 0 /\ gain = 0)
           THEN [found |-> TRUE, cost |-> 1, align |-> new, broken |-> FALSE] ELSE best
      Size(best, size) ==
        IF best.broken \/ Enough(best, size) THEN [best EXCEPT !.broken = TRUE]
        ELSE FoldLeft(LAMBDA b, s : IF Enough(b, size) THEN b
                                    ELSE Try(b, MinEditDist(PerformShift(cur, s), ref)),
                      best, PossShifts(hyp, ref, cur, err, size))
  IN FoldLeft(Size, [found |-> FALSE, cost |-> 0, align |-> align, broken |-> FALSE],
              [k \in DOMAIN cur |-> Len(cur) + 1 - k])

\* TER: shifts are taken until none is found.  The cost of the shifts is added
\* to the edits that are left.
TER(hyp, ref) ==
  LET Next(acc, n) ==
        LET With(best) == IF best.found
                          THEN [align |-> best.align, shifts |-> acc.shifts + 1, done |-> FALSE]
                          ELSE [acc EXCEPT !.done = TRUE]
        IN IF acc.done THEN acc ELSE With(CalcBestShift(hyp, ref, acc.align.words, acc.align))
      Result(acc) == [edits |-> acc.align.edits + acc.shifts, shifts |-> acc.shifts,
                      words |-> acc.align.words, done |-> acc.done]
  IN Result(FoldLeft(Next, [align |-> MinEditDist(hyp, ref), shifts |-> 0, done |-> FALSE],
                     [n \in 1 .. Len(hyp) + Len(ref) + 2 |-> n]))
----------------------------------------------------------------------------
\* terAlignment::scoreAv, to be compared for references of one sentence.
ScoreAv(edits, words) == IF words > 0 THEN edits ELSE Min({edits, 1})

\* TerScorer: the reference with the least score.  Average length and score
\* are cut off after two digits.
TerPrepare(scorer, vocab, refs, sid, line) ==
  LET n == Len(refs)
      words == FoldLeft(LAMBDA sum, file : sum + Len(file[sid]), 0, refs)
      Stats(edits) ==
        <<100 * edits, (100 * words) \div n,
          IF words > 0 THEN (100 * edits * n) \div words ELSE 100 * ScoreAv(edits, words)>>
      Of(encoded) ==
        IF ~encoded.ok THEN encoded
        ELSE Returned(encoded.vocab,
               Stats(FirstOf([rid \in DOMAIN refs |->
                                TER(Split(encoded.value), Split(refs[rid][sid])).edits],
                             LAMBDA b, a : ScoreAv(b, words) < ScoreAv(a, words))))
  IN IF \E rid \in DOMAIN refs : sid > Len(refs[rid]) THEN Thrown(vocab)
     ELSE Of(EncodeLine(scorer, vocab, line))
=============================================================================
