--------------------------- MODULE HopeFearDecoder ---------------------------
(***************************************************************************)
(* NbestHopeFearDecoder::HopeFear (mert/HopeFearDecoder.cpp:78-131): the   *)
(* scan of one pack for the hope, fear and model hypotheses, run a second  *)
(* time with a smaller hope_scale if safe_hope_ asks for it.               *)
(*                                                                         *)
(* score[k] is wv.score(featuresAt(k)) and bleu[k] the sentence-level BLEU *)
(* of scoresAt(k) on the background corpus; both are integers of a common  *)
(* unit, and hope_scale is the fraction scale.num / scale.den.             *)
(***************************************************************************)
EXTENDS Integers

CONSTANTS
  MaxHyps,      (* bounds cur_size()                                       *)
  Scores,       (* the values of a model score                             *)
  Bleus         (* the values of a sentence-level BLEU                     *)

ASSUME DecoderAssumption ==
  MaxHyps \in Nat /\ Scores \subseteq Int /\ Bleus \subseteq Nat

VARIABLES
  size,         (* cur_size()                                              *)
  score, bleu, safe_hope,
  safe_loop, i, hope_index, fear_index, model_index, scale,
  pc            (* "scan" a pass, then "rescale" or break, then "done"     *)

input == <<size, score, bleu, safe_hope>>
dvars == <<input, safe_loop, i, hope_index, fear_index, model_index, scale, pc>>

BLEU_RATIO == 5

\* A pack of at least one hypothesis: of an empty one featuresAt(0) reads
\* outside the vector.
DInit ==
  /\ size \in 1 .. MaxHyps
  /\ score \in [1 .. size -> Scores]
  /\ bleu \in [1 .. size -> Bleus]
  /\ safe_hope \in BOOLEAN
  /\ safe_loop = 0 /\ i = 1
  /\ hope_index = 1 /\ fear_index = 1 /\ model_index = 1
  /\ scale = [num |-> 1, den |-> 1]
  /\ pc = "scan"

\* A slip: the fear is a second hope.
SecondHope(k) == score[k] + bleu[k]
\* hope_scale*score + bleu, times the denominator of hope_scale.
HopeScore(k) == scale.num * score[k] + scale.den * bleu[k]
FearScore(k) == score[k] - bleu[k]

\* One hypothesis of a pass; the first one of a pass is taken in any case.
Scan ==
  /\ pc = "scan" /\ i <= size
  /\ hope_index'  = IF i = 1 \/ HopeScore(i) > HopeScore(hope_index) THEN i ELSE hope_index
  /\ fear_index'  = IF i = 1 \/ FearScore(i) > FearScore(fear_index) THEN i ELSE fear_index
  /\ model_index' = IF i = 1 \/ score[i] > score[model_index] THEN i ELSE model_index
  /\ i' = i + 1
  /\ UNCHANGED <<input, safe_loop, scale, pc>>

Abs(x) == IF x < 0 THEN -x ELSE x

\* |hope_bleu|*BLEU_RATIO / |hope_model| < hope_scale (which is 1 by then).
Antagonistic ==
  /\ score[hope_index] # 0
  /\ scale.den * BLEU_RATIO * Abs(bleu[hope_index]) < scale.num * Abs(score[hope_index])

NewScale == [num |-> BLEU_RATIO * Abs(bleu[hope_index]), den |-> Abs(score[hope_index])]

\* The end of a pass: rescale and scan again, at most once, or break.
Rescale ==
  /\ pc = "scan" /\ i > size
  /\ safe_hope /\ safe_loop = 0 /\ Antagonistic
  /\ scale' = NewScale
  /\ safe_loop' = 1 /\ i' = 1
  /\ UNCHANGED <<input, hope_index, fear_index, model_index, pc>>

Break ==
  /\ pc = "scan" /\ i > size
  /\ ~(safe_hope /\ safe_loop = 0 /\ Antagonistic)
  /\ pc' = "done"
  /\ UNCHANGED <<input, safe_loop, i, hope_index, fear_index, model_index, scale>>

DNext == Scan \/ Rescale \/ Break

DSpec == DInit /\ [][DNext]_dvars

-----------------------------------------------------------------------------
\* Types: the indexes stay inside the pack and hope_scale in [0, 1].
DTypeOK ==
  /\ size \in Nat \ {0}
  /\ score \in [1 .. size -> Int] /\ bleu \in [1 .. size -> Nat]
  /\ safe_hope \in BOOLEAN /\ safe_loop \in {0, 1}
  /\ i \in 1 .. size + 1
  /\ hope_index \in 1 .. size /\ fear_index \in 1 .. size /\ model_index \in 1 .. size
  /\ scale \in [num : Nat, den : Nat \ {0}] /\ scale.num <= scale.den
  /\ pc \in {"scan", "done"}

\* The order the update of kbmira relies on (kbmira.cpp:243-248, and the
\* assertion commented out in :247): whatever the rescaling did, the hope is no
\* worse a translation than the model's choice, and the fear no better.
FearModelHope ==
  pc = "done" => /\ bleu[fear_index] <= bleu[model_index]
                 /\ bleu[model_index] <= bleu[hope_index]

\* The loss of kbmira.cpp:251, BLEU difference less score difference, is never
\* negative: the fear is violated at least as much as the hope itself, so the
\* test of kbmira.cpp:261 skips only losses that are exactly 0.
Loss == (bleu[hope_index] - bleu[fear_index]) - (score[hope_index] - score[fear_index])
LossNotNegative == pc = "done" => Loss >= 0
=============================================================================
