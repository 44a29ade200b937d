---------------------------- MODULE MCEvaluation ----------------------------
(* A small instance of Evaluation: the second case has no expected evidence. *)
EXTENDS Evaluation, TLC

CONSTANTS w1, w2, k1, k2
TwoWorkers == {w1, w2}
TwoChunks == {k1, k2}
FirstJudged == <<{k1}, {}>>
AllMetrics == DOMAIN Threshold
Perfect == [mean |-> 1000, rate |-> 1000]
=============================================================================
