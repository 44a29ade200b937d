-------------------------- MODULE MCProjectDeletion --------------------------
(* A small instance of ProjectDeletion. *)
EXTENDS ProjectDeletion, TLC

CONSTANTS d1, w1, w2
OneDoc == {d1}
TwoWorkers == {w1, w2}
=============================================================================
