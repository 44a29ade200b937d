------------------------- MODULE MCDocumentLifecycle -------------------------
(* Small instances of DocumentLifecycle. *)
EXTENDS DocumentLifecycleProperties, TLC

CONSTANTS w1, w2

TwoWorkers == {w1, w2}

\* Solo-pool workers have a hostname each.
SoloHosts == [w \in {w1, w2} |-> w]

WorkerSymmetry == Permutations(TwoWorkers)
=============================================================================
