---------------------------- MODULE MCWorkflowRun ----------------------------
(* Small instances of WorkflowRun. *)
EXTENDS WorkflowRunProperties

CONSTANTS w1, w2, c1, c2, host

TwoWorkers == {w1, w2}
OneWorker == {w1}

\* Solo-pool workers have a hostname each, prefork children share their
\* parent's.
SoloHosts == [w \in {w1, w2} |-> w]
PreforkHost == [w \in {w1, w2} |-> host]

TwoClaims == {c1, c2}
SomeFlagged == {c1}
=============================================================================
