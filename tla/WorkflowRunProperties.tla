------------------------ MODULE WorkflowRunProperties ------------------------
(* What an evidence workflow run should guarantee, whatever overlaps.      *)
EXTENDS WorkflowRun

Ended == run.status \in {"succeeded", "failed"}

\* No failure turns up after success: neither the failure of a second delivery
\* nor a task that cannot be constructed takes a published run back.
SuccessIsNotFailed == [][run.status = "succeeded" => run'.status # "failed"]_vars

\* Claims that need review are published only after a human has decided,
\* whichever checkpoint a delivery continues from.
PublishedAfterDecision == report \in Flagged => decisions > 0

\* One run takes one decision, however often its graph is executed again.
DecidedOnce == decisions <= 1

\* Whoever is shown a waiting run can answer it: the question is recorded,
\* and nobody has answered it.
WaitingIsAnswerable ==
  run.status = "waiting_human" => asked # NoClaims /\ decisions = 0

\* The human's part in a run: asked before the publication, and only once.
ReviewIsSound == TypeOK /\ PublishedAfterDecision /\ DecidedOnce /\ WaitingIsAnswerable

\* No lost wake-up: unless an outcome could not be recorded, a run that has
\* neither ended nor asked has a message, or a worker that will end it, ask,
\* or give the message back.
UnaskedRunIsDelivered ==
  run.status \in {"pending", "running"} /\ decisions = 0 /\ errors = 0 =>
    \/ unsent["start"]
    \/ \E r \in Tries : queue[<<"start", r>>] > 0 \/ lost[<<"start", r>>] > 0
    \/ \E w \in Workers : task[w].kind = "start" /\ task[w].pc \notin {"idle", "done"}

\* A run comes to rest: it ends, or waits for a human.
RunsComeToRest ==
  run.status \in {"pending", "running"} ~> (Ended \/ run.status = "waiting_human")
=============================================================================
