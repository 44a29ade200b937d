----------------------------- MODULE WorkflowRun -----------------------------
(***************************************************************************)
(* One evidence workflow run: the API that creates it and records the      *)
(* human decision, the deliveries of its start and resume messages, and    *)
(* the worker that executes the LangGraph graph from its last checkpoint   *)
(* under an expiring delivery lease.                                       *)
(*                                                                         *)
(* The claims a reconciliation produces come from a language model and     *)
(* differ from one execution to the next: they are an element of Claims,   *)
(* and those in Flagged need human review.  The checkpoint tables belong   *)
(* to LangGraph; what is modelled of them is how tasks.py uses them.       *)
(***************************************************************************)
EXTENDS Naturals, FiniteSets

CONSTANTS Workers,         \* Celery worker processes
          Host,            \* Host[w]: the hostname w claims the run under
          Claims,          \* what a reconciliation may produce
          Flagged,         \* those that need human review
          MaxRetries,      \* deliveries that may retry (4 in run_workflow)
          MaxFaults,       \* bound: crashes, visibility timeouts, duplicates
          MaxErrors,       \* bound: tasks that cannot be constructed, and
                           \* outcomes that cannot be recorded
          EarlyRedelivery, \* may the message of a lost worker come back
                           \* before the lease of its delivery has expired
          LaggingCheckpoints, \* may a crash lose the latest checkpoint
          NoHost, NoClaims

ASSUME WorkflowAssumption ==
  /\ Flagged \subseteq Claims
  /\ MaxRetries \in Nat /\ MaxFaults \in Nat /\ MaxErrors \in Nat
  /\ EarlyRedelivery \in BOOLEAN /\ LaggingCheckpoints \in BOOLEAN
  /\ NoHost \notin {Host[w] : w \in Workers}
  /\ NoClaims \notin Claims

VARIABLES
  run,        \* the workflow_runs row: status and lease
  asked,      \* the claims of the human_requested event
  decisions,  \* rows in human_decisions
  report,     \* the claims the published report rests on
  checkpoint, \* the thread's latest checkpoint
  unsent,     \* messages in the outbox
  queue,      \* messages in the broker, by kind and retry count
  lost,       \* unacknowledged messages of dead workers, likewise
  task,       \* what each worker is doing
  faults, errors

broker == <<unsent, queue, lost>>
budgets == <<faults, errors>>
vars == <<run, asked, decisions, report, checkpoint, broker, task, budgets>>

Statuses == {"pending", "running", "waiting_human", "succeeded", "failed"}
Kinds == {"start", "resume"}
Tries == 0..MaxRetries

\* "research" stands for plan, retrieve_and_extract and reconcile, which
\* change nothing but the checkpoint.
Nodes == {"research", "human_review", "synthesize", "commit", "end"}

\* A position of the graph: the node to execute next, the claims at hand and
\* whether the value of the review's interrupt is.
Positions ==
  {p \in [node : Nodes \cup {"none"}, claims : Claims \cup {NoClaims}, resume : BOOLEAN] :
     /\ p.claims = NoClaims <=> p.node \in {"none", "research"}
     /\ p.resume => p.node = "human_review"}

Tasks == [pc : {"idle", "received", "claimed", "executing", "interrupted",
                "raised", "failing", "retrying", "done"},
          kind : Kinds, tries : Tries,
          at : Positions,    \* the graph's state in memory
          saved : BOOLEAN,   \* and whether the checkpointer has stored it
          leased : BOOLEAN,  \* history: its lease has not expired since its claim
          held : BOOLEAN]    \* its message is not acknowledged yet

Nowhere == [node |-> "none", claims |-> NoClaims, resume |-> FALSE]

Idle == [pc |-> "idle", kind |-> "start", tries |-> 0, at |-> Nowhere,
         saved |-> TRUE, leased |-> FALSE, held |-> FALSE]

TypeOK ==
  /\ run \in [status : Statuses, owner : {Host[w] : w \in Workers} \cup {NoHost},
              live : BOOLEAN]
  /\ asked \in Claims \cup {NoClaims}
  /\ decisions \in Nat
  /\ report \in Claims \cup {NoClaims}
  /\ checkpoint \in Positions
  /\ unsent \in [Kinds -> BOOLEAN]
  /\ queue \in [Kinds \X Tries -> Nat]
  /\ lost \in [Kinds \X Tries -> Nat]
  /\ task \in [Workers -> Tasks]
  /\ faults \in 0..MaxFaults
  /\ errors \in 0..MaxErrors

\* create_research_run has inserted the run and its start event.
Init ==
  /\ run = [status |-> "pending", owner |-> NoHost, live |-> FALSE]
  /\ asked = NoClaims
  /\ decisions = 0
  /\ report = NoClaims
  /\ checkpoint = Nowhere
  /\ unsent = [k \in Kinds |-> k = "start"]
  /\ queue = [m \in Kinds \X Tries |-> 0]
  /\ lost = [m \in Kinds \X Tries |-> 0]
  /\ task = [w \in Workers |-> Idle]
  /\ faults = 0
  /\ errors = 0

-----------------------------------------------------------------------------
(* The API.                                                                *)

\* create_decision: the decision and its resume event, in one transaction.
\* (A repeated Idempotency-Key returns the earlier decision.)
Decide ==
  /\ run.status = "waiting_human"
  /\ asked # NoClaims
  /\ decisions' = decisions + 1
  /\ run' = [run EXCEPT !.status = "pending"]
  /\ unsent' = [unsent EXCEPT !["resume"] = TRUE]
  /\ UNCHANGED <<asked, report, checkpoint, queue, lost, task, budgets>>

-----------------------------------------------------------------------------
(* The outbox dispatcher and the broker, as in DocumentLifecycle.          *)

PublishEvent(k) ==
  /\ unsent[k]
  /\ queue' = [queue EXCEPT ![<<k, 0>>] = @ + 1]
  /\ \/ unsent' = [unsent EXCEPT ![k] = FALSE] /\ UNCHANGED faults
     \/ faults < MaxFaults /\ faults' = faults + 1 /\ UNCHANGED unsent
  /\ UNCHANGED <<run, asked, decisions, report, checkpoint, lost, task, errors>>

Receive(w, k, r) ==
  /\ task[w].pc = "idle"
  /\ queue[<<k, r>>] > 0
  /\ queue' = [queue EXCEPT ![<<k, r>>] = @ - 1]
  /\ task' = [task EXCEPT ![w] = [Idle EXCEPT !.pc = "received", !.kind = k,
                                              !.tries = r, !.held = TRUE]]
  /\ UNCHANGED <<run, asked, decisions, report, checkpoint, unsent, lost, budgets>>

\* The task ends, normally or with an exception.
Finished(w) == [task EXCEPT ![w].pc = "done", ![w].at = Nowhere,
                            ![w].saved = TRUE, ![w].leased = FALSE]

\* Only then is the message acknowledged (task_acks_late).
Acknowledge(w) ==
  /\ task[w].pc = "done"
  /\ task' = [task EXCEPT ![w] = Idle]
  /\ UNCHANGED <<run, asked, decisions, report, checkpoint, broker, budgets>>

\* The worker process dies; the supervisor starts another one.
Crash(w) ==
  /\ task[w].pc # "idle"
  /\ faults < MaxFaults /\ faults' = faults + 1
  /\ lost' = IF task[w].held
             THEN [lost EXCEPT ![<<task[w].kind, task[w].tries>>] = @ + 1]
             ELSE lost
  /\ task' = [task EXCEPT ![w] = Idle]
  /\ UNCHANGED <<run, asked, decisions, report, checkpoint, unsent, queue, errors>>

\* A message invisible for twice the hard time limit is delivered again; the
\* lease of its delivery has expired, but the worker may still run.
VisibilityTimeout(w) ==
  /\ task[w].held /\ ~task[w].leased
  /\ task[w].pc \notin {"received", "done"}
  /\ faults < MaxFaults /\ faults' = faults + 1
  /\ queue' = [queue EXCEPT ![<<task[w].kind, task[w].tries>>] = @ + 1]
  /\ task' = [task EXCEPT ![w].held = FALSE]
  /\ UNCHANGED <<run, asked, decisions, report, checkpoint, unsent, lost, errors>>

\* The message of a dead worker comes back: at once when the parent process
\* reports the loss (task_reject_on_worker_lost), else after the lease.
Restore(k, r) ==
  /\ lost[<<k, r>>] > 0
  /\ EarlyRedelivery \/ ~run.live
  /\ lost' = [lost EXCEPT ![<<k, r>>] = @ - 1]
  /\ queue' = [queue EXCEPT ![<<k, r>>] = @ + 1]
  /\ UNCHANGED <<run, asked, decisions, report, checkpoint, unsent, task, budgets>>

\* lease_expires_at passes.
LeaseExpires ==
  /\ run.live
  /\ run' = [run EXCEPT !.live = FALSE]
  /\ task' = [w \in Workers |-> [task[w] EXCEPT !.leased = FALSE]]
  /\ UNCHANGED <<asked, decisions, report, checkpoint, broker, budgets>>

-----------------------------------------------------------------------------
(* run_workflow, before the graph.                                         *)

\* A bug variant: the marker overwrites a published run.
MarkBootstrapFailedAlways(w) ==
  run' = [status |-> "failed", owner |-> NoHost, live |-> FALSE]

\* _mark_workflow_bootstrap_failed, whoever holds the lease.
MarkBootstrapFailed(w) ==
  run' = IF run.status = "succeeded" THEN run
         ELSE [status |-> "failed", owner |-> NoHost, live |-> FALSE]

\* The domain cannot be built; or WorkerSettings cannot, or the claim raises
\* a database error, which leave no trace.
BootstrapFails(w) ==
  /\ task[w].pc = "received"
  /\ errors < MaxErrors /\ errors' = errors + 1
  /\ MarkBootstrapFailed(w) \/ UNCHANGED run
  /\ task' = Finished(w)
  /\ UNCHANGED <<asked, decisions, report, checkpoint, broker, faults>>

\* A bug variant: a worker restarted under its hostname is not let in again.
ClaimableExpired(w) ==
  /\ run.status \in {"pending", "running", "waiting_human"}
  /\ ~run.live

Claimable(w) ==
  /\ run.status \in {"pending", "running", "waiting_human"}
  /\ ~run.live \/ run.owner = Host[w]

ClaimDelivery(w) ==
  /\ task[w].pc = "received"
  /\ Claimable(w)
  /\ run' = [run EXCEPT !.owner = Host[w], !.live = TRUE]
  /\ task' = [task EXCEPT ![w].pc = "claimed", ![w].leased = TRUE]
  /\ UNCHANGED <<asked, decisions, report, checkpoint, broker, budgets>>

\* "duplicate_or_not_runnable": the message is acknowledged.
SkipDelivery(w) ==
  /\ task[w].pc = "received"
  /\ ~Claimable(w)
  /\ task' = Finished(w)
  /\ UNCHANGED <<run, asked, decisions, report, checkpoint, broker, budgets>>

-----------------------------------------------------------------------------
(* The graph.                                                              *)

\* The graph reaches a position; the checkpointer stores it in the
\* background.
GoTo(w, position) ==
  /\ task' = [task EXCEPT ![w].pc = "executing", ![w].at = position,
                          ![w].saved = ~LaggingCheckpoints]
  /\ checkpoint' = IF LaggingCheckpoints THEN checkpoint ELSE position

\* The latest write is the thread's checkpoint, whoever made it.
SaveCheckpoint(w) ==
  /\ ~task[w].saved
  /\ checkpoint' = task[w].at
  /\ task' = [task EXCEPT ![w].saved = TRUE]
  /\ UNCHANGED <<run, asked, decisions, report, broker, budgets>>

Executing(w, node) == task[w].pc = "executing" /\ task[w].at.node = node

\* The first delivery: initial_state, then invoke with it.
StartGraph(w) ==
  /\ task[w].pc = "claimed" /\ task[w].kind = "start"
  /\ checkpoint = Nowhere
  /\ run' = IF run.status = "pending" THEN [run EXCEPT !.status = "running"] ELSE run
  /\ GoTo(w, [Nowhere EXCEPT !.node = "research"])
  /\ UNCHANGED <<asked, decisions, report, broker, budgets>>

\* A bug variant: any delivery of a waiting run counts as an approval.
ContinueGraphApproving(w) ==
  /\ task[w].pc = "claimed" /\ task[w].kind = "start"
  /\ checkpoint # Nowhere
  /\ GoTo(w, [checkpoint EXCEPT !.resume = (checkpoint.node = "human_review")])
  /\ UNCHANGED <<run, asked, decisions, report, broker, budgets>>

\* A later one: invoke(None), from the checkpoint.
ContinueGraph(w) ==
  /\ task[w].pc = "claimed" /\ task[w].kind = "start"
  /\ checkpoint # Nowhere
  /\ task' = [task EXCEPT ![w].pc = "executing", ![w].at = checkpoint]
  /\ UNCHANGED <<run, asked, decisions, report, checkpoint, broker, budgets>>

\* invoke(Command(resume)): the value answers the interrupt of the checkpoint.
ResumeGraph(w) ==
  /\ task[w].pc = "claimed" /\ task[w].kind = "resume"
  /\ checkpoint # Nowhere
  /\ GoTo(w, [checkpoint EXCEPT !.resume = (checkpoint.node = "human_review")])
  /\ UNCHANGED <<run, asked, decisions, report, broker, budgets>>

\* Every provider call first reserves its cost (BudgetedChatProvider).
MayReserve == run.status \in {"pending", "running"}

Research(w) ==
  /\ Executing(w, "research") /\ MayReserve
  /\ \E c \in Claims : GoTo(w, [node |-> "human_review", claims |-> c, resume |-> FALSE])
  /\ UNCHANGED <<run, asked, decisions, report, broker, budgets>>

NeedsReview(w) == task[w].at.claims \in Flagged

\* review_payload returns None.
PassReview(w) ==
  /\ Executing(w, "human_review") /\ ~NeedsReview(w)
  /\ GoTo(w, [node |-> "synthesize", claims |-> task[w].at.claims, resume |-> FALSE])
  /\ UNCHANGED <<run, asked, decisions, report, broker, budgets>>

\* review_payload records one human_requested event per run.
RequestHuman(w) ==
  IF asked # NoClaims THEN UNCHANGED <<run, asked>>
  ELSE /\ asked' = task[w].at.claims
       /\ run' = IF run.status = "running"
                 THEN [run EXCEPT !.status = "waiting_human"] ELSE run

\* interrupt() without a value leaves the graph.
AskHuman(w) ==
  /\ Executing(w, "human_review") /\ NeedsReview(w) /\ ~task[w].at.resume
  /\ RequestHuman(w)
  /\ task' = [task EXCEPT ![w].pc = "interrupted"]
  /\ UNCHANGED <<decisions, report, checkpoint, broker, budgets>>

\* interrupt() returns the decision; apply_decision accepts it.
ApplyDecision(w) ==
  /\ Executing(w, "human_review") /\ NeedsReview(w) /\ task[w].at.resume
  /\ run' = [run EXCEPT !.status = "running"]
  /\ GoTo(w, [node |-> "synthesize", claims |-> task[w].at.claims, resume |-> FALSE])
  /\ UNCHANGED <<asked, decisions, report, broker, budgets>>

Synthesize(w) ==
  /\ Executing(w, "synthesize") /\ MayReserve
  /\ GoTo(w, [task[w].at EXCEPT !.node = "commit"])
  /\ UNCHANGED <<run, asked, decisions, report, broker, budgets>>

\* _commit replaces what the run published, unless the run has ended.
Commit(w) ==
  /\ Executing(w, "commit")
  /\ IF run.status \in {"succeeded", "failed"} THEN UNCHANGED <<run, report>>
     ELSE /\ report' = task[w].at.claims
          /\ run' = [run EXCEPT !.status = "succeeded"]
  /\ GoTo(w, [task[w].at EXCEPT !.node = "end"])
  /\ UNCHANGED <<asked, decisions, broker, budgets>>

-----------------------------------------------------------------------------
(* run_workflow, after the graph.  Leaving the graph waits for the          *)
(* checkpointer.                                                           *)

\* release_delivery clears the lease of this hostname, expired or not.
ReleasedBy(w) ==
  IF run.owner = Host[w] THEN [run EXCEPT !.owner = NoHost, !.live = FALSE] ELSE run

ReleaseDelivery(w) ==
  /\ task[w].pc = "interrupted" \/ Executing(w, "end")
  /\ task[w].saved
  /\ run' = ReleasedBy(w)
  /\ task' = Finished(w)
  /\ UNCHANGED <<asked, decisions, report, checkpoint, broker, budgets>>

\* A provider or the vector store fails in a way worth a retry.
RaiseRetryable(w) ==
  /\ Executing(w, "research") \/ Executing(w, "synthesize")
  /\ task[w].tries < MaxRetries
  /\ task' = [task EXCEPT ![w].pc = "raised"]
  /\ UNCHANGED <<run, asked, decisions, report, checkpoint, broker, budgets>>

\* Any other exception, the soft time limit included.
Raise(w) ==
  /\ task[w].pc \in {"claimed", "executing", "interrupted"}
  /\ task' = [task EXCEPT ![w].pc = "failing"]
  /\ UNCHANGED <<run, asked, decisions, report, checkpoint, broker, budgets>>

\* record_retry and release_delivery.
ReleaseForRetry(w) ==
  /\ task[w].pc = "raised" /\ task[w].saved
  /\ run' = ReleasedBy(w)
  /\ task' = [task EXCEPT ![w].pc = "retrying"]
  /\ UNCHANGED <<asked, decisions, report, checkpoint, broker, budgets>>

\* A bug variant: a failure that may be retried is not published anew.
RetryNowhere(w) ==
  /\ task[w].pc = "retrying"
  /\ task' = Finished(w)
  /\ UNCHANGED <<run, asked, decisions, report, checkpoint, broker, budgets>>

\* Celery's retry publishes the message anew.
Retry(w) ==
  /\ task[w].pc = "retrying"
  /\ queue' = [queue EXCEPT ![<<task[w].kind, task[w].tries + 1>>] = @ + 1]
  /\ task' = Finished(w)
  /\ UNCHANGED <<run, asked, decisions, report, checkpoint, unsent, lost, budgets>>

MarkFailed(w) ==
  /\ task[w].pc = "failing" /\ task[w].saved
  /\ run' = IF run.status = "succeeded" THEN run
            ELSE [status |-> "failed", owner |-> NoHost, live |-> FALSE]
  /\ task' = Finished(w)
  /\ UNCHANGED <<asked, decisions, report, checkpoint, broker, budgets>>

\* The database refuses the outcome; the message is acknowledged all the same.
OutcomeUnrecorded(w) ==
  /\ task[w].pc \in {"raised", "failing"} /\ task[w].saved
  /\ errors < MaxErrors /\ errors' = errors + 1
  /\ task' = Finished(w)
  /\ UNCHANGED <<run, asked, decisions, report, checkpoint, broker, faults>>

-----------------------------------------------------------------------------

Work(w) ==
  \/ ClaimDelivery(w) \/ SkipDelivery(w)
  \/ StartGraph(w) \/ ContinueGraph(w) \/ ResumeGraph(w) \/ SaveCheckpoint(w)
  \/ Research(w) \/ PassReview(w) \/ AskHuman(w) \/ ApplyDecision(w)
  \/ Synthesize(w) \/ Commit(w)
  \/ ReleaseDelivery(w) \/ RaiseRetryable(w) \/ Raise(w)
  \/ ReleaseForRetry(w) \/ Retry(w) \/ MarkFailed(w) \/ Acknowledge(w)

Deliver(k, r) == Restore(k, r) \/ \E w \in Workers : Receive(w, k, r)

Next ==
  \/ Decide \/ LeaseExpires
  \/ \E k \in Kinds : PublishEvent(k)
  \/ \E k \in Kinds, r \in Tries : Deliver(k, r)
  \/ \E w \in Workers : \/ Work(w) \/ BootstrapFails(w) \/ OutcomeUnrecorded(w)
                         \/ Crash(w) \/ VisibilityTimeout(w)

Spec == Init /\ [][Next]_vars

\* Workers run, the dispatcher and the broker deliver, time passes.  Nobody
\* need decide, and nothing need fail.
Fairness ==
  /\ WF_vars(LeaseExpires)
  /\ \A k \in Kinds : WF_vars(PublishEvent(k))
  /\ \A k \in Kinds, r \in Tries : SF_vars(Deliver(k, r))
  /\ \A w \in Workers : WF_vars(Work(w))

FairSpec == Spec /\ Fairness
=============================================================================
