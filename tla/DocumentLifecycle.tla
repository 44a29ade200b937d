-------------------------- MODULE DocumentLifecycle --------------------------
(***************************************************************************)
(* One document from upload to deletion: the API's lifecycle transactions, *)
(* the outbox and Celery deliveries of its jobs, and the worker tasks that *)
(* ingest it or delete it under an expiring job lease.                     *)
(*                                                                         *)
(* A lease is live or not: the passing of its expiry time is the action    *)
(* LeaseExpires.  A worker runs one task at a time (prefetch 1) and writes *)
(* its hostname as lease owner: its own in the solo pool, its parent's in  *)
(* the prefork pool.  The document's project stays active here.            *)
(***************************************************************************)
EXTENDS Naturals, FiniteSets

CONSTANTS Workers,        \* Celery worker processes
          Host,           \* Host[w]: the hostname w claims jobs under
          MaxJobs,        \* bound: job rows of the document
          MaxAttempts,    \* ingestion_max_attempts
          MaxRetries,     \* max_retries of the Celery task
          MaxEvents,      \* outbox events per job (5 in _enqueue_document_event)
          MaxFaults,      \* bound: crashes, visibility timeouts and duplicates
          MaxDbFaults,    \* bound: outcomes the database refuses to record
          EarlyRedelivery,\* whether the message of a lost worker may come back
                          \* before the lease of its delivery has expired
          NoHost, NoJob

ASSUME LifecycleAssumption ==
  /\ MaxJobs \in Nat \ {0}
  /\ MaxAttempts \in Nat \ {0}
  /\ MaxRetries \in Nat
  /\ MaxEvents \in Nat \ {0}
  /\ MaxFaults \in Nat /\ MaxDbFaults \in Nat
  /\ EarlyRedelivery \in BOOLEAN
  /\ NoHost \notin {Host[w] : w \in Workers}
  /\ NoJob \notin Nat

Jobs == 1..MaxJobs          \* in the order of jobs.created_at
Tries == 0..MaxRetries      \* request.retries of a message

VARIABLES
  doc,      \* documents.status
  tier,     \* "vector" or "lightweight": does the content get vectors
  rows,     \* does the document have its rows in chunks and document_pages
  vectors,  \* its points in Qdrant: "none", "some" or "all"
  object,   \* is its object in S3 storage
  job,      \* the job rows, with the deletion_jobs row of a deletion
  outbox,   \* per job: events inserted, and whether one is unpublished
  queue,    \* messages in the broker, by job and retry count
  lost,     \* unacknowledged messages of dead workers, likewise
  task,     \* what each worker is doing
  faults, dbFaults

artifacts == <<tier, rows, vectors, object>>
broker == <<outbox, queue, lost>>
budgets == <<faults, dbFaults>>
vars == <<doc, artifacts, job, broker, task, budgets>>

Kinds == {"none", "ingest", "delete"}
DocStatuses == {"uploaded", "parsing", "indexing", "ready", "failed", "deleted"}
Phases == {"idle", "received", "working", "parsed", "indexed", "stored",
           "deleting", "pointsGone", "objectGone",
           "failingRetryable", "failingTerminal", "retrying", "done"}

JobRows == [kind : Kinds,
            status : {"pending", "running", "succeeded", "failed"},
            owner : {Host[w] : w \in Workers} \cup {NoHost},  \* lease_owner
            live : BOOLEAN,                   \* lease_expires_at > now()
            attempts : 0..MaxAttempts + 1,    \* saturates: only compared
            points : BOOLEAN,                 \* payload.qdrant_point_ids
            ledger : {"none", "pending", "succeeded", "failed"}] \* deletion_jobs
Tasks == {t \in [pc : Phases,
                 job : Jobs \cup {NoJob},
                 tries : Tries,                \* request.retries
                 attempt : 0..MaxAttempts + 1, \* record.attempts
                 held : BOOLEAN] :             \* message not yet acknowledged
            t.pc # "idle" => t.job \in Jobs}

TypeOK ==
  /\ doc \in DocStatuses
  /\ tier \in {"vector", "lightweight"}
  /\ rows \in BOOLEAN
  /\ vectors \in {"none", "some", "all"}
  /\ object \in BOOLEAN
  /\ job \in [Jobs -> JobRows]
  /\ outbox \in [Jobs -> [events : 0..MaxEvents, unsent : BOOLEAN]]
  /\ queue \in [Jobs \X Tries -> Nat]
  /\ lost \in [Jobs \X Tries -> Nat]
  /\ task \in [Workers -> Tasks]
  /\ faults \in 0..MaxFaults
  /\ dbFaults \in 0..MaxDbFaults

Idle == [pc |-> "idle", job |-> NoJob, tries |-> 0, attempt |-> 0, held |-> FALSE]

NoRow == [kind |-> "none", status |-> "pending", owner |-> NoHost, live |-> FALSE,
          attempts |-> 0, points |-> FALSE, ledger |-> "none"]

\* create_upload_url has reserved the document.
Init ==
  /\ doc = "uploaded"
  /\ tier \in {"vector", "lightweight"}
  /\ rows = FALSE
  /\ vectors = "none"
  /\ object = FALSE
  /\ job = [j \in Jobs |-> NoRow]
  /\ outbox = [j \in Jobs |-> [events |-> 0, unsent |-> FALSE]]
  /\ queue = [m \in Jobs \X Tries |-> 0]
  /\ lost = [m \in Jobs \X Tries |-> 0]
  /\ task = [w \in Workers |-> Idle]
  /\ faults = 0
  /\ dbFaults = 0

-----------------------------------------------------------------------------
(* Job rows.                                                               *)

OfKind(kind) == {j \in Jobs : job[j].kind = kind}
Running(j) == job[j].status = "running"
LiveIngestion == \E j \in OfKind("ingest") : Running(j) /\ job[j].live
DeadIngestions == {j \in OfKind("ingest") : Running(j) /\ ~job[j].live}

\* The row leaves its lease: lease_owner and lease_expires_at become null.
Released(row, status) ==
  [row EXCEPT !.status = status, !.owner = NoHost, !.live = FALSE]

Leased(row, w) ==
  [row EXCEPT !.status = "running", !.owner = Host[w], !.live = TRUE,
              !.attempts = IF @ > MaxAttempts THEN @ ELSE @ + 1]

\* jobs.status = 'running', owned by the worker's host, its lease not expired.
HoldsLease(j, w) == Running(j) /\ job[j].owner = Host[w] /\ job[j].live

\* A bug variant: the claim looks at the lease only.
ObtainableUnleased(j) == ~job[j].live

\* A pending job, or a running one whose lease has expired.
Obtainable(j) == job[j].status = "pending" \/ (Running(j) /\ ~job[j].live)

\* The next row of jobs.
Fresh(j) == job[j].kind = "none" /\ \A i \in Jobs : i < j => job[i].kind # "none"

Latest(kind, j) == j \in OfKind(kind) /\ \A i \in OfKind(kind) : i <= j

\* _enqueue_document_event: one unpublished event at a time and five in all.
\* (It lets an event wait beside one whose publication failed and backs off:
\* one copy more of the task, which PublishEvent's second publication covers.)
CanEnqueue(j) == ~outbox[j].unsent /\ outbox[j].events < MaxEvents

Enqueued(j) ==
  [outbox EXCEPT ![j] = [events |-> outbox[j].events + 1, unsent |-> TRUE]]

-----------------------------------------------------------------------------
(* The API.                                                                *)

\* upload_document_content: the browser stores the object of a document that
\* is there.  (Storing the same bytes once more changes nothing; the check
\* and the write are one step.)
UploadContent ==
  /\ doc # "deleted" /\ ~object
  /\ object' = TRUE
  /\ UNCHANGED <<doc, tier, rows, vectors, job, broker, task, budgets>>

\* What is stored either is of the declared type or is not: content that was
\* accepted once, and has an ingestion job, is accepted again.
MayMismatch == OfKind("ingest") = {}

\* verify_uploaded_content finds a mismatch: complete_document ends there, and
\* the object is deleted.
RejectUpload ==
  /\ doc # "deleted" /\ object /\ MayMismatch
  /\ object' = FALSE
  /\ UNCHANGED <<doc, tier, rows, vectors, job, broker, task, budgets>>

\* complete_document schedules an ingestion of a new or failed document.
CompleteDocument ==
  /\ doc \in {"uploaded", "failed"}
  /\ object
  /\ \E j \in Jobs :
       /\ Fresh(j)
       /\ job' = [job EXCEPT ![j] = [NoRow EXCEPT !.kind = "ingest"]]
       /\ outbox' = Enqueued(j)
  /\ doc' = "parsing"
  /\ UNCHANGED <<artifacts, queue, lost, task, budgets>>

\* complete_document again: a job still pending gets another delivery.
CompleteAgain ==
  /\ doc \notin {"uploaded", "failed", "deleted"}
  /\ object
  /\ \E j \in Jobs : /\ Latest("ingest", j) /\ job[j].status = "pending"
                     /\ CanEnqueue(j)
                     /\ outbox' = Enqueued(j)
  /\ UNCHANGED <<doc, artifacts, job, queue, lost, task, budgets>>

WithoutPendingIngestion ==
  [i \in Jobs |-> IF job[i].kind = "ingest" /\ job[i].status = "pending"
                  THEN [job[i] EXCEPT !.status = "failed"] ELSE job[i]]

\* delete_document: the first request, or one after a failed deletion,
\* snapshots the point ids the rows name and inserts a deletion job.
RequestDeletion ==
  /\ \/ doc # "deleted"
     \/ \E d \in Jobs : Latest("delete", d) /\ job[d].status = "failed"
  /\ \E j \in Jobs :
       /\ Fresh(j)
       /\ job' = [WithoutPendingIngestion EXCEPT
                    ![j] = [NoRow EXCEPT !.kind = "delete", !.ledger = "pending",
                                         !.points = rows /\ tier = "vector"]]
       /\ outbox' = Enqueued(j)
  /\ doc' = "deleted"
  /\ UNCHANGED <<artifacts, queue, lost, task, budgets>>

\* delete_document again while the deletion is pending: another delivery.
RequestDeletionAgain ==
  /\ doc = "deleted"
  /\ \E j \in Jobs : /\ Latest("delete", j) /\ job[j].status = "pending"
                     /\ CanEnqueue(j)
                     /\ outbox' = Enqueued(j)
  /\ job' = WithoutPendingIngestion
  /\ UNCHANGED <<doc, artifacts, queue, lost, task, budgets>>

-----------------------------------------------------------------------------
(* The outbox dispatcher and the broker (see module Outbox for the former).*)

\* The dispatcher publishes an event; it may do so again before it records it.
PublishEvent(j) ==
  /\ outbox[j].unsent
  /\ queue' = [queue EXCEPT ![<<j, 0>>] = @ + 1]
  /\ \/ outbox' = [outbox EXCEPT ![j].unsent = FALSE] /\ UNCHANGED faults
     \/ faults < MaxFaults /\ faults' = faults + 1 /\ UNCHANGED outbox
  /\ UNCHANGED <<doc, artifacts, job, lost, task, dbFaults>>

\* A worker that is free receives a message and does not acknowledge it yet.
Receive(w, j, r) ==
  /\ task[w].pc = "idle"
  /\ queue[<<j, r>>] > 0
  /\ queue' = [queue EXCEPT ![<<j, r>>] = @ - 1]
  /\ task' = [task EXCEPT ![w] = [pc |-> "received", job |-> j, tries |-> r,
                                  attempt |-> 0, held |-> TRUE]]
  /\ UNCHANGED <<doc, artifacts, job, outbox, lost, budgets>>

\* The task ends, normally or with an exception.
Finish(w) == task' = [task EXCEPT ![w].pc = "done", ![w].attempt = 0]

Proceed(w, phase) == task' = [task EXCEPT ![w].pc = phase]

\* Only then is the message acknowledged (task_acks_late).
Acknowledge(w) ==
  /\ task[w].pc = "done"
  /\ task' = [task EXCEPT ![w] = Idle]
  /\ UNCHANGED <<doc, artifacts, job, broker, budgets>>

\* The lease taken by this delivery, the job's latest claim, is live.
DeliveryLive(w) ==
  HoldsLease(task[w].job, w) /\ job[task[w].job].attempts = task[w].attempt

\* The visibility timeout: twice the hard time limit, longer than a lease, so
\* the lease of this delivery has expired; the worker itself still runs (the
\* solo pool enforces no time limit).
VisibilityTimeout(w) ==
  /\ task[w].held /\ ~DeliveryLive(w)
  /\ task[w].pc \notin {"received", "done"}
  /\ faults < MaxFaults /\ faults' = faults + 1
  /\ queue' = [queue EXCEPT ![<<task[w].job, task[w].tries>>] = @ + 1]
  /\ task' = [task EXCEPT ![w].held = FALSE]
  /\ UNCHANGED <<doc, artifacts, job, outbox, lost, dbFaults>>

\* The worker process dies; the supervisor starts another one.
Crash(w) ==
  /\ task[w].pc # "idle"
  /\ faults < MaxFaults /\ faults' = faults + 1
  /\ lost' = IF task[w].held
             THEN [lost EXCEPT ![<<task[w].job, task[w].tries>>] = @ + 1]
             ELSE lost
  /\ task' = [task EXCEPT ![w] = Idle]
  /\ UNCHANGED <<doc, artifacts, job, outbox, queue, dbFaults>>

\* The broker restores the message of a dead worker: at once when the parent
\* process reports the loss (task_reject_on_worker_lost), else when it has
\* been invisible for longer than the lease.
Restore(j, r) ==
  /\ lost[<<j, r>>] > 0
  /\ EarlyRedelivery \/ ~job[j].live
  /\ lost' = [lost EXCEPT ![<<j, r>>] = @ - 1]
  /\ queue' = [queue EXCEPT ![<<j, r>>] = @ + 1]
  /\ UNCHANGED <<doc, artifacts, job, outbox, task, budgets>>

\* lease_expires_at passes.
LeaseExpires(j) ==
  /\ job[j].live
  /\ job' = [job EXCEPT ![j].live = FALSE]
  /\ UNCHANGED <<doc, artifacts, broker, task, budgets>>

-----------------------------------------------------------------------------
(* Every task begins with the construction of its service.                 *)

BootstrapFailed(row) ==
  [Released(row, "failed") EXCEPT
     !.ledger = IF @ = "pending" THEN "failed" ELSE @]

\* _mark_job_bootstrap_failed ends a job nobody is working on.
MarkBootstrapFailed(j) ==
  IF Obtainable(j)
  THEN /\ job' = [job EXCEPT ![j] = BootstrapFailed(@)]
       /\ doc' = IF /\ job[j].kind = "ingest"
                    /\ doc \in {"uploaded", "parsing", "indexing"}
                 THEN "failed" ELSE doc
  ELSE UNCHANGED <<job, doc>>

\* WorkerSettings or the service cannot be built, or the claim raises a
\* database error: the task marks the job and raises.
BootstrapFails(w) ==
  /\ task[w].pc = "received"
  /\ faults < MaxFaults /\ faults' = faults + 1
  /\ MarkBootstrapFailed(task[w].job)
  /\ Finish(w)
  /\ UNCHANGED <<artifacts, broker, dbFaults>>

-----------------------------------------------------------------------------
(* The ingestion task.                                                     *)

\* A bug variant: a late delivery takes a finished document up again.
ClaimableWhenReady(j) == doc # "deleted" /\ Obtainable(j)

ClaimableForIngestion(j) ==
  /\ doc \notin {"deleted", "ready"}
  /\ Obtainable(j)

\* SqlIngestionStore.claim takes the job and its lease.
ClaimIngestion(w) ==
  LET j == task[w].job IN
  /\ task[w].pc = "received" /\ job[j].kind = "ingest"
  /\ ClaimableForIngestion(j)
  /\ job' = [job EXCEPT ![j] = Leased(@, w)]
  /\ doc' = "parsing"
  /\ task' = [task EXCEPT ![w].pc = "working", ![w].attempt = job'[j].attempts]
  /\ UNCHANGED <<artifacts, broker, budgets>>

\* handle returns "not_claimed" and the message is acknowledged.
SkipIngestion(w) ==
  LET j == task[w].job IN
  /\ task[w].pc = "received" /\ job[j].kind = "ingest"
  /\ ~ClaimableForIngestion(j)
  /\ Finish(w)
  /\ UNCHANGED <<doc, artifacts, job, broker, budgets>>

\* The object is downloaded, verified, parsed and cut into chunks.
DownloadAndParse(w) ==
  /\ task[w].pc = "working"
  /\ object
  /\ Proceed(w, "parsed")
  /\ UNCHANGED <<doc, artifacts, job, broker, budgets>>

\* A bug variant: a retry does not upsert when points are there already.
UpsertVectorsOnce(w) ==
  /\ task[w].pc = "parsed"
  /\ vectors' = IF tier = "vector" /\ vectors = "none" THEN "all" ELSE vectors
  /\ Proceed(w, "indexed")
  /\ UNCHANGED <<doc, tier, rows, object, job, broker, budgets>>

\* upsert_chunks writes every point of the document, and then deletes those
\* that were there and are not among them.
Upserted == "all"

\* A lightweight document has no chunks to upsert.
UpsertVectors(w) ==
  /\ task[w].pc = "parsed"
  /\ vectors' = IF tier = "vector" THEN Upserted ELSE vectors
  /\ Proceed(w, "indexed")
  /\ UNCHANGED <<doc, tier, rows, object, job, broker, budgets>>

\* A bug variant: replace_content trusts the claim made long before.
MayReplaceAlways(w) == TRUE

MayReplace(w) ==
  /\ HoldsLease(task[w].job, w)
  /\ doc \in {"uploaded", "parsing", "indexing", "failed"}

\* replace_content: one transaction, refused without the lease.
ReplaceContent(w) ==
  /\ task[w].pc = "indexed"
  /\ IF MayReplace(w)
     THEN rows' = TRUE /\ doc' = "indexing" /\ Proceed(w, "stored")
     ELSE UNCHANGED <<rows, doc>> /\ Proceed(w, "failingTerminal")
  /\ UNCHANGED <<tier, vectors, object, job, broker, budgets>>

MayFinish(w) == HoldsLease(task[w].job, w) /\ doc = "indexing"

\* mark_ready: job and document finish together.
MarkReady(w) ==
  LET j == task[w].job IN
  /\ task[w].pc = "stored"
  /\ IF MayFinish(w)
     THEN /\ job' = [job EXCEPT ![j] = Released(@, "succeeded")]
          /\ doc' = "ready"
          /\ Finish(w)
     ELSE UNCHANGED <<job, doc>> /\ Proceed(w, "failingTerminal")
  /\ UNCHANGED <<artifacts, broker, budgets>>

\* Any step of handle after the claim raises, retryably or not; an upsert
\* may have written some of the points.
IngestionRaises(w) ==
  /\ task[w].pc \in {"working", "parsed", "indexed", "stored"}
  /\ vectors' \in IF task[w].pc = "parsed" /\ tier = "vector" /\ vectors = "none"
                  THEN {"none", "some"} ELSE {vectors}
  /\ \E phase \in {"failingRetryable", "failingTerminal"} : Proceed(w, phase)
  /\ UNCHANGED <<doc, tier, rows, object, job, broker, budgets>>

\* After the failure is recorded the exception reaches the Celery task, which
\* retries a retryable one, whatever was recorded.
AfterFailure(w) ==
  IF task[w].pc = "failingRetryable" THEN Proceed(w, "retrying") ELSE Finish(w)

\* A bug variant: the recorded attempt is not compared with the limit.
RetriesLeftAlways(w) == task[w].pc = "failingRetryable"

RetriesLeft(w) == task[w].pc = "failingRetryable" /\ task[w].attempt < MaxAttempts

Failing(w) == task[w].pc \in {"failingRetryable", "failingTerminal"}

\* _record_failure of the ingestion: mark_retryable or mark_failed.
RecordIngestionFailure(w) ==
  LET j == task[w].job
      owned == job[j].owner = Host[w]
  IN
  /\ Failing(w) /\ job[j].kind = "ingest"
  /\ IF RetriesLeft(w)
     THEN /\ job' = IF ~owned THEN job
                    ELSE IF doc = "deleted"
                    THEN [job EXCEPT ![j] = Released(@, "failed")]
                    ELSE [job EXCEPT ![j] = Released(@, "pending")]
          /\ UNCHANGED doc
     ELSE /\ job' = IF owned THEN [job EXCEPT ![j] = Released(@, "failed")] ELSE job
          /\ doc' = IF doc = "deleted" THEN doc ELSE "failed"
  /\ AfterFailure(w)
  /\ UNCHANGED <<artifacts, broker, budgets>>

-----------------------------------------------------------------------------
(* The deletion task.                                                      *)

ClaimableForDeletion(j) ==
  /\ doc = "deleted"
  /\ ~LiveIngestion
  /\ Obtainable(j)

\* The first statement of the claim ends the ingestions whose lease expired.
DeadIngestionsEnded ==
  [i \in Jobs |-> IF i \in DeadIngestions THEN Released(job[i], "failed") ELSE job[i]]

\* SqlDeletionStore.claim takes the job.
ClaimDeletion(w) ==
  LET j == task[w].job IN
  /\ task[w].pc = "received" /\ job[j].kind = "delete"
  /\ ClaimableForDeletion(j)
  /\ job' = [DeadIngestionsEnded EXCEPT ![j] = Leased(@, w)]
  /\ task' = [task EXCEPT ![w].pc = "deleting", ![w].attempt = job'[j].attempts]
  /\ UNCHANGED <<doc, artifacts, broker, budgets>>

\* The claim raises DOCUMENT_INGESTION_RUNNING and rolls back.
DeferDeletion(w) ==
  LET j == task[w].job IN
  /\ task[w].pc = "received" /\ job[j].kind = "delete"
  /\ job[j].status = "pending" /\ LiveIngestion
  /\ Proceed(w, "retrying")
  /\ UNCHANGED <<doc, artifacts, job, broker, budgets>>

SkipDeletion(w) ==
  LET j == task[w].job IN
  /\ task[w].pc = "received" /\ job[j].kind = "delete"
  /\ ~ClaimableForDeletion(j) /\ ~(job[j].status = "pending" /\ LiveIngestion)
  /\ job' = DeadIngestionsEnded
  /\ Finish(w)
  /\ UNCHANGED <<doc, artifacts, broker, budgets>>

\* delete_points, which returns at once when it is given no ids.
WithoutPoints(named) == IF named THEN "none" ELSE vectors

\* The ids are those of the job's payload.
DeletePoints(w) ==
  /\ task[w].pc = "deleting"
  /\ vectors' = WithoutPoints(job[task[w].job].points)
  /\ Proceed(w, "pointsGone")
  /\ UNCHANGED <<doc, tier, rows, object, job, broker, budgets>>

DeleteObject(w) ==
  /\ task[w].pc = "pointsGone"
  /\ object' = FALSE
  /\ Proceed(w, "objectGone")
  /\ UNCHANGED <<doc, tier, rows, vectors, job, broker, budgets>>

\* mark_ready of the deletion; without the lease, JOB_LEASE_LOST is raised
\* and retried with nothing recorded.
FinishDeletion(w) ==
  LET j == task[w].job IN
  /\ task[w].pc = "objectGone"
  /\ IF HoldsLease(j, w)
     THEN /\ rows' = FALSE
          /\ job' = [job EXCEPT ![j] = [Released(@, "succeeded") EXCEPT !.ledger = "succeeded"]]
          /\ Finish(w)
     ELSE UNCHANGED <<rows, job>> /\ Proceed(w, "retrying")
  /\ UNCHANGED <<doc, tier, vectors, object, broker, budgets>>

DeletionRaises(w) ==
  /\ task[w].pc \in {"deleting", "pointsGone", "objectGone"}
  /\ \E phase \in {"failingRetryable", "failingTerminal"} : Proceed(w, phase)
  /\ UNCHANGED <<doc, artifacts, job, broker, budgets>>

\* _record_failure of the deletion.
RecordDeletionFailure(w) ==
  LET j == task[w].job
      owned == job[j].owner = Host[w]
  IN
  /\ Failing(w) /\ job[j].kind = "delete"
  /\ job' = IF RetriesLeft(w)
            THEN IF owned THEN [job EXCEPT ![j] = Released(@, "pending")] ELSE job
            ELSE [job EXCEPT ![j] = [IF owned THEN Released(@, "failed") ELSE @
                                       EXCEPT !.ledger = "failed"]]
  /\ AfterFailure(w)
  /\ UNCHANGED <<doc, artifacts, broker, budgets>>

-----------------------------------------------------------------------------
(* What Celery does with a task that raised.                               *)

RetryMessage(w) == <<task[w].job, task[w].tries + 1>>

\* self.retry: a new message while retries are left, else the task fails.
Retry(w) ==
  /\ task[w].pc = "retrying"
  /\ queue' = IF task[w].tries < MaxRetries
              THEN [queue EXCEPT ![RetryMessage(w)] = @ + 1]
              ELSE queue
  /\ Finish(w)
  /\ UNCHANGED <<doc, artifacts, job, outbox, lost, budgets>>

\* The failure cannot be recorded: the exception of the database call ends
\* the task, which marks the job if the database answers by then, and its
\* message is acknowledged all the same.
RecordingFails(w) ==
  /\ Failing(w)
  /\ dbFaults < MaxDbFaults /\ dbFaults' = dbFaults + 1
  /\ MarkBootstrapFailed(task[w].job) \/ UNCHANGED <<job, doc>>
  /\ Finish(w)
  /\ UNCHANGED <<artifacts, broker, faults>>

-----------------------------------------------------------------------------
Ingest(w) ==
  \/ ClaimIngestion(w) \/ SkipIngestion(w) \/ DownloadAndParse(w) \/ UpsertVectors(w)
  \/ ReplaceContent(w) \/ MarkReady(w) \/ IngestionRaises(w) \/ RecordIngestionFailure(w)

Delete(w) ==
  \/ ClaimDeletion(w) \/ DeferDeletion(w) \/ SkipDeletion(w) \/ DeletePoints(w)
  \/ DeleteObject(w) \/ FinishDeletion(w) \/ DeletionRaises(w) \/ RecordDeletionFailure(w)

Work(w) == Ingest(w) \/ Delete(w) \/ Retry(w) \/ Acknowledge(w)

Disturb(w) == BootstrapFails(w) \/ RecordingFails(w) \/ VisibilityTimeout(w) \/ Crash(w)

Request == CompleteDocument \/ CompleteAgain \/ RequestDeletion \/ RequestDeletionAgain

Next ==
  \/ UploadContent \/ RejectUpload \/ Request
  \/ \E j \in Jobs : PublishEvent(j) \/ LeaseExpires(j)
  \/ \E j \in Jobs, r \in Tries : Restore(j, r) \/ \E w \in Workers : Receive(w, j, r)
  \/ \E w \in Workers : Work(w) \/ Disturb(w)

Spec == Init /\ [][Next]_vars

\* The dispatcher publishes, the broker delivers and restores, workers run
\* their tasks and leases expire; requests and faults need not happen.
Fairness ==
  /\ \A j \in Jobs : WF_vars(PublishEvent(j)) /\ WF_vars(LeaseExpires(j))
  /\ \A j \in Jobs, r \in Tries : /\ WF_vars(Restore(j, r))
                                  /\ WF_vars(\E w \in Workers : Receive(w, j, r))
  /\ \A w \in Workers : WF_vars(Work(w))

FairSpec == Spec /\ Fairness
=============================================================================
