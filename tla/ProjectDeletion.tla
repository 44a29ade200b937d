--------------------------- MODULE ProjectDeletion ---------------------------
(***************************************************************************)
(* A research project from its first upload to its deletion: the API's     *)
(* requests, the ingestion of its documents, and the delete_project task   *)
(* that empties Qdrant and S3 before the row and its cascade go.           *)
(*                                                                         *)
(* The ingestion of a document is reduced to what the deletion can see:    *)
(* its job row, the lease, and the process behind it.  A process that has  *)
(* outlived its lease is a member of overtaken; all it can still do to the *)
(* project is to upsert vectors, because its transactions check the lease. *)
(***************************************************************************)
EXTENDS Naturals, FiniteSets

CONSTANTS Docs,        \* documents that may be uploaded
          Workers,     \* processes of the deletion queue
          MaxJobs,     \* bound: delete_project job rows
          MaxAttempts, \* attempts of a job (ingestion_max_attempts)
          MaxRetries,  \* max_retries of the Celery task (8)
          MaxEvents,   \* outbox events per job (5)
          MaxFaults,   \* bound: crashes and expired leases
          NoWorker, NoJob

ASSUME ProjectAssumption ==
  /\ MaxJobs \in Nat \ {0} /\ MaxAttempts \in Nat \ {0}
  /\ MaxRetries \in Nat /\ MaxEvents \in Nat \ {0} /\ MaxFaults \in Nat
  /\ NoWorker \notin Workers /\ NoJob \notin Nat

Jobs == 1..MaxJobs     \* in the order of jobs.created_at

VARIABLES
  project,    \* projects.status, or "gone"
  doc,        \* documents.status; "absent" without a row
  object,     \* S3: "none", "stored", or "late": put after the request
  vectors,    \* documents that have points in Qdrant
  ingest,     \* the ingestion job of each document and its live process
  overtaken,  \* documents with a process that has lost its lease
  job,        \* the delete_project rows
  outbox,     \* per job: events inserted, and whether one is unpublished
  queue,      \* messages in the broker by job and retry count
  lost,       \* unacknowledged messages of dead workers
  task,       \* what each deletion worker is doing
  gaveUp,     \* jobs with a delivery that used up its retries
  faults

content == <<doc, object, vectors, ingest, overtaken>>
broker == <<outbox, queue, lost>>
vars == <<project, content, job, broker, task, gaveUp, faults>>

Messages == Jobs \X (0..MaxRetries)
TypeOK ==
  /\ project \in {"active", "deleting", "gone"}
  /\ doc \in [Docs -> {"absent", "uploaded", "processing", "ready", "failed"}]
  /\ object \in [Docs -> {"none", "stored", "late"}]
  /\ vectors \subseteq Docs /\ overtaken \subseteq Docs
  /\ ingest \in [Docs -> [status : {"none", "pending", "running", "succeeded", "failed"},
                          live : BOOLEAN, pc : {"none", "working", "upserted", "stored"}]]
  /\ job \in [Jobs -> [status : {"none", "pending", "running", "succeeded", "failed"},
                       owner : Workers \cup {NoWorker}, live : BOOLEAN, attempts : Nat]]
  /\ outbox \in [Jobs -> [events : 0..MaxEvents, unsent : BOOLEAN]]
  /\ queue \in [Messages -> Nat] /\ lost \in [Messages -> Nat]
  /\ task \in [Workers -> [pc : {"idle", "received", "claimed", "pointsGone", "failing", "retrying"},
                           job : Jobs \cup {NoJob}, tries : 0..MaxRetries,
                           keys : SUBSET Docs, attempt : Nat, retryable : BOOLEAN]]
  /\ gaveUp \subseteq Jobs
  /\ faults \in 0..MaxFaults

NoIngestion == [status |-> "none", live |-> FALSE, pc |-> "none"]
Idle == [pc |-> "idle", job |-> NoJob, tries |-> 0, keys |-> {}, attempt |-> 0, retryable |-> FALSE]

Init ==
  /\ project = "active"
  /\ doc = [d \in Docs |-> "absent"] /\ object = [d \in Docs |-> "none"]
  /\ vectors = {} /\ overtaken = {}
  /\ ingest = [d \in Docs |-> NoIngestion]
  /\ job = [j \in Jobs |-> [status |-> "none", owner |-> NoWorker, live |-> FALSE, attempts |-> 0]]
  /\ outbox = [j \in Jobs |-> [events |-> 0, unsent |-> FALSE]]
  /\ queue = [m \in Messages |-> 0] /\ lost = [m \in Messages |-> 0]
  /\ task = [w \in Workers |-> Idle]
  /\ gaveUp = {} /\ faults = 0

-----------------------------------------------------------------------------
(* Uploads and ingestion.                                                  *)

Reserve(d) ==
  /\ project = "active" /\ doc[d] = "absent" /\ object[d] = "none"
  /\ doc' = [doc EXCEPT ![d] = "uploaded"]
  /\ UNCHANGED <<project, object, vectors, ingest, overtaken, job, broker, task, gaveUp, faults>>

\* The browser uses the signed URL, which knows nothing of the project.
Put(d) ==
  /\ doc[d] = "uploaded" /\ object[d] = "none"
  /\ object' = [object EXCEPT ![d] = IF project = "active" THEN "stored" ELSE "late"]
  /\ UNCHANGED <<project, doc, vectors, ingest, overtaken, job, broker, task, gaveUp, faults>>

Complete(d) ==
  /\ project = "active" /\ doc[d] = "uploaded" /\ object[d] = "stored"
  /\ ingest[d].status = "none"
  /\ ingest' = [ingest EXCEPT ![d].status = "pending"]
  /\ UNCHANGED <<project, doc, object, vectors, overtaken, job, broker, task, gaveUp, faults>>

Running(d) == ingest[d].status = "running"
LiveIngestion == \E d \in Docs : Running(d) /\ ingest[d].live

\* SqlIngestionStore.claim.
ClaimIngestion(d) ==
  /\ project = "active" /\ doc[d] # "ready"
  /\ ingest[d].status = "pending" \/ (Running(d) /\ ~ingest[d].live)
  /\ ingest' = [ingest EXCEPT ![d] = [status |-> "running", live |-> TRUE, pc |-> "working"]]
  /\ doc' = [doc EXCEPT ![d] = "processing"]
  /\ UNCHANGED <<project, object, vectors, overtaken, job, broker, task, gaveUp, faults>>

\* upsert_chunks into the primary and the rerank collection.
UpsertPoints(d) ==
  /\ ingest[d].pc = "working"
  /\ vectors' = vectors \cup {d}
  /\ ingest' = [ingest EXCEPT ![d].pc = "upserted"]
  /\ UNCHANGED <<project, doc, object, overtaken, job, broker, task, gaveUp, faults>>

\* replace_content and mark_ready check the lease and lock the active project.
ReplaceContent(d) ==
  /\ ingest[d].pc = "upserted" /\ Running(d) /\ ingest[d].live /\ project = "active"
  /\ ingest' = [ingest EXCEPT ![d].pc = "stored"]
  /\ UNCHANGED <<project, doc, object, vectors, overtaken, job, broker, task, gaveUp, faults>>

FinishIngestion(d) ==
  /\ ingest[d].pc = "stored" /\ Running(d) /\ ingest[d].live /\ project = "active"
  /\ ingest' = [ingest EXCEPT ![d] = [status |-> "succeeded", live |-> FALSE, pc |-> "none"]]
  /\ doc' = [doc EXCEPT ![d] = "ready"]
  /\ UNCHANGED <<project, object, vectors, overtaken, job, broker, task, gaveUp, faults>>

\* An error of parsing or of a service, or a refused transaction; an upsert
\* that fails in the rerank collection has filled the primary one.
FailIngestion(d) ==
  /\ ingest[d].pc # "none"
  /\ \E status \in {"pending", "failed"} :
       ingest' = [ingest EXCEPT ![d] = [status |-> status, live |-> FALSE, pc |-> "none"]]
  /\ doc' = [doc EXCEPT ![d] = "failed"]
  /\ vectors' = vectors \/ (ingest[d].pc = "working" /\ vectors' = vectors \cup {d})
  /\ UNCHANGED <<project, object, overtaken, job, broker, task, gaveUp, faults>>

\* The worker is dead or merely slow.
IngestionLeaseExpires(d) ==
  /\ Running(d) /\ ingest[d].live /\ faults < MaxFaults
  /\ ingest' = [ingest EXCEPT ![d].live = FALSE, ![d].pc = "none"]
  /\ overtaken' \in {overtaken, overtaken \cup {d}}
  /\ faults' = faults + 1
  /\ UNCHANGED <<project, doc, object, vectors, job, broker, task, gaveUp>>

OvertakenUpserts(d) ==
  /\ d \in overtaken
  /\ overtaken' = overtaken \ {d}
  /\ vectors' = vectors \cup {d}
  /\ UNCHANGED <<project, doc, object, ingest, job, broker, task, gaveUp, faults>>

-----------------------------------------------------------------------------
(* The API.                                                                *)

\* Queued and expired ingestions fail with PROJECT_DELETING.
Stopped(d) == ingest[d].status = "pending" \/ (Running(d) /\ ~ingest[d].live)
StopIngestions ==
  ingest' = [d \in Docs |-> IF Stopped(d) THEN [ingest[d] EXCEPT !.status = "failed"] ELSE ingest[d]]

Ended(j) == job[j].status \in {"succeeded", "failed"}
Rows == {j \in Jobs : job[j].status # "none"}
Latest(j) == j \in Rows /\ \A i \in Rows : i <= j
Fresh(j) == j \in Jobs \ Rows /\ \A i \in Jobs : i < j => i \in Rows

\* _enqueue_project_deletion: at most five events of a job, one at a time.
Enqueue(j) ==
  IF outbox[j].unsent \/ outbox[j].events >= MaxEvents THEN outbox
  ELSE [outbox EXCEPT ![j] = [events |-> @.events + 1, unsent |-> TRUE]]

RequestDeletion(j) ==
  /\ \/ project = "active"
     \/ project = "deleting" /\ \E i \in Jobs : Latest(i) /\ job[i].status = "failed"
  /\ Fresh(j)
  /\ project' = "deleting"
  /\ StopIngestions
  /\ job' = [job EXCEPT ![j].status = "pending"]
  /\ outbox' = Enqueue(j)
  /\ UNCHANGED <<doc, object, vectors, overtaken, queue, lost, task, gaveUp, faults>>

\* A repeated request enqueues a pending job again, 30 seconds after its last event.
RequestDeletionAgain(j) ==
  /\ project = "deleting" /\ Latest(j) /\ job[j].status = "pending"
  /\ outbox' = Enqueue(j)
  /\ UNCHANGED <<project, content, job, queue, lost, task, gaveUp, faults>>

-----------------------------------------------------------------------------
(* The broker.                                                             *)

PublishEvent(j) ==
  /\ outbox[j].unsent
  /\ outbox' = [outbox EXCEPT ![j].unsent = FALSE]
  /\ queue' = [queue EXCEPT ![<<j, 0>>] = @ + 1]
  /\ UNCHANGED <<project, content, job, lost, task, gaveUp, faults>>

Receive(w, j, tries) ==
  /\ task[w].pc = "idle" /\ queue[<<j, tries>>] > 0
  /\ queue' = [queue EXCEPT ![<<j, tries>>] = @ - 1]
  /\ task' = [task EXCEPT ![w] = [Idle EXCEPT !.pc = "received", !.job = j, !.tries = tries]]
  /\ UNCHANGED <<project, content, job, outbox, lost, gaveUp, faults>>

\* The visibility timeout (1800 s) is longer than the lease (1200 s).
Redeliver(j, tries) ==
  /\ lost[<<j, tries>>] > 0 /\ ~job[j].live
  /\ lost' = [lost EXCEPT ![<<j, tries>>] = @ - 1]
  /\ queue' = [queue EXCEPT ![<<j, tries>>] = @ + 1]
  /\ UNCHANGED <<project, content, job, outbox, task, gaveUp, faults>>

Crash(w) ==
  /\ task[w].pc # "idle" /\ faults < MaxFaults
  /\ lost' = [lost EXCEPT ![<<task[w].job, task[w].tries>>] = @ + 1]
  /\ task' = [task EXCEPT ![w] = Idle]
  /\ faults' = faults + 1
  /\ UNCHANGED <<project, content, job, outbox, queue, gaveUp>>

DeletionLeaseExpires(j) ==
  /\ job[j].live
  /\ faults < MaxFaults \/ \A w \in Workers : task[w].job # j
  /\ job' = [job EXCEPT ![j].live = FALSE]
  /\ faults' = IF \A w \in Workers : task[w].job # j THEN faults ELSE faults + 1
  /\ UNCHANGED <<project, content, broker, task, gaveUp>>

-----------------------------------------------------------------------------
(* The delete_project task.                                                *)

Moved(w, pc) == task' = [task EXCEPT ![w].pc = pc]
\* A bug variant: the claim ignores running ingestions.
ClaimableAnyway(j) ==
  /\ project = "deleting"
  /\ job[j].status = "pending" \/ (job[j].status = "running" /\ ~job[j].live)

\* A bug variant: the claim takes pending jobs only.
ClaimablePending(j) ==
  /\ project = "deleting"
  /\ ~LiveIngestion
  /\ job[j].status = "pending"

Claimable(j) ==
  /\ project = "deleting"
  /\ ~LiveIngestion
  /\ job[j].status = "pending" \/ (job[j].status = "running" /\ ~job[j].live)

\* A bug variant: only processed documents are thought to have an object.
ReadyKeys == {d \in Docs : doc[d] = "ready"}

\* The object keys are those of the document rows at this moment.
ObjectKeys == {d \in Docs : doc[d] # "absent"}

ClaimDeletion(w) ==
  LET j == task[w].job IN
  /\ task[w].pc = "received" /\ Claimable(j)
  /\ StopIngestions
  /\ job' = [job EXCEPT ![j] = [status |-> "running", owner |-> w, live |-> TRUE,
                                attempts |-> @.attempts + 1]]
  /\ task' = [task EXCEPT ![w].pc = "claimed", ![w].attempt = job[j].attempts + 1,
                          ![w].keys = ObjectKeys]
  /\ UNCHANGED <<project, doc, object, vectors, overtaken, broker, gaveUp, faults>>

\* PROJECT_INGESTION_RUNNING rolls the whole transaction back.
DeferDeletion(w) ==
  LET j == task[w].job IN
  /\ task[w].pc = "received" /\ ~Claimable(j)
  /\ job[j].status = "pending" /\ LiveIngestion
  /\ Moved(w, "retrying")
  /\ UNCHANGED <<project, content, job, broker, gaveUp, faults>>

\* "not_claimed": the message is acknowledged.
SkipDeletion(w) ==
  LET j == task[w].job IN
  /\ task[w].pc = "received" /\ ~Claimable(j)
  /\ ~(job[j].status = "pending" /\ LiveIngestion)
  /\ StopIngestions
  /\ task' = [task EXCEPT ![w] = Idle]
  /\ UNCHANGED <<project, doc, object, vectors, overtaken, job, broker, gaveUp, faults>>

\* delete_project_points removes by the project's filter.
DeleteProjectPoints(w) ==
  /\ task[w].pc = "claimed"
  /\ vectors' = {}
  /\ Moved(w, "pointsGone")
  /\ UNCHANGED <<project, doc, object, ingest, overtaken, job, broker, gaveUp, faults>>

DeleteObject(w, d) ==
  /\ task[w].pc = "pointsGone" /\ d \in task[w].keys
  /\ object' = [object EXCEPT ![d] = "none"]
  /\ task' = [task EXCEPT ![w].keys = @ \ {d}]
  /\ UNCHANGED <<project, doc, vectors, ingest, overtaken, job, broker, gaveUp, faults>>

HoldsLease(j, w) == job[j].status = "running" /\ job[j].owner = w /\ job[j].live

\* Deleting the project row cascades to its documents and their jobs.
MarkReady(w) ==
  LET j == task[w].job IN
  /\ task[w].pc = "pointsGone" /\ task[w].keys = {}
  /\ HoldsLease(j, w) /\ project = "deleting"
  /\ project' = "gone"
  /\ doc' = [d \in Docs |-> "absent"]
  /\ ingest' = [d \in Docs |-> NoIngestion]
  /\ overtaken' = overtaken \cup {d \in Docs : ingest[d].pc # "none"}
  /\ job' = [i \in Jobs |-> IF i = j THEN [job[i] EXCEPT !.status = "succeeded", !.owner = NoWorker, !.live = FALSE]
                                     ELSE job[i]]
  /\ task' = [task EXCEPT ![w] = Idle]
  /\ UNCHANGED <<object, vectors, broker, gaveUp, faults>>

\* JOB_LEASE_LOST is raised past the failure handlers: nothing is recorded.
LoseLease(w) ==
  /\ task[w].pc = "pointsGone" /\ task[w].keys = {}
  /\ ~HoldsLease(task[w].job, w)
  /\ Moved(w, "retrying")
  /\ UNCHANGED <<project, content, job, broker, gaveUp, faults>>

\* Qdrant or S3 raises, or anything else does.
RemoteFails(w) ==
  /\ task[w].pc = "claimed" \/ (task[w].pc = "pointsGone" /\ task[w].keys # {})
  /\ \E retryable \in BOOLEAN :
       task' = [task EXCEPT ![w].pc = "failing", ![w].retryable = retryable]
  /\ UNCHANGED <<project, content, job, broker, gaveUp, faults>>

\* mark_retryable and mark_failed are guarded by the owner alone.
RecordFailure(w) ==
  LET j == task[w].job
      status == IF task[w].retryable /\ task[w].attempt < MaxAttempts THEN "pending" ELSE "failed" IN
  /\ task[w].pc = "failing"
  /\ job' = IF job[j].owner = w
            THEN [job EXCEPT ![j].status = status, ![j].owner = NoWorker, ![j].live = FALSE]
            ELSE job
  /\ task' = [task EXCEPT ![w] = IF @.retryable THEN [@ EXCEPT !.pc = "retrying"] ELSE Idle]
  /\ UNCHANGED <<project, content, broker, gaveUp, faults>>

\* self.retry, or MaxRetriesExceeded.
Retry(w) ==
  LET j == task[w].job  t == task[w].tries IN
  /\ task[w].pc = "retrying"
  /\ IF t < MaxRetries
     THEN queue' = [queue EXCEPT ![<<j, t + 1>>] = @ + 1] /\ UNCHANGED gaveUp
     ELSE gaveUp' = gaveUp \cup {j} /\ UNCHANGED queue
  /\ task' = [task EXCEPT ![w] = Idle]
  /\ UNCHANGED <<project, content, job, outbox, lost, faults>>

-----------------------------------------------------------------------------
Ingestion(d) == \/ Reserve(d) \/ Put(d) \/ Complete(d) \/ ClaimIngestion(d) \/ UpsertPoints(d)
                \/ ReplaceContent(d) \/ FinishIngestion(d) \/ FailIngestion(d)
                \/ IngestionLeaseExpires(d) \/ OvertakenUpserts(d)
Broker == \/ \E j \in Jobs : PublishEvent(j) \/ DeletionLeaseExpires(j)
          \/ \E m \in Messages : Redeliver(m[1], m[2])
Work(w) == \/ \E m \in Messages : Receive(w, m[1], m[2])
           \/ ClaimDeletion(w) \/ DeferDeletion(w) \/ SkipDeletion(w) \/ DeleteProjectPoints(w)
           \/ \E d \in Docs : DeleteObject(w, d)
           \/ MarkReady(w) \/ LoseLease(w) \/ RemoteFails(w) \/ RecordFailure(w) \/ Retry(w)
Next == \/ \E d \in Docs : Ingestion(d)
        \/ \E j \in Jobs : RequestDeletion(j) \/ RequestDeletionAgain(j)
        \/ Broker
        \/ \E w \in Workers : Work(w) \/ Crash(w)

Spec == Init /\ [][Next]_vars

\* The dispatcher, the broker, the clock and the workers go on; services
\* fail and users act at will.  An ingestion ends or its lease does.
Fairness ==
  /\ WF_vars(Broker)
  /\ \A w \in Workers : WF_vars(Work(w))
  /\ \A d \in Docs : WF_vars(FailIngestion(d))
FairSpec == Spec /\ Fairness
-----------------------------------------------------------------------------
(* Properties.                                                             *)

Unended(j) == job[j].status \in {"pending", "running"}
InFlight(j) ==
  \/ outbox[j].unsent
  \/ \E t \in 0..MaxRetries : queue[<<j, t>>] + lost[<<j, t>>] > 0
  \/ \E w \in Workers : task[w].job = j

\* While a worker removes artifacts under its lease, no ingestion of the
\* project runs under one (the "not exists" of the claim, which nothing may
\* undo afterwards: deletion_project.py:69).
CleanupExcludesIngestion ==
  \A w \in Workers : task[w].pc \in {"claimed", "pointsGone"} /\ HoldsLease(task[w].job, w)
                      => ~LiveIngestion

\* When the project row is gone, so is every object that was in S3 before
\* the deletion was requested, whichever workers, retries and requests it took.
GoneLeavesNoObjects == project = "gone" => \A d \in Docs : object[d] # "stored"

\* A project that is being deleted has a latest deletion job that has not
\* succeeded, so that a repeated request finds something to return or to
\* replace, and never two deletions that are both unended.
DeletingHasOneDeletion ==
  /\ project = "deleting" => \E j \in Jobs : Latest(j) /\ job[j].status # "succeeded"
  /\ \A i, j \in Jobs : Unended(i) /\ Unended(j) => i = j

\* An unended deletion has an event, a message or a worker that will take it
\* up, unless a delivery of it has run out of retries (tasks.py:255).
DeletionIsInHand == \A j \in Jobs : Unended(j) => InFlight(j) \/ j \in gaveUp

\* No deletion is forgotten, doubled or finished too early.
DeletionIsTracked == TypeOK /\ GoneLeavesNoObjects /\ DeletingHasOneDeletion /\ DeletionIsInHand

\* Once a lease holder has emptied Qdrant, and for ever after, only a process
\* that had outlived its ingestion lease puts points of the project back.
OnlyOvertakenWorkersPutPointsBack ==
  [][(project = "gone" \/ \E w \in Workers : task[w].pc = "pointsGone" /\ HoldsLease(task[w].job, w))
     => vectors' \subseteq vectors \cup overtaken]_vars

\* A requested deletion comes to an end: the project is gone, its job has
\* failed and may be asked for again, or its retries are used up.
DeletionEnds ==
  project = "deleting" ~> \/ project = "gone"
                          \/ \E j \in Jobs : Latest(j) /\ (job[j].status = "failed" \/ j \in gaveUp)
=============================================================================
