------------------------ MODULE ProjectDeletionProofs ------------------------
(***************************************************************************)
(* Proofs about ProjectDeletion, for any number of documents, workers,     *)
(* jobs, retries, events and faults.                                       *)
(***************************************************************************)
EXTENDS ProjectDeletion, TLAPS

Statuses == {"none", "pending", "running", "succeeded", "failed"}
IngestRows == [status : Statuses, live : BOOLEAN, pc : {"none", "working", "upserted", "stored"}]
JobRows == [status : Statuses, owner : Workers \cup {NoWorker}, live : BOOLEAN, attempts : Nat]
Tasks == [pc : {"idle", "received", "claimed", "pointsGone", "failing", "retrying"},
          job : Jobs \cup {NoJob}, tries : 0..MaxRetries, keys : SUBSET Docs,
          attempt : Nat, retryable : BOOLEAN]

IngestTyped == ingest \in [Docs -> IngestRows]
JobTyped == job \in [Jobs -> JobRows]
TaskTyped == task \in [Workers -> Tasks] /\ \A w \in Workers : task[w].pc # "idle" => task[w].job \in Jobs

-----------------------------------------------------------------------------
(* The rows of ingestions, deletion jobs and workers.                      *)

LEMMA IngestStep == IngestTyped /\ [Next]_vars => IngestTyped'
<1> SUFFICES ASSUME IngestTyped, [Next]_vars PROVE IngestTyped'
  OBVIOUS
<1>1. ASSUME StopIngestions PROVE IngestTyped'
  <2>1. \A d \in Docs : [ingest[d] EXCEPT !.status = "failed"] \in IngestRows
    BY DEF IngestTyped, IngestRows, Statuses
  <2> QED BY <1>1, <2>1 DEF StopIngestions, IngestTyped
<1>2. NoIngestion \in IngestRows
  BY DEF NoIngestion, IngestRows, Statuses
<1>3. ASSUME NEW d \in Docs, Ingestion(d) PROVE IngestTyped'
  <2>1. CASE UNCHANGED ingest
    BY <2>1 DEF IngestTyped
  <2>2. CASE Complete(d)
    <3>1. [ingest[d] EXCEPT !.status = "pending"] \in IngestRows
      BY DEF IngestTyped, IngestRows, Statuses
    <3> QED BY <2>2, <3>1 DEF Complete, IngestTyped
  <2>3. CASE UpsertPoints(d)
    <3>1. [ingest[d] EXCEPT !.pc = "upserted"] \in IngestRows
      BY DEF IngestTyped, IngestRows, Statuses
    <3> QED BY <2>3, <3>1 DEF UpsertPoints, IngestTyped
  <2>4. CASE ReplaceContent(d)
    <3>1. [ingest[d] EXCEPT !.pc = "stored"] \in IngestRows
      BY DEF IngestTyped, IngestRows, Statuses
    <3> QED BY <2>4, <3>1 DEF ReplaceContent, IngestTyped
  <2>5. CASE IngestionLeaseExpires(d)
    <3>1. [ingest[d] EXCEPT !.live = FALSE, !.pc = "none"] \in IngestRows
      BY DEF IngestTyped, IngestRows, Statuses
    <3> QED BY <2>5, <3>1 DEF IngestionLeaseExpires, IngestTyped
  <2>6. ASSUME ClaimIngestion(d) \/ FinishIngestion(d) \/ FailIngestion(d) PROVE IngestTyped'
    <3>1. PICK r \in IngestRows : ingest' = [ingest EXCEPT ![d] = r]
      BY <2>6 DEF ClaimIngestion, FinishIngestion, FailIngestion, IngestRows, Statuses
    <3> QED BY <3>1 DEF IngestTyped
  <2> QED
    BY <1>3, <2>1, <2>2, <2>3, <2>4, <2>5, <2>6, Zenon
    DEF Ingestion, Reserve, Put, OvertakenUpserts
<1>4. ASSUME NEW w \in Workers, MarkReady(w) PROVE IngestTyped'
  BY <1>2, <1>4 DEF MarkReady, IngestTyped
<1>5. CASE UNCHANGED ingest
  BY <1>5 DEF IngestTyped
<1> QED
  BY <1>1, <1>3, <1>4, <1>5
  DEF Next, Broker, Work, Crash, content, vars, RequestDeletion, RequestDeletionAgain, PublishEvent,
      DeletionLeaseExpires, Redeliver, Receive, ClaimDeletion, DeferDeletion, SkipDeletion,
      DeleteProjectPoints, DeleteObject, LoseLease, RemoteFails, RecordFailure, Retry

LEMMA JobStep == JobTyped /\ TaskTyped /\ [Next]_vars => JobTyped'
<1> SUFFICES ASSUME JobTyped, TaskTyped, [Next]_vars PROVE JobTyped'
  OBVIOUS
<1>1. ASSUME NEW j \in Jobs, RequestDeletion(j) PROVE JobTyped'
  <2>1. [job[j] EXCEPT !.status = "pending"] \in JobRows
    BY DEF JobTyped, JobRows, Statuses
  <2> QED BY <1>1, <2>1 DEF RequestDeletion, JobTyped
<1>2. ASSUME NEW j \in Jobs, DeletionLeaseExpires(j) PROVE JobTyped'
  <2>1. [job[j] EXCEPT !.live = FALSE] \in JobRows
    BY DEF JobTyped, JobRows, Statuses
  <2> QED BY <1>2, <2>1 DEF DeletionLeaseExpires, JobTyped
<1>3. ASSUME NEW w \in Workers, ClaimDeletion(w) PROVE JobTyped'
  <2>1. task[w].job \in Jobs
    BY <1>3 DEF ClaimDeletion, TaskTyped
  <2>2. [status |-> "running", owner |-> w, live |-> TRUE,
         attempts |-> job[task[w].job].attempts + 1] \in JobRows
    BY <2>1 DEF JobTyped, JobRows, Statuses
  <2> QED BY <1>3, <2>1, <2>2 DEF ClaimDeletion, JobTyped
<1>4. ASSUME NEW w \in Workers, MarkReady(w) PROVE JobTyped'
  <2>1. \A j \in Jobs : [job[j] EXCEPT !.status = "succeeded", !.owner = NoWorker, !.live = FALSE] \in JobRows
    BY DEF JobTyped, JobRows, Statuses
  <2> QED BY <1>4, <2>1 DEF MarkReady, JobTyped
<1>5. ASSUME NEW w \in Workers, RecordFailure(w) PROVE JobTyped'
  <2>1. task[w].job \in Jobs
    BY <1>5 DEF RecordFailure, TaskTyped
  <2>2. \A s \in {"pending", "failed"} :
          [job[task[w].job] EXCEPT !.status = s, !.owner = NoWorker, !.live = FALSE] \in JobRows
    BY <2>1 DEF JobTyped, JobRows, Statuses
  <2> QED BY <1>5, <2>1, <2>2 DEF RecordFailure, JobTyped
<1>6. CASE UNCHANGED job
  BY <1>6 DEF JobTyped
<1> QED
  BY <1>1, <1>2, <1>3, <1>4, <1>5, <1>6
  DEF Next, Broker, Work, Crash, Ingestion, vars, RequestDeletionAgain, PublishEvent, Redeliver, Receive,
      DeferDeletion, SkipDeletion, DeleteProjectPoints, DeleteObject, LoseLease, RemoteFails, Retry,
      Reserve, Put, Complete, ClaimIngestion, UpsertPoints, ReplaceContent, FinishIngestion, FailIngestion,
      IngestionLeaseExpires, OvertakenUpserts

LEMMA TaskStep == JobTyped /\ TaskTyped /\ [Next]_vars => TaskTyped'
<1> SUFFICES ASSUME JobTyped, TaskTyped, [Next]_vars PROVE TaskTyped'
  OBVIOUS
<1>1. ASSUME NEW w \in Workers, NEW t \in Tasks, t.pc # "idle" => t.job \in Jobs,
             task' = [task EXCEPT ![w] = t]
      PROVE  TaskTyped'
  BY <1>1 DEF TaskTyped
<1>2. Idle \in Tasks /\ Idle.pc = "idle"
  BY ProjectAssumption DEF Idle, Tasks
<1>3. ASSUME NEW w \in Workers, NEW pc \in {"claimed", "pointsGone", "failing", "retrying"},
             Moved(w, pc), task[w].pc # "idle"
      PROVE  TaskTyped'
  <2>1. [task[w] EXCEPT !.pc = pc] \in Tasks /\ [task[w] EXCEPT !.pc = pc].job = task[w].job
    BY DEF TaskTyped, Tasks
  <2>2. task[w].job \in Jobs /\ task' = [task EXCEPT ![w] = [task[w] EXCEPT !.pc = pc]]
    BY <1>3 DEF Moved, TaskTyped
  <2> QED BY <1>1, <2>1, <2>2
<1>4. ASSUME NEW w \in Workers, NEW m \in Messages, Receive(w, m[1], m[2]) PROVE TaskTyped'
  <2>1. m[1] \in Jobs /\ m[2] \in 0..MaxRetries
    BY DEF Messages
  <2> DEFINE t == [Idle EXCEPT !.pc = "received", !.job = m[1], !.tries = m[2]]
  <2>2. t \in Tasks /\ t.job = m[1]
    BY <1>2, <2>1 DEF Tasks, Idle
  <2> QED BY <1>1, <1>4, <2>1, <2>2 DEF Receive
<1>5. ASSUME NEW w \in Workers, ClaimDeletion(w) PROVE TaskTyped'
  <2> DEFINE t == [task[w] EXCEPT !.pc = "claimed", !.attempt = job[task[w].job].attempts + 1, !.keys = ObjectKeys]
  <2>1. task[w].job \in Jobs /\ ObjectKeys \in SUBSET Docs
    BY <1>5 DEF ClaimDeletion, TaskTyped, ObjectKeys
  <2>2. job[task[w].job].attempts + 1 \in Nat
    BY <2>1 DEF JobTyped, JobRows
  <2>3. t \in Tasks /\ t.job = task[w].job
    BY <2>1, <2>2 DEF TaskTyped, Tasks
  <2>4. task' = [task EXCEPT ![w] = t]
    BY <1>5 DEF ClaimDeletion, TaskTyped
  <2> QED BY <1>1, <2>1, <2>3, <2>4
<1>6. ASSUME NEW w \in Workers, NEW d \in Docs, DeleteObject(w, d) PROVE TaskTyped'
  <2> DEFINE t == [task[w] EXCEPT !.keys = task[w].keys \ {d}]
  <2>1. t \in Tasks /\ t.job = task[w].job
    BY DEF TaskTyped, Tasks
  <2>2. task[w].job \in Jobs /\ task' = [task EXCEPT ![w] = t]
    BY <1>6 DEF DeleteObject, TaskTyped
  <2> QED BY <1>1, <2>1, <2>2
<1>7. ASSUME NEW w \in Workers, RemoteFails(w) PROVE TaskTyped'
  <2>1. PICK r \in BOOLEAN : task' = [task EXCEPT ![w].pc = "failing", ![w].retryable = r]
    BY <1>7 DEF RemoteFails
  <2> DEFINE t == [task[w] EXCEPT !.pc = "failing", !.retryable = r]
  <2>2. t \in Tasks /\ t.job = task[w].job
    BY DEF TaskTyped, Tasks
  <2>3. task[w].job \in Jobs /\ task' = [task EXCEPT ![w] = t]
    BY <1>7, <2>1 DEF RemoteFails, TaskTyped
  <2> QED BY <1>1, <2>2, <2>3
<1>8. ASSUME NEW w \in Workers, RecordFailure(w) PROVE TaskTyped'
  <2>1. CASE task[w].retryable
    <3>1. Moved(w, "retrying")
      BY <1>8, <2>1 DEF RecordFailure, Moved, TaskTyped
    <3>2. task[w].pc # "idle"
      BY <1>8 DEF RecordFailure
    <3> QED BY <1>3, <3>1, <3>2
  <2>2. CASE ~task[w].retryable
    <3>1. task' = [task EXCEPT ![w] = Idle]
      BY <1>8, <2>2 DEF RecordFailure, TaskTyped
    <3> QED BY <1>1, <1>2, <3>1
  <2> QED BY <2>1, <2>2
<1>9. ASSUME NEW w \in Workers, task' = [task EXCEPT ![w] = Idle] PROVE TaskTyped'
  BY <1>1, <1>2, <1>9
<1>10. CASE UNCHANGED task
  BY <1>10 DEF TaskTyped
<1>11. ASSUME NEW w \in Workers, Work(w) \/ Crash(w) PROVE TaskTyped'
  <2>1. CASE DeferDeletion(w) \/ DeleteProjectPoints(w) \/ LoseLease(w)
    BY <1>3, <2>1 DEF DeferDeletion, DeleteProjectPoints, LoseLease
  <2>2. CASE SkipDeletion(w) \/ MarkReady(w) \/ Retry(w) \/ Crash(w)
    BY <1>9, <2>2 DEF SkipDeletion, MarkReady, Retry, Crash
  <2> QED BY <1>11, <1>4, <1>5, <1>6, <1>7, <1>8, <2>1, <2>2 DEF Work
<1> QED
  BY <1>10, <1>11
  DEF Next, Broker, Ingestion, vars, RequestDeletion, RequestDeletionAgain, PublishEvent, Redeliver,
      DeletionLeaseExpires, Reserve, Put, Complete, ClaimIngestion, UpsertPoints, ReplaceContent,
      FinishIngestion, FailIngestion, IngestionLeaseExpires, OvertakenUpserts

RowsTyped == IngestTyped /\ JobTyped /\ TaskTyped

LEMMA RowsInit == Init => RowsTyped
<1> SUFFICES ASSUME Init PROVE RowsTyped
  OBVIOUS
<1>1. NoIngestion \in IngestRows
  BY DEF NoIngestion, IngestRows, Statuses
<1>2. [status |-> "none", owner |-> NoWorker, live |-> FALSE, attempts |-> 0] \in JobRows
  BY DEF JobRows, Statuses
<1>3. Idle \in Tasks /\ Idle.pc = "idle"
  BY ProjectAssumption DEF Idle, Tasks
<1> QED BY <1>1, <1>2, <1>3 DEF Init, RowsTyped, IngestTyped, JobTyped, TaskTyped

LEMMA RowsStep == RowsTyped /\ [Next]_vars => RowsTyped'
  BY IngestStep, JobStep, TaskStep, SMTT(40) DEF RowsTyped

-----------------------------------------------------------------------------
(* The deletion and the ingestions exclude each other: a job row exists    *)
(* only once the project is inactive, and then no ingestion gets a lease.  *)

\* No step gives an ingestion of an inactive project a lease.
LEMMA LeasesEnd == IngestTyped /\ [Next]_vars /\ project # "active" /\ LiveIngestion' => LiveIngestion
<1> SUFFICES ASSUME IngestTyped, [Next]_vars, project # "active", LiveIngestion' PROVE LiveIngestion
  OBVIOUS
<1>0. PICK e \in Docs : ingest'[e].status = "running" /\ ingest'[e].live
  BY DEF LiveIngestion, Running
<1> SUFFICES ingest[e].status = "running" /\ ingest[e].live
  BY DEF LiveIngestion, Running
<1>1. CASE StopIngestions
  BY <1>0, <1>1 DEF StopIngestions, Stopped, Running, IngestTyped, IngestRows
<1>2. ASSUME NEW d \in Docs, Ingestion(d) PROVE ingest[e].status = "running" /\ ingest[e].live
  <2>1. CASE UNCHANGED ingest
    BY <1>0, <2>1
  <2>2. CASE Complete(d)
    BY <1>0, <2>2 DEF Complete, IngestTyped, IngestRows
  <2>3. CASE UpsertPoints(d) \/ ReplaceContent(d) \/ IngestionLeaseExpires(d)
    BY <1>0, <2>3 DEF UpsertPoints, ReplaceContent, IngestionLeaseExpires, IngestTyped, IngestRows
  <2>4. CASE FinishIngestion(d) \/ FailIngestion(d)
    BY <1>0, <2>4 DEF FinishIngestion, FailIngestion, IngestTyped, IngestRows
  <2> QED
    BY <1>2, <2>1, <2>2, <2>3, <2>4, Zenon
    DEF Ingestion, Reserve, Put, ClaimIngestion, OvertakenUpserts
<1>3. ASSUME NEW w \in Workers, MarkReady(w) PROVE ingest[e].status = "running" /\ ingest[e].live
  BY <1>0, <1>3 DEF MarkReady, NoIngestion
<1>4. CASE UNCHANGED ingest
  BY <1>0, <1>4
<1> QED
  BY <1>1, <1>2, <1>3, <1>4
  DEF Next, Broker, Work, Crash, content, vars, RequestDeletion, RequestDeletionAgain, PublishEvent,
      DeletionLeaseExpires, Redeliver, Receive, ClaimDeletion, DeferDeletion, SkipDeletion,
      DeleteProjectPoints, DeleteObject, LoseLease, RemoteFails, RecordFailure, Retry

RowsMeanDeleting == \A j \in Jobs : job[j].status # "none" => project # "active"
RunningExcludes == \A j \in Jobs : job[j].status = "running" => ~LiveIngestion

\* An owner is a running job's.
OwnedIsRunning == \A j \in Jobs : job[j].owner # NoWorker \/ job[j].live => job[j].status = "running"

\* A process that works on an ingestion has its lease, or is overtaken.
WorkIsLeased == \A d \in Docs : ingest[d].pc # "none" => Running(d) /\ ingest[d].live
GoneRunsNothing == project = "gone" => ~LiveIngestion

\* A worker with a message of j, before its claim or about to publish it
\* again, and after its claim.
Waits(w, j) == task[w].job = j /\ task[w].pc \in {"received", "retrying"}
Works(w, j) == task[w].job = j /\ task[w].pc \in {"claimed", "pointsGone", "failing"}

\* How one step may change the row of a deletion job.
Requested(j) ==
  /\ job[j].status = "none" /\ job'[j] = [job[j] EXCEPT !.status = "pending"]
  /\ project # "gone" /\ project' = "deleting"
Taken(j) ==
  /\ job[j].status \in {"pending", "running"} /\ project = "deleting" /\ ~LiveIngestion
  /\ job'[j].status = "running" /\ job'[j].live
  /\ \E w \in Workers : ClaimDeletion(w) /\ task[w].job = j /\ job'[j].owner = w
Ends(j) ==
  /\ job[j].owner # NoWorker
  /\ job'[j].status \in {"pending", "failed"} \/ (job'[j].status = "succeeded" /\ project' = "gone")
  /\ job'[j].owner = NoWorker /\ ~job'[j].live
  /\ job'[j].status = "pending" => \E w \in Workers : Waits(w, j)'
Kept(j) ==
  /\ job'[j].status = job[j].status /\ job'[j].owner = job[j].owner
  /\ job'[j].live => job[j].live

LEMMA JobChanges ==
  ASSUME RowsTyped, [Next]_vars, NEW j \in Jobs
  PROVE  Requested(j) \/ Taken(j) \/ Ends(j) \/ Kept(j)
<1> USE DEF RowsTyped
<1>1. ASSUME NEW i \in Jobs, RequestDeletion(i) PROVE Requested(j) \/ Kept(j)
  BY <1>1 DEF RequestDeletion, Fresh, Rows, Requested, Kept, JobTyped, JobRows
<1>2. ASSUME NEW i \in Jobs, DeletionLeaseExpires(i) PROVE Kept(j)
  BY <1>2 DEF DeletionLeaseExpires, Kept, JobTyped, JobRows
<1>3. ASSUME NEW w \in Workers, ClaimDeletion(w) PROVE Taken(j) \/ Kept(j)
  <2>1. CASE j = task[w].job
    BY <1>3, <2>1 DEF ClaimDeletion, Claimable, Taken, JobTyped
  <2>2. CASE j # task[w].job
    BY <1>3, <2>2 DEF ClaimDeletion, Kept, JobTyped
  <2> QED BY <2>1, <2>2
<1>4. ASSUME NEW w \in Workers, MarkReady(w) PROVE Ends(j) \/ Kept(j)
  <2>1. CASE j = task[w].job
    BY <1>4, <2>1, ProjectAssumption, ZenonT(60) DEF MarkReady, HoldsLease, Ends, JobTyped, JobRows
  <2>2. CASE j # task[w].job
    BY <1>4, <2>2 DEF MarkReady, Kept, JobTyped
  <2> QED BY <2>1, <2>2
<1>5. ASSUME NEW w \in Workers, RecordFailure(w) PROVE Ends(j) \/ Kept(j)
  <2>1. CASE j = task[w].job /\ job[j].owner = w
    <3>1. /\ job[j].owner # NoWorker
          /\ job'[j].status = IF task[w].retryable /\ task[w].attempt < MaxAttempts THEN "pending" ELSE "failed"
          /\ job'[j].owner = NoWorker /\ ~job'[j].live
      BY <1>5, <2>1, ProjectAssumption DEF RecordFailure, JobTyped, JobRows
    <3>2. task[w].retryable => Waits(w, j)'
      BY <1>5, <2>1 DEF RecordFailure, Waits, TaskTyped, Tasks
    <3> QED BY <3>1, <3>2 DEF Ends
  <2>2. CASE j # task[w].job \/ job[j].owner # w
    BY <1>5, <2>2 DEF RecordFailure, Kept, JobTyped
  <2> QED BY <2>1, <2>2
<1>6. CASE UNCHANGED job
  BY <1>6 DEF Kept
<1> QED
  BY <1>1, <1>2, <1>3, <1>4, <1>5, <1>6
  DEF Next, Broker, Work, Crash, Ingestion, vars, RequestDeletionAgain, PublishEvent, Redeliver, Receive,
      DeferDeletion, SkipDeletion, DeleteProjectPoints, DeleteObject, LoseLease, RemoteFails, Retry,
      Reserve, Put, Complete, ClaimIngestion, UpsertPoints, ReplaceContent, FinishIngestion, FailIngestion,
      IngestionLeaseExpires, OvertakenUpserts

\* The project only goes forward.
LEMMA ProjectSteps ==
  ASSUME [Next]_vars
  PROVE  \/ UNCHANGED project
         \/ project # "gone" /\ project' = "deleting" /\ \E j \in Jobs : RequestDeletion(j)
         \/ project = "deleting" /\ project' = "gone" /\ \E w \in Workers : MarkReady(w)
<1>1. ASSUME NEW j \in Jobs, RequestDeletion(j) PROVE project # "gone" /\ project' = "deleting"
  BY <1>1 DEF RequestDeletion
<1>2. ASSUME NEW w \in Workers, MarkReady(w) PROVE project = "deleting" /\ project' = "gone"
  BY <1>2 DEF MarkReady
<1> QED
  BY <1>1, <1>2, ZenonT(60)
  DEF Next, Broker, Work, Crash, Ingestion, vars, RequestDeletionAgain, PublishEvent, Redeliver, Receive,
      DeletionLeaseExpires, ClaimDeletion, RecordFailure,
      DeferDeletion, SkipDeletion, DeleteProjectPoints, DeleteObject, LoseLease, RemoteFails, Retry,
      Reserve, Put, Complete, ClaimIngestion, UpsertPoints, ReplaceContent, FinishIngestion, FailIngestion,
      IngestionLeaseExpires, OvertakenUpserts

ExclusionInv ==
  RowsTyped /\ RowsMeanDeleting /\ RunningExcludes /\ OwnedIsRunning /\ WorkIsLeased /\ GoneRunsNothing

LEMMA ExclusionInit == Init => ExclusionInv
<1> SUFFICES ASSUME Init PROVE ExclusionInv
  OBVIOUS
<1>1. RowsTyped
  BY RowsInit
<1>2. RowsMeanDeleting /\ RunningExcludes /\ OwnedIsRunning /\ WorkIsLeased /\ GoneRunsNothing
  BY DEF Init, RowsMeanDeleting, RunningExcludes, OwnedIsRunning, WorkIsLeased, GoneRunsNothing, NoIngestion
<1> QED BY <1>1, <1>2 DEF ExclusionInv

\* Leases and processes of ingestions go together.
LEMMA WorkStep == IngestTyped /\ WorkIsLeased /\ [Next]_vars => WorkIsLeased'
<1> SUFFICES ASSUME IngestTyped, WorkIsLeased, [Next]_vars, NEW e \in Docs, ingest'[e].pc # "none"
             PROVE  ingest'[e].status = "running" /\ ingest'[e].live
  BY DEF WorkIsLeased, Running
<1>0. ingest[e].pc # "none" => ingest[e].status = "running" /\ ingest[e].live
  BY DEF WorkIsLeased, Running
<1>1. CASE StopIngestions
  BY <1>0, <1>1 DEF StopIngestions, Stopped, Running, IngestTyped, IngestRows
<1>2. ASSUME NEW d \in Docs, Ingestion(d) PROVE ingest'[e].status = "running" /\ ingest'[e].live
  <2>1. CASE UNCHANGED ingest
    BY <1>0, <2>1
  <2>2. CASE Complete(d)
    BY <1>0, <2>2 DEF Complete, IngestTyped, IngestRows
  <2>3. CASE UpsertPoints(d) \/ ReplaceContent(d) \/ IngestionLeaseExpires(d)
    BY <1>0, <2>3 DEF UpsertPoints, ReplaceContent, IngestionLeaseExpires, IngestTyped, IngestRows
  <2>4. CASE FinishIngestion(d) \/ FailIngestion(d) \/ ClaimIngestion(d)
    BY <1>0, <2>4 DEF FinishIngestion, FailIngestion, ClaimIngestion, IngestTyped, IngestRows
  <2> QED
    BY <1>2, <2>1, <2>2, <2>3, <2>4, Zenon DEF Ingestion, Reserve, Put, OvertakenUpserts
<1>3. ASSUME NEW w \in Workers, MarkReady(w) PROVE ingest'[e].status = "running" /\ ingest'[e].live
  BY <1>3 DEF MarkReady, NoIngestion
<1>4. CASE UNCHANGED ingest
  BY <1>0, <1>4
<1> QED
  BY <1>1, <1>2, <1>3, <1>4, ZenonT(60)
  DEF Next, Broker, Work, Crash, content, vars, RequestDeletion, RequestDeletionAgain, PublishEvent,
      DeletionLeaseExpires, Redeliver, Receive, ClaimDeletion, DeferDeletion, SkipDeletion,
      DeleteProjectPoints, DeleteObject, LoseLease, RemoteFails, RecordFailure, Retry

LEMMA ExclusionStep == ExclusionInv /\ [Next]_vars => ExclusionInv'
<1> SUFFICES ASSUME ExclusionInv, [Next]_vars PROVE ExclusionInv'
  OBVIOUS
<1> USE DEF ExclusionInv
<1>1. RowsTyped'
  BY RowsStep
<1>2. RowsMeanDeleting'
  <2> SUFFICES ASSUME NEW j \in Jobs, job'[j].status # "none" PROVE project' # "active"
    BY DEF RowsMeanDeleting
  <2>1. Requested(j) => project' = "deleting"
    BY DEF Requested
  <2>2. Taken(j) \/ Ends(j) \/ Kept(j) => project # "active"
    BY ProjectAssumption DEF Taken, Ends, Kept, RowsMeanDeleting, OwnedIsRunning
  <2>3. project # "active" => project' # "active"
    BY ProjectSteps
  <2> QED BY <2>1, <2>2, <2>3, JobChanges
<1>3. RunningExcludes'
  <2> SUFFICES ASSUME NEW j \in Jobs, job'[j].status = "running" PROVE ~LiveIngestion'
    BY DEF RunningExcludes
  <2>1. ~Requested(j) /\ ~Ends(j)
    BY DEF Requested, Ends, RowsTyped, JobTyped, JobRows
  <2>2. Taken(j) \/ Kept(j) => project # "active" /\ ~LiveIngestion
    BY DEF Taken, Kept, RowsMeanDeleting, RunningExcludes
  <2> QED BY <2>1, <2>2, JobChanges, LeasesEnd DEF RowsTyped
<1>4. OwnedIsRunning'
  <2> SUFFICES ASSUME NEW j \in Jobs, job'[j].owner # NoWorker \/ job'[j].live
               PROVE  job'[j].status = "running"
    BY DEF OwnedIsRunning
  <2>1. ~Requested(j)
    BY DEF Requested, OwnedIsRunning, RowsTyped, JobTyped, JobRows
  <2>2. Taken(j) \/ Ends(j) \/ Kept(j) => job'[j].status = "running"
    BY DEF Taken, Ends, Kept, OwnedIsRunning
  <2> QED BY <2>1, <2>2, JobChanges
<1>5. WorkIsLeased'
  BY WorkStep DEF RowsTyped
<1>6. GoneRunsNothing'
  <2> SUFFICES ASSUME project' = "gone" PROVE ~LiveIngestion'
    BY DEF GoneRunsNothing
  <2>1. CASE \E w \in Workers : MarkReady(w)
    <3>1. ingest' = [d \in Docs |-> NoIngestion]
      BY <2>1, Zenon DEF MarkReady
    <3>2. \A d \in Docs : ingest'[d].status = "none"
      BY <3>1 DEF NoIngestion
    <3> QED BY <3>2 DEF LiveIngestion, Running
  <2>2. CASE project = "gone"
    BY <2>2, LeasesEnd DEF GoneRunsNothing, RowsTyped
  <2> QED BY <2>1, <2>2, ProjectSteps
<1> QED BY <1>1, <1>2, <1>3, <1>4, <1>5, <1>6

LEMMA ExclusionInvariant == Spec => []ExclusionInv
<1>1. ExclusionInv /\ [Next]_vars => ExclusionInv'
  BY ExclusionStep
<1> QED BY ExclusionInit, <1>1, PTL DEF Spec

\* While a worker removes artifacts under its lease, no ingestion of the
\* project holds one: claims look at both, and nothing is claimed later.
THEOREM ExclusionHolds == Spec => []CleanupExcludesIngestion
<1>1. ExclusionInv => CleanupExcludesIngestion
  <2> SUFFICES ASSUME ExclusionInv, NEW w \in Workers, task[w].pc \in {"claimed", "pointsGone"},
                      HoldsLease(task[w].job, w)
               PROVE  ~LiveIngestion
    BY DEF CleanupExcludesIngestion
  <2>1. task[w].job \in Jobs
    BY DEF ExclusionInv, RowsTyped, TaskTyped
  <2> QED BY <2>1 DEF ExclusionInv, RunningExcludes, HoldsLease
<1> QED BY <1>1, ExclusionInvariant, PTL

\* From then on only overtaken processes put points back, for ever.
THEOREM PointsStayAway == Spec => OnlyOvertakenWorkersPutPointsBack
<1> DEFINE Emptied == project = "gone" \/ \E w \in Workers : task[w].pc = "pointsGone" /\ HoldsLease(task[w].job, w)
<1>1. ExclusionInv /\ [Next]_vars => (Emptied => vectors' \subseteq vectors \cup overtaken)
  <2> SUFFICES ASSUME ExclusionInv, [Next]_vars, Emptied PROVE vectors' \subseteq vectors \cup overtaken
    OBVIOUS
  <2>1. ~LiveIngestion
    <3>1. CASE project = "gone"
      BY <3>1 DEF ExclusionInv, GoneRunsNothing
    <3>2. ASSUME NEW w \in Workers, task[w].pc = "pointsGone", HoldsLease(task[w].job, w) PROVE ~LiveIngestion
      <4>1. task[w].job \in Jobs
        BY <3>2 DEF ExclusionInv, RowsTyped, TaskTyped
      <4> QED BY <3>2, <4>1 DEF ExclusionInv, RunningExcludes, HoldsLease
    <3> QED BY <3>1, <3>2
  <2>2. \A d \in Docs : ingest[d].pc = "none"
    BY <2>1 DEF ExclusionInv, WorkIsLeased, LiveIngestion
  <2>3. ASSUME NEW d \in Docs, Ingestion(d) PROVE vectors' \subseteq vectors \cup overtaken
    BY <2>2, <2>3
    DEF Ingestion, Reserve, Put, Complete, ClaimIngestion, UpsertPoints, ReplaceContent, FinishIngestion,
        FailIngestion, IngestionLeaseExpires, OvertakenUpserts
  <2>4. ASSUME NEW w \in Workers, DeleteProjectPoints(w) PROVE vectors' \subseteq vectors \cup overtaken
    BY <2>4 DEF DeleteProjectPoints
  <2>5. CASE UNCHANGED vectors
    BY <2>5
  <2> QED
    BY <2>3, <2>4, <2>5
    DEF Next, Broker, Work, Crash, content, vars, RequestDeletion, RequestDeletionAgain, PublishEvent,
        DeletionLeaseExpires, Redeliver, Receive, ClaimDeletion, DeferDeletion, SkipDeletion, MarkReady,
        DeleteObject, LoseLease, RemoteFails, RecordFailure, Retry
<1>2. ExclusionInv /\ [Next]_vars => [Emptied => vectors' \subseteq vectors \cup overtaken]_vars
  BY <1>1
<1> QED BY <1>2, ExclusionInvariant, PTL DEF Spec, OnlyOvertakenWorkersPutPointsBack

-----------------------------------------------------------------------------
(* Types of what is left.                                                  *)

ContentTyped ==
  /\ project \in {"active", "deleting", "gone"}
  /\ doc \in [Docs -> {"absent", "uploaded", "processing", "ready", "failed"}]
  /\ object \in [Docs -> {"none", "stored", "late"}]
  /\ vectors \subseteq Docs /\ overtaken \subseteq Docs
  /\ faults \in 0..MaxFaults
BrokerTyped ==
  /\ outbox \in [Jobs -> [events : 0..MaxEvents, unsent : BOOLEAN]]
  /\ queue \in [Messages -> Nat] /\ lost \in [Messages -> Nat]
  /\ gaveUp \subseteq Jobs

LEMMA ContentStep == ContentTyped /\ TaskTyped /\ [Next]_vars => ContentTyped'
<1> SUFFICES ASSUME ContentTyped, TaskTyped, [Next]_vars PROVE ContentTyped'
  OBVIOUS
<1>1. project' \in {"active", "deleting", "gone"}
  BY ProjectSteps DEF ContentTyped
<1>2. ASSUME NEW d \in Docs, Ingestion(d) PROVE ContentTyped'
  BY <1>1, <1>2, ProjectAssumption
  DEF ContentTyped, Ingestion, Reserve, Put, Complete, ClaimIngestion, UpsertPoints, ReplaceContent,
      FinishIngestion, FailIngestion, IngestionLeaseExpires, OvertakenUpserts
<1>3. ASSUME NEW j \in Jobs, RequestDeletion(j) \/ RequestDeletionAgain(j) \/ PublishEvent(j)
      PROVE  ContentTyped'
  BY <1>1, <1>3 DEF ContentTyped, RequestDeletion, RequestDeletionAgain, PublishEvent, content
<1>4. ASSUME NEW j \in Jobs, DeletionLeaseExpires(j) PROVE ContentTyped'
  BY <1>1, <1>4, ProjectAssumption DEF ContentTyped, DeletionLeaseExpires, content
<1>5. ASSUME NEW w \in Workers, Crash(w) PROVE ContentTyped'
  BY <1>1, <1>5, ProjectAssumption DEF ContentTyped, Crash, content
<1>6. ASSUME NEW w \in Workers, MarkReady(w) PROVE ContentTyped'
  <2>1. /\ doc' = [d \in Docs |-> "absent"]
        /\ overtaken' = overtaken \cup {d \in Docs : ingest[d].pc # "none"}
        /\ UNCHANGED <<object, vectors, faults>>
    BY <1>6, Zenon DEF MarkReady
  <2> QED BY <1>1, <2>1 DEF ContentTyped
<1>7. ASSUME NEW w \in Workers, NEW d \in Docs, DeleteObject(w, d) PROVE ContentTyped'
  BY <1>1, <1>7 DEF ContentTyped, DeleteObject
<1>8. ASSUME NEW w \in Workers, DeleteProjectPoints(w) PROVE ContentTyped'
  BY <1>1, <1>8 DEF ContentTyped, DeleteProjectPoints
<1>9. CASE UNCHANGED <<doc, object, vectors, overtaken, faults>>
  BY <1>1, <1>9 DEF ContentTyped
<1> QED
  BY <1>2, <1>3, <1>4, <1>5, <1>6, <1>7, <1>8, <1>9, ZenonT(60)
  DEF Next, Broker, Work, content, vars, Redeliver, Receive, ClaimDeletion, DeferDeletion, SkipDeletion,
      LoseLease, RemoteFails, RecordFailure, Retry

\* One message more or less of some kind.
LEMMA MessageCounts ==
  ASSUME NEW count \in [Messages -> Nat], NEW m \in Messages
  PROVE  /\ [count EXCEPT ![m] = @ + 1] \in [Messages -> Nat]
         /\ count[m] > 0 => [count EXCEPT ![m] = @ - 1] \in [Messages -> Nat]
  OBVIOUS

LEMMA BrokerStep == BrokerTyped /\ TaskTyped /\ [Next]_vars => BrokerTyped'
<1> SUFFICES ASSUME BrokerTyped, TaskTyped, [Next]_vars PROVE BrokerTyped'
  OBVIOUS
<1> USE DEF BrokerTyped
<1>1. ASSUME NEW j \in Jobs, RequestDeletion(j) \/ RequestDeletionAgain(j) PROVE BrokerTyped'
  <2>1. outbox[j].events < MaxEvents => [events |-> outbox[j].events + 1, unsent |-> TRUE] \in [events : 0..MaxEvents, unsent : BOOLEAN]
    BY ProjectAssumption
  <2>2. Enqueue(j) \in [Jobs -> [events : 0..MaxEvents, unsent : BOOLEAN]]
    BY <2>1, ProjectAssumption DEF Enqueue
  <2> QED BY <1>1, <2>2 DEF RequestDeletion, RequestDeletionAgain, broker
<1>2. ASSUME NEW j \in Jobs, PublishEvent(j) PROVE BrokerTyped'
  <2>1. [outbox[j] EXCEPT !.unsent = FALSE] \in [events : 0..MaxEvents, unsent : BOOLEAN]
    OBVIOUS
  <2>2. outbox' \in [Jobs -> [events : 0..MaxEvents, unsent : BOOLEAN]]
    BY <1>2, <2>1 DEF PublishEvent
  <2>3. <<j, 0>> \in Messages
    BY ProjectAssumption DEF Messages
  <2> QED BY <1>2, <2>2, <2>3, MessageCounts DEF PublishEvent
<1>3. ASSUME NEW m \in Messages, Redeliver(m[1], m[2]) PROVE BrokerTyped'
  <2>1. m = <<m[1], m[2]>>
    BY DEF Messages
  <2> QED BY <1>3, <2>1, MessageCounts DEF Redeliver
<1>4. ASSUME NEW w \in Workers, NEW m \in Messages, Receive(w, m[1], m[2]) PROVE BrokerTyped'
  <2>1. m = <<m[1], m[2]>>
    BY DEF Messages
  <2> QED BY <1>4, <2>1, MessageCounts DEF Receive
<1>5. ASSUME NEW w \in Workers, Crash(w) PROVE BrokerTyped'
  <2>1. <<task[w].job, task[w].tries>> \in Messages
    BY <1>5 DEF Crash, TaskTyped, Tasks, Messages
  <2> QED BY <1>5, <2>1, MessageCounts DEF Crash
<1>6. ASSUME NEW w \in Workers, Retry(w) PROVE BrokerTyped'
  <2>1. task[w].job \in Jobs /\ task[w].tries \in 0..MaxRetries
    BY <1>6 DEF Retry, TaskTyped, Tasks
  <2>2. task[w].tries < MaxRetries => <<task[w].job, task[w].tries + 1>> \in Messages
    BY <2>1, ProjectAssumption DEF Messages
  <2> QED BY <1>6, <2>1, <2>2, MessageCounts DEF Retry
<1>7. CASE UNCHANGED <<broker, gaveUp>>
  BY <1>7 DEF broker
<1> QED
  BY <1>1, <1>2, <1>3, <1>4, <1>5, <1>6, <1>7
  DEF Next, Broker, Work, Ingestion, vars, DeletionLeaseExpires, ClaimDeletion, DeferDeletion, SkipDeletion,
      DeleteProjectPoints, DeleteObject, MarkReady, LoseLease, RemoteFails, RecordFailure,
      Reserve, Put, Complete, ClaimIngestion, UpsertPoints, ReplaceContent, FinishIngestion, FailIngestion,
      IngestionLeaseExpires, OvertakenUpserts

LEMMA TypesAreTypeOK == RowsTyped /\ ContentTyped /\ BrokerTyped => TypeOK
  BY DEF RowsTyped, ContentTyped, BrokerTyped, TypeOK, IngestTyped, JobTyped, TaskTyped,
         IngestRows, JobRows, Tasks, Statuses

-----------------------------------------------------------------------------
(* One deletion at a time: every job but the latest has failed.            *)

OnlyTheLatest ==
  \A i, j \in Jobs : i < j /\ job[j].status # "none" => job[i].status = "failed"
DeletingIsAsked == project = "deleting" => \E j \in Jobs : Latest(j) /\ job[j].status # "succeeded"
GoneIsEnded == project = "gone" => \A j \in Jobs : ~Unended(j)

OneDeletion == OnlyTheLatest /\ DeletingIsAsked /\ GoneIsEnded

\* A new row comes after all others, which have failed.
LEMMA RequestedIsNew ==
  ASSUME ExclusionInv, OneDeletion, [Next]_vars, NEW j \in Jobs, Requested(j)
  PROVE  /\ RequestDeletion(j)
         /\ \A i \in Jobs : i # j => job'[i] = job[i]
         /\ \A i \in Jobs : i < j => job[i].status = "failed"
         /\ \A i \in Jobs : i > j => job[i].status = "none"
<1>1. RequestDeletion(j)
  <2>1. job[j].status = "none" /\ job'[j].status = "pending"
    BY DEF Requested, ExclusionInv, RowsTyped, JobTyped, JobRows
  <2>2. ASSUME NEW i \in Jobs, RequestDeletion(i) PROVE i = j
    BY <2>1, <2>2 DEF RequestDeletion, ExclusionInv, RowsTyped, JobTyped
  <2>3. ASSUME NEW i \in Jobs, DeletionLeaseExpires(i) PROVE FALSE
    BY <2>1, <2>3 DEF DeletionLeaseExpires, ExclusionInv, RowsTyped, JobTyped, JobRows
  <2>4. ASSUME NEW w \in Workers, ClaimDeletion(w) PROVE FALSE
    BY <2>1, <2>4 DEF ClaimDeletion, Claimable, ExclusionInv, RowsTyped, JobTyped
  <2>5. ASSUME NEW w \in Workers, MarkReady(w) PROVE FALSE
    BY <2>5 DEF MarkReady, Requested
  <2>6. ASSUME NEW w \in Workers, RecordFailure(w) PROVE FALSE
    <3>1. job[j].owner # w
      BY <2>1, ProjectAssumption DEF ExclusionInv, OwnedIsRunning
    <3>2. job'[j] = job[j]
      BY <2>6, <3>1 DEF RecordFailure, ExclusionInv, RowsTyped, JobTyped
    <3> QED BY <2>1, <3>2
  <2>7. CASE UNCHANGED job
    BY <2>1, <2>7
  <2> QED
    BY <2>2, <2>3, <2>4, <2>5, <2>6, <2>7
    DEF Next, Broker, Work, Crash, Ingestion, vars, RequestDeletionAgain, PublishEvent, Redeliver, Receive,
        DeferDeletion, SkipDeletion, DeleteProjectPoints, DeleteObject, LoseLease, RemoteFails, Retry,
        Reserve, Put, Complete, ClaimIngestion, UpsertPoints, ReplaceContent, FinishIngestion, FailIngestion,
        IngestionLeaseExpires, OvertakenUpserts
<1>2. \A i \in Jobs : i # j => job'[i] = job[i]
  BY <1>1 DEF RequestDeletion, ExclusionInv, RowsTyped, JobTyped
<1>3. ASSUME NEW i \in Jobs, i > j PROVE job[i].status = "none"
  <2>1. job[i].status # "none" => job[j].status = "failed"
    BY <1>3 DEF OneDeletion, OnlyTheLatest
  <2> QED BY <2>1 DEF Requested
<1>4. ASSUME NEW i \in Jobs, i < j PROVE job[i].status = "failed"
  <2>1. job[i].status # "none"
    BY <1>1, <1>4 DEF RequestDeletion, Fresh, Rows
  <2>2. project # "active"
    BY <2>1 DEF ExclusionInv, RowsMeanDeleting
  <2>3. PICK k \in Jobs : Latest(k) /\ job[k].status = "failed"
    BY <1>1, <2>2 DEF RequestDeletion
  <2>4. i <= k
    BY <2>1, <2>3 DEF Latest, Rows
  <2>5. CASE i = k
    BY <2>3, <2>5
  <2>6. CASE i < k
    BY <2>3, <2>6 DEF OneDeletion, OnlyTheLatest
  <2> QED BY <2>4, <2>5, <2>6 DEF Jobs
<1> QED BY <1>1, <1>2, <1>3, <1>4

LEMMA OneDeletionStep == ExclusionInv /\ OneDeletion /\ [Next]_vars => OneDeletion'
<1> SUFFICES ASSUME ExclusionInv, OneDeletion, [Next]_vars PROVE OneDeletion'
  OBVIOUS
<1>t. RowsTyped
  BY DEF ExclusionInv
<1>0. \A j \in Jobs : ~Requested(j) => Taken(j) \/ Ends(j) \/ Kept(j)
  BY <1>t, JobChanges
<1>1. ASSUME NEW j \in Jobs, Taken(j) \/ Ends(j) \/ Kept(j)
      PROVE  /\ job[j].status = "failed" <=> job'[j].status = "failed" /\ ~Unended(j)
             /\ job[j].status = "none" <=> job'[j].status = "none"
  BY <1>1, ProjectAssumption DEF Taken, Ends, Kept, ExclusionInv, OwnedIsRunning, Unended
<1>2. ASSUME NEW j \in Jobs, Requested(j) PROVE OneDeletion'
  <2>1. /\ \A i \in Jobs : i # j => job'[i] = job[i]
        /\ \A i \in Jobs : i < j => job[i].status = "failed"
        /\ \A i \in Jobs : i > j => job[i].status = "none"
    BY <1>2, RequestedIsNew
  <2>2. job'[j].status = "pending" /\ project' = "deleting"
    BY <1>2, <1>t DEF Requested, RowsTyped, JobTyped, JobRows
  <2>3. OnlyTheLatest'
    <3> SUFFICES ASSUME NEW i \in Jobs, NEW k \in Jobs, i < k, job'[k].status # "none"
                 PROVE  job'[i].status = "failed"
      BY DEF OnlyTheLatest
    <3>1. k <= j
      BY <2>1 DEF Jobs
    <3>2. i < j
      BY <3>1 DEF Jobs
    <3> QED BY <2>1, <3>2 DEF Jobs
  <2>4. DeletingIsAsked'
    <3>1. \A i \in Jobs : job'[i].status # "none" => i <= j
      BY <2>1 DEF Jobs
    <3> QED BY <2>2, <3>1 DEF DeletingIsAsked, Latest, Rows
  <2> QED BY <2>2, <2>3, <2>4 DEF OneDeletion, GoneIsEnded
<1>3. ASSUME \A j \in Jobs : ~Requested(j) PROVE OneDeletion'
  <2>1. \A j \in Jobs : job[j].status = "none" <=> job'[j].status = "none"
    BY <1>0, <1>1, <1>3
  <2>2. \A j \in Jobs : job[j].status = "failed" => job'[j].status = "failed"
    BY <1>0, <1>1, <1>3
  <2>3. OnlyTheLatest'
    BY <2>1, <2>2 DEF OneDeletion, OnlyTheLatest
  <2>4. DeletingIsAsked'
    <3> SUFFICES ASSUME project' = "deleting" PROVE \E j \in Jobs : Latest(j)' /\ job'[j].status # "succeeded"
      BY DEF DeletingIsAsked
    <3>1. project = "deleting"
      <4>1. ASSUME NEW j \in Jobs, RequestDeletion(j) PROVE Requested(j)
        BY <4>1, <1>t DEF RequestDeletion, Fresh, Rows, Requested, RowsTyped, JobTyped, JobRows
      <4> QED BY <1>3, <4>1, ProjectSteps
    <3>2. PICK j \in Jobs : Latest(j) /\ job[j].status # "succeeded"
      BY <3>1 DEF OneDeletion, DeletingIsAsked
    <3>3. Latest(j)'
      BY <2>1, <3>2 DEF Latest, Rows
    <3>4. job'[j].status # "succeeded"
      BY <1>0, <1>3, <3>2 DEF Taken, Ends, Kept
    <3> QED BY <3>3, <3>4
  <2>5. GoneIsEnded'
    <3> SUFFICES ASSUME project' = "gone", NEW j \in Jobs PROVE ~Unended(j)'
      BY DEF GoneIsEnded
    <3>1. CASE project = "gone"
      BY <1>0, <1>3, <3>1, ProjectAssumption
      DEF OneDeletion, GoneIsEnded, Unended, Taken, Ends, Kept, ExclusionInv, OwnedIsRunning
    <3>2. ASSUME NEW w \in Workers, MarkReady(w) PROVE ~Unended(j)'
      <4> DEFINE k == task[w].job
      <4>1. k \in Jobs /\ job[k].status = "running" /\ job'[k].status = "succeeded"
        BY <3>2, <1>t DEF MarkReady, HoldsLease, RowsTyped, TaskTyped, JobTyped, JobRows
      <4>2. j # k => job'[j] = job[j]
        BY <3>2 DEF MarkReady
      <4>3. j # k => ~Unended(j)
        BY <4>1 DEF OneDeletion, OnlyTheLatest, Unended, Jobs
      <4> QED BY <4>1, <4>2, <4>3 DEF Unended
    <3> QED BY <3>1, <3>2, ProjectSteps
  <2> QED BY <2>3, <2>4, <2>5 DEF OneDeletion
<1> QED BY <1>2, <1>3

-----------------------------------------------------------------------------
(* No object is left: whoever took the keys took those of all rows, and no *)
(* row is added afterwards.                                                *)

Removing(w) == task[w].pc \in {"claimed", "pointsGone"}
RemovingIsAsked == \A w \in Workers : Removing(w) => project # "active"
StoredHasRow == project # "gone" => \A d \in Docs : object[d] # "none" => doc[d] # "absent"
KeysCover ==
  project = "deleting" =>
    \A w \in Workers, d \in Docs : Removing(w) /\ object[d] = "stored" => d \in task[w].keys

ObjectInv == ContentTyped /\ RemovingIsAsked /\ StoredHasRow /\ KeysCover /\ GoneLeavesNoObjects

\* A worker becomes one that removes only by its claim, and its keys shrink
\* only with the objects.
LEMMA RemovingSteps ==
  ASSUME RowsTyped, [Next]_vars, NEW w \in Workers, Removing(w)'
  PROVE  \/ ClaimDeletion(w)
         \/ Removing(w) /\ task'[w].keys = task[w].keys
         \/ \E d \in Docs : DeleteObject(w, d) /\ Removing(w) /\ task'[w].keys = task[w].keys \ {d}
<1>t. task \in [Workers -> Tasks]
  BY DEF RowsTyped, TaskTyped
<1>1. ASSUME NEW v \in Workers, v # w, Work(v) \/ Crash(v) PROVE task'[w] = task[w]
  BY <1>t, <1>1
  DEF Work, Crash, Receive, ClaimDeletion, DeferDeletion, SkipDeletion, DeleteProjectPoints, DeleteObject,
      MarkReady, LoseLease, RemoteFails, RecordFailure, Retry, Moved
<1>2. ~Crash(w) /\ ~SkipDeletion(w) /\ ~MarkReady(w) /\ ~Retry(w)
  <2>1. Crash(w) \/ SkipDeletion(w) \/ MarkReady(w) \/ Retry(w) => task' = [task EXCEPT ![w] = Idle]
    BY Zenon DEF Crash, SkipDeletion, MarkReady, Retry
  <2>2. task' # [task EXCEPT ![w] = Idle]
    BY <1>t DEF Removing, Idle
  <2> QED BY <2>1, <2>2
<1>3. ~DeferDeletion(w) /\ ~LoseLease(w)
  BY <1>t DEF DeferDeletion, LoseLease, Moved, Removing, Tasks
<1>4. ~RemoteFails(w)
  BY <1>t DEF RemoteFails, Removing, Tasks
<1>5. ~RecordFailure(w)
  <2>1. RecordFailure(w) => task'[w] = Idle \/ task'[w] = [task[w] EXCEPT !.pc = "retrying"]
    BY <1>t DEF RecordFailure
  <2> QED BY <1>t, <2>1 DEF Removing, Idle, Tasks
<1>6. ASSUME NEW m \in Messages, Receive(w, m[1], m[2]) PROVE FALSE
  BY <1>t, <1>6 DEF Receive, Removing, Idle
<1>7. DeleteProjectPoints(w) => Removing(w) /\ task'[w].keys = task[w].keys
  BY <1>t DEF DeleteProjectPoints, Moved, Removing, Tasks
<1>8. \A d \in Docs : DeleteObject(w, d) => Removing(w) /\ task'[w].keys = task[w].keys \ {d}
  BY <1>t DEF DeleteObject, Removing, Tasks
<1>9. task'[w] = task[w] => Removing(w) /\ task'[w].keys = task[w].keys
  BY DEF Removing
<1>10. ASSUME Work(w)
       PROVE  \/ ClaimDeletion(w)
              \/ Removing(w) /\ task'[w].keys = task[w].keys
              \/ \E d \in Docs : DeleteObject(w, d) /\ Removing(w) /\ task'[w].keys = task[w].keys \ {d}
  BY <1>10, <1>2, <1>3, <1>4, <1>5, <1>6, <1>7, <1>8 DEF Work
<1>11. CASE UNCHANGED task
  BY <1>9, <1>11, SMTT(40)
<1> QED
  BY <1>1, <1>2, <1>9, <1>10, <1>11
  DEF Next, Broker, Ingestion, vars, RequestDeletion, RequestDeletionAgain, PublishEvent, Redeliver,
      DeletionLeaseExpires, Reserve, Put, Complete, ClaimIngestion, UpsertPoints, ReplaceContent,
      FinishIngestion, FailIngestion, IngestionLeaseExpires, OvertakenUpserts

\* Objects appear in S3 before the request or are late; rows go with the project.
LEMMA ObjectSteps ==
  ASSUME ContentTyped, [Next]_vars, NEW d \in Docs
  PROVE  /\ object'[d] # "none" => object[d] # "none" \/ doc[d] # "absent"
         /\ object'[d] = "stored" => object[d] = "stored" \/ project = "active"
         /\ doc[d] # "absent" => doc'[d] # "absent" \/ project' = "gone"
<1>1. ASSUME NEW e \in Docs, Ingestion(e)
      PROVE  /\ object'[d] # "none" => object[d] # "none" \/ doc[d] # "absent"
             /\ object'[d] = "stored" => object[d] = "stored" \/ project = "active"
             /\ doc[d] # "absent" => doc'[d] # "absent"
  BY <1>1 DEF ContentTyped, Ingestion, Reserve, Put, Complete, ClaimIngestion, UpsertPoints, ReplaceContent,
              FinishIngestion, FailIngestion, IngestionLeaseExpires, OvertakenUpserts
<1>2. ASSUME NEW w \in Workers, NEW e \in Docs, DeleteObject(w, e)
      PROVE  UNCHANGED doc /\ (object'[d] = object[d] \/ object'[d] = "none")
  BY <1>2 DEF ContentTyped, DeleteObject
<1>3. ASSUME NEW w \in Workers, MarkReady(w) PROVE project' = "gone" /\ UNCHANGED object
  BY <1>3 DEF MarkReady
<1>4. CASE UNCHANGED <<doc, object>>
  BY <1>4
<1> QED
  BY <1>1, <1>2, <1>3, <1>4
  DEF Next, Broker, Work, Crash, content, vars, RequestDeletion, RequestDeletionAgain, PublishEvent,
      DeletionLeaseExpires, Redeliver, Receive, ClaimDeletion, DeferDeletion, SkipDeletion,
      DeleteProjectPoints, LoseLease, RemoteFails, RecordFailure, Retry

LEMMA ObjectStep == RowsTyped /\ ObjectInv /\ [Next]_vars => ObjectInv'
<1> SUFFICES ASSUME RowsTyped, ObjectInv, [Next]_vars PROVE ObjectInv'
  OBVIOUS
<1> USE DEF ObjectInv
<1>1. ContentTyped'
  BY ContentStep DEF RowsTyped
<1>2. RemovingIsAsked'
  <2> SUFFICES ASSUME NEW w \in Workers, Removing(w)' PROVE project' # "active"
    BY DEF RemovingIsAsked
  <2>1. project # "active"
    BY RemovingSteps DEF RemovingIsAsked, ClaimDeletion, Claimable
  <2> QED BY <2>1, ProjectSteps
<1>3. StoredHasRow'
  <2> SUFFICES ASSUME project' # "gone", NEW d \in Docs, object'[d] # "none" PROVE doc'[d] # "absent"
    BY DEF StoredHasRow
  <2>1. project # "gone"
    BY ProjectSteps
  <2>2. doc[d] # "absent"
    BY <2>1, ObjectSteps DEF StoredHasRow
  <2> QED BY <2>2, ObjectSteps
<1>4. KeysCover'
  <2> SUFFICES ASSUME project' = "deleting", NEW w \in Workers, NEW d \in Docs, Removing(w)', object'[d] = "stored"
               PROVE  d \in task'[w].keys
    BY DEF KeysCover
  <2>1. ASSUME Removing(w) PROVE project = "deleting"
    BY <2>1, ProjectSteps DEF RemovingIsAsked, ContentTyped
  <2>2. CASE ClaimDeletion(w)
    <3>1. task'[w].keys = ObjectKeys /\ UNCHANGED object /\ project = "deleting"
      BY <2>2 DEF ClaimDeletion, Claimable, RowsTyped, TaskTyped, Tasks
    <3> QED BY <3>1 DEF StoredHasRow, ObjectKeys
  <2>3. CASE Removing(w) /\ task'[w].keys = task[w].keys
    BY <2>1, <2>3, ObjectSteps DEF KeysCover
  <2>4. ASSUME NEW e \in Docs, DeleteObject(w, e), Removing(w), task'[w].keys = task[w].keys \ {e}
        PROVE  d \in task'[w].keys
    <3>1. d # e
      BY <2>4 DEF DeleteObject, ContentTyped
    <3> QED BY <2>1, <2>4, <3>1, ObjectSteps DEF KeysCover
  <2> QED BY <2>2, <2>3, <2>4, RemovingSteps
<1>5. GoneLeavesNoObjects'
  <2> SUFFICES ASSUME project' = "gone", NEW d \in Docs, object'[d] = "stored" PROVE FALSE
    BY DEF GoneLeavesNoObjects
  <2>1. CASE project = "gone"
    BY <2>1, ObjectSteps DEF GoneLeavesNoObjects
  <2>2. ASSUME NEW w \in Workers, MarkReady(w) PROVE FALSE
    <3>1. object[d] = "stored" /\ project = "deleting" /\ Removing(w) /\ task[w].keys = {}
      BY <2>2, ZenonT(60) DEF MarkReady, Removing
    <3> QED BY <3>1 DEF KeysCover
  <2> QED BY <2>1, <2>2, ProjectSteps
<1> QED BY <1>1, <1>2, <1>3, <1>4, <1>5

-----------------------------------------------------------------------------
(* Every unended deletion is in hand.  A pending job has an event, a       *)
(* message or a worker that will claim it; a job under a lease has its     *)
(* holder or the holder's lost message, which cannot return before the     *)
(* lease ends, so that whoever skips the job meanwhile drops a spare one.  *)

Lost(j) == \E t \in 0..MaxRetries : lost[<<j, t>>] > 0
Queued(j) == \E t \in 0..MaxRetries : queue[<<j, t>>] > 0
Token(j) == outbox[j].unsent \/ Lost(j) \/ Queued(j) \/ \E w \in Workers : Waits(w, j)
Held(j) == \E w \in Workers : job[j].owner = w /\ Works(w, j)

FreshHasNoEvents == \A j \in Jobs : job[j].status = "none" => outbox[j].events = 0
InHand(j) ==
  /\ job[j].status = "pending" => Token(j) \/ j \in gaveUp
  /\ job[j].status = "running" /\ ~job[j].live => Token(j) \/ Held(j) \/ j \in gaveUp
  /\ job[j].live => Held(j) \/ Lost(j)

\* Where a message of each kind goes.
LEMMA UnsentSteps ==
  ASSUME BrokerTyped, [Next]_vars, NEW j \in Jobs, outbox[j].unsent
  PROVE  outbox'[j].unsent \/ PublishEvent(j)
<1>1. ASSUME NEW i \in Jobs, RequestDeletion(i) \/ RequestDeletionAgain(i) PROVE outbox'[j].unsent
  BY <1>1 DEF RequestDeletion, RequestDeletionAgain, Enqueue, BrokerTyped
<1>2. ASSUME NEW i \in Jobs, PublishEvent(i), i # j PROVE outbox'[j].unsent
  BY <1>2 DEF PublishEvent, BrokerTyped
<1>3. CASE UNCHANGED outbox
  BY <1>3
<1> QED
  BY <1>1, <1>2, <1>3, ZenonT(60)
  DEF Next, Broker, Work, Crash, Ingestion, vars, broker, Redeliver, Receive, DeletionLeaseExpires,
      ClaimDeletion, DeferDeletion, SkipDeletion, DeleteProjectPoints, DeleteObject, MarkReady, LoseLease,
      RemoteFails, RecordFailure, Retry, Reserve, Put, Complete, ClaimIngestion, UpsertPoints,
      ReplaceContent, FinishIngestion, FailIngestion, IngestionLeaseExpires, OvertakenUpserts

LEMMA LostSteps ==
  ASSUME BrokerTyped, [Next]_vars, NEW m \in Messages, lost[m] > 0
  PROVE  lost'[m] > 0 \/ Redeliver(m[1], m[2])
<1>1. ASSUME NEW n \in Messages, Redeliver(n[1], n[2]) PROVE lost'[m] > 0 \/ n = m
  <2>1. n = <<n[1], n[2]>>
    BY DEF Messages
  <2> QED BY <1>1, <2>1 DEF Redeliver, BrokerTyped
<1>2. ASSUME NEW w \in Workers, Crash(w) PROVE lost'[m] > 0
  BY <1>2 DEF Crash, BrokerTyped
<1>3. CASE UNCHANGED lost
  BY <1>3
<1> QED
  BY <1>1, <1>2, <1>3, ZenonT(60)
  DEF Next, Broker, Work, Ingestion, vars, broker, PublishEvent, RequestDeletion, RequestDeletionAgain,
      Receive, DeletionLeaseExpires, ClaimDeletion, DeferDeletion, SkipDeletion, DeleteProjectPoints,
      DeleteObject, MarkReady, LoseLease, RemoteFails, RecordFailure, Retry, Reserve, Put, Complete,
      ClaimIngestion, UpsertPoints, ReplaceContent, FinishIngestion, FailIngestion,
      IngestionLeaseExpires, OvertakenUpserts

LEMMA QueueSteps ==
  ASSUME BrokerTyped, [Next]_vars, NEW m \in Messages, queue[m] > 0
  PROVE  queue'[m] > 0 \/ \E w \in Workers : Receive(w, m[1], m[2])
<1>1. ASSUME NEW n \in Messages, Redeliver(n[1], n[2]) PROVE queue'[m] > 0
  BY <1>1 DEF Redeliver, BrokerTyped
<1>2. ASSUME NEW w \in Workers, NEW n \in Messages, Receive(w, n[1], n[2]) PROVE queue'[m] > 0 \/ n = m
  <2>1. n = <<n[1], n[2]>>
    BY DEF Messages
  <2> QED BY <1>2, <2>1 DEF Receive, BrokerTyped
<1>3. ASSUME NEW j \in Jobs, PublishEvent(j) PROVE queue'[m] > 0
  BY <1>3 DEF PublishEvent, BrokerTyped
<1>4. ASSUME NEW w \in Workers, Retry(w) PROVE queue'[m] > 0
  BY <1>4 DEF Retry, BrokerTyped
<1>5. CASE UNCHANGED queue
  BY <1>5
<1> QED
  BY <1>1, <1>2, <1>3, <1>4, <1>5
  DEF Next, Broker, Work, Crash, Ingestion, vars, broker, RequestDeletion, RequestDeletionAgain,
      DeletionLeaseExpires, ClaimDeletion, DeferDeletion, SkipDeletion, DeleteProjectPoints,
      DeleteObject, MarkReady, LoseLease, RemoteFails, RecordFailure, Reserve, Put, Complete,
      ClaimIngestion, UpsertPoints, ReplaceContent, FinishIngestion, FailIngestion,
      IngestionLeaseExpires, OvertakenUpserts

\* What becomes of a worker that has a message.
LEMMA WorkerSteps ==
  ASSUME TaskTyped, [Next]_vars, NEW w \in Workers, NEW j \in Jobs
  PROVE  /\ Waits(w, j) => Waits(w, j)' \/ ClaimDeletion(w) \/ SkipDeletion(w) \/ Crash(w) \/ Retry(w)
         /\ Works(w, j) => \/ Works(w, j)' \/ Crash(w) \/ LoseLease(w)
                           \/ MarkReady(w) \/ RecordFailure(w)
<1>t. task \in [Workers -> Tasks]
  BY DEF TaskTyped
<1>1. ASSUME NEW v \in Workers, v # w, Work(v) \/ Crash(v) PROVE task'[w] = task[w]
  BY <1>t, <1>1
  DEF Work, Crash, Receive, ClaimDeletion, DeferDeletion, SkipDeletion, DeleteProjectPoints, DeleteObject,
      MarkReady, LoseLease, RemoteFails, RecordFailure, Retry, Moved
<1>2. task'[w] = task[w] => (Waits(w, j) => Waits(w, j)') /\ (Works(w, j) => Works(w, j)')
  BY DEF Waits, Works
<1>3. ASSUME NEW m \in Messages, Receive(w, m[1], m[2]) PROVE ~Waits(w, j) /\ ~Works(w, j)
  BY <1>3 DEF Receive, Waits, Works
<1>4. ClaimDeletion(w) => ~Works(w, j)
  BY DEF ClaimDeletion, Works
<1>5. SkipDeletion(w) => ~Works(w, j)
  BY DEF SkipDeletion, Works
<1>6. DeferDeletion(w) => ~Works(w, j) /\ (Waits(w, j) => Waits(w, j)')
  BY <1>t DEF DeferDeletion, Moved, Waits, Works, Tasks
<1>7. DeleteProjectPoints(w) => ~Waits(w, j) /\ (Works(w, j) => Works(w, j)')
  BY <1>t DEF DeleteProjectPoints, Moved, Waits, Works, Tasks
<1>8. \A d \in Docs : DeleteObject(w, d) => ~Waits(w, j) /\ (Works(w, j) => Works(w, j)')
  BY <1>t DEF DeleteObject, Waits, Works, Tasks
<1>9. RemoteFails(w) => ~Waits(w, j) /\ (Works(w, j) => Works(w, j)')
  BY <1>t DEF RemoteFails, Waits, Works, Tasks
<1>10. LoseLease(w) \/ RecordFailure(w) => ~Waits(w, j)
  BY DEF LoseLease, RecordFailure, Waits
<1>11. MarkReady(w) => ~Waits(w, j)
  BY Zenon DEF MarkReady, Waits
<1>12. Retry(w) => ~Works(w, j)
  BY DEF Retry, Works
<1>13. CASE UNCHANGED task
  BY <1>2, <1>13
<1>14. CASE Work(w)
  BY <1>14, <1>3, <1>4, <1>5, <1>6, <1>7, <1>8, <1>9, <1>10, <1>11, <1>12 DEF Work
<1> QED
  BY <1>1, <1>2, <1>13, <1>14
  DEF Next, Broker, Ingestion, vars, RequestDeletion, RequestDeletionAgain, PublishEvent, Redeliver,
      DeletionLeaseExpires, Reserve, Put, Complete, ClaimIngestion, UpsertPoints, ReplaceContent,
      FinishIngestion, FailIngestion, IngestionLeaseExpires, OvertakenUpserts

LEMMA CrashLeaves ==
  ASSUME BrokerTyped, TaskTyped, NEW w \in Workers, NEW j \in Jobs, task[w].job = j, Crash(w)
  PROVE  Lost(j)'
<1>1. <<j, task[w].tries>> \in Messages /\ task[w].tries \in 0..MaxRetries
  BY DEF TaskTyped, Tasks, Messages
<1>2. lost'[<<j, task[w].tries>>] > 0
  BY <1>1 DEF Crash, BrokerTyped
<1> QED BY <1>1, <1>2 DEF Lost

LEMMA TokenSteps ==
  ASSUME BrokerTyped, TaskTyped, [Next]_vars, NEW j \in Jobs, Token(j)
  PROVE  \/ Token(j)' \/ j \in gaveUp'
         \/ \E w \in Workers : Waits(w, j) /\ (ClaimDeletion(w) \/ SkipDeletion(w))
<1>1. CASE outbox[j].unsent
  <2>1. PublishEvent(j) => Queued(j)'
    <3>1. <<j, 0>> \in Messages /\ 0 \in 0..MaxRetries
      BY ProjectAssumption DEF Messages
    <3>2. PublishEvent(j) => queue'[<<j, 0>>] > 0
      BY <3>1 DEF PublishEvent, BrokerTyped
    <3> QED BY <3>1, <3>2 DEF Queued
  <2> QED BY <1>1, <2>1, UnsentSteps DEF Token
<1>2. ASSUME NEW t \in 0..MaxRetries, lost[<<j, t>>] > 0 PROVE Token(j)'
  <2>1. <<j, t>> \in Messages
    BY DEF Messages
  <2>2. Redeliver(j, t) => queue'[<<j, t>>] > 0
    BY <2>1 DEF Redeliver, BrokerTyped
  <2>3. lost'[<<j, t>>] > 0 \/ Redeliver(j, t)
    BY <1>2, <2>1, LostSteps
  <2> QED BY <2>2, <2>3 DEF Token, Lost, Queued
<1>3. ASSUME NEW t \in 0..MaxRetries, queue[<<j, t>>] > 0 PROVE Token(j)'
  <2>1. <<j, t>> \in Messages
    BY DEF Messages
  <2>2. ASSUME NEW w \in Workers, Receive(w, j, t) PROVE Waits(w, j)'
    BY <2>2 DEF Receive, Waits, Idle, TaskTyped
  <2>3. queue'[<<j, t>>] > 0 \/ \E w \in Workers : Receive(w, j, t)
    BY <1>3, <2>1, QueueSteps
  <2> QED BY <2>2, <2>3 DEF Token, Queued
<1>4. ASSUME NEW w \in Workers, Waits(w, j)
      PROVE  Token(j)' \/ j \in gaveUp' \/ ClaimDeletion(w) \/ SkipDeletion(w)
  <2>1. Crash(w) => Lost(j)'
    BY <1>4, CrashLeaves DEF Waits
  <2>2. Retry(w) => Queued(j)' \/ j \in gaveUp'
    <3> DEFINE t == task[w].tries
    <3>1. t \in 0..MaxRetries /\ (t < MaxRetries => t + 1 \in 0..MaxRetries /\ <<j, t + 1>> \in Messages)
      BY ProjectAssumption DEF TaskTyped, Tasks, Messages
    <3>2. Retry(w) /\ t < MaxRetries => queue'[<<j, t + 1>>] > 0
      BY <1>4, <3>1 DEF Retry, Waits, BrokerTyped
    <3>3. Retry(w) /\ ~(t < MaxRetries) => j \in gaveUp'
      BY <1>4 DEF Retry, Waits
    <3> QED BY <3>1, <3>2, <3>3 DEF Queued
  <2>3. Waits(w, j)' \/ ClaimDeletion(w) \/ SkipDeletion(w) \/ Crash(w) \/ Retry(w)
    BY <1>4, WorkerSteps, SMTT(40)
  <2> QED BY <2>1, <2>2, <2>3 DEF Token
<1> QED BY <1>1, <1>2, <1>3, <1>4 DEF Token, Lost, Queued

LEMMA FreshStep ==
  ExclusionInv /\ BrokerTyped /\ FreshHasNoEvents /\ [Next]_vars => FreshHasNoEvents'
<1> SUFFICES ASSUME ExclusionInv, BrokerTyped, FreshHasNoEvents, [Next]_vars,
                    NEW j \in Jobs, job'[j].status = "none"
             PROVE  outbox'[j].events = 0
  BY DEF FreshHasNoEvents
<1>1. ~Requested(j) /\ ~Taken(j) /\ ~Ends(j)
  BY DEF Requested, Taken, Ends, ExclusionInv, RowsTyped, JobTyped, JobRows
<1>2. job[j].status = "none" /\ outbox[j].events = 0
  BY <1>1, JobChanges DEF Kept, ExclusionInv, FreshHasNoEvents
<1>3. ASSUME NEW i \in Jobs, RequestDeletion(i) PROVE outbox'[j].events = 0
  <2>1. i # j
    BY <1>3 DEF RequestDeletion, ExclusionInv, RowsTyped, JobTyped, JobRows
  <2> QED BY <1>2, <1>3, <2>1 DEF RequestDeletion, Enqueue, BrokerTyped
<1>4. ASSUME NEW i \in Jobs, RequestDeletionAgain(i) PROVE outbox'[j].events = 0
  <2>1. i # j
    BY <1>2, <1>4 DEF RequestDeletionAgain
  <2> QED BY <1>2, <1>4, <2>1 DEF RequestDeletionAgain, Enqueue, BrokerTyped
<1>5. ASSUME NEW i \in Jobs, PublishEvent(i) PROVE outbox'[j].events = 0
  BY <1>2, <1>5 DEF PublishEvent, BrokerTyped
<1>6. CASE UNCHANGED outbox
  BY <1>2, <1>6
<1> QED
  BY <1>3, <1>4, <1>5, <1>6, ZenonT(60)
  DEF Next, Broker, Work, Crash, Ingestion, vars, broker, Redeliver, Receive, DeletionLeaseExpires,
      ClaimDeletion, DeferDeletion, SkipDeletion, DeleteProjectPoints, DeleteObject, MarkReady, LoseLease,
      RemoteFails, RecordFailure, Retry, Reserve, Put, Complete, ClaimIngestion, UpsertPoints,
      ReplaceContent, FinishIngestion, FailIngestion, IngestionLeaseExpires, OvertakenUpserts

\* A delivery that skips a job leaves it to the holder of its lease.
LEMMA OnlyLeasedIsSkipped ==
  ASSUME ExclusionInv, OneDeletion, ContentTyped, NEW w \in Workers, NEW j \in Jobs,
         Waits(w, j), SkipDeletion(w), Unended(j)
  PROVE  job[j].live
<1>1. project = "deleting"
  BY DEF ExclusionInv, RowsMeanDeleting, OneDeletion, GoneIsEnded, ContentTyped, Unended
<1>2. ~LiveIngestion
  BY DEF Unended, Waits, SkipDeletion, ExclusionInv, RunningExcludes
<1> QED BY <1>1, <1>2 DEF Unended, Waits, SkipDeletion, Claimable

\* The step of a worker that holds j.
LEMMA HeldSteps ==
  ASSUME ExclusionInv, BrokerTyped, [Next]_vars, NEW j \in Jobs, Held(j), Kept(j), job[j].status = "running"
  PROVE  Held(j)' \/ Lost(j)' \/ (~job[j].live /\ Token(j)')
<1>1. PICK w \in Workers : job[j].owner = w /\ Works(w, j)
  BY DEF Held
<1>t. TaskTyped /\ JobTyped
  BY DEF ExclusionInv, RowsTyped
<1>2. Works(w, j)' => Held(j)'
  BY <1>1 DEF Held, Kept
<1>3. Crash(w) => Lost(j)'
  BY <1>1, <1>t, CrashLeaves DEF Works
<1>4. LoseLease(w) => ~job[j].live /\ Token(j)'
  <2>1. LoseLease(w) => ~job[j].live
    BY <1>1 DEF LoseLease, HoldsLease, Works
  <2>2. LoseLease(w) => Waits(w, j)'
    BY <1>1, <1>t DEF LoseLease, Moved, Works, Waits, TaskTyped, Tasks
  <2> QED BY <2>1, <2>2 DEF Token
<1>5. ASSUME MarkReady(w) PROVE FALSE
  <2>1. j = task[w].job
    BY <1>1 DEF Works
  <2>2. job'[j].status = "succeeded"
    BY <1>5, <2>1, <1>t DEF MarkReady, JobTyped, JobRows
  <2> QED BY <2>2 DEF Kept
<1>6. ~RecordFailure(w)
  BY <1>1, <1>t DEF RecordFailure, Works, Kept, JobTyped, JobRows
<1> QED BY <1>1, <1>2, <1>3, <1>4, <1>5, <1>6, <1>t, WorkerSteps

LEMMA InHandStep ==
  ASSUME ExclusionInv, ExclusionInv', OneDeletion, ContentTyped, BrokerTyped, FreshHasNoEvents, [Next]_vars,
         NEW j \in Jobs, InHand(j)
  PROVE  InHand(j)'
<1>t. TaskTyped /\ JobTyped
  BY DEF ExclusionInv, RowsTyped
<1>1. CASE Requested(j)
  <2>1. job'[j].status = "pending" /\ ~job'[j].live
    BY <1>1, <1>t DEF Requested, JobTyped, JobRows, ExclusionInv, OwnedIsRunning
  <2>2. outbox'[j].unsent
    BY <1>1, RequestedIsNew, ProjectAssumption DEF RequestDeletion, Requested, Enqueue, BrokerTyped, FreshHasNoEvents
  <2> QED BY <2>1, <2>2 DEF InHand, Token
<1>2. CASE Taken(j)
  <2>1. PICK w \in Workers : ClaimDeletion(w) /\ task[w].job = j /\ job'[j].owner = w
    BY <1>2 DEF Taken
  <2>2. Works(w, j)'
    BY <2>1, <1>t DEF ClaimDeletion, Works, TaskTyped, Tasks
  <2> QED BY <1>2, <2>1, <2>2 DEF Taken, InHand, Held
<1>3. CASE Ends(j)
  BY <1>3 DEF Ends, InHand, Token
<1>4. CASE Kept(j)
  <2>1. gaveUp \subseteq gaveUp'
    BY DEF Next, Broker, Work, Crash, Ingestion, vars, broker, PublishEvent, RequestDeletion, RequestDeletionAgain,
           Redeliver, Receive, DeletionLeaseExpires, ClaimDeletion, DeferDeletion, SkipDeletion,
           DeleteProjectPoints, DeleteObject, MarkReady, LoseLease, RemoteFails, RecordFailure, Retry, Reserve, Put,
           Complete, ClaimIngestion, UpsertPoints, ReplaceContent, FinishIngestion, FailIngestion,
           IngestionLeaseExpires, OvertakenUpserts
  <2>2. ASSUME Unended(j), Token(j), ~job[j].live PROVE Token(j)' \/ j \in gaveUp'
    <3>1. ASSUME NEW w \in Workers, Waits(w, j), ClaimDeletion(w) PROVE FALSE
      BY <1>4, <2>2, <3>1, <1>t DEF ClaimDeletion, Waits, Kept, JobTyped
    <3>2. ASSUME NEW w \in Workers, Waits(w, j), SkipDeletion(w) PROVE FALSE
      BY <2>2, <3>2, OnlyLeasedIsSkipped
    <3> QED BY <2>2, <3>1, <3>2, <1>t, TokenSteps
  <2>3. ASSUME Lost(j), job[j].live PROVE Lost(j)'
    <3>1. PICK t \in 0..MaxRetries : lost[<<j, t>>] > 0
      BY <2>3 DEF Lost
    <3>2. <<j, t>> \in Messages /\ ~Redeliver(j, t)
      BY <2>3 DEF Messages, Redeliver
    <3>3. lost'[<<j, t>>] > 0
      BY <3>1, <3>2, LostSteps
    <3> QED BY <3>3 DEF Lost
  <2>4. job'[j].status = "pending" => Token(j)' \/ j \in gaveUp'
    BY <1>4, <2>1, <2>2 DEF Kept, InHand, Unended, ExclusionInv, OwnedIsRunning
  <2>5. job'[j].live => Held(j)' \/ Lost(j)'
    <3> SUFFICES ASSUME job'[j].live PROVE Held(j)' \/ Lost(j)'
      OBVIOUS
    <3>1. job[j].live /\ job[j].status = "running"
      BY <1>4 DEF Kept, ExclusionInv, OwnedIsRunning
    <3> QED BY <1>4, <2>3, <3>1, HeldSteps DEF InHand
  <2>6. ASSUME job'[j].status = "running", ~job'[j].live PROVE Token(j)' \/ Held(j)' \/ j \in gaveUp'
    <3>1. job[j].status = "running"
      BY <1>4, <2>6 DEF Kept
    <3>2. CASE Held(j)
      BY <1>4, <3>1, <3>2, HeldSteps DEF Token
    <3>3. CASE job[j].live /\ Lost(j)
      BY <3>3, <2>3 DEF Token
    <3>4. CASE ~job[j].live /\ (Token(j) \/ j \in gaveUp)
      BY <3>1, <3>4, <2>1, <2>2 DEF Unended
    <3> QED BY <3>1, <3>2, <3>3, <3>4 DEF InHand
  <2> QED BY <2>4, <2>5, <2>6 DEF InHand
<1> QED BY <1>1, <1>2, <1>3, <1>4, JobChanges DEF ExclusionInv

-----------------------------------------------------------------------------
TrackInv ==
  /\ ExclusionInv /\ OneDeletion /\ ObjectInv /\ BrokerTyped /\ FreshHasNoEvents
  /\ \A j \in Jobs : InHand(j)

LEMMA TrackInit == Init => TrackInv
<1> SUFFICES ASSUME Init PROVE TrackInv
  OBVIOUS
<1>1. ExclusionInv
  BY ExclusionInit
<1>2. \A j \in Jobs : job[j].status = "none" /\ ~job[j].live /\ outbox[j].events = 0
  BY DEF Init
<1>3. OneDeletion
  BY <1>2 DEF OneDeletion, OnlyTheLatest, DeletingIsAsked, GoneIsEnded, Unended, Init
<1>4. \A w \in Workers : ~Removing(w)
  BY DEF Init, Removing, Idle
<1>5. ContentTyped /\ BrokerTyped
  BY ProjectAssumption DEF Init, ContentTyped, BrokerTyped
<1>6. ObjectInv
  BY <1>4, <1>5 DEF ObjectInv, RemovingIsAsked, StoredHasRow, KeysCover, GoneLeavesNoObjects, Init
<1>7. FreshHasNoEvents /\ \A j \in Jobs : InHand(j)
  BY <1>2 DEF FreshHasNoEvents, InHand
<1> QED BY <1>1, <1>3, <1>5, <1>6, <1>7 DEF TrackInv

LEMMA TrackStep == TrackInv /\ [Next]_vars => TrackInv'
<1> SUFFICES ASSUME TrackInv, [Next]_vars PROVE TrackInv'
  OBVIOUS
<1>1. ExclusionInv' /\ RowsTyped
  BY ExclusionStep DEF TrackInv, ExclusionInv
<1>2. OneDeletion'
  BY OneDeletionStep DEF TrackInv
<1>3. ObjectInv'
  BY <1>1, ObjectStep DEF TrackInv
<1>4. BrokerTyped' /\ FreshHasNoEvents'
  BY <1>1, BrokerStep, FreshStep DEF TrackInv, RowsTyped
<1>5. \A j \in Jobs : InHand(j)'
  BY <1>1, InHandStep DEF TrackInv, ObjectInv
<1> QED BY <1>1, <1>2, <1>3, <1>4, <1>5 DEF TrackInv

\* No deletion is forgotten, doubled or finished while an object remains,
\* whatever crashes, duplicates and repeated requests it meets.
THEOREM DeletionTracked == Spec => []DeletionIsTracked
<1>1. TrackInv => DeletionIsTracked
  <2> SUFFICES ASSUME TrackInv PROVE DeletionIsTracked
    OBVIOUS
  <2>1. TypeOK /\ GoneLeavesNoObjects
    BY TypesAreTypeOK DEF TrackInv, ExclusionInv, ObjectInv
  <2>2. DeletingHasOneDeletion
    <3>0. OnlyTheLatest
      BY DEF TrackInv, OneDeletion
    <3>1. ASSUME NEW i \in Jobs, NEW j \in Jobs, Unended(i), Unended(j) PROVE i = j
      <4>1. ~(i < j) /\ ~(j < i)
        BY <3>0, <3>1 DEF OnlyTheLatest, Unended
      <4> QED BY <4>1 DEF Jobs
    <3> QED BY <3>1 DEF TrackInv, OneDeletion, DeletingIsAsked, DeletingHasOneDeletion
  <2>3. ASSUME NEW j \in Jobs, Unended(j) PROVE InFlight(j) \/ j \in gaveUp
    <3>1. Token(j) \/ Held(j) \/ Lost(j) \/ j \in gaveUp
      BY <2>3 DEF TrackInv, InHand, Unended
    <3>2. \A t \in 0..MaxRetries : queue[<<j, t>>] \in Nat /\ lost[<<j, t>>] \in Nat
      BY DEF TrackInv, BrokerTyped, Messages
    <3>3. Lost(j) \/ Queued(j) => \E t \in 0..MaxRetries : queue[<<j, t>>] + lost[<<j, t>>] > 0
      BY <3>2 DEF Lost, Queued
    <3> QED BY <3>1, <3>3 DEF Token, Held, Waits, Works, InFlight
  <2> QED BY <2>1, <2>2, <2>3 DEF DeletionIsTracked, DeletionIsInHand
<1>2. TrackInv /\ [Next]_vars => TrackInv'
  BY TrackStep
<1> QED BY <1>1, <1>2, TrackInit, PTL DEF Spec
=============================================================================
