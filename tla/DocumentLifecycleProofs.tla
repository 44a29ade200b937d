----------------------- MODULE DocumentLifecycleProofs -----------------------
(***************************************************************************)
(* Proofs about DocumentLifecycle, for any number of workers, jobs,        *)
(* attempts, retries, events and faults.                                   *)
(***************************************************************************)
EXTENDS DocumentLifecycleProperties, TLAPS

\* One message more of some kind, if it is a kind that is counted.
LEMMA CountsStayNatural ==
  ASSUME NEW S, NEW count \in [S -> Nat], NEW x
  PROVE  [count EXCEPT ![x] = @ + 1] \in [S -> Nat]
<1>1. CASE x \in S
  BY <1>1
<1>2. CASE x \notin S
  BY <1>2
<1> QED BY <1>1, <1>2

JobStatuses == {"pending", "running", "succeeded", "failed"}

\* What the writers of job rows make of a row is a row.
LEMMA RowsTyped ==
  ASSUME NEW row \in JobRows
  PROVE  /\ \A s \in JobStatuses : Released(row, s) \in JobRows
         /\ \A w \in Workers : Leased(row, w) \in JobRows
         /\ \A s \in JobStatuses, l \in {"none", "pending", "succeeded", "failed"} :
              [Released(row, s) EXCEPT !.ledger = l] \in JobRows
         /\ \A l \in {"none", "pending", "succeeded", "failed"} :
              [row EXCEPT !.ledger = l] \in JobRows
         /\ \A s \in JobStatuses : [row EXCEPT !.status = s] \in JobRows
         /\ \A b \in BOOLEAN : [row EXCEPT !.live = b] \in JobRows
<1>1. \A s \in JobStatuses : Released(row, s) \in JobRows
  BY DEF JobRows, JobStatuses, Released
<1>2. ASSUME NEW w \in Workers PROVE Leased(row, w) \in JobRows
  <2>1. (IF row.attempts > MaxAttempts THEN row.attempts ELSE row.attempts + 1)
          \in 0..MaxAttempts + 1
    BY LifecycleAssumption DEF JobRows
  <2> QED BY <2>1 DEF JobRows, Leased
<1>3. \A r \in JobRows, l \in {"none", "pending", "succeeded", "failed"} :
        [r EXCEPT !.ledger = l] \in JobRows
  BY DEF JobRows
<1>4. \A s \in JobStatuses : [row EXCEPT !.status = s] \in JobRows
  BY DEF JobRows, JobStatuses
<1>5. \A b \in BOOLEAN : [row EXCEPT !.live = b] \in JobRows
  BY DEF JobRows
<1> QED BY <1>1, <1>2, <1>3, <1>4, <1>5

LEMMA NewRowsTyped ==
  /\ NoRow \in JobRows
  /\ [NoRow EXCEPT !.kind = "ingest"] \in JobRows
  /\ \A b \in BOOLEAN :
       [NoRow EXCEPT !.kind = "delete", !.ledger = "pending", !.points = b] \in JobRows
<1>1. NoRow \in JobRows
  BY LifecycleAssumption DEF NoRow, JobRows, Kinds
<1>2. [NoRow EXCEPT !.kind = "ingest"] \in JobRows
  BY <1>1 DEF JobRows, Kinds
<1>3. ASSUME NEW b \in BOOLEAN
      PROVE  [NoRow EXCEPT !.kind = "delete", !.ledger = "pending", !.points = b] \in JobRows
  BY <1>1 DEF JobRows, Kinds
<1> QED BY <1>1, <1>2, <1>3

\* What a step makes of a worker's task is a task.
LEMMA TasksTyped ==
  ASSUME TypeOK, NEW w \in Workers
  PROVE  /\ [task EXCEPT ![w] = Idle] \in [Workers -> Tasks]
         /\ \A phase \in Phases :
              task[w].pc # "idle" /\ Proceed(w, phase) => task' \in [Workers -> Tasks]
         /\ task[w].pc # "idle" /\ Finish(w) => task' \in [Workers -> Tasks]
         /\ \A phase \in Phases, n \in 0..MaxAttempts + 1 :
              task[w].pc # "idle" /\ task' = [task EXCEPT ![w].pc = phase, ![w].attempt = n]
                => task' \in [Workers -> Tasks]
<1>t. task \in [Workers -> Tasks]
  BY DEF TypeOK
<1>1. Idle \in Tasks
  BY LifecycleAssumption DEF Idle, Tasks, Phases, Tries
<1>2. ASSUME NEW phase \in Phases, task[w].pc # "idle", Proceed(w, phase)
      PROVE  task' \in [Workers -> Tasks]
  <2>1. [task[w] EXCEPT !.pc = phase] \in Tasks
    BY <1>t, <1>2 DEF Tasks
  <2>2. task' = [task EXCEPT ![w] = [task[w] EXCEPT !.pc = phase]]
    BY <1>t, <1>2 DEF Proceed, Tasks
  <2> QED BY <1>t, <2>1, <2>2
<1>3. ASSUME NEW phase \in Phases, NEW n \in 0..MaxAttempts + 1, task[w].pc # "idle",
             task' = [task EXCEPT ![w].pc = phase, ![w].attempt = n]
      PROVE  task' \in [Workers -> Tasks]
  <2>1. [task[w] EXCEPT !.pc = phase, !.attempt = n] \in Tasks
    BY <1>t, <1>3 DEF Tasks
  <2>2. task' = [task EXCEPT ![w] = [task[w] EXCEPT !.pc = phase, !.attempt = n]]
    BY <1>t, <1>3 DEF Tasks
  <2> QED BY <1>t, <2>1, <2>2
<1>4. "done" \in Phases /\ 0 \in 0..MaxAttempts + 1
  BY LifecycleAssumption DEF Phases
<1> QED BY <1>t, <1>1, <1>2, <1>3, <1>4 DEF Finish

\* A job that has not been inserted has no events.
FreshHasNoEvents == \A j \in Jobs : job[j].kind = "none" => outbox[j].events = 0

TypeInv == TypeOK /\ FreshHasNoEvents

LEMMA TypeInit == Init => TypeInv
<1> SUFFICES ASSUME Init PROVE TypeInv
  OBVIOUS
<1>1. Idle \in Tasks
  BY LifecycleAssumption DEF Idle, Tasks, Phases, Tries
<1>2. job \in [Jobs -> JobRows] /\ task \in [Workers -> Tasks]
  BY <1>1, NewRowsTyped DEF Init
<1>3. outbox \in [Jobs -> [events : 0..MaxEvents, unsent : BOOLEAN]]
  BY LifecycleAssumption DEF Init
<1>4. faults \in 0..MaxFaults /\ dbFaults \in 0..MaxDbFaults
  BY LifecycleAssumption DEF Init
<1>5. TypeOK
  BY <1>2, <1>3, <1>4 DEF Init, TypeOK, DocStatuses
<1> QED
  BY <1>5 DEF Init, TypeInv, FreshHasNoEvents

LEMMA TypeStep == TypeInv /\ [Next]_vars => TypeInv'
<1> SUFFICES ASSUME TypeInv, [Next]_vars PROVE TypeInv'
  OBVIOUS
<1> USE DEF artifacts, broker, budgets
<1> DEFINE Outboxes == [Jobs -> [events : 0..MaxEvents, unsent : BOOLEAN]]
<1>typed. /\ TypeOK /\ FreshHasNoEvents
          /\ job \in [Jobs -> JobRows] /\ task \in [Workers -> Tasks]
          /\ outbox \in Outboxes
          /\ queue \in [Jobs \X Tries -> Nat] /\ lost \in [Jobs \X Tries -> Nat]
          /\ MaxFaults \in Nat /\ MaxDbFaults \in Nat /\ MaxEvents \in Nat \ {0}
  BY LifecycleAssumption DEF TypeInv, TypeOK
<1>enqueued. ASSUME NEW j \in Jobs, outbox[j].events < MaxEvents
             PROVE  Enqueued(j) \in Outboxes
  <2>1. [events |-> outbox[j].events + 1, unsent |-> TRUE]
          \in [events : 0..MaxEvents, unsent : BOOLEAN]
    BY <1>typed, <1>enqueued
  <2> QED BY <1>typed, <2>1 DEF Enqueued
<1>rows. ASSUME NEW j, NEW row \in JobRows
         PROVE  [job EXCEPT ![j] = row] \in [Jobs -> JobRows]
  BY <1>typed
<1>cancelled. /\ WithoutPendingIngestion \in [Jobs -> JobRows]
              /\ \A i \in Jobs : WithoutPendingIngestion[i].kind = job[i].kind
  <2>1. \A i \in Jobs : [job[i] EXCEPT !.status = "failed"] \in JobRows
    BY <1>typed, RowsTyped DEF JobStatuses
  <2>2. \A i \in Jobs : [job[i] EXCEPT !.status = "failed"].kind = job[i].kind
    BY <1>typed DEF JobRows
  <2> QED BY <1>typed, <2>1, <2>2 DEF WithoutPendingIngestion
<1>reaped. /\ DeadIngestionsEnded \in [Jobs -> JobRows]
           /\ \A i \in Jobs : DeadIngestionsEnded[i].kind = job[i].kind
  <2>1. \A i \in Jobs : Released(job[i], "failed") \in JobRows
    BY <1>typed, RowsTyped DEF JobStatuses
  <2>2. \A i \in Jobs : Released(job[i], "failed").kind = job[i].kind
    BY <1>typed DEF JobRows, Released
  <2> QED BY <1>typed, <2>1, <2>2 DEF DeadIngestionsEnded
<1>kinds. ASSUME NEW row \in JobRows
          PROVE  /\ \A s \in JobStatuses : Released(row, s).kind = row.kind
                 /\ \A w \in Workers : Leased(row, w).kind = row.kind
                 /\ \A s \in JobStatuses, l \in {"none", "pending", "succeeded", "failed"} :
                      [Released(row, s) EXCEPT !.ledger = l].kind = row.kind
                 /\ \A l \in {"none", "pending", "succeeded", "failed"} :
                      [row EXCEPT !.ledger = l].kind = row.kind
  BY DEF JobRows, Released, Leased
\* Rows that keep their kind and outboxes that are unchanged, or that grow for
\* a job of some kind only, keep the second part.
<1>fresh. ASSUME \A j \in Jobs : job[j].kind = job'[j].kind,
                 \A j \in Jobs : job[j].kind = "none" => outbox'[j].events = outbox[j].events
          PROVE  FreshHasNoEvents'
  BY <1>typed, <1>fresh DEF FreshHasNoEvents
<1>marked. ASSUME NEW j, MarkBootstrapFailed(j)
           PROVE  /\ job' \in [Jobs -> JobRows] /\ doc' \in DocStatuses
                  /\ \A i \in Jobs : job'[i].kind = job[i].kind
  <2>1. CASE j \in Jobs
    <3> DEFINE row == BootstrapFailed(job[j])
    <3>t. job[j] \in JobRows
      BY <1>typed, <2>1
    <3>r. Released(job[j], "failed") \in JobRows
      BY <3>t, RowsTyped DEF JobStatuses
    <3>k. Released(job[j], "failed").kind = job[j].kind
      BY <3>t DEF Released, JobRows
    <3>1. row \in JobRows /\ row.kind = job[j].kind
      BY <3>r, <3>k DEF BootstrapFailed, JobRows
    <3>2. job' = [job EXCEPT ![j] = row] \/ job' = job
      BY <1>marked DEF MarkBootstrapFailed
    <3>3. job' \in [Jobs -> JobRows] /\ \A i \in Jobs : job'[i].kind = job[i].kind
      BY <1>typed, <3>1, <3>2
    <3> QED BY <1>marked, <1>typed, <3>3 DEF MarkBootstrapFailed, TypeOK, DocStatuses
  <2>2. CASE j \notin Jobs
    <3>1. job' = job
      BY <1>marked, <1>typed, <2>2 DEF MarkBootstrapFailed
    <3> QED BY <1>marked, <1>typed, <3>1 DEF MarkBootstrapFailed, TypeOK, DocStatuses
  <2> QED BY <2>1, <2>2
<1>job. ASSUME NEW w \in Workers, task[w].pc # "idle"
        PROVE  /\ task[w].job \in Jobs /\ task[w].tries \in Tries
               /\ <<task[w].job, task[w].tries>> \in Jobs \X Tries
  BY <1>job, <1>typed DEF Tasks
<1>ends. ASSUME NEW w \in Workers, task[w].pc # "idle",
                Finish(w) \/ \E phase \in Phases : Proceed(w, phase)
         PROVE  task' \in [Workers -> Tasks]
  BY <1>ends, <1>typed, TasksTyped
<1>1. CASE CompleteDocument
  <2>1. PICK j \in Jobs : /\ Fresh(j)
                          /\ job' = [job EXCEPT ![j] = [NoRow EXCEPT !.kind = "ingest"]]
                          /\ outbox' = Enqueued(j)
    BY <1>1 DEF CompleteDocument
  <2>2. outbox[j].events < MaxEvents
    BY <1>typed, <2>1 DEF Fresh, FreshHasNoEvents
  <2>3. job' \in [Jobs -> JobRows] /\ outbox' \in Outboxes
    BY <1>rows, <1>enqueued, <2>1, <2>2, NewRowsTyped
  <2>4. FreshHasNoEvents'
    BY <1>typed, <2>1, NewRowsTyped DEF FreshHasNoEvents, Enqueued, NoRow
  <2> QED BY <1>1, <1>typed, <2>3, <2>4 DEF CompleteDocument, TypeInv, TypeOK, DocStatuses
<1>2. CASE CompleteAgain
  <2>1. PICK j \in Jobs : /\ Latest("ingest", j) /\ CanEnqueue(j)
                          /\ outbox' = Enqueued(j)
    BY <1>2 DEF CompleteAgain
  <2>2. outbox[j].events < MaxEvents /\ job[j].kind = "ingest"
    BY <1>typed, <2>1 DEF CanEnqueue, Latest, OfKind
  <2>3. outbox' \in Outboxes
    BY <1>enqueued, <2>1, <2>2
  <2>4. FreshHasNoEvents'
    BY <1>2, <1>typed, <2>1, <2>2 DEF CompleteAgain, FreshHasNoEvents, Enqueued
  <2> QED BY <1>2, <1>typed, <2>3, <2>4 DEF CompleteAgain, TypeInv, TypeOK
<1>3. CASE RequestDeletion
  <2>1. PICK j \in Jobs :
          /\ Fresh(j)
          /\ job' = [WithoutPendingIngestion EXCEPT
                       ![j] = [NoRow EXCEPT !.kind = "delete", !.ledger = "pending",
                                            !.points = rows /\ tier = "vector"]]
          /\ outbox' = Enqueued(j)
    BY <1>3 DEF RequestDeletion
  <2>2. outbox[j].events < MaxEvents
    BY <1>typed, <2>1 DEF Fresh, FreshHasNoEvents
  <2> DEFINE row == [NoRow EXCEPT !.kind = "delete", !.ledger = "pending",
                                  !.points = rows /\ tier = "vector"]
  <2>3. row \in JobRows /\ row.kind = "delete"
    <3>1. (rows /\ tier = "vector") \in BOOLEAN
      OBVIOUS
    <3> QED BY <3>1, NewRowsTyped DEF NoRow
  <2>4. job' \in [Jobs -> JobRows] /\ outbox' \in Outboxes
    BY <1>cancelled, <1>enqueued, <2>1, <2>2, <2>3
  <2>5. \A i \in Jobs : i # j => job'[i].kind = job[i].kind
    BY <1>cancelled, <2>1
  <2>6. job'[j].kind = "delete"
    BY <1>cancelled, <2>1, <2>3
  <2>7. \A i \in Jobs : i # j => outbox'[i] = outbox[i]
    BY <1>typed, <2>1 DEF Enqueued
  <2>8. FreshHasNoEvents'
    BY <1>typed, <2>5, <2>6, <2>7 DEF FreshHasNoEvents
  <2> QED BY <1>3, <1>typed, <2>4, <2>8 DEF RequestDeletion, TypeInv, TypeOK, DocStatuses
<1>4. CASE RequestDeletionAgain
  <2>1. PICK j \in Jobs : /\ Latest("delete", j) /\ CanEnqueue(j)
                          /\ outbox' = Enqueued(j)
    BY <1>4 DEF RequestDeletionAgain
  <2>2. outbox[j].events < MaxEvents /\ job[j].kind = "delete"
    BY <1>typed, <2>1 DEF CanEnqueue, Latest, OfKind
  <2>3. job' \in [Jobs -> JobRows] /\ outbox' \in Outboxes
    BY <1>4, <1>cancelled, <1>enqueued, <2>1, <2>2 DEF RequestDeletionAgain
  <2>4. FreshHasNoEvents'
    <3>1. \A i \in Jobs : i # j => outbox'[i] = outbox[i]
      BY <1>typed, <2>1 DEF Enqueued
    <3>2. \A i \in Jobs : job'[i].kind = job[i].kind
      BY <1>4, <1>cancelled DEF RequestDeletionAgain
    <3> QED BY <1>typed, <2>2, <3>1, <3>2 DEF FreshHasNoEvents
  <2> QED BY <1>4, <1>typed, <2>3, <2>4 DEF RequestDeletionAgain, TypeInv, TypeOK
<1>5. ASSUME NEW j \in Jobs, PublishEvent(j) PROVE TypeInv'
  <2>1. [outbox EXCEPT ![j].unsent = FALSE] = [outbox EXCEPT ![j] = [outbox[j] EXCEPT !.unsent = FALSE]]
    BY <1>typed
  <2>2. [outbox[j] EXCEPT !.unsent = FALSE] \in [events : 0..MaxEvents, unsent : BOOLEAN]
    BY <1>typed
  <2> DEFINE sent == [outbox[j] EXCEPT !.unsent = FALSE]
  <2>e. sent.events = outbox[j].events
    BY <1>typed
  <2>o. outbox' = [outbox EXCEPT ![j] = sent] \/ outbox' = outbox
    BY <1>5, <2>1 DEF PublishEvent
  <2>3. outbox' \in Outboxes /\ \A i \in Jobs : outbox'[i].events = outbox[i].events
    <3> HIDE DEF sent
    <3>1. sent \in [events : 0..MaxEvents, unsent : BOOLEAN]
      BY <2>2 DEF sent
    <3> QED BY <1>typed, <2>e, <2>o, <3>1
  <2>4. queue' \in [Jobs \X Tries -> Nat]
    BY <1>5, <1>typed, LifecycleAssumption DEF PublishEvent, Tries
  <2>5. faults' \in 0..MaxFaults
    BY <1>5, <1>typed DEF PublishEvent, TypeOK
  <2> QED BY <1>5, <1>typed, <1>fresh, <2>3, <2>4, <2>5 DEF PublishEvent, TypeInv, TypeOK
<1>6. ASSUME NEW j \in Jobs, LeaseExpires(j) PROVE TypeInv'
  <2>1. job' = [job EXCEPT ![j] = [job[j] EXCEPT !.live = FALSE]]
    BY <1>6, <1>typed DEF LeaseExpires, JobRows
  <2>2. [job[j] EXCEPT !.live = FALSE] \in JobRows
    BY <1>typed, ZenonT(30) DEF JobRows
  <2>3. [job[j] EXCEPT !.live = FALSE].kind = job[j].kind
    BY <1>typed DEF JobRows
  <2>4. job' \in [Jobs -> JobRows] /\ \A i \in Jobs : job'[i].kind = job[i].kind
    BY <1>typed, <2>1, <2>2, <2>3
  <2> QED BY <1>6, <1>typed, <1>fresh, <2>4 DEF LeaseExpires, TypeInv, TypeOK
<1>7. ASSUME NEW j \in Jobs, NEW r \in Tries, Restore(j, r) PROVE TypeInv'
  <2>1. queue' \in [Jobs \X Tries -> Nat]
    BY <1>7, <1>typed DEF Restore
  <2>2. lost' \in [Jobs \X Tries -> Nat]
    BY <1>7, <1>typed DEF Restore
  <2> QED BY <1>7, <1>typed, <1>fresh, <2>1, <2>2 DEF Restore, TypeInv, TypeOK
<1>8. ASSUME NEW j \in Jobs, NEW r \in Tries, NEW w \in Workers, Receive(w, j, r)
      PROVE TypeInv'
  <2>1. queue' \in [Jobs \X Tries -> Nat]
    BY <1>8, <1>typed DEF Receive
  <2>2. [pc |-> "received", job |-> j, tries |-> r, attempt |-> 0, held |-> TRUE] \in Tasks
    BY LifecycleAssumption DEF Tasks, Phases
  <2> QED BY <1>8, <1>typed, <1>fresh, <2>1, <2>2 DEF Receive, TypeInv, TypeOK
<1>9. ASSUME NEW w \in Workers, Crash(w) PROVE TypeInv'
  <2>1. lost' \in [Jobs \X Tries -> Nat] /\ faults' \in 0..MaxFaults
    BY <1>9, <1>job, <1>typed DEF Crash, TypeOK
  <2> QED BY <1>9, <1>typed, <1>fresh, <2>1, TasksTyped DEF Crash, TypeInv, TypeOK
<1>10. ASSUME NEW w \in Workers, VisibilityTimeout(w) PROVE TypeInv'
  <2>1. queue' = [queue EXCEPT ![<<task[w].job, task[w].tries>>] = @ + 1]
    BY <1>10 DEF VisibilityTimeout
  <2>2. queue' \in [Jobs \X Tries -> Nat]
    BY <1>typed, <2>1, CountsStayNatural
  <2>3. faults' \in 0..MaxFaults
    BY <1>10, <1>typed DEF VisibilityTimeout, TypeOK
  <2>4. task' = [task EXCEPT ![w] = [task[w] EXCEPT !.held = FALSE]]
    BY <1>10, <1>typed DEF VisibilityTimeout, Tasks
  <2>5. [task[w] EXCEPT !.held = FALSE] \in Tasks
    BY <1>typed, ZenonT(30) DEF Tasks
  <2>6. task' \in [Workers -> Tasks]
    BY <1>typed, <2>4, <2>5
  <2> QED BY <1>10, <1>typed, <1>fresh, <2>2, <2>3, <2>6 DEF VisibilityTimeout, TypeInv, TypeOK
<1>11. ASSUME NEW w \in Workers, Acknowledge(w) PROVE TypeInv'
  BY <1>11, <1>typed, <1>fresh, TasksTyped DEF Acknowledge, TypeInv, TypeOK
<1>12. ASSUME NEW w \in Workers, BootstrapFails(w) PROVE TypeInv'
  <2>1. task' \in [Workers -> Tasks]
    BY <1>12, <1>ends DEF BootstrapFails
  <2>2. faults' \in 0..MaxFaults
    BY <1>12, <1>typed DEF BootstrapFails, TypeOK
  <2> QED BY <1>12, <1>marked, <1>typed, <1>fresh, <2>1, <2>2 DEF BootstrapFails, TypeInv, TypeOK
<1>13. ASSUME NEW w \in Workers, RecordingFails(w) PROVE TypeInv'
  <2>1. task' \in [Workers -> Tasks]
    BY <1>13, <1>ends DEF RecordingFails, Failing
  <2>2. dbFaults' \in 0..MaxDbFaults
    BY <1>13, <1>typed DEF RecordingFails, TypeOK
  <2>3. /\ job' \in [Jobs -> JobRows] /\ doc' \in DocStatuses
        /\ \A i \in Jobs : job'[i].kind = job[i].kind
    BY <1>13, <1>marked, <1>typed DEF RecordingFails, TypeOK
  <2> QED BY <1>13, <1>typed, <1>fresh, <2>1, <2>2, <2>3 DEF RecordingFails, TypeInv, TypeOK
<1>14. ASSUME NEW w \in Workers, Retry(w) PROVE TypeInv'
  <2>1. task' \in [Workers -> Tasks]
    BY <1>14, <1>ends DEF Retry
  <2> DEFINE message == RetryMessage(w)
  <2> HIDE DEF message
  <2>2. queue' = [queue EXCEPT ![message] = @ + 1] \/ queue' = queue
    BY <1>14 DEF Retry, message
  <2>3. queue' \in [Jobs \X Tries -> Nat]
    BY <1>typed, <2>2, CountsStayNatural
  <2> QED BY <1>14, <1>typed, <1>fresh, <2>1, <2>3 DEF Retry, TypeInv, TypeOK
<1>15. ASSUME NEW w \in Workers,
              task' \in [Workers -> Tasks], job' \in [Jobs -> JobRows], doc' \in DocStatuses,
              \A i \in Jobs : job'[i].kind = job[i].kind,
              rows' \in BOOLEAN, vectors' \in {"none", "some", "all"}, object' \in BOOLEAN,
              UNCHANGED <<tier, broker, budgets>>
       PROVE  TypeInv'
  BY <1>15, <1>typed, <1>fresh DEF TypeInv, TypeOK
<1>phases. Phases = {"idle", "received", "working", "parsed", "indexed", "stored",
                     "deleting", "pointsGone", "objectGone",
                     "failingRetryable", "failingTerminal", "retrying", "done"}
  BY DEF Phases
<1>released. ASSUME NEW j, NEW s \in JobStatuses,
                    job' = [job EXCEPT ![j] = Released(@, s)] \/ job' = job
             PROVE  job' \in [Jobs -> JobRows] /\ \A i \in Jobs : job'[i].kind = job[i].kind
  <2>1. j \in Jobs => Released(job[j], s) \in JobRows /\ Released(job[j], s).kind = job[j].kind
    BY <1>typed, <1>kinds, RowsTyped
  <2> QED BY <1>released, <1>typed, <2>1
\* Ingestion.
<1>16. ASSUME NEW w \in Workers, ClaimIngestion(w) PROVE TypeInv'
  <2> DEFINE j == task[w].job
             row == Leased(job[j], w)
  <2>1. j \in Jobs
    BY <1>16, <1>job DEF ClaimIngestion
  <2>2. row \in JobRows /\ row.kind = job[j].kind
    BY <1>typed, <1>kinds, <2>1, RowsTyped
  <2>3. job' = [job EXCEPT ![j] = row]
    BY <1>16 DEF ClaimIngestion
  <2>4. /\ job' \in [Jobs -> JobRows] /\ \A i \in Jobs : job'[i].kind = job[i].kind
        /\ job'[j] = row
    <3> HIDE DEF row
    <3> QED BY <1>typed, <2>1, <2>2, <2>3
  <2>5. job'[j].attempts \in 0..MaxAttempts + 1
    BY <2>1, <2>4 DEF JobRows
  <2>6. task' \in [Workers -> Tasks]
    BY <1>16, <1>typed, <1>phases, <2>5, TasksTyped DEF ClaimIngestion
  <2> QED BY <1>15, <1>16, <1>typed, <2>4, <2>6 DEF ClaimIngestion, TypeOK, DocStatuses
<1>17. ASSUME NEW w \in Workers,
              \/ SkipIngestion(w) \/ DownloadAndParse(w) \/ UpsertVectors(w) \/ IngestionRaises(w)
       PROVE  TypeInv'
  <2>1. task' \in [Workers -> Tasks]
    BY <1>17, <1>ends, <1>phases
       DEF SkipIngestion, DownloadAndParse, UpsertVectors, IngestionRaises
  <2>2. vectors' \in {"none", "some", "all"}
    BY <1>17, <1>typed
       DEF SkipIngestion, DownloadAndParse, UpsertVectors, Upserted, IngestionRaises, TypeOK
  <2> QED BY <1>15, <1>17, <1>typed, <2>1, <2>2
          DEF SkipIngestion, DownloadAndParse, UpsertVectors, IngestionRaises, TypeOK
<1>18. ASSUME NEW w \in Workers, ReplaceContent(w) PROVE TypeInv'
  <2>1. task' \in [Workers -> Tasks]
    BY <1>18, <1>ends, <1>phases DEF ReplaceContent
  <2> QED BY <1>15, <1>18, <1>typed, <2>1 DEF ReplaceContent, TypeOK, DocStatuses
<1>19. ASSUME NEW w \in Workers, MarkReady(w) PROVE TypeInv'
  <2>1. task' \in [Workers -> Tasks]
    BY <1>19, <1>ends, <1>phases DEF MarkReady
  <2>2. job' \in [Jobs -> JobRows] /\ \A i \in Jobs : job'[i].kind = job[i].kind
    BY <1>19, <1>released DEF MarkReady, JobStatuses
  <2> QED BY <1>15, <1>19, <1>typed, <2>1, <2>2 DEF MarkReady, TypeOK, DocStatuses
<1>20. ASSUME NEW w \in Workers, RecordIngestionFailure(w) PROVE TypeInv'
  <2>1. task' \in [Workers -> Tasks]
    BY <1>20, <1>ends, <1>phases DEF RecordIngestionFailure, Failing, AfterFailure
  <2>2. job' \in [Jobs -> JobRows] /\ \A i \in Jobs : job'[i].kind = job[i].kind
    BY <1>20, <1>released DEF RecordIngestionFailure, JobStatuses
  <2> QED BY <1>15, <1>20, <1>typed, <2>1, <2>2 DEF RecordIngestionFailure, TypeOK, DocStatuses
\* Deletion.
<1>21. ASSUME NEW w \in Workers, ClaimDeletion(w) PROVE TypeInv'
  <2> DEFINE j == task[w].job
             row == Leased(DeadIngestionsEnded[j], w)
  <2>1. j \in Jobs
    BY <1>21, <1>job DEF ClaimDeletion
  <2>2. row \in JobRows /\ row.kind = job[j].kind
    BY <1>reaped, <1>kinds, <2>1, RowsTyped, ZenonT(30)
  <2>3. job' = [DeadIngestionsEnded EXCEPT ![j] = row]
    BY <1>21 DEF ClaimDeletion
  <2>4. /\ job' \in [Jobs -> JobRows] /\ \A i \in Jobs : job'[i].kind = job[i].kind
        /\ job'[j] = row
    <3> HIDE DEF row
    <3> QED BY <1>reaped, <2>1, <2>2, <2>3
  <2>5. job'[j].attempts \in 0..MaxAttempts + 1
    BY <2>1, <2>4 DEF JobRows
  <2>6. task' \in [Workers -> Tasks]
    BY <1>21, <1>typed, <1>phases, <2>5, TasksTyped DEF ClaimDeletion
  <2> QED BY <1>15, <1>21, <1>typed, <2>4, <2>6 DEF ClaimDeletion, TypeOK
<1>22. ASSUME NEW w \in Workers, SkipDeletion(w) PROVE TypeInv'
  <2>1. task' \in [Workers -> Tasks]
    BY <1>22, <1>ends DEF SkipDeletion
  <2> QED BY <1>15, <1>22, <1>reaped, <1>typed, <2>1 DEF SkipDeletion, TypeOK
<1>23. ASSUME NEW w \in Workers,
              DeferDeletion(w) \/ DeletePoints(w) \/ DeleteObject(w) \/ DeletionRaises(w)
       PROVE  TypeInv'
  <2>1. task' \in [Workers -> Tasks]
    BY <1>23, <1>ends, <1>phases DEF DeferDeletion, DeletePoints, DeleteObject, DeletionRaises
  <2> QED BY <1>15, <1>23, <1>typed, <2>1
          DEF DeferDeletion, DeletePoints, WithoutPoints, DeleteObject, DeletionRaises, TypeOK
<1>24. ASSUME NEW w \in Workers, FinishDeletion(w) PROVE TypeInv'
  <2> DEFINE j == task[w].job
             row == [Released(job[j], "succeeded") EXCEPT !.ledger = "succeeded"]
  <2>1. task' \in [Workers -> Tasks]
    BY <1>24, <1>ends, <1>phases DEF FinishDeletion
  <2>2. j \in Jobs
    BY <1>24, <1>job DEF FinishDeletion
  <2>3. row \in JobRows /\ row.kind = job[j].kind
    <3> DEFINE r == Released(job[j], "succeeded")
    <3>1. r \in JobRows /\ r.kind = job[j].kind
      BY <1>typed, <1>kinds, <2>2, RowsTyped DEF JobStatuses
    <3> HIDE DEF r
    <3>2. [r EXCEPT !.ledger = "succeeded"] \in JobRows
          /\ [r EXCEPT !.ledger = "succeeded"].kind = r.kind
      BY <3>1 DEF JobRows
    <3> QED BY <3>1, <3>2 DEF r
  <2>4. job' = [job EXCEPT ![j] = row] \/ job' = job
    BY <1>24 DEF FinishDeletion
  <2>5. /\ job' \in [Jobs -> JobRows] /\ \A i \in Jobs : job'[i].kind = job[i].kind
    <3> HIDE DEF row
    <3> QED BY <1>typed, <2>3, <2>4
  <2> QED BY <1>15, <1>24, <1>typed, <2>1, <2>5 DEF FinishDeletion, TypeOK
<1>25. ASSUME NEW w \in Workers, RecordDeletionFailure(w) PROVE TypeInv'
  <2> DEFINE j == task[w].job
             row == [IF job[j].owner = Host[w] THEN Released(job[j], "failed") ELSE job[j]
                       EXCEPT !.ledger = "failed"]
  <2>1. task' \in [Workers -> Tasks]
    BY <1>25, <1>ends, <1>phases DEF RecordDeletionFailure, Failing, AfterFailure
  <2>2. j \in Jobs
    BY <1>25, <1>job DEF RecordDeletionFailure, Failing
  <2>3. row \in JobRows /\ row.kind = job[j].kind
    <3> DEFINE r == IF job[j].owner = Host[w] THEN Released(job[j], "failed") ELSE job[j]
    <3>1. r \in JobRows /\ r.kind = job[j].kind
      BY <1>typed, <1>kinds, <2>2, RowsTyped DEF JobStatuses
    <3> HIDE DEF r
    <3>2. [r EXCEPT !.ledger = "failed"] \in JobRows
          /\ [r EXCEPT !.ledger = "failed"].kind = r.kind
      BY <3>1 DEF JobRows
    <3> QED BY <3>1, <3>2 DEF r
  <2>4. \/ job' = [job EXCEPT ![j] = row]
        \/ job' = [job EXCEPT ![j] = Released(@, "pending")]
        \/ job' = job
    BY <1>25 DEF RecordDeletionFailure
  <2>5. job' \in [Jobs -> JobRows] /\ \A i \in Jobs : job'[i].kind = job[i].kind
    <3> HIDE DEF row
    <3>1. CASE job' = [job EXCEPT ![j] = row]
      BY <1>typed, <2>3, <3>1
    <3> QED BY <1>released, <2>4, <3>1 DEF JobStatuses
  <2> QED BY <1>15, <1>25, <1>typed, <2>1, <2>5 DEF RecordDeletionFailure, TypeOK
<1>26. CASE UNCHANGED vars
  BY <1>26, <1>typed, <1>fresh DEF vars, TypeInv, TypeOK
<1>27. CASE UploadContent \/ RejectUpload
  BY <1>27, <1>typed, <1>fresh DEF UploadContent, RejectUpload, TypeInv, TypeOK
<1> QED
  BY <1>1, <1>2, <1>3, <1>4, <1>5, <1>6, <1>7, <1>8, <1>9, <1>10, <1>11, <1>12, <1>13, <1>14,
     <1>16, <1>17, <1>18, <1>19, <1>20, <1>21, <1>22, <1>23, <1>24, <1>25, <1>26, <1>27
     DEF Next, Request, Work, Ingest, Delete, Disturb

LEMMA TypeInvariant == Spec => []TypeInv
  BY TypeInit, TypeStep, PTL DEF Spec

\* Every reachable state is well typed: a worker that is not idle has a job, and
\* no job ever has more events than the limit.
THEOREM TypeCorrect == Spec => []TypeOK
<1>1. TypeInv => TypeOK
  BY DEF TypeInv
<1> QED BY <1>1, TypeInvariant, PTL

-----------------------------------------------------------------------------
(* A deletion is for good.                                                 *)

\* No worker, however late, resurrects a deleted document.
THEOREM DeletedStays == Spec => DeletedIsFinal
<1>1. [Next]_vars => [doc = "deleted" => doc' = "deleted"]_vars
  <2> SUFFICES ASSUME Next, doc = "deleted" PROVE doc' = "deleted"
    OBVIOUS
  <2> USE DEF artifacts, broker, budgets
  <2>1. CASE Request
    BY <2>1 DEF Request, CompleteDocument, CompleteAgain, RequestDeletion, RequestDeletionAgain
  <2>0. CASE UploadContent \/ RejectUpload
    BY <2>0 DEF UploadContent, RejectUpload
  <2>2. ASSUME NEW j \in Jobs, PublishEvent(j) \/ LeaseExpires(j) PROVE doc' = "deleted"
    BY <2>2 DEF PublishEvent, LeaseExpires
  <2>3. ASSUME NEW j \in Jobs, NEW r \in Tries,
               Restore(j, r) \/ \E w \in Workers : Receive(w, j, r)
        PROVE  doc' = "deleted"
    BY <2>3 DEF Restore, Receive
  <2>4. ASSUME NEW w \in Workers, Ingest(w) PROVE doc' = "deleted"
    BY <2>4 DEF Ingest, ClaimIngestion, ClaimableForIngestion, SkipIngestion, DownloadAndParse,
                UpsertVectors, ReplaceContent, MayReplace, MarkReady, MayFinish,
                IngestionRaises, RecordIngestionFailure
  <2>5. ASSUME NEW w \in Workers, Delete(w) PROVE doc' = "deleted"
    BY <2>5 DEF Delete, ClaimDeletion, DeferDeletion, SkipDeletion, DeletePoints, DeleteObject,
                FinishDeletion, DeletionRaises, RecordDeletionFailure
  <2>6. ASSUME NEW w \in Workers, Retry(w) \/ Acknowledge(w) \/ Disturb(w)
        PROVE  doc' = "deleted"
    BY <2>6 DEF Retry, Acknowledge, Disturb, BootstrapFails, RecordingFails,
                MarkBootstrapFailed, VisibilityTimeout, Crash
  <2> QED BY <2>0, <2>1, <2>2, <2>3, <2>4, <2>5, <2>6 DEF Next, Work
<1> QED BY <1>1, PTL DEF Spec, DeletedIsFinal

-----------------------------------------------------------------------------
(* What one step may do to a job row.                                      *)

\* The row keeps its status and its owner; its lease may expire.
Kept(j) ==
  /\ job'[j].kind = job[j].kind /\ job'[j].status = job[j].status
  /\ job'[j].owner = job[j].owner
  /\ job'[j].live => job[j].live

\* The API inserts it.
Inserted(j) ==
  /\ job[j].kind = "none" /\ job'[j].kind \in {"ingest", "delete"}
  /\ job'[j].kind = "delete" => doc' = "deleted"
  /\ job'[j].status = "pending" /\ job'[j].owner = NoHost /\ ~job'[j].live

\* A worker claims it.
Taken(j) ==
  /\ job'[j].kind = job[j].kind
  /\ job[j].status \in {"pending", "running"} /\ job'[j].status = "running"
  /\ \/ job[j].kind = "ingest" /\ doc # "deleted"
     \/ job[j].kind = "delete" /\ ~LiveIngestion

\* It succeeds as an ingestion of a document in progress, or as a deletion that
\* has deleted the object and now deletes the rows.
Succeeds ==
  \/ doc = "indexing"
  \/ /\ \E w \in Workers : task[w].pc = "objectGone"
     /\ ~rows' /\ object' = object

\* It is released, cancelled or ended.
Left(j) ==
  /\ job'[j].kind = job[j].kind
  /\ job[j].status \in {"pending", "running"}
  /\ job'[j].status # "running" /\ job'[j].owner = NoHost /\ ~job'[j].live
  /\ job'[j].status = "succeeded" => Succeeds

RowStep(j) == Kept(j) \/ Inserted(j) \/ Taken(j) \/ Left(j)

\* Only a running job has an owner or a lease.
LeasedIsRunning == \A j \in Jobs : Running(j) \/ (job[j].owner = NoHost /\ ~job[j].live)

LEMMA RowFields ==
  ASSUME NEW row \in JobRows
  PROVE  /\ \A s \in JobStatuses :
              /\ Released(row, s).kind = row.kind /\ Released(row, s).status = s
              /\ Released(row, s).owner = NoHost /\ ~Released(row, s).live
         /\ \A w \in Workers : /\ Leased(row, w).kind = row.kind
                                /\ Leased(row, w).status = "running"
BY DEF JobRows, JobStatuses, Released, Leased

LEMMA JobsStep ==
  ASSUME TypeOK, LeasedIsRunning, Next, NEW j \in Jobs
  PROVE  RowStep(j)
<1> USE DEF artifacts, broker, budgets
<1>typed. /\ job \in [Jobs -> JobRows] /\ job[j] \in JobRows
  BY DEF TypeOK
<1>fields. /\ \A s \in JobStatuses :
                /\ Released(job[j], s).kind = job[j].kind /\ Released(job[j], s).status = s
                /\ Released(job[j], s).owner = NoHost /\ ~Released(job[j], s).live
           /\ \A w \in Workers : /\ Leased(job[j], w).kind = job[j].kind
                                  /\ Leased(job[j], w).status = "running"
  BY <1>typed, RowFields
<1>same. ASSUME job'[j] = job[j] PROVE RowStep(j)
  BY <1>same DEF RowStep, Kept
<1>left. ASSUME NEW s \in {"pending", "succeeded", "failed"}, job'[j] = Released(job[j], s),
                job[j].status \in {"pending", "running"},
                s = "succeeded" => Succeeds
         PROVE  RowStep(j)
  BY <1>left, <1>fields DEF RowStep, Left, JobStatuses
<1>owned. ASSUME NEW w \in Workers, job[j].owner = Host[w]
         PROVE  job[j].status \in {"pending", "running"}
  BY <1>owned, LifecycleAssumption DEF LeasedIsRunning, Running
<1>obtained. ASSUME Obtainable(j) PROVE job[j].status \in {"pending", "running"}
  BY <1>obtained DEF Obtainable, Running
<1>cancelled. ASSUME job'[j] = WithoutPendingIngestion[j] PROVE RowStep(j)
  <2>1. CASE job[j].kind = "ingest" /\ job[j].status = "pending"
    <3>1. job'[j] = [job[j] EXCEPT !.status = "failed"]
      BY <1>cancelled, <2>1 DEF WithoutPendingIngestion
    <3>2. job[j].owner = NoHost /\ ~job[j].live
      BY <2>1 DEF LeasedIsRunning, Running
    <3> QED BY <1>typed, <2>1, <3>1, <3>2 DEF RowStep, Left, JobRows
  <2>2. CASE ~(job[j].kind = "ingest" /\ job[j].status = "pending")
    BY <1>cancelled, <1>same, <2>2 DEF WithoutPendingIngestion
  <2> QED BY <2>1, <2>2
<1>reaped. ASSUME job'[j] = DeadIngestionsEnded[j] PROVE RowStep(j)
  <2>1. CASE j \in DeadIngestions
    <3>1. job'[j] = Released(job[j], "failed")
      BY <1>reaped, <2>1 DEF DeadIngestionsEnded
    <3> QED BY <1>left, <2>1, <3>1 DEF DeadIngestions, Running
  <2>2. CASE j \notin DeadIngestions
    BY <1>reaped, <1>same, <2>2 DEF DeadIngestionsEnded
  <2> QED BY <2>1, <2>2
<1>marked. ASSUME NEW i, MarkBootstrapFailed(i) PROVE RowStep(j)
  <2>1. CASE Obtainable(i) /\ i = j
    <3>1. job'[j] = BootstrapFailed(job[j])
      BY <1>marked, <1>typed, <2>1 DEF MarkBootstrapFailed
    <3>2. /\ job'[j].kind = job[j].kind /\ job'[j].status = "failed"
          /\ job'[j].owner = NoHost /\ ~job'[j].live
      BY <1>typed, <3>1 DEF BootstrapFailed, Released, JobRows
    <3> QED BY <1>obtained, <2>1, <3>2 DEF RowStep, Left
  <2>2. CASE ~(Obtainable(i) /\ i = j)
    BY <1>marked, <1>same, <1>typed, <2>2 DEF MarkBootstrapFailed
  <2> QED BY <2>1, <2>2
<1>1. CASE Request
  <2>1. CASE CompleteDocument
    <3>1. PICK i \in Jobs : /\ Fresh(i)
                            /\ job' = [job EXCEPT ![i] = [NoRow EXCEPT !.kind = "ingest"]]
      BY <2>1 DEF CompleteDocument
    <3>2. CASE i = j
      BY <1>typed, <3>1, <3>2 DEF Fresh, NoRow, RowStep, Inserted
    <3>3. CASE i # j
      BY <1>same, <1>typed, <3>1, <3>3
    <3> QED BY <3>2, <3>3
  <2>2. CASE CompleteAgain
    BY <1>same, <2>2 DEF CompleteAgain
  <2>3. CASE RequestDeletion
    <3>1. PICK i \in Jobs :
            /\ Fresh(i)
            /\ job' = [WithoutPendingIngestion EXCEPT
                         ![i] = [NoRow EXCEPT !.kind = "delete", !.ledger = "pending",
                                              !.points = rows /\ tier = "vector"]]
      BY <2>3 DEF RequestDeletion
    <3>2. DOMAIN WithoutPendingIngestion = Jobs
      BY DEF WithoutPendingIngestion
    <3>3. CASE i = j
      <4>1. job'[j] = [NoRow EXCEPT !.kind = "delete", !.ledger = "pending",
                                    !.points = rows /\ tier = "vector"]
        BY <3>1, <3>2, <3>3
      <4>2. doc' = "deleted" /\ job[j].kind = "none"
        BY <2>3, <3>1, <3>3 DEF RequestDeletion, Fresh
      <4> QED BY <4>1, <4>2 DEF NoRow, RowStep, Inserted
    <3>4. CASE i # j
      BY <1>cancelled, <3>1, <3>2, <3>4
    <3> QED BY <3>3, <3>4
  <2>4. CASE RequestDeletionAgain
    BY <1>cancelled, <2>4 DEF RequestDeletionAgain
  <2> QED BY <1>1, <2>1, <2>2, <2>3, <2>4 DEF Request
<1>2. ASSUME NEW i \in Jobs, PublishEvent(i) PROVE RowStep(j)
  BY <1>2, <1>same DEF PublishEvent
<1>3. ASSUME NEW i \in Jobs, LeaseExpires(i) PROVE RowStep(j)
  <2>1. CASE i = j
    <3>1. job'[j] = [job[j] EXCEPT !.live = FALSE]
      BY <1>3, <1>typed, <2>1 DEF LeaseExpires
    <3> QED BY <1>typed, <3>1 DEF JobRows, RowStep, Kept
  <2>2. CASE i # j
    BY <1>3, <1>same, <1>typed, <2>2 DEF LeaseExpires
  <2> QED BY <2>1, <2>2
<1>4. ASSUME NEW i \in Jobs, NEW r \in Tries,
             Restore(i, r) \/ \E w \in Workers : Receive(w, i, r)
      PROVE  RowStep(j)
  BY <1>4, <1>same DEF Restore, Receive
<1>5. ASSUME NEW w \in Workers, ClaimIngestion(w) PROVE RowStep(j)
  <2>1. CASE task[w].job = j
    <3>1. job'[j] = Leased(job[j], w) /\ job[j].kind = "ingest" /\ doc # "deleted"
      BY <1>5, <1>typed, <2>1 DEF ClaimIngestion, ClaimableForIngestion
    <3>2. job[j].status \in {"pending", "running"}
      BY <1>5, <1>obtained, <2>1 DEF ClaimIngestion, ClaimableForIngestion
    <3> QED BY <1>fields, <3>1, <3>2 DEF RowStep, Taken
  <2>2. CASE task[w].job # j
    BY <1>5, <1>same, <1>typed, <2>2 DEF ClaimIngestion
  <2> QED BY <2>1, <2>2
<1>6. ASSUME NEW w \in Workers, ClaimDeletion(w) PROVE RowStep(j)
  <2>1. DOMAIN DeadIngestionsEnded = Jobs
    BY DEF DeadIngestionsEnded
  <2>2. CASE task[w].job = j
    <3>1. job'[j] = Leased(DeadIngestionsEnded[j], w) /\ job[j].kind = "delete" /\ ~LiveIngestion
      BY <1>6, <2>1, <2>2 DEF ClaimDeletion, ClaimableForDeletion
    <3>2. DeadIngestionsEnded[j] = job[j]
      BY <3>1 DEF DeadIngestionsEnded, DeadIngestions, OfKind
    <3>3. job[j].status \in {"pending", "running"}
      BY <1>6, <1>obtained, <2>2 DEF ClaimDeletion, ClaimableForDeletion
    <3> QED BY <1>fields, <3>1, <3>2, <3>3 DEF RowStep, Taken
  <2>3. CASE task[w].job # j
    BY <1>6, <1>reaped, <2>1, <2>3 DEF ClaimDeletion
  <2> QED BY <2>2, <2>3
<1>7. ASSUME NEW w \in Workers, SkipDeletion(w) PROVE RowStep(j)
  BY <1>7, <1>reaped DEF SkipDeletion
<1>8. ASSUME NEW w \in Workers, MarkReady(w) PROVE RowStep(j)
  <2>1. CASE task[w].job = j /\ MayFinish(w)
    BY <1>8, <1>left, <1>typed, <2>1 DEF MarkReady, MayFinish, HoldsLease, Running, Succeeds
  <2>2. CASE ~(task[w].job = j /\ MayFinish(w))
    BY <1>8, <1>same, <1>typed, <2>2 DEF MarkReady
  <2> QED BY <2>1, <2>2
<1>9. ASSUME NEW w \in Workers, RecordIngestionFailure(w) PROVE RowStep(j)
  <2>1. CASE task[w].job = j /\ job[j].owner = Host[w]
    <3>1. job'[j] = Released(job[j], "failed") \/ job'[j] = Released(job[j], "pending")
      BY <1>9, <1>typed, <2>1 DEF RecordIngestionFailure
    <3> QED BY <1>left, <1>owned, <2>1, <3>1
  <2>2. CASE ~(task[w].job = j /\ job[j].owner = Host[w])
    BY <1>9, <1>same, <1>typed, <2>2 DEF RecordIngestionFailure
  <2> QED BY <2>1, <2>2
<1>10. ASSUME NEW w \in Workers, FinishDeletion(w) PROVE RowStep(j)
  <2>1. CASE task[w].job = j /\ HoldsLease(j, w)
    <3>1. job'[j] = [Released(job[j], "succeeded") EXCEPT !.ledger = "succeeded"]
      BY <1>10, <1>typed, <2>1 DEF FinishDeletion
    <3>2. /\ job'[j].kind = job[j].kind /\ job'[j].status = "succeeded"
          /\ job'[j].owner = NoHost /\ ~job'[j].live
      BY <1>typed, <3>1 DEF Released, JobRows
    <3>3. Succeeds
      BY <1>10, <2>1 DEF FinishDeletion, Succeeds
    <3> QED BY <2>1, <3>2, <3>3 DEF RowStep, Left, HoldsLease, Running
  <2>2. CASE ~(task[w].job = j /\ HoldsLease(j, w))
    BY <1>10, <1>same, <1>typed, <2>2 DEF FinishDeletion
  <2> QED BY <2>1, <2>2
<1>11. ASSUME NEW w \in Workers, RecordDeletionFailure(w) PROVE RowStep(j)
  <2>1. CASE task[w].job = j /\ job[j].owner = Host[w]
    <3>1. job[j].status \in {"pending", "running"}
      BY <1>owned, <2>1
    <3>2. CASE job'[j] = Released(job[j], "pending")
      BY <1>left, <3>1, <3>2
    <3>3. CASE job'[j] = [Released(job[j], "failed") EXCEPT !.ledger = "failed"]
      BY <1>typed, <3>1, <3>3 DEF Released, JobRows, RowStep, Left
    <3> QED BY <1>11, <1>typed, <2>1, <3>2, <3>3 DEF RecordDeletionFailure
  <2>2. CASE task[w].job = j /\ job[j].owner # Host[w]
    <3>1. job'[j] = job[j] \/ job'[j] = [job[j] EXCEPT !.ledger = "failed"]
      BY <1>11, <1>typed, <2>2 DEF RecordDeletionFailure
    <3> QED BY <1>same, <1>typed, <3>1 DEF JobRows, RowStep, Kept
  <2>3. CASE task[w].job # j
    BY <1>11, <1>same, <1>typed, <2>3 DEF RecordDeletionFailure
  <2> QED BY <2>1, <2>2, <2>3
<1>12. ASSUME NEW w \in Workers, BootstrapFails(w) \/ RecordingFails(w) PROVE RowStep(j)
  BY <1>12, <1>marked, <1>same DEF BootstrapFails, RecordingFails
<1>13. ASSUME NEW w \in Workers,
              \/ SkipIngestion(w) \/ DownloadAndParse(w) \/ UpsertVectors(w)
              \/ ReplaceContent(w) \/ IngestionRaises(w)
              \/ DeferDeletion(w) \/ DeletePoints(w) \/ DeleteObject(w) \/ DeletionRaises(w)
              \/ Retry(w) \/ Acknowledge(w) \/ VisibilityTimeout(w) \/ Crash(w)
       PROVE  RowStep(j)
  BY <1>13, <1>same
     DEF SkipIngestion, DownloadAndParse, UpsertVectors, ReplaceContent, IngestionRaises,
         DeferDeletion, DeletePoints, DeleteObject, DeletionRaises, Retry, Acknowledge,
         VisibilityTimeout, Crash
<1>14. CASE UploadContent \/ RejectUpload
  BY <1>14, <1>same DEF UploadContent, RejectUpload
<1> QED
  BY <1>1, <1>2, <1>3, <1>4, <1>5, <1>6, <1>7, <1>8, <1>9, <1>10, <1>11, <1>12, <1>13, <1>14
     DEF Next, Work, Ingest, Delete, Disturb

LEMMA LeaseStep == TypeOK /\ LeasedIsRunning /\ [Next]_vars => LeasedIsRunning'
<1> SUFFICES ASSUME TypeOK, LeasedIsRunning, [Next]_vars, NEW j \in Jobs
             PROVE  Running(j)' \/ (job'[j].owner = NoHost /\ ~job'[j].live)
  BY DEF LeasedIsRunning
<1>1. CASE UNCHANGED vars
  BY <1>1 DEF vars, LeasedIsRunning, Running
<1>2. CASE Next
  <2>1. RowStep(j)
    BY <1>2, JobsStep
  <2> QED BY <2>1 DEF RowStep, Kept, Inserted, Taken, Left, LeasedIsRunning, Running
<1> QED BY <1>1, <1>2

LEMMA LeaseInvariant == Spec => [](TypeOK /\ LeasedIsRunning)
<1>1. Init => LeasedIsRunning
  BY DEF Init, LeasedIsRunning, NoRow
<1> QED BY <1>1, LeaseStep, TypeCorrect, PTL DEF Spec

-----------------------------------------------------------------------------
(* Jobs end once, and deletions exclude ingestions.                        *)

\* A job that has ended never starts again, whatever a worker that lost its
\* lease still writes, a late delivery claims or a second request does.
THEOREM JobsStayEnded == Spec => EndedJobsStayEnded
<1>1. TypeOK /\ LeasedIsRunning /\ [Next]_vars =>
        [\A j \in Jobs : job[j].kind # "none" /\ Ended(j) => job'[j].status = job[j].status]_vars
  <2> SUFFICES ASSUME TypeOK, LeasedIsRunning, Next, NEW j \in Jobs,
                      job[j].kind # "none", Ended(j)
               PROVE  job'[j].status = job[j].status
    OBVIOUS
  <2>1. RowStep(j)
    BY JobsStep
  <2> QED BY <2>1 DEF RowStep, Kept, Inserted, Taken, Left, Ended
<1> QED BY <1>1, LeaseInvariant, PTL DEF Spec, EndedJobsStayEnded

\* Only a deleted document has deletion jobs; that is what keeps an ingestion
\* from being claimed once a deletion has begun.
DeletionsAreOfDeleted == \A j \in Jobs : job[j].kind = "delete" => doc = "deleted"

DeletionInv == DeletionsAreOfDeleted /\ DeletionExcludesIngestion

LEMMA DeletionStep ==
  TypeOK /\ LeasedIsRunning /\ DeletionInv /\ (doc = "deleted" => doc' = "deleted")
    /\ [Next]_vars => DeletionInv'
<1> SUFFICES ASSUME TypeOK, LeasedIsRunning, DeletionInv, doc = "deleted" => doc' = "deleted",
                    [Next]_vars
             PROVE  DeletionInv'
  OBVIOUS
<1> USE DEF DeletionInv
<1>1. CASE UNCHANGED vars
  BY <1>1 DEF vars, DeletionsAreOfDeleted, DeletionExcludesIngestion, LiveIngestion, OfKind, Running
<1>2. CASE Next
  <2>1. \A j \in Jobs : RowStep(j)
    BY <1>2, JobsStep
  <2>2. DeletionsAreOfDeleted'
    BY <2>1 DEF RowStep, Kept, Inserted, Taken, Left, DeletionsAreOfDeleted
  <2>3. ASSUME NEW d \in Jobs, job'[d].kind = "delete", Running(d)', job'[d].live,
               NEW i \in Jobs, job'[i].kind = "ingest", Running(i)', job'[i].live
        PROVE  FALSE
    <3>1. Kept(d) \/ Taken(d)
      BY <2>1, <2>3 DEF RowStep, Inserted, Left, Running
    <3>2. Kept(i) \/ Taken(i)
      BY <2>1, <2>3 DEF RowStep, Inserted, Left, Running
    <3>3. job[d].kind = "delete" /\ job[i].kind = "ingest"
      BY <2>3, <3>1, <3>2 DEF Kept, Taken
    <3>4. doc = "deleted"
      BY <3>3 DEF DeletionsAreOfDeleted
    <3>5. Kept(i) /\ LiveIngestion
      BY <2>3, <3>2, <3>3, <3>4 DEF Taken, Kept, LiveIngestion, OfKind, Running
    <3>6. Kept(d)
      BY <3>1, <3>3, <3>5 DEF Taken
    <3> QED BY <2>3, <3>3, <3>5, <3>6 DEF Kept, DeletionExcludesIngestion, OfKind, Running
  <2>4. DeletionExcludesIngestion'
    BY <2>3 DEF DeletionExcludesIngestion, LiveIngestion, OfKind, Running
  <2> QED BY <2>2, <2>4
<1> QED BY <1>1, <1>2

LEMMA DeletionInvariant == Spec => []DeletionInv
<1>1. Init => DeletionInv
  BY DEF Init, NoRow, DeletionInv, DeletionsAreOfDeleted, DeletionExcludesIngestion, OfKind
<1>2. Spec => [][doc = "deleted" => doc' = "deleted"]_vars
  BY DeletedStays DEF DeletedIsFinal
<1>3. TypeOK /\ LeasedIsRunning /\ DeletionInv /\ [Next]_vars
        /\ [doc = "deleted" => doc' = "deleted"]_vars => DeletionInv'
  <2>1. UNCHANGED vars => UNCHANGED doc
    BY DEF vars
  <2> QED BY <2>1, DeletionStep
<1> QED BY <1>1, <1>2, <1>3, LeaseInvariant, PTL DEF Spec

\* Remote artifacts are deleted only while no ingestion of the document holds a
\* lease: the claim of the deletion waits, and none is claimed after it.
THEOREM DeletionIsExclusive == Spec => []DeletionExcludesIngestion
<1>1. DeletionInv => DeletionExcludesIngestion
  BY DEF DeletionInv
<1> QED BY <1>1, DeletionInvariant, PTL

-----------------------------------------------------------------------------
(* What one step may do to the data of the document and to a worker.       *)

\* Phases in which a worker relies on nothing that was stored.
Aside == {"idle", "received", "failingRetryable", "failingTerminal", "retrying", "done"}

\* A worker goes on with its task.
Advances(w) ==
  \/ /\ task[w].pc = "received" /\ task'[w].pc = "working"
     /\ job[task[w].job].kind = "ingest"
  \/ task[w].pc = "working" /\ task'[w].pc = "parsed" /\ object'
  \/ /\ task[w].pc = "parsed" /\ task'[w].pc = "indexed"
     /\ object' = object /\ vectors' = IF tier = "vector" THEN "all" ELSE vectors
  \/ /\ task[w].pc = "indexed" /\ task'[w].pc = "stored"
     /\ object' = object /\ vectors' = vectors /\ rows'
  \/ task'[w].pc = "deleting" /\ doc = "deleted"
  \/ task[w].pc = "deleting" /\ task'[w].pc = "pointsGone"
  \/ task[w].pc = "pointsGone" /\ task'[w].pc = "objectGone" /\ ~object'

WorkerStep(w) ==
  \/ task'[w].pc = task[w].pc /\ task'[w].job = task[w].job
  \/ task'[w].pc \in Aside
  \/ task'[w].job = task[w].job /\ Advances(w)

\* A document becomes ready in the last step of an ingestion.
BecomesReady(w) ==
  /\ task[w].pc = "stored" /\ doc = "indexing"
  /\ object' = object /\ vectors' = vectors /\ rows' = rows
  /\ job'[task[w].job].status = "succeeded"

DataStep ==
  /\ tier' = tier
  /\ \/ object' = object
     \/ object' /\ doc # "deleted"
     \/ OfKind("ingest") = {} /\ ~object'
     \/ (\E w \in Workers : task[w].pc = "pointsGone") /\ ~object'
  /\ \/ vectors' = vectors
     \/ tier = "vector" /\ (vectors = "none" \/ vectors' = "all")
     \/ (\E w \in Workers : task[w].pc = "deleting") /\ vectors' = "none"
  /\ \/ rows' = rows
     \/ rows' /\ doc # "deleted"
     \/ (\E w \in Workers : task[w].pc = "objectGone") /\ ~rows'
  /\ doc' = "ready" => doc = "ready" \/ \E w \in Workers : BecomesReady(w)

LEMMA DataSteps ==
  ASSUME TypeOK, Next
  PROVE  DataStep /\ \A v \in Workers : WorkerStep(v)
<1> DEFINE Goal == DataStep /\ \A v \in Workers : WorkerStep(v)
<1> USE DEF artifacts, broker, budgets
<1>typed. task \in [Workers -> Tasks] /\ job \in [Jobs -> JobRows]
  BY DEF TypeOK
<1>still. ASSUME task' = task PROVE \A v \in Workers : WorkerStep(v)
  BY <1>still DEF WorkerStep
\* One worker moves: aside, or on.
<1>moved. ASSUME NEW w \in Workers, \A v \in Workers : v # w => task'[v] = task[v],
                 task'[w].pc \in Aside \/ (task'[w].job = task[w].job /\ Advances(w))
          PROVE  \A v \in Workers : WorkerStep(v)
  BY <1>moved DEF WorkerStep
<1>phase. ASSUME NEW w \in Workers, NEW phase \in Phases,
                 \/ Proceed(w, phase)
                 \/ \E n : task' = [task EXCEPT ![w].pc = phase, ![w].attempt = n]
          PROVE  /\ \A v \in Workers : v # w => task'[v] = task[v]
                 /\ task'[w].pc = phase /\ task'[w].job = task[w].job
  BY <1>phase, <1>typed DEF Proceed, Tasks
<1>aside. ASSUME NEW w \in Workers,
                 \/ Finish(w) \/ \E phase \in Aside : Proceed(w, phase)
          PROVE  \A v \in Workers : WorkerStep(v)
  <2>1. Finish(w) => \/ Proceed(w, "done")
                     \/ \E n : task' = [task EXCEPT ![w].pc = "done", ![w].attempt = n]
    BY DEF Finish
  <2>2. PICK phase \in Aside : \/ Proceed(w, phase)
                              \/ \E n : task' = [task EXCEPT ![w].pc = phase, ![w].attempt = n]
    BY <1>aside, <2>1 DEF Aside
  <2>3. phase \in Phases
    BY DEF Aside, Phases
  <2>4. (\A v \in Workers : v # w => task'[v] = task[v]) /\ task'[w].pc = phase
    BY <1>phase, <2>2, <2>3
  <2> QED BY <1>moved, <2>2, <2>4
<1>kept. ASSUME UNCHANGED artifacts, doc' = "ready" => doc = "ready" PROVE DataStep
  BY <1>kept DEF DataStep
<1>phases. /\ {"failingRetryable", "failingTerminal", "retrying"} \subseteq Aside
           /\ {"working", "parsed", "indexed", "stored", "deleting", "pointsGone", "objectGone"}
                \subseteq Phases
  BY DEF Phases, Aside
<1>0. CASE UploadContent \/ RejectUpload
  BY <1>0, <1>still DEF UploadContent, RejectUpload, MayMismatch, DataStep
<1>1. CASE Request
  BY <1>1, <1>still, <1>kept DEF Request, CompleteDocument, CompleteAgain, RequestDeletion,
                                 RequestDeletionAgain
<1>2. ASSUME NEW j \in Jobs, PublishEvent(j) \/ LeaseExpires(j) PROVE Goal
  BY <1>2, <1>still, <1>kept DEF PublishEvent, LeaseExpires
<1>3. ASSUME NEW j \in Jobs, NEW r \in Tries,
             Restore(j, r) \/ \E w \in Workers : Receive(w, j, r)
      PROVE  Goal
  <2>1. CASE Restore(j, r)
    BY <2>1, <1>still, <1>kept DEF Restore
  <2>2. ASSUME NEW w \in Workers, Receive(w, j, r) PROVE Goal
    BY <2>2, <1>moved, <1>typed, <1>kept DEF Receive, Aside
  <2> QED BY <1>3, <2>1, <2>2
<1>4. ASSUME NEW w \in Workers, Acknowledge(w) \/ Crash(w) PROVE Goal
  BY <1>4, <1>moved, <1>typed, <1>kept DEF Acknowledge, Crash, Idle, Aside
<1>5. ASSUME NEW w \in Workers, VisibilityTimeout(w) PROVE Goal
  <2>1. \A v \in Workers : task'[v].pc = task[v].pc /\ task'[v].job = task[v].job
    BY <1>5, <1>typed DEF VisibilityTimeout, Tasks
  <2> QED BY <1>5, <2>1, <1>kept DEF VisibilityTimeout, WorkerStep
<1>6. ASSUME NEW w \in Workers, BootstrapFails(w) \/ RecordingFails(w) \/ Retry(w) PROVE Goal
  <2>1. \A j : MarkBootstrapFailed(j) => (doc' = "ready" => doc = "ready")
    BY DEF MarkBootstrapFailed
  <2> QED BY <1>6, <1>aside, <1>kept, <2>1 DEF BootstrapFails, RecordingFails, Retry
<1>7. ASSUME NEW w \in Workers, ClaimIngestion(w) \/ ClaimDeletion(w) PROVE Goal
  <2>1. CASE ClaimIngestion(w)
    <3>1. (\A v \in Workers : v # w => task'[v] = task[v]) /\ task'[w].job = task[w].job
          /\ task'[w].pc = "working"
      BY <2>1, <1>phase, <1>phases DEF ClaimIngestion
    <3> QED BY <2>1, <3>1, <1>moved, <1>kept DEF ClaimIngestion, Advances
  <2>2. CASE ClaimDeletion(w)
    <3>1. (\A v \in Workers : v # w => task'[v] = task[v]) /\ task'[w].job = task[w].job
          /\ task'[w].pc = "deleting"
      BY <2>2, <1>phase, <1>phases DEF ClaimDeletion
    <3> QED BY <2>2, <3>1, <1>moved, <1>kept DEF ClaimDeletion, ClaimableForDeletion, Advances
  <2> QED BY <1>7, <2>1, <2>2
<1>8. ASSUME NEW w \in Workers, SkipIngestion(w) \/ RecordIngestionFailure(w) PROVE Goal
  BY <1>8, <1>aside, <1>kept, <1>phases DEF SkipIngestion, RecordIngestionFailure, AfterFailure
<1>9. ASSUME NEW w \in Workers, DownloadAndParse(w) PROVE Goal
  BY <1>9, <1>phase, <1>phases, <1>moved, <1>kept DEF DownloadAndParse, Advances
<1>10. ASSUME NEW w \in Workers, UpsertVectors(w) PROVE Goal
  <2>1. DataStep
    BY <1>10 DEF UpsertVectors, Upserted, DataStep
  <2> QED BY <1>10, <2>1, <1>phase, <1>phases, <1>moved DEF UpsertVectors, Upserted, Advances
<1>11. ASSUME NEW w \in Workers, IngestionRaises(w) PROVE Goal
  <2>1. DataStep
    BY <1>11 DEF IngestionRaises, DataStep
  <2> QED BY <1>11, <2>1, <1>aside, <1>phases DEF IngestionRaises
<1>12. ASSUME NEW w \in Workers, ReplaceContent(w) PROVE Goal
  <2>1. CASE MayReplace(w)
    <3>1. DataStep
      BY <1>12, <2>1 DEF ReplaceContent, MayReplace, DataStep
    <3> QED BY <1>12, <2>1, <3>1, <1>phase, <1>phases, <1>moved DEF ReplaceContent, Advances
  <2>2. CASE ~MayReplace(w)
    BY <1>12, <2>2, <1>aside, <1>phases, <1>kept DEF ReplaceContent
  <2> QED BY <2>1, <2>2
<1>13. ASSUME NEW w \in Workers, MarkReady(w) PROVE Goal
  <2>1. CASE MayFinish(w)
    <3>1. task[w].job \in Jobs
      BY <1>13, <1>typed DEF MarkReady, Tasks
    <3>2. job[task[w].job] \in JobRows
      BY <3>1, <1>typed
    <3>3. job'[task[w].job] = Released(job[task[w].job], "succeeded")
      BY <1>13, <2>1, <3>1, <1>typed DEF MarkReady
    <3>4. job'[task[w].job].status = "succeeded"
      BY <3>2, <3>3, RowFields DEF JobStatuses
    <3>5. BecomesReady(w)
      BY <1>13, <2>1, <3>4 DEF MarkReady, MayFinish, BecomesReady
    <3>6. DataStep
      BY <1>13, <3>5 DEF MarkReady, DataStep
    <3> QED BY <1>13, <2>1, <3>6, <1>aside DEF MarkReady
  <2>2. CASE ~MayFinish(w)
    BY <1>13, <2>2, <1>aside, <1>phases, <1>kept DEF MarkReady
  <2> QED BY <2>1, <2>2
<1>14. ASSUME NEW w \in Workers,
              DeferDeletion(w) \/ SkipDeletion(w) \/ DeletionRaises(w) \/ RecordDeletionFailure(w)
       PROVE  Goal
  BY <1>14, <1>aside, <1>kept, <1>phases
     DEF DeferDeletion, SkipDeletion, DeletionRaises, RecordDeletionFailure, AfterFailure
<1>15. ASSUME NEW w \in Workers, DeletePoints(w) PROVE Goal
  <2>1. DataStep
    BY <1>15 DEF DeletePoints, WithoutPoints, DataStep
  <2> QED BY <1>15, <2>1, <1>phase, <1>phases, <1>moved DEF DeletePoints, Advances
<1>16. ASSUME NEW w \in Workers, DeleteObject(w) PROVE Goal
  <2>1. DataStep
    BY <1>16 DEF DeleteObject, DataStep
  <2> QED BY <1>16, <2>1, <1>phase, <1>phases, <1>moved DEF DeleteObject, Advances
<1>17. ASSUME NEW w \in Workers, FinishDeletion(w) PROVE Goal
  <2>1. DataStep
    BY <1>17 DEF FinishDeletion, DataStep
  <2> QED BY <1>17, <2>1, <1>aside, <1>phases DEF FinishDeletion
<1> QED
  BY <1>0, <1>1, <1>2, <1>3, <1>4, <1>5, <1>6, <1>7, <1>8, <1>9, <1>10, <1>11, <1>12, <1>13,
     <1>14, <1>15, <1>16, <1>17
     DEF Next, Work, Ingest, Delete, Disturb

\* What a worker knows of the document from the phase it has reached, whoever
\* else has been at work since.
Stored(w) == doc # "deleted" =>
  /\ task[w].pc \in {"parsed", "indexed", "stored"} => object
  /\ task[w].pc \in {"indexed", "stored"} /\ tier = "vector" => vectors = "all"
  /\ task[w].pc = "stored" => rows

WorkerInv(w) ==
  /\ task[w].pc \in {"deleting", "pointsGone", "objectGone"} => doc = "deleted"
  /\ task[w].pc = "objectGone" => ~object
  /\ task[w].pc \in {"working", "parsed", "indexed", "stored"} => job[task[w].job].kind = "ingest"
  /\ Stored(w)

DataInv ==
  /\ \A w \in Workers : WorkerInv(w)
  /\ tier # "vector" => vectors = "none"
  /\ ReadyIsComplete

LEMMA DataInvStep ==
  ASSUME TypeOK, LeasedIsRunning, DataInv, doc = "deleted" => doc' = "deleted", Next
  PROVE  DataInv'
<1>data. DataStep /\ \A w \in Workers : WorkerStep(w)
  BY DataSteps
<1>rows. \A j \in Jobs : RowStep(j)
  BY JobsStep
<1>typed. /\ task \in [Workers -> Tasks]
          /\ \A w \in Workers : task[w].pc # "idle" => task[w].job \in Jobs
          /\ tier \in {"vector", "lightweight"} /\ vectors \in {"none", "some", "all"}
          /\ rows \in BOOLEAN /\ object \in BOOLEAN
  BY DEF TypeOK, Tasks
<1>kinds. \A j \in Jobs : job[j].kind # "none" => job'[j].kind = job[j].kind
  BY <1>rows DEF RowStep, Kept, Inserted, Taken, Left
<1>inv. \A w \in Workers : WorkerInv(w)
  BY DEF DataInv
<1>workers. \A w \in Workers :
              task[w].pc \in {"deleting", "pointsGone", "objectGone"} => doc = "deleted"
  BY <1>inv DEF WorkerInv
\* The data of a document that is not deleted grows only.
<1>object. ASSUME doc' # "deleted", object, NEW w \in Workers,
                  job[task[w].job].kind = "ingest", task[w].pc # "idle"
           PROVE  object'
  <2>1. OfKind("ingest") # {}
    BY <1>object, <1>typed DEF OfKind
  <2> QED BY <1>object, <1>data, <1>workers, <2>1 DEF DataStep
<1>rowsKept. ASSUME doc' # "deleted", rows PROVE rows'
  BY <1>rowsKept, <1>data, <1>workers DEF DataStep
<1>vectorsKept. ASSUME doc' # "deleted", tier = "vector", vectors = "all" PROVE vectors' = "all"
  BY <1>vectorsKept, <1>data, <1>workers DEF DataStep
<1>1. ASSUME NEW w \in Workers PROVE WorkerInv(w)'
  <2>1. CASE task'[w].pc \in Aside
    BY <2>1 DEF Aside, WorkerInv, Stored
  <2>2. CASE task'[w].pc = task[w].pc /\ task'[w].job = task[w].job
    <3>1. task[w].pc \in {"working", "parsed", "indexed", "stored"} =>
            task[w].job \in Jobs /\ job[task[w].job].kind = "ingest"
      BY <1>inv, <1>typed DEF WorkerInv
    <3>2. (task'[w].pc \in {"working", "parsed", "indexed", "stored"} =>
            job'[task'[w].job].kind = "ingest")
      BY <2>2, <3>1, <1>kinds
    <3>3. task'[w].pc = "objectGone" => ~object'
      BY <2>2, <1>inv, <1>data, <1>workers DEF WorkerInv, DataStep
    <3>4. Stored(w)'
      <4> SUFFICES ASSUME doc' # "deleted" PROVE
            /\ task'[w].pc \in {"parsed", "indexed", "stored"} => object'
            /\ task'[w].pc \in {"indexed", "stored"} /\ tier' = "vector" => vectors' = "all"
            /\ task'[w].pc = "stored" => rows'
        BY DEF Stored
      <4>1. Stored(w) /\ doc # "deleted" /\ tier' = tier
        BY <1>inv, <1>data DEF WorkerInv, DataStep
      <4>2. task'[w].pc \in {"parsed", "indexed", "stored"} => object'
        BY <2>2, <3>1, <4>1, <1>object DEF Stored
      <4>3. task'[w].pc \in {"indexed", "stored"} /\ tier' = "vector" => vectors' = "all"
        BY <2>2, <4>1, <1>vectorsKept DEF Stored
      <4>4. task'[w].pc = "stored" => rows'
        BY <2>2, <4>1, <1>rowsKept DEF Stored
      <4> QED BY <4>2, <4>3, <4>4
    <3>5. task'[w].pc \in {"deleting", "pointsGone", "objectGone"} => doc' = "deleted"
      BY <2>2, <1>workers
    <3> QED BY <3>2, <3>3, <3>4, <3>5 DEF WorkerInv
  <2>3. CASE task'[w].job = task[w].job /\ Advances(w) /\ task'[w].pc \notin Aside
    <3>0. tier' = tier /\ Stored(w)
      BY <1>data, <1>inv DEF DataStep, WorkerInv
    <3>1. CASE /\ task[w].pc = "received" /\ task'[w].pc = "working"
               /\ job[task[w].job].kind = "ingest"
      <4>1. job'[task[w].job].kind = "ingest"
        BY <3>1, <1>kinds, <1>typed
      <4> QED BY <2>3, <3>1, <4>1 DEF WorkerInv, Stored
    <3>2. CASE task[w].pc = "working" /\ task'[w].pc = "parsed" /\ object'
      <4>1. job'[task[w].job].kind = "ingest"
        BY <3>2, <1>kinds, <1>inv, <1>typed DEF WorkerInv
      <4> QED BY <2>3, <3>2, <4>1 DEF WorkerInv, Stored
    <3>3. CASE /\ task[w].pc = "parsed" /\ task'[w].pc = "indexed"
               /\ object' = object /\ vectors' = IF tier = "vector" THEN "all" ELSE vectors
      <4>1. job'[task[w].job].kind = "ingest"
        BY <3>3, <1>kinds, <1>inv, <1>typed DEF WorkerInv
      <4> QED BY <2>3, <3>0, <3>3, <4>1 DEF WorkerInv, Stored
    <3>4. CASE /\ task[w].pc = "indexed" /\ task'[w].pc = "stored"
               /\ object' = object /\ vectors' = vectors /\ rows'
      <4>1. job'[task[w].job].kind = "ingest"
        BY <3>4, <1>kinds, <1>inv, <1>typed DEF WorkerInv
      <4> QED BY <2>3, <3>0, <3>4, <4>1 DEF WorkerInv, Stored
    <3>5. CASE task'[w].pc = "deleting" /\ doc = "deleted"
      BY <3>5 DEF WorkerInv, Stored
    <3>6. CASE task[w].pc = "deleting" /\ task'[w].pc = "pointsGone"
      BY <3>6, <1>workers DEF WorkerInv, Stored
    <3>7. CASE task[w].pc = "pointsGone" /\ task'[w].pc = "objectGone" /\ ~object'
      BY <3>7, <1>workers DEF WorkerInv, Stored
    <3> QED BY <2>3, <3>1, <3>2, <3>3, <3>4, <3>5, <3>6, <3>7 DEF Advances
  <2> QED BY <1>data, <2>1, <2>2, <2>3 DEF WorkerStep
<1>2. tier' # "vector" => vectors' = "none"
  BY <1>data DEF DataInv, DataStep
<1>3. ReadyIsComplete'
  <2> SUFFICES ASSUME doc' = "ready"
               PROVE  /\ rows' /\ object'
                      /\ vectors' = IF tier' = "vector" THEN "all" ELSE "none"
                      /\ \E j \in Jobs : job'[j].kind = "ingest" /\ job'[j].status = "succeeded"
    BY DEF ReadyIsComplete, Complete, OfKind
  <2>0. doc # "deleted" /\ tier' = tier
    BY <1>data DEF DataStep
  <2>1. CASE doc = "ready"
    <3>1. PICK j \in Jobs : job[j].kind = "ingest" /\ job[j].status = "succeeded"
      BY <2>1 DEF DataInv, ReadyIsComplete, OfKind
    <3>2. job'[j].kind = "ingest" /\ job'[j].status = "succeeded"
      BY <3>1, <1>rows DEF RowStep, Kept, Inserted, Taken, Left
    <3>3. rows /\ object /\ vectors = IF tier = "vector" THEN "all" ELSE "none"
      BY <2>1 DEF DataInv, ReadyIsComplete, Complete
    <3>4. OfKind("ingest") # {}
      BY <3>1 DEF OfKind
    <3>5. rows' /\ object'
      BY <1>data, <1>workers, <2>0, <3>3, <3>4 DEF DataStep
    <3>6. vectors' = IF tier' = "vector" THEN "all" ELSE "none"
      BY <1>2, <1>vectorsKept, <2>0, <3>3
    <3> QED BY <3>2, <3>5, <3>6
  <2>2. ASSUME NEW w \in Workers, BecomesReady(w)
        PROVE  /\ rows' /\ object'
               /\ vectors' = IF tier' = "vector" THEN "all" ELSE "none"
               /\ \E j \in Jobs : job'[j].kind = "ingest" /\ job'[j].status = "succeeded"
    <3>1. Stored(w) /\ task[w].job \in Jobs /\ job[task[w].job].kind = "ingest"
      BY <2>2, <1>inv, <1>typed DEF BecomesReady, WorkerInv
    <3>2. job'[task[w].job].kind = "ingest"
      BY <3>1, <1>kinds
    <3> QED BY <2>0, <2>2, <3>1, <3>2, <1>2 DEF BecomesReady, Stored
  <2> QED BY <1>data, <2>1, <2>2 DEF DataStep
<1> QED BY <1>1, <1>2, <1>3 DEF DataInv

LEMMA DataInvariant == Spec => []DataInv
<1>1. Init => DataInv
  BY DEF Init, Idle, DataInv, WorkerInv, Stored, ReadyIsComplete, Complete
<1>2. TypeOK /\ LeasedIsRunning /\ DataInv /\ [Next]_vars
        /\ [doc = "deleted" => doc' = "deleted"]_vars => DataInv'
  <2> SUFFICES ASSUME TypeOK, LeasedIsRunning, DataInv, [Next]_vars,
                      [doc = "deleted" => doc' = "deleted"]_vars
               PROVE  DataInv'
    OBVIOUS
  <2>1. CASE UNCHANGED vars
    BY <2>1 DEF vars, artifacts, DataInv, WorkerInv, Stored, ReadyIsComplete, Complete, OfKind
  <2>2. CASE Next
    <3>1. doc = "deleted" => doc' = "deleted"
      BY DEF vars
    <3> QED BY <2>2, <3>1, DataInvStep
  <2> QED BY <2>1, <2>2
<1>3. Spec => [][doc = "deleted" => doc' = "deleted"]_vars
  BY DeletedStays DEF DeletedIsFinal
<1> QED BY <1>1, <1>2, <1>3, LeaseInvariant, PTL DEF Spec

\* A document that is offered to queries has its rows, its object and exactly
\* the vectors its tier calls for, however many workers wrote them, and whatever
\* leases they had lost by then.
THEOREM ReadyComplete == Spec => []ReadyIsComplete
<1>1. DataInv => ReadyIsComplete
  BY DEF DataInv
<1> QED BY <1>1, DataInvariant, PTL

-----------------------------------------------------------------------------
(* What a succeeded deletion leaves behind.                                *)

\* A succeeded deletion leaves neither rows nor object behind, and no ingestion,
\* however late, and no upload brings them back.
THEOREM DeletionErases == Spec => []DeletionLeavesNoData
<1>1. Init => DeletionLeavesNoData
  BY DEF Init, NoRow, DeletionLeavesNoData, OfKind
<1>2. TypeOK /\ LeasedIsRunning /\ DeletionInv /\ DataInv /\ DeletionLeavesNoData
        /\ [Next]_vars => DeletionLeavesNoData'
  <2> SUFFICES ASSUME TypeOK, LeasedIsRunning, DeletionInv, DataInv,
                      DeletionLeavesNoData, [Next]_vars
               PROVE  DeletionLeavesNoData'
    OBVIOUS
  <2>1. CASE UNCHANGED vars
    BY <2>1 DEF vars, artifacts, DeletionLeavesNoData, OfKind
  <2>2. CASE Next
    <3>1. /\ object' => object \/ doc # "deleted"
          /\ rows' => rows \/ doc # "deleted"
      BY <2>2, DataSteps DEF DataStep
    <3>2. ASSUME NEW d \in Jobs, job'[d].kind = "delete", job'[d].status = "succeeded"
          PROVE  ~rows' /\ ~object'
      <4>1. RowStep(d)
        BY <2>2, JobsStep
      <4>2. CASE job[d].status = "succeeded" /\ job[d].kind = "delete"
        BY <3>1, <4>2 DEF DeletionLeavesNoData, DeletionInv, DeletionsAreOfDeleted, OfKind
      <4>3. CASE ~(job[d].status = "succeeded" /\ job[d].kind = "delete")
        <5>1. Left(d) /\ job[d].kind = "delete"
          BY <3>2, <4>1, <4>3 DEF RowStep, Kept, Inserted, Taken, Left
        <5>2. Succeeds /\ doc = "deleted"
          BY <3>2, <5>1 DEF Left, DeletionInv, DeletionsAreOfDeleted
        <5> QED BY <5>2 DEF Succeeds, DataInv, WorkerInv
      <4> QED BY <4>2, <4>3
    <3> QED BY <3>1, <3>2 DEF DeletionLeavesNoData, OfKind
  <2> QED BY <2>1, <2>2
<1> QED BY <1>1, <1>2, DataInvariant, DeletionInvariant, LeaseInvariant, PTL DEF Spec

\* Deletion and ingestion exclude each other, and a deletion that succeeded
\* leaves no data, for any number of workers, jobs, retries and faults.
THEOREM DeletionSound == Spec => []DeletionIsSafe
<1>1. TypeOK /\ DeletionExcludesIngestion /\ DeletionLeavesNoData => DeletionIsSafe
  BY DEF DeletionIsSafe
<1> QED BY <1>1, TypeCorrect, DeletionIsExclusive, DeletionErases, PTL

\* What has ended, a job or a document, does not begin again.
THEOREM EndsStay == Spec => EndsAreFinal
  BY JobsStayEnded, DeletedStays DEF EndsAreFinal

-----------------------------------------------------------------------------
(* What readers of the document are promised.                              *)

\* What one step may make of the status: with it, only an upsert or a rejected
\* upload changes the data of a document, and never in a step that withdraws it.
DocStep ==
  \/ doc' = doc
  \/ doc \notin {"ready", "deleted"} /\ doc' \in {"parsing", "indexing"}
  \/ doc' = "ready"
  \/ doc # "deleted" /\ doc' \in {"failed", "deleted"} /\ UNCHANGED <<rows, object, vectors, tier>>

LEMMA DocSteps == Next => DocStep
<1> USE DEF artifacts, broker, budgets, DocStep
<1> SUFFICES ASSUME Next PROVE DocStep
  OBVIOUS
<1>1. CASE UploadContent \/ RejectUpload
  BY <1>1 DEF UploadContent, RejectUpload
<1>2. CASE Request
  BY <1>2 DEF Request, CompleteDocument, CompleteAgain, RequestDeletion, RequestDeletionAgain
<1>3. ASSUME NEW j \in Jobs, PublishEvent(j) \/ LeaseExpires(j) PROVE DocStep
  BY <1>3 DEF PublishEvent, LeaseExpires
<1>4. ASSUME NEW j \in Jobs, NEW r \in Tries,
             Restore(j, r) \/ \E w \in Workers : Receive(w, j, r)
      PROVE  DocStep
  BY <1>4 DEF Restore, Receive
<1>5. ASSUME NEW w \in Workers, Ingest(w) PROVE DocStep
  <2>1. CASE ClaimIngestion(w)
    BY <2>1 DEF ClaimIngestion, ClaimableForIngestion
  <2>2. CASE ReplaceContent(w)
    BY <2>2 DEF ReplaceContent, MayReplace
  <2>3. CASE MarkReady(w)
    BY <2>3 DEF MarkReady
  <2>4. CASE RecordIngestionFailure(w)
    BY <2>4 DEF RecordIngestionFailure
  <2>5. CASE SkipIngestion(w) \/ DownloadAndParse(w) \/ UpsertVectors(w) \/ IngestionRaises(w)
    BY <2>5 DEF SkipIngestion, DownloadAndParse, UpsertVectors, IngestionRaises
  <2> QED BY <1>5, <2>1, <2>2, <2>3, <2>4, <2>5 DEF Ingest
<1>6. ASSUME NEW w \in Workers, Delete(w) PROVE DocStep
  BY <1>6 DEF Delete, ClaimDeletion, DeferDeletion, SkipDeletion, DeletePoints, DeleteObject,
              FinishDeletion, DeletionRaises, RecordDeletionFailure
<1>7. ASSUME NEW w \in Workers, Retry(w) \/ Acknowledge(w) \/ Disturb(w) PROVE DocStep
  BY <1>7 DEF Retry, Acknowledge, Disturb, BootstrapFails, RecordingFails,
              MarkBootstrapFailed, VisibilityTimeout, Crash
<1> QED BY <1>1, <1>2, <1>3, <1>4, <1>5, <1>6, <1>7 DEF Next, Work

\* A deletion is reported as done by a worker, of a deleted document, and for good.
LEMMA ErasureSteps ==
  ASSUME TypeOK, LeasedIsRunning, DeletionsAreOfDeleted, Next
  PROVE  /\ Erased => Erased' /\ doc = "deleted"
         /\ Erased' => doc = "deleted"
<1>1. \A j \in Jobs : RowStep(j)
  BY JobsStep
<1>2. Erased => Erased' /\ doc = "deleted"
  BY <1>1 DEF Erased, OfKind, DeletionsAreOfDeleted, RowStep, Kept, Inserted, Taken, Left
<1>3. ASSUME NEW j \in Jobs, job'[j].kind = "delete", job'[j].status = "succeeded"
      PROVE  job[j].kind = "delete"
  BY <1>1, <1>3 DEF RowStep, Kept, Inserted, Taken, Left
<1>4. Erased' => doc = "deleted"
  BY <1>3 DEF Erased, OfKind, DeletionsAreOfDeleted
<1> QED BY <1>2, <1>4

\* What is kept of the document, as a set and part by part.
LEMMA PartsKept ==
  /\ KeptParts \subseteq {"rows", "object"}
  /\ "rows" \in KeptParts <=> rows
  /\ "object" \in KeptParts <=> object
  /\ Complete => KeptParts = {"rows", "object"}
BY DEF KeptParts, Complete

LEMMA PartsKeptNext ==
  /\ KeptParts' \subseteq {"rows", "object"}
  /\ "rows" \in KeptParts' <=> rows'
  /\ "object" \in KeptParts' <=> object'
  /\ Complete' => KeptParts' = {"rows", "object"}
BY DEF KeptParts, Complete

\* Every step of the life cycle is one of the promise's, or invisible to readers.
LEMMA DocumentPromiseStep ==
  ASSUME TypeOK, LeasedIsRunning, DeletionInv, DataInv, DeletionLeavesNoData,
         DeletionLeavesNoData', doc = "deleted" => doc' = "deleted",
         DataInv', doc' \in DocStatuses, Next
  PROVE  Promise!Next \/ UNCHANGED <<Shown, KeptParts, Complete, Erased>>
<1> DEFINE Goal == Promise!Next \/ UNCHANGED <<Shown, KeptParts, Complete, Erased>>
<1>data. DataStep
  BY DataSteps
<1>erasure. /\ Erased => Erased' /\ doc = "deleted"
            /\ Erased' => doc = "deleted"
  BY ErasureSteps DEF DeletionInv
<1>booleans. /\ Erased \in BOOLEAN /\ Erased' \in BOOLEAN
             /\ Complete \in BOOLEAN /\ Complete' \in BOOLEAN
  BY DEF Erased, Complete, TypeOK
<1>parts. /\ KeptParts \subseteq {"rows", "object"} /\ KeptParts' \subseteq {"rows", "object"}
          /\ "rows" \in KeptParts <=> rows
          /\ "object" \in KeptParts <=> object
          /\ "rows" \in KeptParts' <=> rows'
          /\ "object" \in KeptParts' <=> object'
          /\ Complete' => KeptParts' = {"rows", "object"}
  BY PartsKept, PartsKeptNext
<1>same. ASSUME UNCHANGED <<rows, object, vectors, tier>>
         PROVE  KeptParts' = KeptParts /\ Complete' = Complete
  BY <1>same DEF KeptParts, Complete
<1>workers. \A w \in Workers :
              task[w].pc \in {"deleting", "pointsGone", "objectGone"} => doc = "deleted"
  BY DEF DataInv, WorkerInv
<1>shown. /\ doc = "uploaded" => Shown = "waiting"
          /\ doc \in {"parsing", "indexing"} => Shown = "processing"
          /\ doc = "ready" => Shown = "offered"
          /\ doc \in {"failed", "deleted"} => Shown = doc
          /\ doc' = "uploaded" => Shown' = "waiting"
          /\ doc' \in {"parsing", "indexing"} => Shown' = "processing"
          /\ doc' = "ready" => Shown' = "offered"
          /\ doc' \in {"failed", "deleted"} => Shown' = doc'
  BY DEF Shown
<1>status. doc \in DocStatuses /\ DocStep
  BY DocSteps DEF TypeOK
\* A deleted document is cleared; one that has been erased stays as it is.
<1>1. CASE doc = "deleted"
  <2>1. doc' = "deleted" /\ Shown = "deleted" /\ Shown' = "deleted"
    BY <1>1, <1>shown
  <2>2. KeptParts' \subseteq KeptParts
    BY <1>1, <1>data, <1>parts DEF DataStep
  <2>3. Erased' => KeptParts' = {}
    BY <1>parts DEF Erased, DeletionLeavesNoData
  <2>4. CASE ~Erased
    BY <2>1, <2>2, <2>3, <2>4, <1>parts, <1>booleans DEF Promise!Next, Promise!Clear, Promise!Parts
  <2>5. CASE Erased
    <3>1. ~rows /\ ~object /\ ~rows' /\ ~object'
      BY <2>5, <1>erasure DEF Erased, DeletionLeavesNoData
    <3>2. KeptParts' = KeptParts /\ Complete' = Complete
      BY <3>1 DEF KeptParts, Complete
    <3>3. Erased' = Erased
      BY <2>5, <1>erasure, <1>booleans
    <3> QED BY <2>1, <3>2, <3>3
  <2> QED BY <2>4, <2>5
<1>2. CASE doc # "deleted"
  <2>1. ~Erased /\ ~Erased' /\ Erased' = Erased
    BY <1>2, <1>erasure, <1>booleans
  \* It is withdrawn, with all it has.
  <2>2. CASE doc' \in {"failed", "deleted"} /\ UNCHANGED <<rows, object, vectors, tier>>
    <3>1. Shown' \in {"failed", "deleted"} /\ Shown # "deleted"
      BY <1>2, <2>2, <1>shown, <1>status DEF DocStatuses
    <3> QED BY <2>1, <2>2, <3>1, <1>same DEF Promise!Next, Promise!Withdraw
  \* It is prepared.
  <2>3. CASE doc # "ready" /\ doc' # "ready" /\ (doc' = doc \/ doc' \in {"parsing", "indexing"})
    <3>1. Shown \in {"waiting", "processing", "failed"} /\ Shown' \in {Shown, "processing"}
      BY <1>2, <2>3, <1>shown, <1>status DEF DocStatuses, Shown
    <3>2. KeptParts \subseteq KeptParts' \cup {"object"}
      BY <1>2, <1>data, <1>parts, <1>workers DEF DataStep
    <3> QED BY <2>1, <3>1, <3>2, <1>parts, <1>booleans
            DEF Promise!Next, Promise!Prepare, Promise!Parts
  \* It is offered, when it is whole.
  <2>4. CASE doc # "ready" /\ doc' = "ready"
    <3>1. PICK w \in Workers : BecomesReady(w)
      BY <2>4, <1>data DEF DataStep
    <3>2. Complete'
      BY <2>4 DEF DataInv, ReadyIsComplete
    <3>3. KeptParts' = KeptParts /\ Complete' = Complete
      BY <3>1, <1>data, <1>same DEF BecomesReady, DataStep
    <3>4. Shown = "processing" /\ Shown' = "offered"
      BY <2>4, <3>1, <1>shown DEF BecomesReady
    <3> QED BY <2>1, <3>2, <3>3, <3>4 DEF Promise!Next, Promise!Offer
  \* While it is offered it stays as it is.
  <2>5. CASE doc = "ready" /\ doc' = "ready"
    <3>1. Complete /\ Complete'
      BY <2>5 DEF DataInv, ReadyIsComplete
    <3>2. KeptParts' = KeptParts /\ Complete' = Complete
      BY <3>1, <1>booleans, PartsKept, PartsKeptNext
    <3> QED BY <2>1, <2>5, <3>2, <1>shown
  <2> QED BY <1>2, <1>status, <2>2, <2>3, <2>4, <2>5 DEF DocStep
<1> QED BY <1>1, <1>2

\* For any number of workers, jobs, retries and faults, readers see a document
\* that is prepared, offered when it is whole, kept as it is while it is offered,
\* and never back once its deletion has been reported as done: the life cycle
\* implements DocumentPromise.
THEOREM DocumentDelivers == Spec => ImplementsDocumentPromise
<1> DEFINE View == <<Shown, KeptParts, Complete, Erased>>
<1>1. Init => Promise!Init
  <2>1. Init => Shown = "waiting" /\ KeptParts = {} /\ Complete = FALSE
    BY DEF Init, Shown, KeptParts, Complete
  <2>2. Init => Erased = FALSE
    BY DEF Init, NoRow, Erased, OfKind
  <2> QED BY <2>1, <2>2 DEF Promise!Init
<1>2. /\ TypeOK /\ LeasedIsRunning /\ DeletionInv /\ DataInv /\ DeletionLeavesNoData
      /\ TypeOK' /\ DataInv' /\ DeletionLeavesNoData'
      /\ [doc = "deleted" => doc' = "deleted"]_vars /\ [Next]_vars
      => [Promise!Next]_View
  <2> SUFFICES ASSUME TypeOK, LeasedIsRunning, DeletionInv, DataInv, DeletionLeavesNoData,
                      TypeOK', DataInv', DeletionLeavesNoData',
                      [doc = "deleted" => doc' = "deleted"]_vars, [Next]_vars
               PROVE  Promise!Next \/ UNCHANGED View
    OBVIOUS
  <2>1. CASE UNCHANGED vars
    BY <2>1 DEF vars, artifacts, Shown, KeptParts, Complete, Erased, OfKind
  <2>2. CASE Next
    <3>1. (doc = "deleted" => doc' = "deleted") /\ doc' \in DocStatuses
      BY DEF vars, TypeOK
    <3> QED BY <2>2, <3>1, DocumentPromiseStep
  <2> QED BY <2>1, <2>2
<1>3. Spec => [][doc = "deleted" => doc' = "deleted"]_vars
  BY DeletedStays DEF DeletedIsFinal
<1> QED
  BY <1>1, <1>2, <1>3, LeaseInvariant, DeletionInvariant, DataInvariant, DeletionErases, PTL
     DEF Spec, ImplementsDocumentPromise, Promise!Spec

-----------------------------------------------------------------------------
(* What one step may do to a worker's delivery, to a job's claim, and to the *)
(* messages.                                                                *)

InProgress == {"uploaded", "parsing", "indexing"}

\* Between its claim and the record of its outcome.
Busy == {"working", "parsed", "indexed", "stored", "deleting", "pointsGone", "objectGone",
         "failingRetryable", "failingTerminal"}

SameMessage(w) ==
  task'[w].job = task[w].job /\ task'[w].tries = task[w].tries /\ task'[w].held = task[w].held

\* It receives a message.
Arrives(w) ==
  /\ task[w].pc = "idle" /\ task'[w].pc = "received" /\ task'[w].held
  /\ task'[w].job \in Jobs /\ task'[w].tries \in Tries
  /\ queue[<<task'[w].job, task'[w].tries>>] > 0

\* It claims the job.
Takes(w) ==
  LET j == task[w].job IN
  /\ task[w].pc = "received" /\ task'[w].pc \in Busy /\ SameMessage(w)
  /\ Obtainable(j) /\ job'[j] = Leased(job[j], w) /\ task'[w].attempt = job'[j].attempts

\* It goes on with the job, to a retry if need be; a deletion may do so unclaimed.
GoesOn(w) ==
  /\ task'[w].pc \in Busy \cup {"retrying"} /\ SameMessage(w) /\ task'[w].attempt = task[w].attempt
  /\ \/ task[w].pc \in Busy
     \/ task[w].pc = "received" /\ task'[w].pc = "retrying" /\ job[task[w].job].kind = "delete"

\* The task ends: a retry has published the next message, and an ingestion that
\* was not claimed could not be.
Finishes(w) ==
  LET j == task[w].job IN
  /\ task[w].pc # "idle" /\ task'[w].pc = "done"
  /\ task'[w].job = j /\ task'[w].tries = task[w].tries
  /\ task[w].pc = "received" /\ job[j].kind = "ingest" =>
       doc \notin InProgress \cup {"failed"} \/ ~Obtainable(j) \/ job'[j].status = "failed"
  /\ task[w].pc = "retrying" /\ task[w].tries < MaxRetries => queue'[<<j, task[w].tries + 1>>] > 0

\* Its message is given to others.
TimesOut(w) ==
  /\ task[w].pc \in Busy \cup {"retrying"} /\ ~DeliveryLive(w) /\ job' = job
  /\ task'[w].pc = task[w].pc /\ task'[w].job = task[w].job /\ task'[w].tries = task[w].tries
  /\ task'[w].attempt = task[w].attempt /\ ~task'[w].held
  /\ queue'[<<task[w].job, task[w].tries>>] > 0

\* It acknowledges, or dies.
Stops(w) ==
  /\ task[w].pc # "idle" /\ task'[w].pc = "idle" /\ ~task'[w].held
  /\ task[w].pc # "done" /\ task[w].held => lost'[<<task[w].job, task[w].tries>>] > 0

Moves(w) ==
  \/ task'[w] = task[w]
  \/ Arrives(w) \/ Takes(w) \/ GoesOn(w) \/ Finishes(w) \/ TimesOut(w) \/ Stops(w)

\* The owner gives the job up for its next attempt.
Releases(w) ==
  /\ task[w].pc \in Busy /\ task'[w].pc = "retrying" /\ SameMessage(w)
  /\ job[task[w].job].owner = Host[w] /\ task[w].attempt < MaxAttempts

JobMoves(j) ==
  \/ /\ job[j].kind = "none" /\ job'[j].kind # "none"
     /\ job'[j].attempts = 0 /\ job'[j].status = "pending" /\ job'[j].owner = NoHost
     /\ outbox'[j].unsent
  \/ \E w \in Workers : task[w].job = j /\ Takes(w)
  \/ /\ job'[j].kind = job[j].kind /\ job'[j].attempts = job[j].attempts
     /\ job'[j].owner \in {job[j].owner, NoHost} /\ (job'[j].live => job[j].live)
     /\ job[j].kind = "ingest" /\ job'[j].status = "pending" =>
          job[j].status = "pending" \/ \E w \in Workers : task[w].job = j /\ Releases(w)

\* The claims of both tasks take the job.
LEMMA ClaimsTake ==
  ASSUME TypeOK, NEW w \in Workers, ClaimIngestion(w) \/ ClaimDeletion(w)
  PROVE  Takes(w)
<1> DEFINE j == task[w].job
           n == job'[j].attempts
<1>typed. /\ job \in [Jobs -> JobRows] /\ task \in [Workers -> Tasks] /\ j \in Jobs
  BY DEF TypeOK, Tasks, ClaimIngestion, ClaimDeletion
<1>1. task[w].pc = "received" /\ Obtainable(j)
  BY DEF ClaimIngestion, ClaimDeletion, ClaimableForIngestion, ClaimableForDeletion
<1>2. job'[j] = Leased(job[j], w)
  <2>1. CASE ClaimIngestion(w)
    BY <1>typed, <2>1 DEF ClaimIngestion
  <2>2. CASE ClaimDeletion(w)
    <3>1. DOMAIN DeadIngestionsEnded = Jobs
      BY DEF DeadIngestionsEnded
    <3>2. DeadIngestionsEnded[j] = job[j]
      BY <1>typed, <2>2 DEF ClaimDeletion, DeadIngestionsEnded, DeadIngestions, OfKind
    <3> QED BY <1>typed, <2>2, <3>1, <3>2 DEF ClaimDeletion
  <2> QED BY <2>1, <2>2
<1>3. \E phase \in {"working", "deleting"} :
        task' = [task EXCEPT ![w].pc = phase, ![w].attempt = n]
  BY DEF ClaimIngestion, ClaimDeletion
<1>4. task'[w].pc \in Busy /\ SameMessage(w) /\ task'[w].attempt = n
  <2> HIDE DEF n
  <2> QED BY <1>typed, <1>3 DEF SameMessage, Tasks, Busy
<1> QED BY <1>1, <1>2, <1>4 DEF Takes

LEMMA JobMove ==
  ASSUME TypeOK, LeasedIsRunning, Next, NEW j \in Jobs
  PROVE  JobMoves(j)
<1> USE DEF artifacts, broker, budgets
<1>typed. /\ job \in [Jobs -> JobRows] /\ job[j] \in JobRows /\ task \in [Workers -> Tasks]
          /\ outbox \in [Jobs -> [events : 0..MaxEvents, unsent : BOOLEAN]]
  BY DEF TypeOK
<1>fields. \A s \in JobStatuses :
             /\ Released(job[j], s).kind = job[j].kind /\ Released(job[j], s).status = s
             /\ Released(job[j], s).owner = NoHost /\ ~Released(job[j], s).live
             /\ Released(job[j], s).attempts = job[j].attempts
  BY <1>typed DEF JobRows, JobStatuses, Released
<1>same. ASSUME job'[j] = job[j] PROVE JobMoves(j)
  BY <1>same DEF JobMoves
<1>ended. ASSUME job'[j].kind = job[j].kind, job'[j].attempts = job[j].attempts,
                 job'[j].owner \in {job[j].owner, NoHost}, job'[j].live => job[j].live,
                 job'[j].status # "pending" \/ job[j].kind = "delete"
          PROVE  JobMoves(j)
  BY <1>ended DEF JobMoves
<1>left. ASSUME NEW s \in {"succeeded", "failed"}, job'[j] = Released(job[j], s)
         PROVE  JobMoves(j)
  BY <1>left, <1>fields DEF JobMoves, JobStatuses
<1>cancelled. ASSUME job'[j] = WithoutPendingIngestion[j] PROVE JobMoves(j)
  <2>1. CASE job[j].kind = "ingest" /\ job[j].status = "pending"
    <3>1. job'[j] = [job[j] EXCEPT !.status = "failed"]
      BY <1>cancelled, <2>1 DEF WithoutPendingIngestion
    <3> QED BY <1>typed, <1>ended, <3>1 DEF JobRows
  <2>2. CASE ~(job[j].kind = "ingest" /\ job[j].status = "pending")
    BY <1>cancelled, <1>same, <2>2 DEF WithoutPendingIngestion
  <2> QED BY <2>1, <2>2
<1>reaped. ASSUME job'[j] = DeadIngestionsEnded[j] PROVE JobMoves(j)
  BY <1>reaped, <1>left, <1>same DEF DeadIngestionsEnded
<1>marked. ASSUME NEW i, MarkBootstrapFailed(i) PROVE JobMoves(j)
  <2>1. CASE Obtainable(i) /\ i = j
    <3>1. job'[j] = BootstrapFailed(job[j])
      BY <1>marked, <1>typed, <2>1 DEF MarkBootstrapFailed
    <3>2. /\ job'[j].kind = job[j].kind /\ job'[j].status = "failed"
          /\ job'[j].owner = NoHost /\ ~job'[j].live /\ job'[j].attempts = job[j].attempts
      BY <1>typed, <3>1 DEF BootstrapFailed, Released, JobRows
    <3> QED BY <1>ended, <3>2
  <2>2. CASE ~(Obtainable(i) /\ i = j)
    BY <1>marked, <1>same, <1>typed, <2>2 DEF MarkBootstrapFailed
  <2> QED BY <2>1, <2>2
<1>enqueued. ASSUME outbox' = Enqueued(j) PROVE outbox'[j].unsent
  BY <1>enqueued, <1>typed DEF Enqueued
<1>1. CASE Request
  <2>1. CASE CompleteDocument
    <3>1. PICK i \in Jobs : /\ Fresh(i) /\ outbox' = Enqueued(i)
                            /\ job' = [job EXCEPT ![i] = [NoRow EXCEPT !.kind = "ingest"]]
      BY <2>1 DEF CompleteDocument
    <3>2. CASE i = j
      BY <1>enqueued, <1>typed, <3>1, <3>2 DEF Fresh, NoRow, JobMoves
    <3>3. CASE i # j
      BY <1>same, <1>typed, <3>1, <3>3
    <3> QED BY <3>2, <3>3
  <2>2. CASE CompleteAgain
    BY <1>same, <2>2 DEF CompleteAgain
  <2>3. CASE RequestDeletion
    <3>1. PICK i \in Jobs :
            /\ Fresh(i) /\ outbox' = Enqueued(i)
            /\ job' = [WithoutPendingIngestion EXCEPT
                         ![i] = [NoRow EXCEPT !.kind = "delete", !.ledger = "pending",
                                              !.points = rows /\ tier = "vector"]]
      BY <2>3 DEF RequestDeletion
    <3>2. DOMAIN WithoutPendingIngestion = Jobs
      BY DEF WithoutPendingIngestion
    <3>3. CASE i = j
      <4>1. job'[j] = [NoRow EXCEPT !.kind = "delete", !.ledger = "pending",
                                    !.points = rows /\ tier = "vector"]
        BY <3>1, <3>2, <3>3
      <4>2. outbox'[j].unsent /\ job[j].kind = "none"
        BY <1>enqueued, <3>1, <3>3 DEF Fresh
      <4>3. /\ job'[j].kind = "delete" /\ job'[j].attempts = 0
            /\ job'[j].status = "pending" /\ job'[j].owner = NoHost
        BY <4>1 DEF NoRow
      <4> QED BY <4>2, <4>3 DEF JobMoves
    <3>4. CASE i # j
      BY <1>cancelled, <3>1, <3>2, <3>4
    <3> QED BY <3>3, <3>4
  <2>4. CASE RequestDeletionAgain
    BY <1>cancelled, <2>4 DEF RequestDeletionAgain
  <2> QED BY <1>1, <2>1, <2>2, <2>3, <2>4 DEF Request
<1>2. ASSUME NEW i \in Jobs, PublishEvent(i) PROVE JobMoves(j)
  BY <1>2, <1>same DEF PublishEvent
<1>3. ASSUME NEW i \in Jobs, LeaseExpires(i) PROVE JobMoves(j)
  <2>1. CASE i = j
    <3>1. job'[j] = [job[j] EXCEPT !.live = FALSE]
      BY <1>3, <1>typed, <2>1 DEF LeaseExpires
    <3> QED BY <1>typed, <3>1 DEF JobRows, JobMoves
  <2>2. CASE i # j
    BY <1>3, <1>same, <1>typed, <2>2 DEF LeaseExpires
  <2> QED BY <2>1, <2>2
<1>4. ASSUME NEW i \in Jobs, NEW r \in Tries,
             Restore(i, r) \/ \E w \in Workers : Receive(w, i, r)
      PROVE  JobMoves(j)
  BY <1>4, <1>same DEF Restore, Receive
<1>5. ASSUME NEW w \in Workers, ClaimIngestion(w) PROVE JobMoves(j)
  <2>1. CASE task[w].job = j
    BY <1>5, <2>1, ClaimsTake DEF JobMoves
  <2>2. CASE task[w].job # j
    BY <1>5, <1>same, <1>typed, <2>2 DEF ClaimIngestion
  <2> QED BY <2>1, <2>2
<1>6. ASSUME NEW w \in Workers, ClaimDeletion(w) PROVE JobMoves(j)
  <2>1. CASE task[w].job = j
    BY <1>6, <2>1, ClaimsTake DEF JobMoves
  <2>2. CASE task[w].job # j
    <3>1. DOMAIN DeadIngestionsEnded = Jobs
      BY DEF DeadIngestionsEnded
    <3> QED BY <1>6, <1>reaped, <2>2, <3>1 DEF ClaimDeletion
  <2> QED BY <2>1, <2>2
<1>7. ASSUME NEW w \in Workers, SkipDeletion(w) PROVE JobMoves(j)
  BY <1>7, <1>reaped DEF SkipDeletion
<1>8. ASSUME NEW w \in Workers, MarkReady(w) PROVE JobMoves(j)
  BY <1>8, <1>left, <1>same, <1>typed DEF MarkReady
<1>9. ASSUME NEW w \in Workers, RecordIngestionFailure(w) PROVE JobMoves(j)
  <2>1. CASE task[w].job = j /\ job[j].owner = Host[w]
    <3>1. CASE job'[j] = Released(job[j], "failed")
      BY <1>left, <3>1
    <3>2. CASE job'[j] = Released(job[j], "pending") /\ RetriesLeft(w)
      <4>1. task'[w].pc = "retrying" /\ SameMessage(w)
        BY <1>9, <1>typed, <3>2 DEF RecordIngestionFailure, AfterFailure, RetriesLeft, Proceed,
                                    SameMessage, Tasks
      <4>2. Releases(w)
        BY <2>1, <3>2, <4>1 DEF RetriesLeft, Releases, Busy
      <4> QED BY <1>fields, <2>1, <3>2, <4>2 DEF JobMoves, JobStatuses
    <3> QED BY <1>9, <1>typed, <2>1, <3>1, <3>2 DEF RecordIngestionFailure
  <2>2. CASE ~(task[w].job = j /\ job[j].owner = Host[w])
    BY <1>9, <1>same, <1>typed, <2>2 DEF RecordIngestionFailure
  <2> QED BY <2>1, <2>2
<1>10. ASSUME NEW w \in Workers, FinishDeletion(w) PROVE JobMoves(j)
  <2>1. CASE task[w].job = j /\ HoldsLease(j, w)
    <3>1. job'[j] = [Released(job[j], "succeeded") EXCEPT !.ledger = "succeeded"]
      BY <1>10, <1>typed, <2>1 DEF FinishDeletion
    <3>2. /\ job'[j].kind = job[j].kind /\ job'[j].status = "succeeded"
          /\ job'[j].owner = NoHost /\ ~job'[j].live /\ job'[j].attempts = job[j].attempts
      BY <1>typed, <3>1 DEF Released, JobRows
    <3> QED BY <1>ended, <3>2
  <2>2. CASE ~(task[w].job = j /\ HoldsLease(j, w))
    BY <1>10, <1>same, <1>typed, <2>2 DEF FinishDeletion
  <2> QED BY <2>1, <2>2
<1>11. ASSUME NEW w \in Workers, RecordDeletionFailure(w) PROVE JobMoves(j)
  <2>1. CASE task[w].job = j
    <3>1. \/ job'[j] = job[j] \/ job'[j] = [job[j] EXCEPT !.ledger = "failed"]
          \/ job'[j] = Released(job[j], "pending")
          \/ job'[j] = [Released(job[j], "failed") EXCEPT !.ledger = "failed"]
      BY <1>11, <1>typed, <2>1 DEF RecordDeletionFailure
    <3>2. /\ job'[j].kind = job[j].kind /\ job'[j].attempts = job[j].attempts
          /\ job'[j].owner \in {job[j].owner, NoHost} /\ (job'[j].live => job[j].live)
      BY <1>typed, <3>1 DEF Released, JobRows
    <3> QED BY <1>11, <1>ended, <2>1, <3>2 DEF RecordDeletionFailure
  <2>2. CASE task[w].job # j
    BY <1>11, <1>same, <1>typed, <2>2 DEF RecordDeletionFailure
  <2> QED BY <2>1, <2>2
<1>12. ASSUME NEW w \in Workers, BootstrapFails(w) \/ RecordingFails(w) PROVE JobMoves(j)
  BY <1>12, <1>marked, <1>same DEF BootstrapFails, RecordingFails
<1>13. ASSUME NEW w \in Workers,
              \/ SkipIngestion(w) \/ DownloadAndParse(w) \/ UpsertVectors(w)
              \/ ReplaceContent(w) \/ IngestionRaises(w)
              \/ DeferDeletion(w) \/ DeletePoints(w) \/ DeleteObject(w) \/ DeletionRaises(w)
              \/ Retry(w) \/ Acknowledge(w) \/ VisibilityTimeout(w) \/ Crash(w)
       PROVE  JobMoves(j)
  BY <1>13, <1>same
     DEF SkipIngestion, DownloadAndParse, UpsertVectors, ReplaceContent, IngestionRaises,
         DeferDeletion, DeletePoints, DeleteObject, DeletionRaises, Retry, Acknowledge,
         VisibilityTimeout, Crash
<1>14. CASE UploadContent \/ RejectUpload
  BY <1>14, <1>same DEF UploadContent, RejectUpload
<1> QED
  BY <1>1, <1>2, <1>3, <1>4, <1>5, <1>6, <1>7, <1>8, <1>9, <1>10, <1>11, <1>12, <1>13, <1>14
     DEF Next, Work, Ingest, Delete, Disturb

\* Every worker makes one of these moves, most of them none.
LEMMA WorkersMove ==
  ASSUME TypeOK, \A w \in Workers : task[w].pc = "idle" => ~task[w].held, Next
  PROVE  \A w \in Workers : Moves(w)
<1> DEFINE Goal == \A v \in Workers : Moves(v)
<1> USE DEF artifacts, broker, budgets
<1>typed. /\ task \in [Workers -> Tasks] /\ job \in [Jobs -> JobRows]
          /\ queue \in [Jobs \X Tries -> Nat] /\ lost \in [Jobs \X Tries -> Nat]
          /\ \A w \in Workers : task[w].pc # "idle" =>
               task[w].job \in Jobs /\ task[w].tries \in Tries
                 /\ <<task[w].job, task[w].tries>> \in Jobs \X Tries
  BY DEF TypeOK, Tasks
<1>still. ASSUME task' = task PROVE Goal
  BY <1>still DEF Moves
<1>moved. ASSUME NEW w \in Workers, \A v \in Workers : v # w => task'[v] = task[v], Moves(w)
          PROVE  Goal
  BY <1>moved DEF Moves
<1>proceeds. ASSUME NEW w \in Workers, NEW phase \in Busy \cup {"retrying"}, Proceed(w, phase),
                    \/ task[w].pc \in Busy
                    \/ /\ task[w].pc = "received" /\ phase = "retrying"
                       /\ job[task[w].job].kind = "delete"
             PROVE  Goal
  <2>1. \A v \in Workers : v # w => task'[v] = task[v]
    BY <1>proceeds, <1>typed DEF Proceed
  <2>2. task'[w].pc = phase /\ SameMessage(w) /\ task'[w].attempt = task[w].attempt
    BY <1>proceeds, <1>typed DEF Proceed, SameMessage, Tasks
  <2>3. GoesOn(w)
    BY <1>proceeds, <2>2 DEF GoesOn
  <2> QED BY <1>moved, <2>1, <2>3 DEF Moves
<1>finished. ASSUME NEW w \in Workers, Finish(w), task[w].pc # "idle",
                    task[w].pc = "received" /\ job[task[w].job].kind = "ingest" =>
                      \/ doc \notin InProgress \cup {"failed"} \/ ~Obtainable(task[w].job)
                      \/ job'[task[w].job].status = "failed",
                    task[w].pc = "retrying" /\ task[w].tries < MaxRetries =>
                      queue'[<<task[w].job, task[w].tries + 1>>] > 0
             PROVE  Goal
  <2>1. \A v \in Workers : v # w => task'[v] = task[v]
    BY <1>finished, <1>typed DEF Finish
  <2>2. task'[w].pc = "done" /\ task'[w].job = task[w].job /\ task'[w].tries = task[w].tries
    BY <1>finished, <1>typed DEF Finish, Tasks
  <2>3. Finishes(w)
    BY <1>finished, <2>2 DEF Finishes
  <2> QED BY <1>moved, <2>1, <2>3 DEF Moves
<1>failing. Busy \cap {"idle", "received", "retrying", "done"} = {}
  BY DEF Busy
<1>0. CASE UploadContent \/ RejectUpload \/ Request
  BY <1>0, <1>still DEF UploadContent, RejectUpload, Request, CompleteDocument, CompleteAgain,
                        RequestDeletion, RequestDeletionAgain
<1>1. ASSUME NEW j \in Jobs, PublishEvent(j) \/ LeaseExpires(j) PROVE Goal
  BY <1>1, <1>still DEF PublishEvent, LeaseExpires
<1>2. ASSUME NEW j \in Jobs, NEW r \in Tries, Restore(j, r) PROVE Goal
  BY <1>2, <1>still DEF Restore
<1>3. ASSUME NEW j \in Jobs, NEW r \in Tries, NEW w \in Workers, Receive(w, j, r) PROVE Goal
  <2>1. \A v \in Workers : v # w => task'[v] = task[v]
    BY <1>3, <1>typed DEF Receive
  <2>2. Arrives(w)
    BY <1>3, <1>typed DEF Receive, Arrives
  <2> QED BY <1>moved, <2>1, <2>2 DEF Moves
<1>4. ASSUME NEW w \in Workers, ClaimIngestion(w) \/ ClaimDeletion(w) PROVE Goal
  <2>1. \A v \in Workers : v # w => task'[v] = task[v]
    BY <1>4, <1>typed DEF ClaimIngestion, ClaimDeletion
  <2> QED BY <1>4, <1>moved, <2>1, ClaimsTake DEF Moves
<1>5. ASSUME NEW w \in Workers, SkipIngestion(w) PROVE Goal
  BY <1>5, <1>finished DEF SkipIngestion, ClaimableForIngestion, InProgress
<1>6. ASSUME NEW w \in Workers,
             \/ DownloadAndParse(w) \/ UpsertVectors(w) \/ ReplaceContent(w) \/ IngestionRaises(w)
             \/ DeferDeletion(w) \/ DeletePoints(w) \/ DeleteObject(w) \/ DeletionRaises(w)
      PROVE  Goal
  BY <1>6, <1>proceeds DEF DownloadAndParse, UpsertVectors, ReplaceContent, IngestionRaises,
       DeferDeletion, DeletePoints, DeleteObject, DeletionRaises, Busy
<1>7. ASSUME NEW w \in Workers, MarkReady(w) \/ FinishDeletion(w) PROVE Goal
  <2>1. CASE Finish(w)
    BY <1>7, <1>finished, <2>1 DEF MarkReady, FinishDeletion
  <2>2. CASE \E phase \in {"failingTerminal", "retrying"} : Proceed(w, phase)
    BY <1>7, <1>proceeds, <2>2 DEF MarkReady, FinishDeletion, Busy
  <2> QED BY <1>7, <2>1, <2>2 DEF MarkReady, FinishDeletion
<1>8. ASSUME NEW w \in Workers, RecordIngestionFailure(w) \/ RecordDeletionFailure(w) PROVE Goal
  <2>1. task[w].pc \in Busy /\ AfterFailure(w)
    BY <1>8 DEF RecordIngestionFailure, RecordDeletionFailure, Failing, Busy
  <2>2. CASE Finish(w)
    BY <1>failing, <1>finished, <2>1, <2>2
  <2>3. CASE Proceed(w, "retrying")
    BY <1>proceeds, <2>1, <2>3
  <2> QED BY <2>1, <2>2, <2>3 DEF AfterFailure
<1>9. ASSUME NEW w \in Workers, SkipDeletion(w) PROVE Goal
  BY <1>9, <1>finished DEF SkipDeletion
<1>10. ASSUME NEW w \in Workers, BootstrapFails(w) \/ RecordingFails(w) PROVE Goal
  <2> DEFINE j == task[w].job
  <2>1. task[w].pc \in {"received", "failingRetryable", "failingTerminal"} /\ Finish(w)
    BY <1>10 DEF BootstrapFails, RecordingFails, Failing
  <2>2. task[w].pc = "received" => ~Obtainable(j) \/ job'[j].status = "failed"
    <3> SUFFICES ASSUME task[w].pc = "received", Obtainable(j) PROVE job'[j].status = "failed"
      OBVIOUS
    <3>1. job' = [job EXCEPT ![j] = BootstrapFailed(@)]
      BY <1>10 DEF BootstrapFails, RecordingFails, Failing, MarkBootstrapFailed
    <3>2. j \in Jobs /\ job[j] \in JobRows
      BY <1>typed
    <3>3. job'[j] = BootstrapFailed(job[j])
      BY <1>typed, <3>1, <3>2
    <3> QED BY <3>2, <3>3 DEF BootstrapFailed, Released, JobRows
  <2> QED BY <1>finished, <2>1, <2>2
<1>11. ASSUME NEW w \in Workers, Retry(w) PROVE Goal
  <2>1. task[w].pc = "retrying" /\ Finish(w)
    BY <1>11 DEF Retry
  <2>2. task[w].tries < MaxRetries => queue'[<<task[w].job, task[w].tries + 1>>] > 0
    <3> SUFFICES ASSUME task[w].tries < MaxRetries
                 PROVE  queue'[<<task[w].job, task[w].tries + 1>>] > 0
      OBVIOUS
    <3> DEFINE m == <<task[w].job, task[w].tries + 1>>
    <3>1. m \in Jobs \X Tries
      <4>1. task[w].job \in Jobs /\ task[w].tries \in Tries
        BY <1>typed, <2>1
      <4>2. task[w].tries + 1 \in Tries
        BY <4>1, LifecycleAssumption DEF Tries
      <4> QED BY <4>1, <4>2
    <3>2. queue' = [queue EXCEPT ![m] = @ + 1]
      BY <1>11 DEF Retry, RetryMessage
    <3> HIDE DEF m
    <3>3. queue'[m] > 0
      BY <1>typed, <3>1, <3>2
    <3> QED BY <3>3 DEF m
  <2> QED BY <1>finished, <2>1, <2>2
<1>12. ASSUME NEW w \in Workers, VisibilityTimeout(w) PROVE Goal
  <2> DEFINE m == <<task[w].job, task[w].tries>>
  <2>1. \A v \in Workers : v # w => task'[v] = task[v]
    BY <1>12, <1>typed DEF VisibilityTimeout
  <2>2. task[w].pc \in Busy \cup {"retrying"}
    BY <1>12, <1>typed DEF VisibilityTimeout, Tasks, Phases, Busy
  <2>3. m \in Jobs \X Tries
    BY <1>typed, <2>2 DEF Busy
  <2>4. queue' = [queue EXCEPT ![m] = @ + 1]
    BY <1>12 DEF VisibilityTimeout
  <2>5. queue'[m] > 0
    <3> HIDE DEF m
    <3> QED BY <1>typed, <2>3, <2>4
  <2>6. task'[w] = [task[w] EXCEPT !.held = FALSE]
    BY <1>12, <1>typed DEF VisibilityTimeout
  <2>7. TimesOut(w)
    BY <1>12, <1>typed, <2>2, <2>5, <2>6 DEF VisibilityTimeout, TimesOut, Tasks
  <2> QED BY <1>moved, <2>1, <2>7 DEF Moves
<1>13. ASSUME NEW w \in Workers, Acknowledge(w) \/ Crash(w) PROVE Goal
  <2> DEFINE m == <<task[w].job, task[w].tries>>
  <2>1. (\A v \in Workers : v # w => task'[v] = task[v]) /\ task'[w] = Idle
    BY <1>13, <1>typed DEF Acknowledge, Crash
  <2>2. task[w].pc # "idle"
    BY <1>13 DEF Acknowledge, Crash
  <2>3. ASSUME task[w].pc # "done", task[w].held PROVE lost'[m] > 0
    <3>1. m \in Jobs \X Tries
      BY <1>typed, <2>2
    <3>2. lost' = [lost EXCEPT ![m] = @ + 1]
      BY <1>13, <2>3 DEF Acknowledge, Crash
    <3> HIDE DEF m
    <3> QED BY <1>typed, <3>1, <3>2
  <2>4. Stops(w)
    BY <2>1, <2>2, <2>3 DEF Stops, Idle
  <2> QED BY <1>moved, <2>1, <2>4 DEF Moves
<1> QED
  BY <1>0, <1>1, <1>2, <1>3, <1>4, <1>5, <1>6, <1>7, <1>8, <1>9, <1>10, <1>11, <1>12, <1>13
     DEF Next, Work, Ingest, Delete, Disturb

\* A copy of a job's message stays until a worker has it, and comes from the
\* outbox, from another copy or from a worker that had one.
InBroker(j, r) == queue[<<j, r>>] > 0 \/ lost[<<j, r>>] > 0

Gives(w, j, r) ==
  /\ task[w].pc # "idle" /\ task[w].job = j
  /\ task[w].tries = r \/ (task[w].pc = "retrying" /\ task[w].tries + 1 = r)

BrokerMoves(j) ==
  /\ outbox[j].unsent => outbox'[j].unsent \/ queue'[<<j, 0>>] > 0
  /\ outbox'[j].unsent => outbox[j].unsent \/ job'[j].kind # "none"
  /\ \A r \in Tries :
       /\ queue[<<j, r>>] > 0 => \/ queue'[<<j, r>>] > 0
                                \/ \E w \in Workers : task'[w].pc = "received" /\ task'[w].job = j
       /\ lost[<<j, r>>] > 0 => lost'[<<j, r>>] > 0 \/ queue'[<<j, r>>] > 0
       /\ InBroker(j, r)' => \/ InBroker(j, r)
                             \/ r = 0 /\ outbox[j].unsent
                             \/ \E w \in Workers : Gives(w, j, r)

LEMMA CopyAdded ==
  ASSUME NEW S, NEW count \in [S -> Nat], NEW m \in S, NEW more,
         more = [count EXCEPT ![m] = @ + 1]
  PROVE  /\ more[m] > 0
         /\ \A x \in S : (x # m => more[x] = count[x]) /\ (count[x] > 0 => more[x] > 0)
OBVIOUS

LEMMA BrokerMove ==
  ASSUME TypeOK, \A w \in Workers : task[w].pc = "idle" => ~task[w].held, Next, NEW j \in Jobs
  PROVE  BrokerMoves(j)
<1> USE DEF artifacts, broker, budgets
<1>typed. /\ job \in [Jobs -> JobRows] /\ task \in [Workers -> Tasks]
          /\ outbox \in [Jobs -> [events : 0..MaxEvents, unsent : BOOLEAN]]
          /\ queue \in [Jobs \X Tries -> Nat] /\ lost \in [Jobs \X Tries -> Nat]
          /\ \A w \in Workers : task[w].pc # "idle" =>
               task[w].job \in Jobs /\ task[w].tries \in Tries
          /\ 0 \in Tries
  BY LifecycleAssumption DEF TypeOK, Tasks, Tries
<1>still. ASSUME UNCHANGED broker PROVE BrokerMoves(j)
  BY <1>still DEF BrokerMoves, InBroker
\* An event more, of a job that is there.
<1>enqueued. ASSUME NEW i \in Jobs, outbox' = Enqueued(i), queue' = queue, lost' = lost,
                    job'[i].kind # "none"
             PROVE  BrokerMoves(j)
  <2>1. (i # j => outbox'[j] = outbox[j]) /\ (i = j => outbox'[j].unsent)
    BY <1>enqueued, <1>typed DEF Enqueued
  <2> QED BY <1>enqueued, <2>1 DEF BrokerMoves, InBroker
\* A copy more in the queue, or a dead worker's.
<1>queued. ASSUME NEW i \in Jobs, NEW n \in Tries, queue' = [queue EXCEPT ![<<i, n>>] = @ + 1],
                  lost' = lost, outbox' = outbox,
                  (n = 0 /\ outbox[i].unsent) \/ \E w \in Workers : Gives(w, i, n)
           PROVE  BrokerMoves(j)
  <2>1. <<i, n>> \in Jobs \X Tries /\ \A r \in Tries : <<j, r>> \in Jobs \X Tries
    OBVIOUS
  <2>2. /\ queue'[<<i, n>>] > 0
        /\ \A x \in Jobs \X Tries : /\ x # <<i, n>> => queue'[x] = queue[x]
                                    /\ queue[x] > 0 => queue'[x] > 0
    BY <1>queued, <1>typed, <2>1, CopyAdded
  <2>3. /\ \A r \in Tries : <<j, r>> # <<i, n>> => queue'[<<j, r>>] = queue[<<j, r>>]
        /\ \A r \in Tries : queue[<<j, r>>] > 0 => queue'[<<j, r>>] > 0
    BY <2>1, <2>2
  <2> QED BY <1>queued, <2>2, <2>3 DEF BrokerMoves, InBroker
<1>1. CASE UploadContent \/ RejectUpload
  BY <1>1, <1>still DEF UploadContent, RejectUpload
<1>2. CASE Request
  <2>1. CASE CompleteDocument
    <3>1. PICK i \in Jobs : job' = [job EXCEPT ![i] = [NoRow EXCEPT !.kind = "ingest"]]
                            /\ outbox' = Enqueued(i)
      BY <2>1 DEF CompleteDocument
    <3>2. job'[i].kind = "ingest"
      BY <1>typed, <3>1 DEF NoRow
    <3> QED BY <1>enqueued, <2>1, <3>1, <3>2 DEF CompleteDocument
  <2>2. CASE CompleteAgain
    BY <1>enqueued, <2>2 DEF CompleteAgain, Latest, OfKind
  <2>3. WithoutPendingIngestion \in [Jobs -> JobRows]
        /\ \A i \in Jobs : WithoutPendingIngestion[i].kind = job[i].kind
    <3>1. \A row \in JobRows : /\ [row EXCEPT !.status = "failed"] \in JobRows
                              /\ [row EXCEPT !.status = "failed"].kind = row.kind
      BY DEF JobRows
    <3> QED BY <1>typed, <3>1 DEF WithoutPendingIngestion
  <2>4. CASE RequestDeletion
    <3>1. PICK i \in Jobs :
            /\ job' = [WithoutPendingIngestion EXCEPT
                         ![i] = [NoRow EXCEPT !.kind = "delete", !.ledger = "pending",
                                              !.points = rows /\ tier = "vector"]]
            /\ outbox' = Enqueued(i)
      BY <2>4 DEF RequestDeletion
    <3>2. job'[i] = [NoRow EXCEPT !.kind = "delete", !.ledger = "pending",
                                  !.points = rows /\ tier = "vector"]
      BY <2>3, <3>1
    <3>3. job'[i].kind = "delete"
      BY <3>2 DEF NoRow
    <3> QED BY <1>enqueued, <2>4, <3>1, <3>3 DEF RequestDeletion
  <2>5. CASE RequestDeletionAgain
    <3>1. PICK i \in Jobs : Latest("delete", i) /\ outbox' = Enqueued(i)
      BY <2>5 DEF RequestDeletionAgain
    <3>2. job'[i].kind # "none"
      BY <2>3, <2>5, <3>1 DEF RequestDeletionAgain, Latest, OfKind
    <3> QED BY <1>enqueued, <2>5, <3>1, <3>2 DEF RequestDeletionAgain
  <2> QED BY <1>2, <2>1, <2>2, <2>4, <2>5 DEF Request
<1>3. ASSUME NEW i \in Jobs, PublishEvent(i) PROVE BrokerMoves(j)
  <2>1. queue' = [queue EXCEPT ![<<i, 0>>] = @ + 1] /\ lost' = lost /\ outbox[i].unsent
    BY <1>3 DEF PublishEvent
  <2>2. CASE outbox' = outbox
    BY <1>queued, <1>typed, <2>1, <2>2
  <2>3. CASE outbox' = [outbox EXCEPT ![i].unsent = FALSE]
    <3>0. <<i, 0>> \in Jobs \X Tries /\ \A r \in Tries : <<j, r>> \in Jobs \X Tries
      BY <1>typed
    <3>1. /\ queue'[<<i, 0>>] > 0
          /\ \A x \in Jobs \X Tries : /\ x # <<i, 0>> => queue'[x] = queue[x]
                                      /\ queue[x] > 0 => queue'[x] > 0
      BY <1>typed, <2>1, <3>0, CopyAdded
    <3>3. /\ \A r \in Tries : <<j, r>> # <<i, 0>> => queue'[<<j, r>>] = queue[<<j, r>>]
          /\ \A r \in Tries : queue[<<j, r>>] > 0 => queue'[<<j, r>>] > 0
      BY <3>0, <3>1
    <3>2. (i # j => outbox'[j] = outbox[j]) /\ (i = j => ~outbox'[j].unsent)
      BY <1>typed, <2>3
    <3> QED BY <2>1, <3>1, <3>2, <3>3 DEF BrokerMoves, InBroker
  <2> QED BY <1>3, <2>2, <2>3 DEF PublishEvent
<1>4. ASSUME NEW i \in Jobs, LeaseExpires(i) PROVE BrokerMoves(j)
  BY <1>4, <1>still DEF LeaseExpires
<1>5. ASSUME NEW i \in Jobs, NEW n \in Tries, Restore(i, n) PROVE BrokerMoves(j)
  <2> DEFINE m == <<i, n>>
  <2>0. m \in Jobs \X Tries
    OBVIOUS
  <2>1. /\ lost[m] > 0 /\ lost' = [lost EXCEPT ![m] = @ - 1]
        /\ queue' = [queue EXCEPT ![m] = @ + 1] /\ outbox' = outbox
    BY <1>5 DEF Restore
  <2>2. /\ queue'[m] > 0
        /\ \A x \in Jobs \X Tries : x # m => queue'[x] = queue[x] /\ lost'[x] = lost[x]
    <3> HIDE DEF m
    <3> QED BY <1>typed, <2>0, <2>1
  <2>3. ASSUME NEW r \in Tries, <<j, r>> # m
        PROVE  queue'[<<j, r>>] = queue[<<j, r>>] /\ lost'[<<j, r>>] = lost[<<j, r>>]
    BY <2>2, <2>3
  <2> QED BY <2>1, <2>2, <2>3 DEF BrokerMoves, InBroker
<1>6. ASSUME NEW i \in Jobs, NEW n \in Tries, NEW w \in Workers, Receive(w, i, n)
      PROVE  BrokerMoves(j)
  <2> DEFINE m == <<i, n>>
  <2>1. /\ queue[m] > 0 /\ queue' = [queue EXCEPT ![m] = @ - 1] /\ outbox' = outbox /\ lost' = lost
    BY <1>6 DEF Receive
  <2>2. \A x \in Jobs \X Tries : x # m => queue'[x] = queue[x]
    <3> HIDE DEF m
    <3> QED BY <1>typed, <2>1
  <2>3. ASSUME NEW r \in Tries, <<j, r>> # m PROVE queue'[<<j, r>>] = queue[<<j, r>>]
    BY <2>2, <2>3
  <2>4. task'[w].pc = "received" /\ task'[w].job = i
    BY <1>6, <1>typed DEF Receive
  <2> QED BY <2>1, <2>3, <2>4 DEF BrokerMoves, InBroker
<1>7. ASSUME NEW w \in Workers, Retry(w) PROVE BrokerMoves(j)
  <2>1. CASE task[w].tries < MaxRetries
    <3>1. task[w].job \in Jobs /\ task[w].tries \in Tries /\ task[w].tries + 1 \in Tries
      BY <1>7, <1>typed, <2>1, LifecycleAssumption DEF Retry, Tries
    <3>2. queue' = [queue EXCEPT ![<<task[w].job, task[w].tries + 1>>] = @ + 1]
          /\ lost' = lost /\ outbox' = outbox
      BY <1>7, <2>1 DEF Retry, RetryMessage
    <3>3. Gives(w, task[w].job, task[w].tries + 1)
      BY <1>7 DEF Retry, Gives
    <3> QED BY <1>queued, <3>1, <3>2, <3>3
  <2>2. CASE ~(task[w].tries < MaxRetries)
    BY <1>7, <1>still, <2>2 DEF Retry
  <2> QED BY <2>1, <2>2
<1>8. ASSUME NEW w \in Workers, VisibilityTimeout(w) PROVE BrokerMoves(j)
  <2>1. task[w].pc # "idle"
    BY <1>8 DEF VisibilityTimeout
  <2>2. task[w].job \in Jobs /\ task[w].tries \in Tries
    BY <1>typed, <2>1
  <2>3. Gives(w, task[w].job, task[w].tries)
    BY <2>1 DEF Gives
  <2> QED BY <1>8, <1>queued, <2>2, <2>3 DEF VisibilityTimeout
<1>9. ASSUME NEW w \in Workers, Crash(w) PROVE BrokerMoves(j)
  <2> DEFINE m == <<task[w].job, task[w].tries>>
  <2>1. /\ queue' = queue /\ outbox' = outbox /\ task[w].pc # "idle"
        /\ lost' = lost \/ lost' = [lost EXCEPT ![m] = @ + 1]
    BY <1>9 DEF Crash
  <2>2. CASE lost' = lost
    BY <1>still, <2>1, <2>2
  <2>3. CASE lost' = [lost EXCEPT ![m] = @ + 1]
    <3>1. m \in Jobs \X Tries
      BY <1>typed, <2>1
    <3>2. \A x \in Jobs \X Tries : /\ x # m => lost'[x] = lost[x]
                                   /\ lost[x] > 0 => lost'[x] > 0
      <4> HIDE DEF m
      <4> QED BY <1>typed, <2>3, <3>1
    <3>3. ASSUME NEW r \in Tries
          PROVE  /\ <<j, r>> # m => lost'[<<j, r>>] = lost[<<j, r>>]
                 /\ lost[<<j, r>>] > 0 => lost'[<<j, r>>] > 0
      BY <3>2
    <3> QED BY <2>1, <3>3 DEF BrokerMoves, InBroker, Gives
  <2> QED BY <2>1, <2>2, <2>3
<1>10. ASSUME NEW w \in Workers,
              \/ Ingest(w) \/ Delete(w) \/ Acknowledge(w) \/ BootstrapFails(w) \/ RecordingFails(w)
       PROVE  BrokerMoves(j)
  <2>1. CASE Ingest(w)
    BY <1>still, <2>1
       DEF Ingest, ClaimIngestion, SkipIngestion, DownloadAndParse, UpsertVectors,
           ReplaceContent, MarkReady, IngestionRaises, RecordIngestionFailure
  <2>2. CASE Delete(w)
    BY <1>still, <2>2
       DEF Delete, ClaimDeletion, DeferDeletion, SkipDeletion, DeletePoints, DeleteObject,
           FinishDeletion, DeletionRaises, RecordDeletionFailure
  <2> QED BY <1>10, <1>still, <2>1, <2>2 DEF Acknowledge, BootstrapFails, RecordingFails
<1> QED
  BY <1>1, <1>2, <1>3, <1>4, <1>5, <1>6, <1>7, <1>8, <1>9, <1>10 DEF Next, Work, Disturb

-----------------------------------------------------------------------------
(* What one step may do to the document and to the ingestions it waits for. *)

Open(j) == job[j].status \in {"pending", "running"}

\* Only a new job, a claim or a worker with a live lease brings it into progress;
\* it is in progress no more when an ingestion has ended.
DocMoves ==
  /\ doc' \in InProgress =>
       \/ doc \in InProgress
       \/ \E i \in Jobs : /\ job'[i].kind = "ingest" /\ Open(i)'
                          /\ \/ job[i].kind = "none"
                             \/ \E w \in Workers : task[w].job = i /\ Takes(w)
                             \/ Running(i) /\ job[i].live /\ job' = job
  /\ \A i \in OfKind("ingest") : Open(i) /\ ~Open(i)' => doc' \notin InProgress

LEMMA DocMove ==
  ASSUME TypeOK, DeletionsAreOfDeleted, \A w \in Workers : WorkerInv(w), Next,
         doc = "deleted" => doc' = "deleted"
  PROVE  DocMoves
<1> USE DEF artifacts, broker, budgets
<1>typed. job \in [Jobs -> JobRows] /\ task \in [Workers -> Tasks]
  BY DEF TypeOK
<1>still. ASSUME job' = job, doc' \in InProgress => doc \in InProgress PROVE DocMoves
  BY <1>still DEF DocMoves, Open
<1>over. ASSUME doc' \notin InProgress PROVE DocMoves
  BY <1>over DEF DocMoves
<1>deleted. ASSUME doc = "deleted" PROVE DocMoves
  BY <1>deleted, <1>over DEF InProgress
<1>deletion. ASSUME NEW j \in Jobs, job[j].kind = "delete" PROVE DocMoves
  BY <1>deletion, <1>deleted DEF DeletionsAreOfDeleted
<1>onlyOpens. ASSUME NEW j \in Jobs, \A i \in Jobs \ {j} : job'[i] = job[i], Open(j)',
                     doc' \in InProgress => doc \in InProgress
              PROVE  DocMoves
  BY <1>onlyOpens DEF DocMoves, Open, OfKind
<1>job. \A w \in Workers : task[w].pc # "idle" => task[w].job \in Jobs
  BY <1>typed DEF Tasks
<1>marked. ASSUME NEW j \in Jobs, MarkBootstrapFailed(j) PROVE DocMoves
  <2>1. CASE job[j].kind = "delete"
    BY <1>deletion, <2>1
  <2>2. CASE job[j].kind # "delete" /\ doc \in InProgress /\ Obtainable(j)
    <3>1. CASE job[j].kind = "ingest"
      BY <1>marked, <1>over, <2>2, <3>1 DEF MarkBootstrapFailed, InProgress
    <3>2. CASE job[j].kind = "none"
      <4>1. doc' = doc /\ \A i \in Jobs \ {j} : job'[i] = job[i]
        BY <1>marked, <1>typed, <2>2, <3>2 DEF MarkBootstrapFailed
      <4> QED BY <2>2, <3>2, <4>1 DEF DocMoves, OfKind, Open
    <3> QED BY <1>typed, <2>2, <3>1, <3>2 DEF JobRows, Kinds
  <2>3. CASE doc \notin InProgress
    BY <1>marked, <1>over, <2>3 DEF MarkBootstrapFailed, InProgress
  <2>4. CASE ~Obtainable(j)
    BY <1>marked, <1>still, <2>4 DEF MarkBootstrapFailed
  <2> QED BY <2>1, <2>2, <2>3, <2>4
<1>1. CASE UploadContent \/ RejectUpload \/ CompleteAgain
  BY <1>1, <1>still DEF UploadContent, RejectUpload, CompleteAgain
<1>2. CASE CompleteDocument
  <2>1. PICK j \in Jobs : Fresh(j) /\ job' = [job EXCEPT ![j] = [NoRow EXCEPT !.kind = "ingest"]]
    BY <1>2 DEF CompleteDocument
  <2>2. /\ job[j].kind = "none" /\ \A i \in Jobs \ {j} : job'[i] = job[i]
        /\ job'[j].kind = "ingest" /\ job'[j].status = "pending"
    BY <1>typed, <2>1 DEF Fresh, NoRow
  <2> QED BY <2>2 DEF DocMoves, Open, OfKind
<1>3. CASE RequestDeletion \/ RequestDeletionAgain
  BY <1>3, <1>over, <1>deleted DEF RequestDeletion, RequestDeletionAgain, InProgress
<1>4. ASSUME NEW j \in Jobs, PublishEvent(j) PROVE DocMoves
  BY <1>4, <1>still DEF PublishEvent
<1>5. ASSUME NEW j \in Jobs, LeaseExpires(j) PROVE DocMoves
  <2>1. job' = [job EXCEPT ![j] = [job[j] EXCEPT !.live = FALSE]] /\ doc' = doc
    BY <1>5, <1>typed DEF LeaseExpires
  <2>2. [job[j] EXCEPT !.live = FALSE].status = job[j].status
    BY <1>typed DEF JobRows
  <2>3. \A i \in Jobs : job'[i].status = job[i].status
    BY <1>typed, <2>1, <2>2
  <2> QED BY <2>1, <2>3 DEF DocMoves, Open, OfKind
<1>6. ASSUME NEW j \in Jobs, NEW r \in Tries,
             Restore(j, r) \/ \E w \in Workers : Receive(w, j, r)
      PROVE  DocMoves
  BY <1>6, <1>still DEF Restore, Receive
<1>7. ASSUME NEW w \in Workers, ClaimIngestion(w) PROVE DocMoves
  <2> DEFINE j == task[w].job
  <2>1. Takes(w) /\ j \in Jobs /\ job[j].kind = "ingest"
    BY <1>7, <1>job, ClaimsTake DEF ClaimIngestion
  <2>2. \A i \in Jobs \ {j} : job'[i] = job[i]
    BY <1>7, <1>typed DEF ClaimIngestion
  <2>3. job'[j].status = "running" /\ job'[j].kind = "ingest"
    <3>1. job'[j] = Leased(job[j], w)
      BY <2>1 DEF Takes
    <3>2. job[j] \in JobRows
      BY <1>typed, <2>1
    <3> QED BY <2>1, <3>1, <3>2, RowFields
  <2> QED BY <2>1, <2>2, <2>3 DEF DocMoves, Open, OfKind
<1>8. ASSUME NEW w \in Workers, ReplaceContent(w) PROVE DocMoves
  <2>1. job' = job
    BY <1>8 DEF ReplaceContent
  <2>2. CASE MayReplace(w)
    <3>1. /\ task[w].job \in Jobs /\ job[task[w].job].kind = "ingest"
          /\ Running(task[w].job) /\ job[task[w].job].live
      BY <1>8, <1>job, <2>2 DEF ReplaceContent, MayReplace, HoldsLease, WorkerInv
    <3> QED BY <2>1, <3>1 DEF DocMoves, Open, Running
  <2>3. CASE ~MayReplace(w)
    BY <1>8, <1>still, <2>3 DEF ReplaceContent
  <2> QED BY <2>2, <2>3
<1>9. ASSUME NEW w \in Workers, MarkReady(w) PROVE DocMoves
  BY <1>9, <1>still, <1>over DEF MarkReady, InProgress
<1>10. ASSUME NEW w \in Workers, RecordIngestionFailure(w) PROVE DocMoves
  <2> DEFINE j == task[w].job
  <2>1. j \in Jobs
    BY <1>10, <1>job DEF RecordIngestionFailure, Failing
  <2>2. CASE RetriesLeft(w)
    <3>1. CASE job' = [job EXCEPT ![j] = Released(@, "pending")]
      <4>1. job'[j] = Released(job[j], "pending") /\ \A i \in Jobs \ {j} : job'[i] = job[i]
        BY <1>typed, <2>1, <3>1
      <4>2. job'[j].status = "pending"
        BY <1>typed, <2>1, <4>1, RowFields DEF JobStatuses
      <4> QED BY <1>10, <1>onlyOpens, <2>1, <2>2, <4>1, <4>2 DEF RecordIngestionFailure, Open
    <3> QED BY <1>10, <1>still, <1>deleted, <2>2, <3>1 DEF RecordIngestionFailure
  <2>3. CASE ~RetriesLeft(w)
    BY <1>10, <1>over, <2>3 DEF RecordIngestionFailure, InProgress
  <2> QED BY <2>2, <2>3
<1>11. ASSUME NEW w \in Workers, ClaimDeletion(w) PROVE DocMoves
  BY <1>11, <1>deleted DEF ClaimDeletion, ClaimableForDeletion
<1>12. ASSUME NEW w \in Workers, SkipDeletion(w) \/ RecordDeletionFailure(w) PROVE DocMoves
  BY <1>12, <1>deletion, <1>job DEF SkipDeletion, RecordDeletionFailure, Failing
<1>13. ASSUME NEW w \in Workers, FinishDeletion(w) PROVE DocMoves
  BY <1>13, <1>deleted DEF FinishDeletion, WorkerInv
<1>14. ASSUME NEW w \in Workers, BootstrapFails(w) \/ RecordingFails(w) PROVE DocMoves
  BY <1>14, <1>marked, <1>still, <1>job DEF BootstrapFails, RecordingFails, Failing
<1>15. ASSUME NEW w \in Workers,
              \/ SkipIngestion(w) \/ DownloadAndParse(w) \/ UpsertVectors(w) \/ IngestionRaises(w)
              \/ DeferDeletion(w) \/ DeletePoints(w) \/ DeleteObject(w) \/ DeletionRaises(w)
              \/ Retry(w) \/ Acknowledge(w) \/ VisibilityTimeout(w) \/ Crash(w)
       PROVE  DocMoves
  BY <1>15, <1>still
     DEF SkipIngestion, DownloadAndParse, UpsertVectors, IngestionRaises, DeferDeletion,
         DeletePoints, DeleteObject, DeletionRaises, Retry, Acknowledge, VisibilityTimeout, Crash
<1> QED
  BY <1>1, <1>2, <1>3, <1>4, <1>5, <1>6, <1>7, <1>8, <1>9, <1>10, <1>11, <1>12, <1>13, <1>14, <1>15
     DEF Next, Request, Work, Ingest, Delete, Disturb

-----------------------------------------------------------------------------
(* How often a message was retried, and how often its job was claimed.     *)

\* Solo-pool workers: each has a hostname of its own.
Solo == \A v, w \in Workers : Host[v] = Host[w] => v = w

\* The worker that has the job's lease, or had it last.
Owns(w) == task[w].pc \in Busy /\ job[task[w].job].owner = Host[w]

\* The job has been claimed as often as the message was retried.
Spent(j, n) == n <= job[j].attempts \/ job[j].attempts > MaxAttempts

\* A worker's message is one of its job, and each retry of it had a claim; what
\* the owner remembers as its attempt is the job's last.
Counted(w) ==
  LET t == task[w] IN
  /\ t.pc = "idle" => ~t.held
  /\ t.pc = "received" => t.held
  /\ Owns(w) => t.attempt = job[t.job].attempts
  /\ t.pc # "idle" => /\ job[t.job].kind # "none"
                      /\ job[t.job].kind = "ingest" => Spent(t.job, t.tries)
  /\ t.pc \in Busy \cup {"retrying"} /\ job[t.job].kind = "ingest" =>
       t.attempt <= job[t.job].attempts /\ (t.tries < t.attempt \/ t.attempt > MaxAttempts)

MessageInv ==
  /\ \A j \in Jobs :
       /\ job[j].kind = "none" => ~outbox[j].unsent /\ \A r \in Tries : ~InBroker(j, r)
       /\ job[j].kind = "ingest" => \A r \in Tries : InBroker(j, r) => Spent(j, r)
  /\ \A w \in Workers : Counted(w)

\* A job that is there stays of its kind, and its claims are counted.
LEMMA ClaimsGrow ==
  ASSUME TypeOK, NEW j \in Jobs, JobMoves(j), job[j].kind # "none"
  PROVE  /\ job'[j].kind = job[j].kind /\ job'[j].attempts >= job[j].attempts
         /\ \A n \in Nat : Spent(j, n) => Spent(j, n)'
<1>typed. job[j] \in JobRows /\ MaxAttempts \in Nat
  BY LifecycleAssumption DEF TypeOK
<1>1. ASSUME NEW w \in Workers, job'[j] = Leased(job[j], w)
      PROVE  /\ job'[j].kind = job[j].kind
             /\ job'[j].attempts = IF job[j].attempts > MaxAttempts THEN job[j].attempts
                                                                  ELSE job[j].attempts + 1
  BY <1>1, <1>typed DEF Leased, JobRows
<1>2. job[j].attempts \in Nat
  BY <1>typed DEF JobRows
<1>3. /\ job'[j].kind = job[j].kind
      /\ job'[j].attempts \in {job[j].attempts, IF job[j].attempts > MaxAttempts
                                                THEN job[j].attempts ELSE job[j].attempts + 1}
  BY <1>1 DEF JobMoves, Takes
<1> QED BY <1>typed, <1>2, <1>3 DEF Spent

\* An owner has just taken the job, or owned it already.
LEMMA OwnerWas ==
  ASSUME TypeOK, Solo, NEW w \in Workers, NEW j \in Jobs, JobMoves(j), job'[j].owner = Host[w]
  PROVE  \/ task[w].job = j /\ Takes(w)
         \/ /\ job[j].owner = Host[w] /\ job'[j].kind = job[j].kind
            /\ job'[j].attempts = job[j].attempts /\ (job'[j].live => job[j].live)
            /\ \A v \in Workers : ~(task[v].job = j /\ Takes(v))
<1>typed. job[j] \in JobRows /\ Host[w] # NoHost
  BY LifecycleAssumption DEF TypeOK
<1>1. ASSUME NEW v \in Workers, task[v].job = j, Takes(v) PROVE v = w
  <2>1. job'[j] = Leased(job[j], v)
    BY <1>1 DEF Takes
  <2>2. job'[j].owner = Host[v]
    BY <1>typed, <2>1 DEF Leased, JobRows
  <2> QED BY <2>2 DEF Solo
<1> QED BY <1>typed, <1>1 DEF JobMoves

LEMMA MessageStep ==
  ASSUME TypeOK, TypeOK', LeasedIsRunning, Solo, MessageInv, Next
  PROVE  MessageInv'
<1>typed. /\ task \in [Workers -> Tasks] /\ job \in [Jobs -> JobRows] /\ job' \in [Jobs -> JobRows]
          /\ task' \in [Workers -> Tasks]
          /\ \A w \in Workers : task[w].pc # "idle" => task[w].job \in Jobs
          /\ \A w \in Workers : task[w].tries \in Nat /\ task[w].attempt \in Nat
          /\ \A j \in Jobs : job[j].attempts \in Nat /\ job[j].kind \in Kinds
          /\ MaxAttempts \in Nat /\ Tries \subseteq Nat
  BY LifecycleAssumption DEF TypeOK, Tasks, JobRows, Tries
<1>rows. \A j \in Jobs : JobMoves(j)
  BY JobMove
<1>idle. \A w \in Workers : task[w].pc = "idle" => ~task[w].held
  BY DEF MessageInv, Counted
<1>moves. \A w \in Workers : Moves(w)
  BY <1>idle, WorkersMove
<1>copies. \A j \in Jobs : BrokerMoves(j)
  BY <1>idle, BrokerMove
<1>1. ASSUME NEW j \in Jobs, job'[j].kind = "none"
      PROVE  ~outbox'[j].unsent /\ \A r \in Tries : ~InBroker(j, r)'
  <2>1. job[j].kind = "none"
    BY <1>1, <1>rows, ClaimsGrow
  <2>2. \A w \in Workers, r \in Tries : ~Gives(w, j, r)
    BY <2>1 DEF MessageInv, Counted, Gives
  <2> QED BY <1>1, <1>copies, <2>1, <2>2 DEF MessageInv, BrokerMoves
<1>2. ASSUME NEW j \in Jobs, job'[j].kind = "ingest", NEW r \in Tries, InBroker(j, r)'
      PROVE  Spent(j, r)'
  <2>1. r \in Nat /\ job'[j].attempts \in Nat
    BY <1>typed DEF JobRows
  <2>2. CASE r = 0
    BY <2>1, <2>2 DEF Spent
  <2>3. CASE InBroker(j, r)
    <3>1. job[j].kind # "none"
      BY <2>3 DEF MessageInv
    <3>2. job[j].kind = "ingest"
      BY <1>2, <1>rows, <3>1, ClaimsGrow
    <3> QED BY <1>rows, <2>1, <2>3, <3>2, ClaimsGrow DEF MessageInv
  <2>4. ASSUME NEW w \in Workers, Gives(w, j, r) PROVE Spent(j, r)'
    <3>1. Counted(w) /\ task[w].pc # "idle" /\ task[w].job = j
      BY <2>4 DEF MessageInv, Gives
    <3>2. job[j].kind = "ingest"
      BY <1>2, <1>rows, <3>1, ClaimsGrow DEF Counted
    <3>3. Spent(j, r)
      BY <1>typed, <2>4, <3>1, <3>2 DEF Counted, Gives, Spent
    <3> QED BY <1>rows, <2>1, <3>2, <3>3, ClaimsGrow
  <2> QED BY <1>2, <1>copies, <2>2, <2>3, <2>4 DEF BrokerMoves
<1>3. ASSUME NEW w \in Workers PROVE Counted(w)'
  <2> DEFINE t == task'[w]
  <2>same. PICK j, n : j = t.job /\ n = t.tries
    OBVIOUS
  <2>inv. Counted(w)
    BY DEF MessageInv
  <2>move. Moves(w)
    BY <1>moves
  <2> HIDE DEF t
  <2> USE <2>same DEF Busy
  <2>1. (t.pc = "idle" => ~t.held) /\ (t.pc = "received" => t.held)
    BY <2>inv, <2>move
       DEF t, Moves, Arrives, Takes, GoesOn, Finishes, TimesOut, Stops, SameMessage, Counted
  <2>2. ASSUME Owns(w)' PROVE t.attempt = job'[j].attempts
    <3>1. t.pc \in Busy /\ j \in Jobs /\ job'[j].owner = Host[w]
      BY <1>typed, <2>2 DEF t, Owns, Tasks
    <3>2. CASE Takes(w)
      BY <3>2 DEF t, Takes, SameMessage
    <3>3. CASE ~Takes(w)
      <4>1. task[w].pc \in Busy /\ task[w].job = j /\ task[w].attempt = t.attempt
        BY <2>move, <3>1, <3>3
           DEF t, Moves, Arrives, GoesOn, Finishes, TimesOut, Stops, SameMessage
      <4>2. job[j].owner = Host[w] /\ job'[j].attempts = job[j].attempts
        BY <1>rows, <3>1, <3>3, OwnerWas
      <4> QED BY <2>inv, <4>1, <4>2 DEF Counted, Owns
    <3> QED BY <3>2, <3>3
  <2>3. ASSUME t.pc # "idle"
        PROVE  job'[j].kind # "none" /\ (job'[j].kind = "ingest" => Spent(j, n)')
    <3>1. CASE Arrives(w)
      <4>1. j \in Jobs /\ n \in Tries /\ InBroker(j, n)
        BY <3>1 DEF t, Arrives, InBroker
      <4>2. job[j].kind # "none" /\ (job[j].kind = "ingest" => Spent(j, n))
        BY <4>1 DEF MessageInv
      <4> QED BY <1>rows, <1>typed, <4>1, <4>2, ClaimsGrow
    <3>2. CASE ~Arrives(w)
      <4>1. task[w].pc # "idle" /\ task[w].job = j /\ task[w].tries = n
        BY <2>3, <2>move, <3>2
           DEF t, Moves, Takes, GoesOn, Finishes, TimesOut, Stops, SameMessage
      <4>2. j \in Jobs /\ n \in Nat
        BY <1>typed, <4>1
      <4>3. job[j].kind # "none" /\ (job[j].kind = "ingest" => Spent(j, n))
        BY <2>inv, <4>1 DEF Counted
      <4> QED BY <1>rows, <4>2, <4>3, ClaimsGrow
    <3> QED BY <3>1, <3>2
  <2>4. ASSUME t.pc \in Busy \cup {"retrying"}, job'[j].kind = "ingest"
        PROVE  t.attempt <= job'[j].attempts /\ (n < t.attempt \/ t.attempt > MaxAttempts)
    <3>1. task[w].pc # "idle" /\ task[w].job = j /\ task[w].tries = n /\ j \in Jobs
      BY <1>typed, <2>4, <2>move
         DEF t, Moves, Arrives, Takes, GoesOn, Finishes, TimesOut, Stops, SameMessage
    <3>2. job[j].kind = "ingest" /\ job'[j].attempts >= job[j].attempts
      BY <1>rows, <2>4, <2>inv, <3>1, ClaimsGrow DEF Counted
    <3>3. CASE Takes(w)
      <4>1. job'[j] = Leased(job[j], w) /\ t.attempt = job'[j].attempts
        BY <3>1, <3>3 DEF t, Takes
      <4>2. job[j] \in JobRows
        BY <1>typed, <3>1
      <4>3. job'[j].attempts = IF job[j].attempts > MaxAttempts THEN job[j].attempts
                                                               ELSE job[j].attempts + 1
        BY <4>1, <4>2 DEF Leased, JobRows
      <4>4. Spent(j, n)
        BY <2>inv, <3>1, <3>2 DEF Counted
      <4>5. n \in Nat /\ job[j].attempts \in Nat
        BY <1>typed, <3>1
      <4> QED BY <1>typed, <4>1, <4>3, <4>4, <4>5 DEF Spent
    <3>4. CASE ~Takes(w)
      <4>1. task[w].pc \in Busy \cup {"retrying"} /\ task[w].attempt = t.attempt
        BY <2>4, <2>move, <3>1, <3>2, <3>4
           DEF t, Moves, Arrives, GoesOn, Finishes, TimesOut, Stops, SameMessage
      <4>2. t.attempt <= job[j].attempts /\ (n < t.attempt \/ t.attempt > MaxAttempts)
        BY <2>inv, <3>1, <3>2, <4>1 DEF Counted
      <4>3. t.attempt \in Nat /\ job[j].attempts \in Nat /\ job'[j].attempts \in Nat
        BY <1>typed, <3>1, <4>1 DEF JobRows
      <4> QED BY <3>2, <4>2, <4>3
    <3> QED BY <3>3, <3>4
  <2> QED BY <2>1, <2>2, <2>3, <2>4 DEF t, Counted, Spent
<1> QED BY <1>1, <1>2, <1>3 DEF MessageInv

-----------------------------------------------------------------------------
(* A pending ingestion is delivered.                                       *)

\* A copy of the job's message that nobody has looked at.
Unread(j) ==
  \/ outbox[j].unsent
  \/ \E r \in Tries : InBroker(j, r)
  \/ \E w \in Workers : task[w].pc = "received" /\ task[w].job = j

\* The document waits for this job, and for no other.
Waits(j) == Latest("ingest", j) /\ doc \in InProgress /\ ~AnotherIsOpen(j)

\* A retry that will be published, or given back if its worker dies.
RetryHeld(w, j) ==
  task[w].pc = "retrying" /\ task[w].job = j /\ task[w].held /\ task[w].tries < MaxRetries

PendingHasMessage(j) ==
  Waits(j) /\ job[j].status = "pending" => Unread(j) \/ \E w \in Workers : RetryHeld(w, j)

\* An owner whose message has been given to others has lost its lease, and
\* none of those has looked at the message yet.
OwnerHasMessage(w) ==
  Owns(w) /\ ~task[w].held => /\ ~job[task[w].job].live
                              /\ Waits(task[w].job) => Unread(task[w].job)

DeliveryInv ==
  /\ \A w \in Workers : OwnerHasMessage(w)
  /\ MaxRetries >= MaxAttempts - 1 => \A j \in Jobs : PendingHasMessage(j)

\* Whoever looks at the message of an ingestion that can be claimed claims it or
\* fails it; and no step loses a message.
LEMMA UnreadStays ==
  ASSUME TypeOK, MessageInv, NEW j \in Jobs, \A w \in Workers : Moves(w), BrokerMoves(j),
         Unread(j), Obtainable(j), job[j].kind = "ingest", doc \in InProgress
  PROVE  \/ Unread(j)' \/ job'[j].status = "failed"
         \/ \E w \in Workers : task[w].job = j /\ Takes(w)
<1>1. CASE outbox[j].unsent \/ \E r \in Tries : InBroker(j, r)
  <2>1. 0 \in Tries
    BY LifecycleAssumption DEF Tries
  <2> QED BY <1>1, <2>1 DEF BrokerMoves, Unread, InBroker
<1>2. ASSUME NEW w \in Workers, task[w].pc = "received", task[w].job = j
      PROVE  Unread(j)' \/ job'[j].status = "failed" \/ Takes(w)
  <2>1. Moves(w) /\ Counted(w)
    BY DEF MessageInv
  <2>2. CASE task'[w] = task[w]
    BY <1>2, <2>2 DEF Unread
  <2>3. CASE Finishes(w)
    BY <1>2, <2>3 DEF Finishes
  <2>4. CASE Stops(w)
    <3>1. lost'[<<j, task[w].tries>>] > 0
      BY <1>2, <2>1, <2>4 DEF Stops, Counted
    <3>2. task[w].tries \in Tries
      BY DEF TypeOK, Tasks
    <3> QED BY <3>1, <3>2 DEF Unread, InBroker
  <2> QED BY <1>2, <2>1, <2>2, <2>3, <2>4 DEF Moves, Arrives, GoesOn, TimesOut, Busy
<1> QED BY <1>1, <1>2 DEF Unread

\* A job waited for, unless it was just claimed, was waited for before.
LEMMA WaitedBefore ==
  ASSUME TypeOK, TypeOK', NEW j \in Jobs, DocMoves, \A i \in Jobs : JobMoves(i),
         job[j].kind = "ingest", \A w \in Workers : ~(task[w].job = j /\ Takes(w)),
         job'[j].status = "pending" \/ ~job[j].live, Waits(j)'
  PROVE  Waits(j)
<1>typed. job \in [Jobs -> JobRows] /\ job' \in [Jobs -> JobRows]
  BY DEF TypeOK
<1>open. \A i \in Jobs : (Open(i) <=> ~Ended(i)) /\ (Open(i)' <=> ~Ended(i)')
  BY <1>typed DEF Open, Ended, JobRows
<1>kinds. \A i \in Jobs : job[i].kind = "ingest" => job'[i].kind = "ingest"
  <2>1. \A i \in Jobs : job[i].kind # "none" => job'[i].kind = job[i].kind
    BY ClaimsGrow
  <2> QED BY <2>1
<1>after. /\ \A i \in Jobs : job'[i].kind = "ingest" => i <= j
          /\ \A i \in Jobs \ {j} : job'[i].kind = "ingest" => ~Open(i)'
          /\ doc' \in InProgress
  BY <1>open DEF Waits, Latest, OfKind, AnotherIsOpen
<1>1. Latest("ingest", j)
  BY <1>kinds, <1>after DEF Latest, OfKind
<1>2. doc \in InProgress
  <2> SUFFICES ASSUME NEW i \in Jobs, job'[i].kind = "ingest", Open(i)',
                      \/ job[i].kind = "none"
                      \/ \E w \in Workers : task[w].job = i /\ Takes(w)
                      \/ Running(i) /\ job[i].live /\ job' = job
               PROVE  FALSE
    BY <1>after DEF DocMoves
  <2>1. i = j
    BY <1>after
  <2> QED BY <2>1 DEF Running
<1>3. ~AnotherIsOpen(j)
  <2> SUFFICES ASSUME NEW i \in Jobs \ {j}, job[i].kind = "ingest", Open(i) PROVE FALSE
    BY <1>open DEF AnotherIsOpen, OfKind
  <2>1. ~Open(i)'
    BY <1>kinds, <1>after
  <2> QED BY <1>after, <2>1 DEF DocMoves, OfKind
<1> QED BY <1>1, <1>2, <1>3 DEF Waits

LEMMA DeliveryStep ==
  ASSUME TypeOK, TypeOK', LeasedIsRunning, LeasedIsRunning', Solo, MessageInv, DeliveryInv,
         DeletionsAreOfDeleted, \A w \in Workers : WorkerInv(w), Next,
         doc = "deleted" => doc' = "deleted"
  PROVE  DeliveryInv'
<1>typed. /\ task \in [Workers -> Tasks] /\ task' \in [Workers -> Tasks]
          /\ \A w \in Workers : task[w].tries \in Nat /\ task[w].attempt \in Nat
          /\ MaxAttempts \in Nat /\ MaxRetries \in Nat
          /\ \A w \in Workers : Host[w] # NoHost
  BY LifecycleAssumption DEF TypeOK, Tasks, Tries
<1>rows. \A j \in Jobs : JobMoves(j)
  BY JobMove
<1>idle. \A w \in Workers : task[w].pc = "idle" => ~task[w].held
  BY DEF MessageInv, Counted
<1>moves. \A w \in Workers : Moves(w)
  BY <1>idle, WorkersMove
<1>copies. \A j \in Jobs : BrokerMoves(j)
  BY <1>idle, BrokerMove
<1>doc. DocMoves
  BY DocMove
<1>1. ASSUME NEW w \in Workers PROVE OwnerHasMessage(w)'
  <2>same. PICK j : j = task'[w].job
    OBVIOUS
  <2> SUFFICES ASSUME Owns(w)', ~task'[w].held
               PROVE  ~job'[j].live /\ (Waits(j)' => Unread(j)')
    BY <2>same, Zenon DEF OwnerHasMessage
  <2>1. task'[w].pc \in Busy /\ j \in Jobs /\ job'[j].owner = Host[w]
    BY <1>typed, <2>same DEF Owns, Tasks, Busy
  <2>move. Moves(w) /\ Counted(w)
    BY <1>moves DEF MessageInv
  <2>2. ~Takes(w)
    BY <2>move DEF Takes, SameMessage, Counted
  <2>3. /\ job[j].owner = Host[w] /\ (job'[j].live => job[j].live)
        /\ \A v \in Workers : ~(task[v].job = j /\ Takes(v))
    BY <1>rows, <2>1, <2>2, OwnerWas
  <2>4. Running(j) /\ Running(j)'
    BY <1>typed, <2>1, <2>3 DEF LeasedIsRunning
  <2>5. CASE TimesOut(w)
    <3>1. task[w].job = j /\ job' = job /\ task[w].tries \in Tries
      BY <1>typed, <2>same, <2>5 DEF TimesOut, Tasks
    <3>2. Owns(w)
      BY <2>1, <2>3, <2>5, <3>1 DEF TimesOut, Owns
    <3>3. ~job[j].live
      BY <2>3, <2>4, <2>5, <2>move, <3>1, <3>2 DEF TimesOut, DeliveryLive, HoldsLease, Counted
    <3>4. Unread(j)'
      BY <2>5, <3>1 DEF TimesOut, Unread, InBroker
    <3> QED BY <3>1, <3>3, <3>4
  <2>6. CASE ~TimesOut(w)
    <3>1. task[w].job = j /\ ~task[w].held /\ task[w].pc \in Busy
      BY <2>same, <2>1, <2>2, <2>6, <2>move
         DEF Moves, Arrives, GoesOn, Finishes, Stops, SameMessage, Counted, Busy
    <3>2. ~job[j].live /\ (Waits(j) => Unread(j))
      BY <2>3, <3>1 DEF DeliveryInv, OwnerHasMessage, Owns
    <3>3. ASSUME Waits(j)' PROVE Unread(j)'
      <4>1. job'[j].kind = "ingest" /\ job[j].kind # "none"
        BY <2>move, <3>1, <3>3 DEF Waits, Latest, OfKind, Counted, Busy
      <4>2. job[j].kind = "ingest"
        BY <1>rows, <2>1, <4>1, ClaimsGrow
      <4>3. Waits(j)
        BY <1>doc, <1>rows, <2>1, <2>3, <3>2, <3>3, <4>2, WaitedBefore
      <4>4. Obtainable(j) /\ job'[j].status # "failed"
        BY <2>4, <3>2 DEF Obtainable, Running
      <4> QED BY <1>moves, <1>copies, <2>1, <2>3, <3>2, <4>2, <4>3, <4>4, UnreadStays DEF Waits
    <3> QED BY <2>3, <3>2, <3>3
  <2> QED BY <2>5, <2>6
<1>2. ASSUME MaxRetries >= MaxAttempts - 1, NEW j \in Jobs, Waits(j)', job'[j].status = "pending"
      PROVE  Unread(j)' \/ \E w \in Workers : RetryHeld(w, j)'
  <2>0. \A w \in Workers : ~(task[w].job = j /\ Takes(w))
    <3> SUFFICES ASSUME NEW w \in Workers, task[w].job = j, Takes(w) PROVE FALSE
      OBVIOUS
    <3>1. job'[j] = Leased(job[j], w) /\ job[j] \in JobRows
      BY DEF Takes, TypeOK
    <3> QED BY <1>2, <3>1, RowFields
  <2>1. job'[j].kind = "ingest"
    BY <1>2 DEF Waits, Latest, OfKind
  <2>2. CASE job[j].kind = "none"
    BY <1>rows, <2>0, <2>1, <2>2 DEF JobMoves, Unread
  <2>3. CASE job[j].kind # "none"
    <3>1. job[j].kind = "ingest"
      BY <1>rows, <2>1, <2>3, ClaimsGrow
    <3>2. Waits(j)
      BY <1>doc, <1>rows, <1>2, <2>0, <3>1, WaitedBefore
    <3>unread. ASSUME Unread(j), Obtainable(j) PROVE Unread(j)'
      BY <1>2, <1>moves, <1>copies, <2>0, <3>unread, <3>1, <3>2, UnreadStays DEF Waits
    <3>3. CASE job[j].status = "pending"
      <4>1. CASE Unread(j)
        BY <3>unread, <3>3, <4>1 DEF Obtainable
      <4>2. ASSUME NEW w \in Workers, RetryHeld(w, j) PROVE Unread(j)' \/ RetryHeld(w, j)'
        <5>1. Moves(w) /\ task[w].tries \in Tries
          BY <1>moves, <1>typed DEF Tasks
        <5>2. CASE task'[w] = task[w]
          BY <4>2, <5>2 DEF RetryHeld
        <5>3. CASE Finishes(w)
          <6>1. task[w].tries + 1 \in Tries
            BY <1>typed, <4>2, <5>1 DEF RetryHeld, Tries
          <6> QED BY <4>2, <5>3, <6>1 DEF RetryHeld, Finishes, Unread, InBroker
        <5>4. CASE TimesOut(w) \/ Stops(w)
          BY <4>2, <5>1, <5>4 DEF RetryHeld, TimesOut, Stops, Unread, InBroker
        <5> QED BY <4>2, <5>1, <5>2, <5>3, <5>4 DEF RetryHeld, Moves, Arrives, Takes, GoesOn, Busy
      <4> QED BY <1>2, <3>2, <3>3, <4>1, <4>2 DEF DeliveryInv, PendingHasMessage
    <3>4. CASE job[j].status # "pending"
      <4>1. PICK w \in Workers : task[w].job = j /\ Releases(w)
        BY <1>rows, <1>2, <2>0, <2>3, <3>1, <3>4 DEF JobMoves
      <4>2. Owns(w)
        BY <4>1 DEF Releases, Owns
      <4>3. CASE task[w].held
        <5>1. task[w].tries < task[w].attempt
          BY <1>typed, <3>1, <4>1 DEF Releases, MessageInv, Counted, Busy
        <5>2. task[w].tries < MaxRetries
          BY <1>typed, <1>2, <4>1, <5>1 DEF Releases
        <5> QED BY <4>1, <4>3, <5>2 DEF Releases, SameMessage, RetryHeld
      <4>4. CASE ~task[w].held
        <5>1. ~job[j].live /\ Unread(j)
          BY <3>2, <4>1, <4>2, <4>4 DEF DeliveryInv, OwnerHasMessage
        <5>2. Running(j)
          BY <1>typed, <4>1, <4>2 DEF LeasedIsRunning, Owns
        <5> QED BY <3>unread, <5>1, <5>2 DEF Obtainable
      <4> QED BY <4>3, <4>4
    <3> QED BY <3>3, <3>4
  <2> QED BY <2>2, <2>3
<1> QED BY <1>1, <1>2 DEF DeliveryInv, PendingHasMessage

\* No wake-up of an ingestion is lost, whatever workers die or are timed out, if
\* the workers have a hostname each and retries outnumber attempts: the latest
\* ingestion of a document in progress, pending while no other is open, has an
\* event, a message or a worker that will bring it to a claim.
THEOREM PendingDelivered == ASSUME Solo PROVE Spec => []PendingIngestionIsDelivered
<1> DEFINE Base == TypeOK /\ LeasedIsRunning /\ DeletionInv /\ DataInv
           Inv == MessageInv /\ DeliveryInv
<1>1. Init => Inv
  <2> SUFFICES ASSUME Init PROVE Inv
    OBVIOUS
  <2>1. /\ \A j \in Jobs : job[j].kind = "none" /\ ~outbox[j].unsent
        /\ \A j \in Jobs, r \in Tries : ~InBroker(j, r)
        /\ \A w \in Workers : task[w].pc = "idle" /\ ~task[w].held
    BY DEF Init, NoRow, InBroker, Idle
  <2>2. MessageInv
    BY <2>1 DEF MessageInv, Counted, Owns, Busy
  <2> QED BY <2>1, <2>2 DEF DeliveryInv, OwnerHasMessage, Owns, Busy, PendingHasMessage, Waits,
                            Latest, OfKind
<1>2. Inv /\ Base /\ Base' /\ (doc = "deleted" => doc' = "deleted") /\ [Next]_vars => Inv'
  <2> SUFFICES ASSUME Inv, Base, Base', doc = "deleted" => doc' = "deleted", [Next]_vars PROVE Inv'
    OBVIOUS
  <2>1. CASE Next
    <3>1. DeletionsAreOfDeleted /\ \A w \in Workers : WorkerInv(w)
      BY DEF DeletionInv, DataInv
    <3> QED BY <2>1, <3>1, MessageStep, DeliveryStep
  <2>2. CASE UNCHANGED vars
    <3>1. UNCHANGED <<doc, job, outbox, queue, lost, task>>
      BY <2>2 DEF vars, broker
    <3>2. MessageInv'
      BY <3>1 DEF MessageInv, InBroker, Counted, Owns, Spent
    <3>3. DeliveryInv'
      BY <3>1 DEF DeliveryInv, OwnerHasMessage, Owns, PendingHasMessage, RetryHeld, Unread,
                  InBroker, Waits, Latest, OfKind, AnotherIsOpen, Ended
    <3> QED BY <3>2, <3>3
  <2> QED BY <2>1, <2>2
<1>3. Spec => [][doc = "deleted" => doc' = "deleted"]_vars
  BY DeletedStays DEF DeletedIsFinal
<1>4. [doc = "deleted" => doc' = "deleted"]_vars => (doc = "deleted" => doc' = "deleted")
  BY DEF vars
<1>5. Spec => []Base
  BY LeaseInvariant, DeletionInvariant, DataInvariant, PTL
<1>6. Inv => PendingIngestionIsDelivered
  <2> SUFFICES ASSUME Inv, MaxRetries >= MaxAttempts - 1, NEW j \in Jobs, Awaited(j),
                      ~AnotherIsOpen(j)
               PROVE  DeliveryUnderWay(j)
    BY DEF PendingIngestionIsDelivered
  <2>1. Waits(j) /\ job[j].status = "pending"
    BY DEF Awaited, Waits, InProgress
  <2>2. Unread(j) \/ \E w \in Workers : RetryHeld(w, j)
    BY <2>1 DEF DeliveryInv, PendingHasMessage
  <2> QED BY <2>2 DEF Unread, InBroker, RetryHeld, DeliveryUnderWay
<1> QED BY <1>1, <1>2, <1>3, <1>4, <1>5, <1>6, PTL DEF Spec

=============================================================================
