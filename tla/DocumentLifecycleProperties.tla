--------------------- MODULE DocumentLifecycleProperties ---------------------
(* What the document lifecycle should guarantee, whatever overlaps.        *)
EXTENDS DocumentLifecycle

Ended(j) == job[j].status \in {"succeeded", "failed"}

(* Ingestion. *)

\* All that queries need of the document is stored.
Complete ==
  rows /\ object /\ vectors = IF tier = "vector" THEN "all" ELSE "none"

\* A document offered to queries has its rows, its object and exactly the
\* vectors its tier calls for, although rows, vectors and status are written
\* by separate calls of workers that may have lost the job.
ReadyIsComplete ==
  doc = "ready" => /\ Complete
                   /\ \E j \in OfKind("ingest") : job[j].status = "succeeded"

\* No lost wake-up: the ingestion a document in progress waits for has an
\* event, a message or a worker that will bring it to a claim, as long as
\* retries outnumber attempts.  A job whose document was finished or failed by
\* another job is not waited for: its message is skipped.  And one whose message
\* was skipped so may be the latest again, when a third job, still open, takes
\* the document up: then that one will end it.
DeliveryUnderWay(j) ==
  \/ outbox[j].unsent
  \/ \E r \in Tries : queue[<<j, r>>] > 0 \/ lost[<<j, r>>] > 0
  \/ \E w \in Workers : /\ task[w].job = j
                          /\ \/ task[w].pc = "received"
                             \/ task[w].pc = "retrying" /\ task[w].tries < MaxRetries

Awaited(j) ==
  /\ Latest("ingest", j) /\ job[j].status = "pending"
  /\ doc \in {"uploaded", "parsing", "indexing"}

AnotherIsOpen(j) == \E i \in OfKind("ingest") \ {j} : ~Ended(i)

PendingIngestionIsDelivered ==
  MaxRetries >= MaxAttempts - 1 =>
    \A j \in Jobs : Awaited(j) => DeliveryUnderWay(j) \/ AnotherIsOpen(j)

\* A job that has ended never starts again: whatever a worker that lost its
\* lease still writes, a late delivery claims or a second request does.
EndedJobsStayEnded ==
  [][\A j \in Jobs : job[j].kind # "none" /\ Ended(j) => job'[j].status = job[j].status]_vars

(* Deletion. *)

\* Remote artifacts are deleted only while no ingestion of the document holds
\* a lease, neither before the deletion's claim nor after it.
DeletionExcludesIngestion ==
  (\E j \in OfKind("delete") : Running(j) /\ job[j].live) => ~LiveIngestion

\* A succeeded deletion leaves neither rows nor object behind, and no late
\* ingestion brings them back.
DeletionLeavesNoData ==
  (\E j \in OfKind("delete") : job[j].status = "succeeded") => ~rows /\ ~object

\* A deletion neither meets an ingestion nor leaves data behind.
DeletionIsSafe == TypeOK /\ DeletionExcludesIngestion /\ DeletionLeavesNoData

\* Undelete is not a contract: no worker resurrects a deleted document.
DeletedIsFinal == [][doc = "deleted" => doc' = "deleted"]_vars

\* Nothing that is over begins again, neither a job nor a deleted document.
EndsAreFinal == EndedJobsStayEnded /\ DeletedIsFinal

-----------------------------------------------------------------------------
(* What readers of the document are promised.                              *)

Shown == CASE doc = "uploaded" -> "waiting"
           [] doc \in {"parsing", "indexing"} -> "processing"
           [] doc = "ready" -> "offered"
           [] OTHER -> doc

KeptParts == {p \in {"rows", "object"} : IF p = "rows" THEN rows ELSE object}

Erased == \E j \in OfKind("delete") : job[j].status = "succeeded"

Promise == INSTANCE DocumentPromise WITH
  shown <- Shown, kept <- KeptParts, whole <- Complete, erased <- Erased

\* Whatever jobs, leases, crashes and repeated requests do, readers see a
\* document that is prepared, offered when it is whole, kept as it is while it is
\* offered, and never back once its deletion has been reported as done.
ImplementsDocumentPromise == Promise!Spec

-----------------------------------------------------------------------------
(* Liveness: every ingestion a document waits for comes to an end. *)
IngestionEnds ==
  \A j \in Jobs : Awaited(j) ~> (Ended(j) \/ doc \in {"ready", "failed", "deleted"})
=============================================================================
