------------------------------- MODULE Outbox -------------------------------
(***************************************************************************)
(* The transactional outbox: the API commits an event row in the           *)
(* transaction of its business rows; dispatcher processes claim due rows,  *)
(* hand them to Celery and record each outcome.                            *)
(*                                                                         *)
(* A row's available_at is abstracted to its age with respect to the two   *)
(* comparisons the code makes: "future" (available_at > now()), "due"      *)
(* (available_at <= now()) and "stale" (older than the 15 minutes of       *)
(* recover_stale_claims, hence also due).                                  *)
(***************************************************************************)
EXTENDS Naturals, FiniteSets

CONSTANTS Events,        \* outbox_events.id of the rows the API may insert
          Unsupported,   \* events whose type is missing in TASK_BY_EVENT
          Dispatchers,   \* dispatcher processes (two overlap during a deploy)
          BatchSize,     \* OutboxDispatcher.batch_size
          MaxAttempts,   \* OutboxDispatcher.max_attempts
          NoEvent        \* a value that is no event

ASSUME OutboxAssumption ==
  /\ IsFiniteSet(Events)
  /\ IsFiniteSet(Dispatchers)
  /\ Unsupported \subseteq Events
  /\ BatchSize \in Nat \ {0}
  /\ MaxAttempts \in Nat \ {0}
  /\ NoEvent \notin Events

VARIABLES
  status,    \* outbox_events.status, "absent" before the row is inserted
  attempts,  \* outbox_events.attempts
  age,       \* outbox_events.available_at, abstracted as above
  sent,      \* copies of the event's task the broker has accepted
  pc,        \* what each dispatcher process is doing
  batch,     \* the events a dispatcher has claimed and not yet published
  current    \* the event whose publish call a dispatcher has made

vars == <<status, attempts, age, sent, pc, batch, current>>
rowVars == <<status, attempts, age>>
procVars == <<pc, batch, current>>

Statuses == {"absent", "pending", "publishing", "published", "failed"}
Ages == {"future", "due", "stale"}
Phases == {"down", "polling", "publishing", "sent", "raised"}

TypeOK ==
  /\ status \in [Events -> Statuses]
  /\ attempts \in [Events -> 0..MaxAttempts]
  /\ age \in [Events -> Ages]
  /\ sent \in [Events -> Nat]
  /\ pc \in [Dispatchers -> Phases]
  /\ batch \in [Dispatchers -> SUBSET Events]
  /\ current \in [Dispatchers -> Events \cup {NoEvent}]
  /\ \A d \in Dispatchers : pc[d] \in {"sent", "raised"} => current[d] \in Events

Init ==
  /\ status = [e \in Events |-> "absent"]
  /\ attempts = [e \in Events |-> 0]
  /\ age = [e \in Events |-> "due"]
  /\ sent = [e \in Events |-> 0]
  /\ pc = [d \in Dispatchers |-> "down"]
  /\ batch = [d \in Dispatchers |-> {}]
  /\ current = [d \in Dispatchers |-> NoEvent]

-----------------------------------------------------------------------------
(* The API.                                                                *)

\* An API transaction commits its business rows and the event together.
Enqueue(e) ==
  /\ status[e] = "absent"
  /\ status' = [status EXCEPT ![e] = "pending"]
  /\ age' = [age EXCEPT ![e] = "due"]
  /\ UNCHANGED <<attempts, sent, procVars>>

-----------------------------------------------------------------------------
(* The dispatcher process.                                                 *)

\* A bug variant: expired claims are never found.
StaleClaimNever(e) == FALSE

StaleClaim(e) == status[e] = "publishing" /\ age[e] = "stale"

\* main: the process starts and, once only, requeues the expired claims.
Start(d) ==
  /\ pc[d] = "down"
  /\ pc' = [pc EXCEPT ![d] = "polling"]
  /\ status' = [e \in Events |-> IF StaleClaim(e) THEN "failed" ELSE status[e]]
  /\ age' = [e \in Events |-> IF StaleClaim(e) THEN "due" ELSE age[e]]
  /\ UNCHANGED <<attempts, sent, batch, current>>

\* A bug variant: the attempt limit is off by one.
ClaimableOneMore(e) ==
  /\ status[e] \in {"pending", "failed"}
  /\ age[e] # "future"
  /\ attempts[e] <= MaxAttempts

Claimable(e) ==
  /\ status[e] \in {"pending", "failed"}
  /\ age[e] # "future"
  /\ attempts[e] < MaxAttempts

\* The rows one claim may return: as many due rows as the limit allows.
ClaimBatches ==
  LET due == {e \in Events : Claimable(e)}
      size == IF Cardinality(due) < BatchSize THEN Cardinality(due) ELSE BatchSize
  IN  {S \in SUBSET due : S # {} /\ Cardinality(S) = size}

\* dispatch_once: SqlOutboxStore.claim, one transaction.
Claim(d) ==
  /\ pc[d] = "polling"
  /\ \E S \in ClaimBatches :
       /\ status' = [e \in Events |-> IF e \in S THEN "publishing" ELSE status[e]]
       /\ attempts' = [e \in Events |-> IF e \in S THEN attempts[e] + 1 ELSE attempts[e]]
       /\ age' = [e \in Events |-> IF e \in S THEN "due" ELSE age[e]]
       /\ batch' = [batch EXCEPT ![d] = S]
  /\ pc' = [pc EXCEPT ![d] = "publishing"]
  /\ UNCHANGED <<sent, current>>

\* A bug variant: an unsupported event type is skipped instead of raising.
PublishReturnsSilently(d, e) ==
  /\ pc[d] = "publishing" /\ e \in batch[d]
  /\ sent' = [sent EXCEPT ![e] = IF e \in Unsupported THEN @ ELSE @ + 1]
  /\ pc' = [pc EXCEPT ![d] = "sent"]
  /\ batch' = [batch EXCEPT ![d] = @ \ {e}]
  /\ current' = [current EXCEPT ![d] = e]
  /\ UNCHANGED rowVars

\* CeleryTaskPublisher.publish returns: the broker has the task.
PublishReturns(d, e) ==
  /\ pc[d] = "publishing" /\ e \in batch[d]
  /\ e \notin Unsupported
  /\ sent' = [sent EXCEPT ![e] = @ + 1]
  /\ pc' = [pc EXCEPT ![d] = "sent"]
  /\ batch' = [batch EXCEPT ![d] = @ \ {e}]
  /\ current' = [current EXCEPT ![d] = e]
  /\ UNCHANGED rowVars

\* publish raises: the type is unsupported or the broker call fails, in which
\* case the broker may have accepted the task all the same.
PublishRaises(d, e) ==
  /\ pc[d] = "publishing" /\ e \in batch[d]
  /\ \E copies \in IF e \in Unsupported THEN {0} ELSE {0, 1} :
       sent' = [sent EXCEPT ![e] = @ + copies]
  /\ pc' = [pc EXCEPT ![d] = "raised"]
  /\ batch' = [batch EXCEPT ![d] = @ \ {e}]
  /\ current' = [current EXCEPT ![d] = e]
  /\ UNCHANGED rowVars

\* The loop of dispatch_once goes to the next event, main to the next poll.
NextInBatch(d) ==
  /\ pc' = [pc EXCEPT ![d] = IF batch[d] = {} THEN "polling" ELSE "publishing"]
  /\ current' = [current EXCEPT ![d] = NoEvent]
  /\ UNCHANGED batch

\* The where clause of both outcome updates.
StillPublishing(e) == status[e] = "publishing"

\* SqlOutboxStore.mark_published for the event just handed to Celery.
MarkPublished(d) ==
  /\ pc[d] = "sent"
  /\ status' = IF StillPublishing(current[d])
               THEN [status EXCEPT ![current[d]] = "published"]
               ELSE status
  /\ NextInBatch(d)
  /\ UNCHANGED <<attempts, age, sent>>

\* SqlOutboxStore.mark_failed: back to the queue, not before the backoff.
MarkFailed(d) ==
  /\ pc[d] = "raised"
  /\ IF StillPublishing(current[d])
     THEN /\ status' = [status EXCEPT ![current[d]] = "failed"]
          /\ age' = [age EXCEPT ![current[d]] = "future"]
     ELSE UNCHANGED <<status, age>>
  /\ NextInBatch(d)
  /\ UNCHANGED <<attempts, sent>>

\* The process stops: it is killed, a database call raises out of
\* dispatch_once, or --once returns.
Stop(d) ==
  /\ pc[d] # "down"
  /\ pc' = [pc EXCEPT ![d] = "down"]
  /\ batch' = [batch EXCEPT ![d] = {}]
  /\ current' = [current EXCEPT ![d] = NoEvent]
  /\ UNCHANGED <<rowVars, sent>>

-----------------------------------------------------------------------------
\* Time passes for one row: a backoff ends, or a claim outlives its lease.
Elapse(e) ==
  /\ status[e] \in {"publishing", "failed"}
  /\ \/ age[e] = "future" /\ age' = [age EXCEPT ![e] = "due"]
     \/ age[e] = "due" /\ status[e] = "publishing" /\ age' = [age EXCEPT ![e] = "stale"]
  /\ UNCHANGED <<status, attempts, sent, procVars>>

Publish(d) == \E e \in Events : PublishReturns(d, e) \/ PublishRaises(d, e)

Dispatch(d) == Claim(d) \/ Publish(d) \/ MarkPublished(d) \/ MarkFailed(d)

Next ==
  \/ \E e \in Events : Enqueue(e) \/ Elapse(e)
  \/ \E d \in Dispatchers : Start(d) \/ Dispatch(d) \/ Stop(d)

Spec == Init /\ [][Next]_vars

\* The supervisor restarts a stopped dispatcher, a running one keeps polling
\* and time passes; nothing obliges the API to enqueue or a process to stop.
\* Strong fairness of Claim: not every incarnation dies before its first query.
Fairness ==
  /\ \A d \in Dispatchers : /\ WF_vars(Start(d))
                             /\ WF_vars(Dispatch(d))
                             /\ SF_vars(Claim(d))
  /\ \A e \in Events : WF_vars(Elapse(e))

FairSpec == Spec /\ Fairness

-----------------------------------------------------------------------------
(* The promise the outbox implements.                                      *)

Promise == INSTANCE DeliveryPromise WITH
  Intents <- Events,
  MaxCopies <- MaxAttempts,
  stage <- [e \in Events |-> CASE status[e] = "absent" -> "none"
                              [] status[e] = "published" -> "settled"
                              [] OTHER -> "owed"],
  copies <- sent

ImplementsPromise == Promise!Spec

-----------------------------------------------------------------------------
(* Properties.                                                             *)

\* A row says "published" only if the broker has the task: neither a crash
\* between send_task and mark_published nor a dispatcher that outlived its
\* claim may record a delivery nobody made.
PublishedWasSent == \A e \in Events : status[e] = "published" => sent[e] > 0

Holders(e) == {d \in Dispatchers : e \in batch[d]}

\* Every copy of a task is paid for by an attempt, those that dispatchers
\* still hold included: duplicates come from new attempts only, and
\* max_attempts bounds them whatever crashes, overlaps and expired claims do.
CopiesWithinAttempts ==
  \A e \in Events : /\ sent[e] + Cardinality(Holders(e)) <= attempts[e]
                     /\ attempts[e] <= MaxAttempts

\* What every reachable state of the outbox satisfies.
OutboxIsSafe == TypeOK /\ PublishedWasSent /\ CopiesWithinAttempts

\* A published row stays published: a slower dispatcher whose publish call
\* raised cannot put the event back into the queue.
PublishedIsFinal ==
  [][\A e \in Events : status[e] = "published" => status'[e] = "published"]_vars

\* The dispatcher is done with the event: delivered, or out of attempts.
Settled(e) == status[e] = "published" \/ (status[e] # "absent" /\ attempts[e] = MaxAttempts)

\* At-least-once publication as the docstring of OutboxDispatcher promises
\* it: every committed event is published or runs out of attempts.
EveryEventSettles == \A e \in Events : (status[e] = "pending") ~> Settled(e)

\* What the code does guarantee: if some dispatcher is restarted again and
\* again, the sweep at its start returns every lost claim to the queue.
RestartsRecoverClaims ==
  (\E d \in Dispatchers : []<>(pc[d] = "down")) => EveryEventSettles
=============================================================================
