------------------------- MODULE OutboxChatWikiProofs -------------------------
(***************************************************************************)
(* Proofs about three components that share no state: the outbox and its   *)
(* dispatchers (Outbox), for every set of events and dispatchers and every *)
(* batch size and attempt limit; the chat of the web client                *)
(* (ChatWorkspace), for every set of conversations and prompts and every   *)
(* number of questions and files; the project Wiki (WikiGenerations), for  *)
(* every finite set of documents, workers, names and objects and every     *)
(* answer of the model.                                                    *)
(***************************************************************************)
EXTENDS Outbox, ChatWorkspace, WikiGenerations, FiniteSetTheorems, TLAPS

-----------------------------------------------------------------------------
(* The outbox.                                                             *)

\* Every reachable state is well typed; the attempt limit is part of it.
THEOREM TypeCorrect == Spec => []TypeOK
<1>1. Init => TypeOK
  BY OutboxAssumption DEF Init, TypeOK, Statuses, Ages, Phases
<1>2. TypeOK /\ [Next]_vars => TypeOK'
  <2> SUFFICES ASSUME TypeOK, [Next]_vars PROVE TypeOK'
    OBVIOUS
  <2> USE OutboxAssumption DEF TypeOK, Statuses, Ages, Phases, rowVars, procVars
  <2>1. ASSUME NEW e \in Events, Enqueue(e) PROVE TypeOK'
    BY <2>1 DEF Enqueue
  <2>2. ASSUME NEW e \in Events, Elapse(e) PROVE TypeOK'
    BY <2>2 DEF Elapse
  <2>3. ASSUME NEW d \in Dispatchers, Start(d) PROVE TypeOK'
    BY <2>3 DEF Start
  <2>4. ASSUME NEW d \in Dispatchers, Claim(d) PROVE TypeOK'
    <3>1. PICK S \in ClaimBatches :
            /\ status' = [e \in Events |-> IF e \in S THEN "publishing" ELSE status[e]]
            /\ attempts' = [e \in Events |-> IF e \in S THEN attempts[e] + 1 ELSE attempts[e]]
            /\ age' = [e \in Events |-> IF e \in S THEN "due" ELSE age[e]]
            /\ batch' = [batch EXCEPT ![d] = S]
      BY <2>4 DEF Claim
    <3>2. S \subseteq Events /\ \A e \in S : attempts[e] < MaxAttempts
      BY DEF ClaimBatches, Claimable
    <3>3. attempts' \in [Events -> 0..MaxAttempts]
      BY <3>1, <3>2
    <3> QED BY <2>4, <3>1, <3>2, <3>3 DEF Claim
  <2>5. ASSUME NEW d \in Dispatchers, NEW e \in Events,
               PublishReturns(d, e) \/ PublishRaises(d, e)
        PROVE TypeOK'
    <3>1. \A copies \in IF e \in Unsupported THEN {0} ELSE {0, 1} : copies \in Nat
      OBVIOUS
    <3> QED BY <2>5, <3>1 DEF PublishReturns, PublishRaises
  <2>6. ASSUME NEW d \in Dispatchers, MarkPublished(d) PROVE TypeOK'
    BY <2>6 DEF MarkPublished, NextInBatch
  <2>7. ASSUME NEW d \in Dispatchers, MarkFailed(d) PROVE TypeOK'
    BY <2>7 DEF MarkFailed, NextInBatch
  <2>8. ASSUME NEW d \in Dispatchers, Stop(d) PROVE TypeOK'
    BY <2>8 DEF Stop
  <2>9. CASE UNCHANGED vars
    BY <2>9 DEF vars
  <2> QED
    BY <2>1, <2>2, <2>3, <2>4, <2>5, <2>6, <2>7, <2>8, <2>9 DEF Next, Dispatch, Publish
<1> QED BY <1>1, <1>2, PTL DEF Spec

-----------------------------------------------------------------------------
(* The inductive invariant behind the delivery properties.                 *)

\* A dispatcher that is about to record a success has made the copy.
SentIsCounted == \A d \in Dispatchers : pc[d] = "sent" => sent[current[d]] > 0

\* A dispatcher that polls or is down holds no claim in memory.
IdleHoldsNothing == \A d \in Dispatchers : pc[d] \in {"down", "polling"} => batch[d] = {}

\* A row that was never inserted was never claimed.
AbsentIsUntouched == \A e \in Events : status[e] = "absent" => attempts[e] = 0

DeliveryInv ==
  /\ TypeOK
  /\ PublishedWasSent
  /\ CopiesWithinAttempts
  /\ SentIsCounted
  /\ IdleHoldsNothing
  /\ AbsentIsUntouched

LEMMA HoldersFinite == \A e : IsFiniteSet(Holders(e)) /\ Cardinality(Holders(e)) \in Nat
  BY OutboxAssumption, FS_Subset, FS_CardinalityType DEF Holders

\* A dispatcher that takes an event into its batch is one holder more of it.
LEMMA HoldersAdd ==
  ASSUME TypeOK, NEW d \in Dispatchers, NEW S \in SUBSET Events,
         batch[d] = {}, batch' = [batch EXCEPT ![d] = S], NEW e
  PROVE  Cardinality(Holders(e)') =
           IF e \in S THEN Cardinality(Holders(e)) + 1 ELSE Cardinality(Holders(e))
<1>1. Holders(e)' = IF e \in S THEN Holders(e) \cup {d} ELSE Holders(e)
  BY DEF Holders, TypeOK
<1>2. d \notin Holders(e)
  BY DEF Holders
<1> QED BY <1>1, <1>2, HoldersFinite, FS_AddElement

\* A dispatcher that publishes an event is one holder less of it.
LEMMA HoldersRemove ==
  ASSUME TypeOK, NEW d \in Dispatchers, NEW x \in batch[d],
         batch' = [batch EXCEPT ![d] = @ \ {x}], NEW e
  PROVE  Cardinality(Holders(e)') =
           IF e = x THEN Cardinality(Holders(e)) - 1 ELSE Cardinality(Holders(e))
<1>1. Holders(e)' = IF e = x THEN Holders(e) \ {d} ELSE Holders(e)
  BY DEF Holders, TypeOK
<1>2. d \in Holders(x)
  BY DEF Holders
<1> QED BY <1>1, <1>2, HoldersFinite, FS_RemoveElement

\* A dispatcher that stops forgets what it held: no event has more holders.
LEMMA HoldersDrop ==
  ASSUME TypeOK, NEW d \in Dispatchers, batch' = [batch EXCEPT ![d] = {}], NEW e
  PROVE  /\ Cardinality(Holders(e)') \in Nat
         /\ Cardinality(Holders(e)') <= Cardinality(Holders(e))
<1>1. Holders(e)' \in SUBSET Holders(e)
  BY DEF Holders, TypeOK
<1> QED BY <1>1, HoldersFinite, FS_Subset, FS_CardinalityType

LEMMA DeliveryInit == Init => DeliveryInv
<1> SUFFICES ASSUME Init PROVE DeliveryInv
  OBVIOUS
<1>1. \A e \in Events : Holders(e) = {}
  BY DEF Init, Holders
<1>2. CopiesWithinAttempts
  BY <1>1, FS_EmptySet, OutboxAssumption DEF Init, CopiesWithinAttempts
<1> QED
  BY <1>2, OutboxAssumption
     DEF DeliveryInv, Init, TypeOK, Statuses, Ages, Phases, PublishedWasSent,
         SentIsCounted, IdleHoldsNothing, AbsentIsUntouched

LEMMA DeliveryStep == DeliveryInv /\ TypeOK' /\ [Next]_vars => DeliveryInv'
<1> SUFFICES ASSUME DeliveryInv, TypeOK', [Next]_vars PROVE DeliveryInv'
  OBVIOUS
<1> DEFINE Rest == /\ PublishedWasSent
                   /\ SentIsCounted
                   /\ IdleHoldsNothing
                   /\ AbsentIsUntouched
<1> USE DEF TypeOK, DeliveryInv
<1>h. \A e : Cardinality(Holders(e)) \in Nat
  BY HoldersFinite
<1>same. ASSUME batch' = batch PROVE \A e : Holders(e)' = Holders(e)
  BY <1>same DEF Holders
<1>1. ASSUME NEW e \in Events, Enqueue(e) PROVE DeliveryInv'
  <2>1. CopiesWithinAttempts'
    BY <1>1, <1>same DEF Enqueue, procVars, CopiesWithinAttempts
  <2>2. Rest'
    BY <1>1 DEF Enqueue, procVars, PublishedWasSent, SentIsCounted, IdleHoldsNothing,
                AbsentIsUntouched
  <2> QED BY <2>1, <2>2
<1>2. ASSUME NEW e \in Events, Elapse(e) PROVE DeliveryInv'
  <2>1. CopiesWithinAttempts'
    BY <1>2, <1>same DEF Elapse, procVars, CopiesWithinAttempts
  <2>2. Rest'
    BY <1>2 DEF Elapse, procVars, PublishedWasSent, SentIsCounted, IdleHoldsNothing,
                AbsentIsUntouched
  <2> QED BY <2>1, <2>2
<1>3. ASSUME NEW d \in Dispatchers, Start(d) PROVE DeliveryInv'
  <2>1. CopiesWithinAttempts'
    BY <1>3, <1>same DEF Start, CopiesWithinAttempts
  <2>2. Rest'
    BY <1>3 DEF Start, StaleClaim, PublishedWasSent, SentIsCounted, IdleHoldsNothing,
                AbsentIsUntouched
  <2> QED BY <2>1, <2>2
<1>4. ASSUME NEW d \in Dispatchers, Claim(d) PROVE DeliveryInv'
  <2>1. PICK S \in ClaimBatches :
          /\ status' = [e \in Events |-> IF e \in S THEN "publishing" ELSE status[e]]
          /\ attempts' = [e \in Events |-> IF e \in S THEN attempts[e] + 1 ELSE attempts[e]]
          /\ age' = [e \in Events |-> IF e \in S THEN "due" ELSE age[e]]
          /\ batch' = [batch EXCEPT ![d] = S]
    BY <1>4 DEF Claim
  <2>2. S \subseteq Events /\ \A e \in S : attempts[e] < MaxAttempts
    BY DEF ClaimBatches, Claimable
  <2>3. \A e : Cardinality(Holders(e)') =
                 IF e \in S THEN Cardinality(Holders(e)) + 1 ELSE Cardinality(Holders(e))
    <3>1. batch[d] = {} /\ S \in SUBSET Events
      BY <1>4, <2>2 DEF Claim, IdleHoldsNothing
    <3>2. batch' = [batch EXCEPT ![d] = S]
      BY <2>1
    <3> HIDE DEF TypeOK, DeliveryInv
    <3>3. TypeOK
      BY DEF DeliveryInv
    <3> QED BY <3>1, <3>2, <3>3, HoldersAdd
  <2>4. CopiesWithinAttempts'
    BY <1>4, <1>h, <2>1, <2>2, <2>3, OutboxAssumption DEF Claim, CopiesWithinAttempts
  <2>5. Rest'
    BY <1>4, <2>1, <2>2 DEF Claim, PublishedWasSent, SentIsCounted, IdleHoldsNothing,
                            AbsentIsUntouched
  <2> QED BY <2>4, <2>5
<1>5. ASSUME NEW d \in Dispatchers, NEW e \in Events,
             PublishReturns(d, e) \/ PublishRaises(d, e)
      PROVE DeliveryInv'
  <2>1. /\ e \in batch[d]
        /\ batch' = [batch EXCEPT ![d] = @ \ {e}]
        /\ UNCHANGED rowVars
    BY <1>5 DEF PublishReturns, PublishRaises
  <2>2. PICK n \in {0, 1} : /\ sent' = [sent EXCEPT ![e] = @ + n]
                            /\ PublishReturns(d, e) => n = 1
    BY <1>5 DEF PublishReturns, PublishRaises
  <2>3. \A f : Cardinality(Holders(f)') =
                 IF f = e THEN Cardinality(Holders(f)) - 1 ELSE Cardinality(Holders(f))
    BY <2>1, HoldersRemove
  <2>4. CopiesWithinAttempts'
    BY <1>h, <2>1, <2>2, <2>3 DEF rowVars, CopiesWithinAttempts
  <2>5. \A f \in Events : sent[f] <= sent'[f]
    BY <2>2
  <2>6. SentIsCounted'
    <3>1. CASE PublishReturns(d, e)
      BY <2>2, <2>5, <3>1 DEF PublishReturns, SentIsCounted
    <3>2. CASE PublishRaises(d, e)
      BY <2>5, <3>2 DEF PublishRaises, SentIsCounted
    <3> QED BY <1>5, <3>1, <3>2
  <2>7. PublishedWasSent' /\ AbsentIsUntouched'
    BY <2>1, <2>5 DEF rowVars, PublishedWasSent, AbsentIsUntouched
  <2>8. IdleHoldsNothing'
    BY <1>5 DEF PublishReturns, PublishRaises, IdleHoldsNothing
  <2> QED BY <2>4, <2>6, <2>7, <2>8
<1>6. ASSUME NEW d \in Dispatchers, MarkPublished(d) PROVE DeliveryInv'
  <2>1. CopiesWithinAttempts'
    BY <1>6, <1>same DEF MarkPublished, NextInBatch, CopiesWithinAttempts
  <2>2. Rest'
    BY <1>6 DEF MarkPublished, NextInBatch, StillPublishing, PublishedWasSent,
                SentIsCounted, IdleHoldsNothing, AbsentIsUntouched
  <2> QED BY <2>1, <2>2
<1>7. ASSUME NEW d \in Dispatchers, MarkFailed(d) PROVE DeliveryInv'
  <2>1. CopiesWithinAttempts'
    BY <1>7, <1>same DEF MarkFailed, NextInBatch, CopiesWithinAttempts
  <2>2. Rest'
    BY <1>7 DEF MarkFailed, NextInBatch, StillPublishing, PublishedWasSent,
                SentIsCounted, IdleHoldsNothing, AbsentIsUntouched
  <2> QED BY <2>1, <2>2
<1>8. ASSUME NEW d \in Dispatchers, Stop(d) PROVE DeliveryInv'
  <2>1. \A e : /\ Cardinality(Holders(e)') \in Nat
               /\ Cardinality(Holders(e)') <= Cardinality(Holders(e))
    BY <1>8, HoldersDrop DEF Stop
  <2>2. CopiesWithinAttempts'
    BY <1>8, <1>h, <2>1, OutboxAssumption DEF Stop, rowVars, CopiesWithinAttempts
  <2>3. Rest'
    BY <1>8 DEF Stop, rowVars, PublishedWasSent, SentIsCounted, IdleHoldsNothing,
                AbsentIsUntouched
  <2> QED BY <2>2, <2>3
<1>9. CASE UNCHANGED vars
  <2>1. CopiesWithinAttempts'
    BY <1>9, <1>same DEF vars, CopiesWithinAttempts
  <2>2. Rest'
    BY <1>9 DEF vars, PublishedWasSent, SentIsCounted, IdleHoldsNothing, AbsentIsUntouched
  <2> QED BY <2>1, <2>2
<1> QED
  BY <1>1, <1>2, <1>3, <1>4, <1>5, <1>6, <1>7, <1>8, <1>9 DEF Next, Dispatch, Publish

LEMMA DeliveryInvariant == Spec => []DeliveryInv
<1>1. Spec => []TypeOK
  BY TypeCorrect
<1> QED BY <1>1, DeliveryInit, DeliveryStep, PTL DEF Spec

\* No row says "published" unless the broker has accepted the task.
THEOREM PublishedSound == Spec => []PublishedWasSent
<1>1. DeliveryInv => PublishedWasSent
  BY DEF DeliveryInv
<1> QED BY <1>1, DeliveryInvariant, PTL

\* Copies, made or still claimed, never outnumber the attempts, nor these
\* max_attempts.
THEOREM CopiesBounded == Spec => []CopiesWithinAttempts
<1>1. DeliveryInv => CopiesWithinAttempts
  BY DEF DeliveryInv
<1> QED BY <1>1, DeliveryInvariant, PTL

\* A published row never leaves that status, whichever dispatcher writes.
THEOREM PublishedStays == Spec => PublishedIsFinal
<1>1. TypeOK /\ [Next]_vars =>
        [\A e \in Events : status[e] = "published" => status'[e] = "published"]_vars
  <2> SUFFICES ASSUME TypeOK, Next, NEW e \in Events, status[e] = "published"
               PROVE  status'[e] = "published"
    OBVIOUS
  <2> USE DEF TypeOK
  <2>1. CASE \E f \in Events : Enqueue(f) \/ Elapse(f)
    BY <2>1 DEF Enqueue, Elapse
  <2>2. ASSUME NEW d \in Dispatchers, Start(d) \/ Publish(d) \/ Stop(d)
        PROVE  status'[e] = "published"
    BY <2>2 DEF Start, StaleClaim, Publish, PublishReturns, PublishRaises, Stop, rowVars
  <2>3. ASSUME NEW d \in Dispatchers, Claim(d) PROVE status'[e] = "published"
    BY <2>3 DEF Claim, ClaimBatches, Claimable
  <2>4. ASSUME NEW d \in Dispatchers, MarkPublished(d) \/ MarkFailed(d)
        PROVE  status'[e] = "published"
    BY <2>4 DEF MarkPublished, MarkFailed, StillPublishing
  <2> QED BY <2>1, <2>2, <2>3, <2>4 DEF Next, Dispatch
<1> QED BY <1>1, TypeCorrect, PTL DEF Spec, PublishedIsFinal

-----------------------------------------------------------------------------
(* The outbox implements the delivery promise.                             *)

stageBar == [e \in Events |-> CASE status[e] = "absent" -> "none"
                              [] status[e] = "published" -> "settled"
                              [] OTHER -> "owed"]

\* A row that keeps its place in the promise maps to a stutter.
LEMMA StageUnchanged ==
  ASSUME \A e \in Events : /\ status[e] = "absent" <=> status'[e] = "absent"
                           /\ status[e] = "published" <=> status'[e] = "published"
  PROVE  stageBar' = stageBar
BY DEF stageBar

LEMMA PromiseStep ==
  ASSUME DeliveryInv, Next
  PROVE  Promise!Next \/ UNCHANGED <<stageBar, sent>>
<1> USE DEF DeliveryInv, TypeOK
<1>1. ASSUME NEW e \in Events, Enqueue(e) PROVE Promise!Next
  <2>1. stageBar[e] = "none" /\ sent' = sent
    BY <1>1 DEF stageBar, Enqueue
  <2>2. stageBar' = [stageBar EXCEPT ![e] = "owed"]
    BY <1>1 DEF stageBar, Enqueue
  <2>3. Promise!Commit(e)
    BY <2>1, <2>2 DEF stageBar, Promise!Commit
  <2> QED BY <2>3 DEF Promise!Next
<1>2. ASSUME NEW e \in Events, Elapse(e) PROVE UNCHANGED <<stageBar, sent>>
  BY <1>2, StageUnchanged DEF Elapse
<1>3. ASSUME NEW d \in Dispatchers, Start(d) \/ Stop(d) PROVE UNCHANGED <<stageBar, sent>>
  BY <1>3, StageUnchanged DEF Start, StaleClaim, Stop, rowVars
<1>4. ASSUME NEW d \in Dispatchers, Claim(d) PROVE UNCHANGED <<stageBar, sent>>
  BY <1>4, StageUnchanged DEF Claim, ClaimBatches, Claimable
<1>5. ASSUME NEW d \in Dispatchers, NEW e \in Events,
             PublishReturns(d, e) \/ PublishRaises(d, e)
      PROVE Promise!Next \/ UNCHANGED <<stageBar, sent>>
  <2>1. e \in batch[d] /\ UNCHANGED rowVars
    BY <1>5 DEF PublishReturns, PublishRaises
  <2>2. stageBar' = stageBar
    BY <2>1, StageUnchanged DEF rowVars
  <2>3. PICK n \in {0, 1} : sent' = [sent EXCEPT ![e] = @ + n]
    BY <1>5 DEF PublishReturns, PublishRaises
  <2>4. Holders(e) # {} /\ Cardinality(Holders(e)) \in Nat /\ Cardinality(Holders(e)) # 0
    <3>1. d \in Holders(e)
      BY <2>1 DEF Holders
    <3> HIDE DEF DeliveryInv, TypeOK
    <3> QED BY <3>1, HoldersFinite, FS_EmptySet
  <2>5. sent[e] < attempts[e] /\ attempts[e] <= MaxAttempts
    BY <2>4 DEF CopiesWithinAttempts
  <2>6. stageBar[e] # "none" /\ sent[e] < MaxAttempts
    BY <2>5, OutboxAssumption DEF AbsentIsUntouched, stageBar
  <2>7. CASE n = 0
    BY <2>2, <2>3, <2>7
  <2>8. CASE n = 1
    <3>1. Promise!Deliver(e)
      BY <2>2, <2>3, <2>6, <2>8 DEF stageBar, Promise!Deliver
    <3> QED BY <3>1 DEF Promise!Next
  <2> QED BY <2>7, <2>8
<1>6. ASSUME NEW d \in Dispatchers, MarkPublished(d)
      PROVE Promise!Next \/ UNCHANGED <<stageBar, sent>>
  <2>e. PICK e \in Events : e = current[d]
    BY <1>6 DEF MarkPublished
  <2>1. sent[e] > 0 /\ sent' = sent
    BY <1>6, <2>e DEF MarkPublished, SentIsCounted
  <2>2. CASE status[e] = "publishing"
    <3>1. status' = [status EXCEPT ![e] = "published"]
      BY <1>6, <2>e, <2>2 DEF MarkPublished, StillPublishing
    <3>2. stageBar[e] = "owed" /\ stageBar' = [stageBar EXCEPT ![e] = "settled"]
      BY <2>1, <2>2, <3>1 DEF stageBar
    <3>3. Promise!Settle(e)
      BY <2>1, <3>2 DEF stageBar, Promise!Settle
    <3> QED BY <2>1, <3>3 DEF Promise!Next
  <2>3. CASE status[e] # "publishing"
    BY <1>6, <2>e, <2>1, <2>3, StageUnchanged DEF MarkPublished, StillPublishing
  <2> QED BY <2>2, <2>3
<1>7. ASSUME NEW d \in Dispatchers, MarkFailed(d) PROVE UNCHANGED <<stageBar, sent>>
  BY <1>7, StageUnchanged DEF MarkFailed, StillPublishing
<1> QED BY <1>1, <1>2, <1>3, <1>4, <1>5, <1>6, <1>7 DEF Next, Dispatch, Publish

\* Every behaviour of the outbox is one the promise allows.
THEOREM OutboxDelivers == Spec => ImplementsPromise
<1>1. Init => Promise!Init
  BY DEF Init, Promise!Init
<1>2. DeliveryInv /\ [Next]_vars => [Promise!Next]_<<stageBar, sent>>
  <2>1. ASSUME UNCHANGED vars PROVE UNCHANGED <<stageBar, sent>>
    BY <2>1, StageUnchanged DEF vars
  <2> QED BY <2>1, PromiseStep
<1> QED
  BY <1>1, <1>2, DeliveryInvariant, PTL DEF Spec, ImplementsPromise, Promise!Spec, stageBar

\* Rows, broker and dispatchers stay consistent whatever crashes and overlaps.
THEOREM OutboxSound == Spec => []OutboxIsSafe
<1>1. TypeOK /\ PublishedWasSent /\ CopiesWithinAttempts => OutboxIsSafe
  BY DEF OutboxIsSafe
<1> QED BY <1>1, TypeCorrect, PublishedSound, CopiesBounded, PTL
-----------------------------------------------------------------------------
(* Induction and folds.  What holds at 0 and is handed on holds up to n; a *)
(* fold along a sequence is a function of how far it has come, which       *)
(* exists because the values it passes are in a set closed under its step. *)

LEMMA SmallestSet ==
  ASSUME NEW T, T # {}, \A U \in T : IsFiniteSet(U)
  PROVE  \E U \in T : \A V \in T : V \subseteq U => V = U
<1> DEFINE S == UNION T
<1>1. T \subseteq FiniteSubsetsOf(S)
  BY DEF FiniteSubsetsOf
<1>2. \E U \in T : \A V \in T : ~ (<<V, U>> \in StrictSubsetOrdering(S))
  BY <1>1, FS_StrictSubsetOrderingWellFounded, WFMin
<1> QED
  BY <1>2 DEF StrictSubsetOrdering

LEMMA UpTo ==
  ASSUME NEW n \in Nat, NEW S, 0 \in S, \A i \in 0..n : i < n /\ i \in S => i + 1 \in S
  PROVE  \A i \in 0..n : i \in S
<1> DEFINE Initial(k) == 1..k
           Bad == {i \in 0..n : i \notin S}
           Intervals == {Initial(k) : k \in Bad}
<1>1. SUFFICES ASSUME Bad # {} PROVE FALSE
  OBVIOUS
<1>2. /\ \A k \in Bad : Initial(k) \in Intervals /\ k \in Nat
      /\ \A U \in Intervals : \E k \in Bad : U = Initial(k)
      /\ Intervals # {}
  BY <1>1
<1>3. \A U \in Intervals : IsFiniteSet(U)
  <2>1. \A k \in Nat : IsFiniteSet(Initial(k))
    BY FS_Interval
  <2> HIDE DEF Initial, Intervals
  <2> QED
    BY <1>2, <2>1
<1>4. \A m, k \in Nat : m < k => Initial(m) \subseteq Initial(k) /\ Initial(m) # Initial(k)
  <2>1. SUFFICES ASSUME NEW m \in Nat, NEW k \in Nat, m < k
                 PROVE  Initial(m) \subseteq Initial(k) /\ Initial(m) # Initial(k)
    OBVIOUS
  <2>2. k \in Initial(k) /\ k \notin Initial(m)
    BY <2>1
  <2> QED
    BY <2>1, <2>2
<1> HIDE DEF Initial, Intervals
<1>5. PICK U \in Intervals : \A V \in Intervals : V \subseteq U => V = U
  BY <1>2, <1>3, SmallestSet
<1>6. PICK k \in Bad : U = Initial(k)
  BY <1>2
<1>7. k \in 0..n /\ k \notin S /\ k # 0 /\ k - 1 \in 0..n /\ k - 1 \in Nat /\ k - 1 < k /\ (k - 1) + 1 = k
      /\ k - 1 < n
  OBVIOUS
<1>8. k - 1 \notin S
  BY <1>7
<1>9. k - 1 \in Bad
  BY <1>7, <1>8
<1> HIDE DEF Bad
<1>10. Initial(k - 1) \in Intervals
  BY <1>2, <1>9
<1> QED
  BY <1>2, <1>4, <1>5, <1>6, <1>7, <1>10

LEMMA TopOf ==
  \A n \in Nat : n > 0 => /\ Max(1..n) = n
                          /\ (1..n) \ {n} = 1..(n - 1)
                          /\ 1..n # {}
<1> SUFFICES ASSUME NEW n \in Nat, n > 0
             PROVE  Max(1..n) = n /\ (1..n) \ {n} = 1..(n - 1) /\ 1..n # {}
  OBVIOUS
<1>1. n \in 1..n /\ \A y \in 1..n : n >= y
  OBVIOUS
<1>2. \A x \in 1..n : (\A y \in 1..n : x >= y) => x = n
  BY <1>1
<1>3. Max(1..n) \in 1..n /\ \A y \in 1..n : Max(1..n) >= y
  BY <1>1 DEF Max
<1>4. Max(1..n) = n
  BY <1>2, <1>3
<1> QED
  BY <1>1, <1>4

LEMMA MaxOf ==
  ASSUME NEW n \in Nat, NEW S \in SUBSET (1..n), S # {}
  PROVE  Max(S) \in S /\ \A y \in S : y <= Max(S)
<1> DEFINE Good == {k \in 0..n : \A R \in SUBSET (1..k) :
                       R # {} => \E x \in R : \A y \in R : x >= y}
<1>1. 0 \in Good
  <2>1. 0 \in 0..n /\ \A R \in SUBSET (1..0) : R = {}
    OBVIOUS
  <2> QED
    BY <2>1
<1>2. ASSUME NEW k \in 0..n, k < n, k \in Good PROVE k + 1 \in Good
  <2>1. SUFFICES ASSUME NEW R \in SUBSET (1..(k + 1)), R # {}
                 PROVE  \E x \in R : \A y \in R : x >= y
    BY <1>2
  <2>2. CASE k + 1 \in R
    BY <2>1, <2>2
  <2>3. CASE k + 1 \notin R
    <3>1. R \in SUBSET (1..k)
      BY <2>1, <2>3
    <3> QED
      BY <1>2, <2>1, <3>1
  <2> QED
    BY <2>2, <2>3
<1>3. \A i \in 0..n : i \in Good
  <2> HIDE DEF Good
  <2> QED
    BY <1>1, <1>2, UpTo
<1>4. \E x \in S : \A y \in S : x >= y
  BY <1>3
<1>5. Max(S) \in S /\ \A y \in S : Max(S) >= y
  BY <1>4 DEF Max
<1> QED
  BY <1>5

FoldsAlong(f, T, n, base, G) ==
  /\ f \in [SUBSET (1..n) -> T]
  /\ \A S \in SUBSET (1..n) : f[S] = IF S = {} THEN base ELSE G[Max(S)][f[S \ {Max(S)}]]

LEMMA FoldExists ==
  ASSUME NEW T, NEW n \in Nat, NEW base \in T, NEW G \in [1..n -> [T -> T]]
  PROVE  \E f : FoldsAlong(f, T, n, base, G)
<1> DEFINE Folds(f, k) == \A S \in SUBSET (1..k) :
             f[S] = IF S = {} THEN base ELSE G[Max(S)][f[S \ {Max(S)}]]
           Good == {k \in 0..n : \E f \in [SUBSET (1..n) -> T] : Folds(f, k)}
<1>1. 0 \in Good
  <2> DEFINE f == [S \in SUBSET (1..n) |-> base]
  <2>1. f \in [SUBSET (1..n) -> T] /\ Folds(f, 0)
    OBVIOUS
  <2>2. 0 \in 0..n
    OBVIOUS
  <2> HIDE DEF f, Folds
  <2> QED
    BY <2>1, <2>2
<1>2. ASSUME NEW k \in 0..n, k < n, k \in Good PROVE k + 1 \in Good
  <2>1. PICK f \in [SUBSET (1..n) -> T] : Folds(f, k)
    BY <1>2
  <2> DEFINE g == [S \in SUBSET (1..n) |->
                     IF k + 1 \in S THEN G[k + 1][f[S \ {k + 1}]] ELSE f[S]]
  <2>2. g \in [SUBSET (1..n) -> T]
    <3>1. \A S \in SUBSET (1..n) : f[S] \in T /\ S \ {k + 1} \in SUBSET (1..n)
      OBVIOUS
    <3>2. k + 1 \in 1..n
      BY <1>2
    <3> QED
      BY <3>1, <3>2
  <2>3. ASSUME NEW S \in SUBSET (1..(k + 1))
        PROVE  g[S] = IF S = {} THEN base ELSE G[Max(S)][g[S \ {Max(S)}]]
    <3>0. S \in SUBSET (1..n) /\ S \ {k + 1} \in SUBSET (1..k) /\ k \in Nat /\ k + 1 \in Nat
      BY <1>2, <2>3
    <3>1. CASE k + 1 \in S
      <4>1. Max(S) \in S /\ \A y \in S : y <= Max(S)
        BY <2>3, <3>0, <3>1, MaxOf
      <4>2. Max(S) = k + 1
        <5>1. \A y \in S : y \in Nat /\ y <= k + 1
          BY <2>3, <3>0
        <5>2. \A x, y \in Nat : x <= y /\ y <= x => x = y
          OBVIOUS
        <5> HIDE DEF g
        <5> QED
          BY <3>0, <3>1, <4>1, <5>1, <5>2
      <4>3. g[S] = G[k + 1][f[S \ {k + 1}]]
        BY <3>0, <3>1
      <4>4. g[S \ {k + 1}] = f[S \ {k + 1}]
        BY <3>0
      <4> HIDE DEF g
      <4> QED
        BY <3>1, <4>2, <4>3, <4>4
    <3>2. CASE k + 1 \notin S
      <4>1. S \in SUBSET (1..k)
        BY <3>0, <3>2
      <4>2. g[S] = f[S]
        BY <3>0, <3>2
      <4>3. CASE S = {}
        <5> HIDE DEF g
        <5> QED
          BY <2>1, <4>1, <4>2, <4>3
      <4>4. CASE S # {}
        <5>1. g[S \ {Max(S)}] = f[S \ {Max(S)}]
          BY <3>0, <3>2
        <5> HIDE DEF g
        <5> QED
          BY <2>1, <4>1, <4>2, <4>4, <5>1
      <4> QED
        BY <4>3, <4>4
    <3> QED
      BY <3>1, <3>2
  <2> HIDE DEF g
  <2>4. Folds(g, k + 1)
    BY <2>3
  <2>5. k + 1 \in 0..n
    BY <1>2
  <2> HIDE DEF Folds
  <2> QED
    BY <2>2, <2>4, <2>5
<1>3. \A i \in 0..n : i \in Good
  <2> HIDE DEF Good
  <2> QED
    BY <1>1, <1>2, UpTo
<1>4. n \in Good
  <2> HIDE DEF Good
  <2> QED
    BY <1>3
<1>5. PICK f \in [SUBSET (1..n) -> T] : Folds(f, n)
  BY <1>4
<1>6. FoldsAlong(f, T, n, base, G)
  BY <1>5 DEF FoldsAlong
<1> QED
  BY <1>6
-----------------------------------------------------------------------------
(* Filters.                                                                *)

KeepStep(K, kept, e) == IF e \in K THEN Append(kept, e) ELSE kept
KeepFold(f, s, K) ==
  [S \in SUBSET DOMAIN s |-> IF S = {} THEN <<>> ELSE KeepStep(K, f[S \ {Max(S)}], s[Max(S)])]

LEMMA KeepIsAFold == \A s, K : Keep(s, K) = (CHOOSE f : f = KeepFold(f, s, K))[DOMAIN s]
  BY DEF Keep, FoldLeft, MapThenFoldSet, KeepFold, KeepStep

KeepRun(r, s, K, V) ==
  /\ r \in [0..Len(s) -> Seq(V)] /\ r[0] = <<>>
  /\ \A i \in 1..Len(s) : r[i] = KeepStep(K, r[i - 1], s[i])
  /\ Keep(s, K) = r[Len(s)]

LEMMA KeepSteps ==
  ASSUME NEW V, NEW s \in Seq(V), NEW K
  PROVE  \E r : KeepRun(r, s, K, V)
<1> DEFINE n == Len(s)
           G == [i \in 1..n |-> [kept \in Seq(V) |-> KeepStep(K, kept, s[i])]]
<1>1. n \in Nat /\ DOMAIN s = 1..n /\ \A i \in 1..n : s[i] \in V
  OBVIOUS
<1>2. G \in [1..n -> [Seq(V) -> Seq(V)]]
  BY <1>1 DEF KeepStep
<1>3. \A i \in 1..n : \A kept \in Seq(V) : G[i][kept] = KeepStep(K, kept, s[i])
  OBVIOUS
<1> HIDE DEF n, G
<1>4. <<>> \in Seq(V)
  OBVIOUS
<1>5. PICK f : FoldsAlong(f, Seq(V), n, <<>>, G)
  BY <1>1, <1>2, <1>4, FoldExists
<1>5a. /\ f \in [SUBSET (1..n) -> Seq(V)]
       /\ \A S \in SUBSET (1..n) : f[S] = IF S = {} THEN <<>> ELSE G[Max(S)][f[S \ {Max(S)}]]
  BY <1>5 DEF FoldsAlong
<1>6. ASSUME NEW S \in SUBSET (1..n), S # {}
      PROVE  f[S] = KeepStep(K, f[S \ {Max(S)}], s[Max(S)])
  <2>1. Max(S) \in 1..n /\ S \ {Max(S)} \in SUBSET (1..n)
    BY <1>1, <1>6, MaxOf
  <2> QED
    BY <1>3, <1>5a, <1>6, <2>1
<1>7. f = KeepFold(f, s, K)
  BY <1>1, <1>5a, <1>6 DEF KeepFold
<1> DEFINE h == CHOOSE x : x = KeepFold(x, s, K)
<1>8. h = KeepFold(h, s, K)
  BY <1>7
<1>9. Keep(s, K) = h[1..n]
  BY <1>1, KeepIsAFold
<1> HIDE DEF h
<1>10. h[{}] = <<>> /\ \A S \in SUBSET (1..n) : S # {} => h[S] = KeepStep(K, h[S \ {Max(S)}], s[Max(S)])
  <2>1. \A S \in SUBSET (1..n) : KeepFold(h, s, K)[S] =
           IF S = {} THEN <<>> ELSE KeepStep(K, h[S \ {Max(S)}], s[Max(S)])
    BY <1>1 DEF KeepFold
  <2> QED
    BY <1>8, <2>1
<1> DEFINE r == [i \in 0..n |-> h[1..i]]
<1>11. r[0] = <<>> /\ r[n] = h[1..n]
  <2>1. 1..0 = {}
    OBVIOUS
  <2>2. 0 \in 0..n /\ n \in 0..n
    BY <1>1
  <2> QED
    BY <1>10, <2>1, <2>2
<1>12. ASSUME NEW i \in 1..n PROVE r[i] = KeepStep(K, r[i - 1], s[i])
  <2>1. i \in Nat /\ i > 0 /\ i \in 0..n /\ i - 1 \in 0..n /\ 1..i \in SUBSET (1..n)
    BY <1>1
  <2>2. h[1..i] = KeepStep(K, h[(1..i) \ {Max(1..i)}], s[Max(1..i)])
    BY <1>10, <2>1, TopOf
  <2>3. h[1..i] = KeepStep(K, h[1..(i - 1)], s[i])
    BY <2>1, <2>2, TopOf
  <2> QED
    BY <2>1, <2>3
<1>13. r \in [0..n -> Seq(V)]
  <2> DEFINE Good == {i \in 0..n : r[i] \in Seq(V)}
  <2>0. r = [i \in 0..n |-> r[i]]
    OBVIOUS
  <2> HIDE DEF r
  <2>1. 0 \in Good
    <3>1. 0 \in 0..n
      BY <1>1
    <3> QED
      BY <1>4, <1>11, <3>1
  <2>2. \A i \in 0..n : i < n /\ i \in Good => i + 1 \in Good
    <3>1. SUFFICES ASSUME NEW i \in 0..n, i < n, r[i] \in Seq(V) PROVE r[i + 1] \in Seq(V) /\ i + 1 \in 0..n
      OBVIOUS
    <3>2. i + 1 \in 1..n /\ (i + 1) - 1 = i
      BY <1>1, <3>1
    <3>3. r[i + 1] = KeepStep(K, r[i], s[i + 1])
      BY <1>12, <3>2
    <3> QED
      BY <1>1, <3>1, <3>2, <3>3 DEF KeepStep
  <2>3. \A i \in 0..n : i \in Good
    <3> HIDE DEF Good
    <3> QED
      BY <1>1, <2>1, <2>2, UpTo
  <2> QED
    BY <2>0, <2>3
<1> HIDE DEF r
<1>14. KeepRun(r, s, K, V)
  BY <1>9, <1>11, <1>12, <1>13 DEF n, KeepRun
<1> QED
  BY <1>14

\* A filter keeps the elements at the places it picks, in their order.
KeptAt(g, s, K) ==
  /\ g \in [1..Len(Keep(s, K)) -> 1..Len(s)]
  /\ \A i, j \in 1..Len(Keep(s, K)) : i < j => g[i] < g[j]
  /\ \A j \in 1..Len(Keep(s, K)) : Keep(s, K)[j] = s[g[j]]
  /\ \A i \in 1..Len(s) : s[i] \in K <=> \E j \in 1..Len(Keep(s, K)) : g[j] = i

LEMMA Kept ==
  ASSUME NEW V, NEW s \in Seq(V), NEW K
  PROVE  Keep(s, K) \in Seq(V) /\ \E g : KeptAt(g, s, K)
<1>0. PICK r : KeepRun(r, s, K, V)
  BY KeepSteps
<1>1. /\ r \in [0..Len(s) -> Seq(V)] /\ r[0] = <<>>
      /\ \A i \in 1..Len(s) : r[i] = KeepStep(K, r[i - 1], s[i])
      /\ Keep(s, K) = r[Len(s)]
  BY <1>0 DEF KeepRun
<1> DEFINE Places(g, t, m) ==
             /\ \A i, j \in 1..Len(t) : i < j => g[i] < g[j]
             /\ \A j \in 1..Len(t) : t[j] = s[g[j]]
             /\ \A i \in 1..m : s[i] \in K <=> \E j \in 1..Len(t) : g[j] = i
           Good == {m \in 0..Len(s) : \E g \in [1..Len(r[m]) -> 1..m] : Places(g, r[m], m)}
<1>2. 0 \in Good
  <2> DEFINE g == [i \in {} |-> 0]
  <2>1. Len(r[0]) = 0 /\ 1..Len(r[0]) = {} /\ 0 \in 0..Len(s)
    BY <1>1
  <2>2. g \in [1..Len(r[0]) -> 1..0] /\ Places(g, r[0], 0)
    BY <2>1
  <2> HIDE DEF g, Places
  <2> QED
    BY <2>1, <2>2
<1>3. ASSUME NEW m \in 0..Len(s), m < Len(s), m \in Good PROVE m + 1 \in Good
  <2>1. PICK g \in [1..Len(r[m]) -> 1..m] : Places(g, r[m], m)
    BY <1>3
  <2>2. m + 1 \in 1..Len(s) /\ m + 1 \in 0..Len(s) /\ (m + 1) - 1 = m /\ m \in Nat
    BY <1>3
  <2>3. r[m + 1] = KeepStep(K, r[m], s[m + 1]) /\ r[m] \in Seq(V)
    BY <1>1, <2>2
  <2> DEFINE t == r[m]
  <2>4. t \in Seq(V) /\ Len(t) \in Nat
    BY <2>3
  <2>5. CASE s[m + 1] \in K
    <3> DEFINE l == Len(t)
               g1 == [j \in 1..(l + 1) |-> IF j = l + 1 THEN m + 1 ELSE g[j]]
    <3>1. r[m + 1] = Append(t, s[m + 1]) /\ s[m + 1] \in V
      BY <2>2, <2>3, <2>5 DEF KeepStep
    <3> DEFINE u == r[m + 1]
    <3>2. Len(u) = l + 1 /\ u[l + 1] = s[m + 1] /\ \A j \in 1..l : u[j] = t[j]
      BY <2>4, <3>1
    <3>3. g1 \in [1..(l + 1) -> 1..(m + 1)]
      BY <2>2, <2>4
    <3>4. /\ l \in Nat /\ g1[l + 1] = m + 1
          /\ \A j \in 1..l : g1[j] = g[j] /\ g[j] \in 1..m
      BY <2>4
    <3>5. /\ \A i, j \in 1..l : i < j => g[i] < g[j]
          /\ \A j \in 1..l : t[j] = s[g[j]]
          /\ \A i \in 1..m : s[i] \in K <=> \E j \in 1..l : g[j] = i
      BY <2>1
    <3> HIDE DEF g1, l, t, u
    <3>6. \A i, j \in 1..(l + 1) : i < j => g1[i] < g1[j]
      <4>1. SUFFICES ASSUME NEW i \in 1..(l + 1), NEW j \in 1..(l + 1), i < j PROVE g1[i] < g1[j]
        OBVIOUS
      <4>2. i \in 1..l
        BY <3>4, <4>1
      <4>3. CASE j = l + 1
        BY <2>2, <3>4, <4>2, <4>3
      <4>4. CASE j # l + 1
        <5>1. j \in 1..l
          BY <3>4, <4>4
        <5> QED
          BY <3>4, <3>5, <4>1, <4>2, <5>1
      <4> QED
        BY <4>3, <4>4
    <3>7. \A j \in 1..(l + 1) : u[j] = s[g1[j]]
      <4>1. \A j \in 1..(l + 1) : j = l + 1 \/ j \in 1..l
        BY <3>4
      <4> QED
        BY <3>2, <3>4, <3>5, <4>1
    <3>8. \A i \in 1..(m + 1) : s[i] \in K <=> \E j \in 1..(l + 1) : g1[j] = i
      <4>1. SUFFICES ASSUME NEW i \in 1..(m + 1)
                     PROVE  s[i] \in K <=> \E j \in 1..(l + 1) : g1[j] = i
        OBVIOUS
      <4>2. CASE i = m + 1
        <5>1. l + 1 \in 1..(l + 1)
          BY <3>4
        <5> QED
          BY <2>5, <3>4, <4>2, <5>1
      <4>3. CASE i # m + 1
        <5>1. i \in 1..m
          BY <2>2, <4>3
        <5>2. \A j \in 1..(l + 1) : j = l + 1 \/ j \in 1..l
          BY <3>4
        <5>3. \A j \in 1..l : j \in 1..(l + 1)
          BY <3>4
        <5> QED
          BY <3>4, <3>5, <4>3, <5>1, <5>2, <5>3
      <4> QED
        BY <4>2, <4>3
    <3>9. Places(g1, u, m + 1)
      BY <3>2, <3>6, <3>7, <3>8
    <3> HIDE DEF Places
    <3> QED
      BY <2>2, <3>2, <3>3, <3>9 DEF u
  <2>6. CASE s[m + 1] \notin K
    <3>1. r[m + 1] = t
      BY <2>3, <2>6 DEF KeepStep
    <3>2. g \in [1..Len(t) -> 1..(m + 1)]
      BY <2>2
    <3>3. \A i \in 1..(m + 1) : s[i] \in K <=> \E j \in 1..Len(t) : g[j] = i
      <4>1. SUFFICES ASSUME NEW i \in 1..(m + 1)
                     PROVE  s[i] \in K <=> \E j \in 1..Len(t) : g[j] = i
        OBVIOUS
      <4>2. \A j \in 1..Len(t) : g[j] \in 1..m /\ g[j] # m + 1
        BY <2>2
      <4>3. CASE i = m + 1
        BY <2>6, <4>2, <4>3
      <4>4. CASE i # m + 1
        <5>1. i \in 1..m
          BY <2>2, <4>4
        <5> QED
          BY <2>1, <5>1
      <4> QED
        BY <4>3, <4>4
    <3>4. Places(g, t, m + 1)
      BY <2>1, <3>3
    <3> HIDE DEF Places
    <3> QED
      BY <2>2, <3>1, <3>2, <3>4
  <2> QED
    BY <2>5, <2>6
<1>4. \A m \in 0..Len(s) : m \in Good
  <2> HIDE DEF Good
  <2>1. Len(s) \in Nat
    OBVIOUS
  <2> QED
    BY <1>2, <1>3, <2>1, UpTo
<1>5. Len(s) \in 0..Len(s)
  OBVIOUS
<1>6. PICK g \in [1..Len(r[Len(s)]) -> 1..Len(s)] : Places(g, r[Len(s)], Len(s))
  BY <1>4, <1>5
<1>7. r[Len(s)] \in Seq(V)
  BY <1>1, <1>5
<1>8. KeptAt(g, s, K)
  BY <1>1, <1>6 DEF KeptAt
<1> QED
  BY <1>1, <1>7, <1>8

-----------------------------------------------------------------------------
(* The chat.                                                               *)

Shown == [conv : Conversations \cup {NoConversation}, role : {"user", "assistant"},
          ask : Keys \cup {Old}, temporary : BOOLEAN]
Asked == [conv : Conversations \cup {NoConversation}, prompt : Prompts]
Requests == [generation : Nat, asked : Routes, served : BOOLEAN,
             reply : Seq(Shown) \cup Seq(Conversations),
             selected : Conversations \cup {NoConversation}]

\* Every variable has its type.
ChatShape ==
  /\ project \in {"starting", "known", "failed"}
  /\ route \in Routes /\ wanted \in Routes \cup {"none"}
  /\ generation \in Nat /\ loads \subseteq Requests
  /\ conversation \in Conversations \cup {NoConversation}
  /\ loading \in BOOLEAN
  /\ thread \in Seq(Shown)
  /\ ask \in [key : Keys \cup {0}]
  /\ intent \in {NoIntent} \cup [fingerprint : Asked, key : Keys]
  /\ upload \in [step : {"none", "creating", "sending", "ended"},
                 chosen : Conversations \cup {NoConversation},
                 conv : Conversations \cup {NoConversation}]
  /\ recent \in Seq(Conversations)
  /\ stored \in [Conversations -> Seq(Keys \cup {Old})]
  /\ runs \in [Keys -> Conversations \cup {NoConversation}]
  /\ attached \in Seq(Conversations \cup {NoConversation})
  /\ submits \in Seq([fingerprint : Asked, key : Keys, end : {"open", "failed", "answered"}])

\* A load selects the conversation its route names, or the latest for the route
\* that names none, and its reply is of what it selected.
LoadInv(l) ==
  /\ l.generation <= generation
  /\ l.generation = generation => l.asked = route
  /\ IF l.selected = NoConversation THEN l.asked = "latest" ELSE l.asked \in {l.selected, "latest"}
  /\ l.served => IF l.selected = NoConversation THEN l.reply \in Seq(Conversations)
                 ELSE /\ l.reply \in Seq(Shown)
                      /\ \A i \in 1..Len(l.reply) :
                           l.reply[i].conv = l.selected /\ l.reply[i].temporary = FALSE

LoadsInv ==
  /\ project # "known" => loads = {} /\ thread = << >> /\ ask = NoAsk
  /\ \A l \in loads : LoadInv(l)

\* The files are those of the call, which are none before it has a conversation.
UploadInv ==
  /\ upload.step \in {"none", "creating"} => attached = << >>
  /\ upload.step \in {"none", "creating"} => upload.chosen = NoConversation
  /\ upload.chosen \in {NoConversation, upload.conv}
  /\ \A i \in 1..Len(attached) : attached[i] = upload.conv

\* The intent is that of the last submit, until its answer clears it.
IntentIs(n) == intent = [fingerprint |-> submits[n].fingerprint, key |-> submits[n].key]
SubmitsInv ==
  /\ Len(submits) <= MaxAsks
  /\ \A i \in 1..Len(submits) : submits[i].key \in 1..i
  /\ Len(submits) = 0 => ask = NoAsk /\ intent = NoIntent
  /\ Len(submits) > 0 =>
       \/ submits[Len(submits)].end = "open" /\ IntentIs(Len(submits))
          /\ ask.key = submits[Len(submits)].key
       \/ submits[Len(submits)].end = "failed" /\ IntentIs(Len(submits)) /\ ask = NoAsk
       \/ submits[Len(submits)].end = "answered" /\ intent = NoIntent /\ ask = NoAsk

ChatInv ==
  /\ ChatShape /\ LoadsInv /\ UploadInv /\ SubmitsInv
  /\ LoadedThreadIsOfTheRoute /\ ShownQuestionsAreAskedOrAnswered /\ RetriesReuseTheKey

LEMMA HistoryShown ==
  ASSUME ChatShape, NEW c \in Conversations
  PROVE  /\ History(c) \in Seq(Shown)
         /\ \A i \in 1..Len(History(c)) : History(c)[i].conv = c /\ History(c)[i].temporary = FALSE
<1> DEFINE n == Len(stored[c])
           m(i) == Message(c, IF i % 2 = 1 THEN "user" ELSE "assistant", stored[c][(i + 1) \div 2], FALSE)
<1>1. stored[c] \in Seq(Keys \cup {Old}) /\ n \in Nat
  BY DEF ChatShape
<1>2. \A i \in 1..(2 * n) : (i + 1) \div 2 \in 1..n
  BY <1>1
<1>3. \A i \in 1..(2 * n) : stored[c][(i + 1) \div 2] \in Keys \cup {Old}
  BY <1>1, <1>2
<1>4. \A i \in 1..(2 * n) : m(i) \in Shown /\ m(i).conv = c /\ m(i).temporary = FALSE
  BY <1>3 DEF Message, Shown
<1>5. History(c) = [i \in 1..(2 * n) |-> m(i)]
  BY DEF History
<1>6. 2 * n \in Nat
  BY <1>1
<1> HIDE DEF n, m
<1>7. History(c) \in Seq(Shown) /\ Len(History(c)) = 2 * n
  BY <1>4, <1>5, <1>6
<1> QED
  BY <1>4, <1>5, <1>7

LEMMA AnswerShown ==
  ASSUME ChatShape, NEW c \in Conversations, ask.key \in Keys
  PROVE  /\ ThreadWithAnswer(c) \in Seq(Shown)
         /\ Len(ThreadWithAnswer(c)) = Len(thread) + 1
         /\ ThreadWithAnswer(c)[Len(thread) + 1] = Message(c, "assistant", ask.key, TRUE)
         /\ \A i \in 1..Len(thread) : \A f \in {"role", "ask", "temporary"} :
              ThreadWithAnswer(c)[i][f] = thread[i][f]
         /\ \A i \in 1..Len(thread) : ~thread[i].temporary =>
              ThreadWithAnswer(c)[i] = thread[i]
<1> DEFINE m(i) == IF IsQuestion(thread[i], ask.key) THEN [thread[i] EXCEPT !.conv = c] ELSE thread[i]
           s == [i \in DOMAIN thread |-> m(i)]
           a == Message(c, "assistant", ask.key, TRUE)
<1>1. thread \in Seq(Shown) /\ Len(thread) \in Nat /\ DOMAIN thread = 1..Len(thread)
  BY DEF ChatShape
<1>2. \A i \in 1..Len(thread) : thread[i] \in Shown
  BY <1>1
<1>3. a \in Shown
  BY DEF Message, Shown
<1>4. \A i \in 1..Len(thread) : m(i) \in Shown
  BY <1>2 DEF Shown
<1>5. \A i \in 1..Len(thread) : \A f \in {"role", "ask", "temporary"} : m(i)[f] = thread[i][f]
  BY <1>2 DEF Shown
<1>6. \A i \in 1..Len(thread) : ~thread[i].temporary => m(i) = thread[i]
  BY DEF IsQuestion
<1>7. ThreadWithAnswer(c) = Append(s, a)
  BY DEF ThreadWithAnswer
<1> HIDE DEF m, a
<1>8. s \in Seq(Shown) /\ Len(s) = Len(thread) /\ \A i \in 1..Len(thread) : s[i] = m(i)
  BY <1>1, <1>4
<1> HIDE DEF s
<1>9. /\ Append(s, a) \in Seq(Shown) /\ Len(Append(s, a)) = Len(thread) + 1
      /\ Append(s, a)[Len(thread) + 1] = a
      /\ \A i \in 1..Len(thread) : Append(s, a)[i] = s[i]
  BY <1>1, <1>3, <1>8
<1> QED
  BY <1>5, <1>6, <1>7, <1>8, <1>9 DEF a

LEMMA ClosedSubmits ==
  ASSUME NEW S, submits \in Seq([fingerprint : S, key : Keys, end : {"open", "failed", "answered"}]),
         NEW e \in {"failed", "answered"}, Len(submits) > 0
  PROVE  /\ Closed(e) \in Seq([fingerprint : S, key : Keys, end : {"open", "failed", "answered"}])
         /\ Len(Closed(e)) = Len(submits)
         /\ \A i \in 1..Len(submits) : i # Len(submits) => Closed(e)[i] = submits[i]
         /\ Closed(e)[Len(submits)].end = e
         /\ \A i \in 1..Len(submits) : /\ Closed(e)[i].key = submits[i].key
                                       /\ Closed(e)[i].fingerprint = submits[i].fingerprint
<1> DEFINE R == [fingerprint : S, key : Keys, end : {"open", "failed", "answered"}]
           n == Len(submits)
           last == [submits[n] EXCEPT !.end = e]
<1>0. submits \in Seq(R)
  OBVIOUS
<1>1. n \in 1..n /\ n \in Nat /\ DOMAIN submits = 1..n /\ submits[n] \in R
      /\ \A i \in 1..n : submits[i] \in R
  <2> HIDE DEF R
  <2> QED
    BY <1>0
<1>2. last \in R /\ last.end = e /\ last.key = submits[n].key /\ last.fingerprint = submits[n].fingerprint
  BY <1>1
<1>3. Closed(e) = [submits EXCEPT ![n] = last]
  BY <1>1 DEF Closed
<1> HIDE DEF last
<1>4. Closed(e) = [i \in 1..n |-> IF i = n THEN last ELSE submits[i]]
  BY <1>1, <1>3
<1>5. /\ Closed(e) \in Seq(R) /\ Len(Closed(e)) = n
  <2> HIDE DEF R, n
  <2> QED
    BY <1>1, <1>2, <1>4
<1> QED
  BY <1>1, <1>2, <1>4, <1>5

LEMMA StartLoadShape ==
  ASSUME ChatShape, NEW r \in Routes, StartLoad(r)
  PROVE  /\ generation' \in Nat /\ loads' \subseteq Requests /\ thread' \in Seq(Shown)
         /\ conversation' \in Conversations \cup {NoConversation} /\ loading' \in BOOLEAN
<1>1. NewLoad(generation + 1, r) \in Requests
  BY DEF ChatShape, NewLoad, Requests
<1>2. << >> \in Seq(Shown)
  OBVIOUS
<1> QED
  BY <1>1, <1>2 DEF ChatShape, StartLoad

LEMMA KeysOfRequests ==
  ASSUME ChatShape, SubmitsInv, ask # NoAsk
  PROVE  ask.key \in Keys /\ Len(submits) > 0 /\ Len(submits) \in Nat
<1>1. Len(submits) \in Nat
  BY DEF ChatShape
<1>2. Len(submits) > 0
  BY <1>1 DEF SubmitsInv
<1>3. ask = [key |-> ask.key] /\ ask.key \in Keys \cup {0}
  BY DEF ChatShape
<1> QED
  BY <1>1, <1>2, <1>3 DEF NoAsk

LEMMA RequestParts ==
  ASSUME ChatShape, NEW l \in loads
  PROVE  /\ l.generation \in Nat /\ l.asked \in Routes /\ l.served \in BOOLEAN
         /\ l.selected \in Conversations \cup {NoConversation}
         /\ l.reply \in Seq(Shown) \cup Seq(Conversations)
         /\ l \in Requests
<1>1. l \in Requests
  BY DEF ChatShape
<1> QED
  BY <1>1 DEF Requests

LEMMA ServedShape ==
  ASSUME ChatInv, NEW l \in loads, ServeLoad(l)
  PROVE  \E reply \in Seq(Shown) \cup Seq(Conversations) :
           LET m == [l EXCEPT !.served = TRUE, !.reply = reply] IN
           /\ m \in Requests /\ m.generation = l.generation /\ m.asked = l.asked
           /\ m.selected = l.selected /\ m.served = TRUE /\ m.reply = reply
           /\ loads' = (loads \ {l}) \cup {m}
           /\ reply = IF l.selected # NoConversation THEN History(l.selected) ELSE recent
<1>0. ChatShape
  BY DEF ChatInv
<1> DEFINE reply == IF l.selected # NoConversation THEN History(l.selected) ELSE recent
           m == [l EXCEPT !.served = TRUE, !.reply = reply]
<1>1. reply \in Seq(Shown) \cup Seq(Conversations)
  BY <1>0, RequestParts, HistoryShown DEF ChatShape
<1>2. loads' = (loads \ {l}) \cup {m}
  BY DEF ServeLoad
<1> HIDE DEF reply
<1>3. l \in Requests
  BY <1>0, RequestParts
<1>4. /\ m \in Requests /\ m.generation = l.generation /\ m.asked = l.asked
      /\ m.selected = l.selected /\ m.served = TRUE /\ m.reply = reply
  BY <1>1, <1>3 DEF Requests
<1> QED
  BY <1>1, <1>2, <1>4 DEF reply

LEMMA ListedShape ==
  ASSUME ChatInv, NEW l \in loads, ListReturns(l), IsCurrent(l), l.reply # << >>
  PROVE  LET m == [l EXCEPT !.selected = l.reply[1], !.served = FALSE, !.reply = << >>] IN
         /\ m \in Requests /\ m.generation = l.generation /\ m.asked = l.asked
         /\ m.selected = l.reply[1] /\ m.served = FALSE /\ l.reply[1] \in Conversations
         /\ loads' = (loads \ {l}) \cup {m}
         /\ conversation' = l.reply[1]
<1>0. ChatShape /\ LoadInv(l)
  BY DEF ChatInv, LoadsInv
<1>1. l.reply \in Seq(Conversations) /\ l \in Requests
  BY <1>0, RequestParts DEF ListReturns, LoadInv
<1>2. l.reply[1] \in Conversations /\ Head(l.reply) = l.reply[1] /\ DOMAIN l.reply \cap {1} = {1}
  <2>1. Len(l.reply) \in Nat /\ Len(l.reply) > 0 /\ DOMAIN l.reply = 1..Len(l.reply)
    BY <1>1
  <2> QED
    BY <1>1, <2>1
<1> DEFINE m == [l EXCEPT !.selected = l.reply[1], !.served = FALSE, !.reply = << >>]
           Found == {[l EXCEPT !.selected = l.reply[i], !.served = FALSE, !.reply = << >>] :
                  i \in DOMAIN l.reply \cap {1}}
<1>3. Found = {m}
  BY <1>2
<1>4. loads' = (loads \ {l}) \cup Found /\ conversation' = Head(l.reply)
  BY <1>2 DEF ListReturns
<1>5. << >> \in Seq(Shown)
  OBVIOUS
<1>6. /\ m \in Requests /\ m.generation = l.generation /\ m.asked = l.asked
      /\ m.selected = l.reply[1] /\ m.served = FALSE
  BY <1>1, <1>2, <1>5 DEF Requests
<1> QED
  BY <1>2, <1>3, <1>4, <1>6

LEMMA ChatShapeStep ==
  ASSUME ChatInv, [ChatNext]_chatVars
  PROVE  ChatShape'
<1>0. ChatShape /\ LoadsInv /\ SubmitsInv
  BY DEF ChatInv
<1> USE DEF tabVars, serverVars
<1>1. CASE Bootstrap
  <2>1. route \in Routes /\ StartLoad(route)
    BY <1>0, <1>1 DEF Bootstrap, ChatShape
  <2>2. /\ generation' \in Nat /\ loads' \subseteq Requests /\ thread' \in Seq(Shown)
        /\ conversation' \in Conversations \cup {NoConversation} /\ loading' \in BOOLEAN
    BY <1>0, <2>1, StartLoadShape
  <2> QED
    BY <1>0, <1>1, <2>2 DEF Bootstrap, ChatShape, Shown, Requests, Asked
<1>2. CASE BootstrapFails
  BY <1>0, <1>2 DEF BootstrapFails, ChatShape, Shown, Requests, Asked
<1>3. ASSUME NEW l \in loads, ServeLoad(l) PROVE ChatShape'
  <2>1. loads' \subseteq Requests
    BY <1>0, <1>3, ServedShape DEF ChatShape
  <2> QED
    BY ZenonT(40), <1>0, <1>3, <2>1 DEF ServeLoad, ChatShape, Shown, Requests, Asked
<1>4. ASSUME NEW l \in loads, ListReturns(l) PROVE ChatShape'
  <2>1. CASE IsCurrent(l) /\ l.reply # << >>
    <3>1. loads' \subseteq Requests /\ conversation' \in Conversations
      BY <1>0, <1>4, <2>1, ListedShape DEF ChatShape
    <3>2. loading' \in BOOLEAN
      BY <1>4, <2>1 DEF ListReturns
    <3> QED
      BY <1>0, <1>4, <3>1, <3>2 DEF ListReturns, ChatShape, Shown, Requests, Asked
  <2>2. CASE ~IsCurrent(l)
    BY ZenonT(40), <1>0, <1>4, <2>2 DEF ListReturns, ChatShape, Shown, Requests, Asked
  <2>3. CASE IsCurrent(l) /\ l.reply = << >>
    <3>1. DOMAIN l.reply \cap {1} = {}
      BY <2>3
    <3>2. loads' \subseteq Requests
      BY <1>0, <1>4, <2>3, <3>1 DEF ListReturns, ChatShape
    <3> QED
      BY <1>0, <1>4, <2>3, <3>2 DEF ListReturns, ChatShape, Shown, Requests, Asked
  <2> QED
    BY <2>1, <2>2, <2>3
<1>5. ASSUME NEW l \in loads, HistoryReturns(l) PROVE ChatShape'
  <2>1. loads' \subseteq Requests
    BY <1>0, <1>5 DEF HistoryReturns, ChatShape
  <2>2. l.selected \in Conversations /\ l.reply \in Seq(Shown)
    BY <1>0, <1>5, RequestParts DEF HistoryReturns, LoadsInv, LoadInv
  <2>3. thread' \in Seq(Shown) /\ loading' \in BOOLEAN /\ wanted' \in Routes \cup {"none"}
    BY <1>0, <1>5, <2>2 DEF HistoryReturns, ChatShape, Routes
  <2> QED
    BY <1>0, <1>5, <2>1, <2>3 DEF HistoryReturns, ChatShape, Shown, Requests, Asked
<1>6. ASSUME NEW l \in loads, LoadFails(l) PROVE ChatShape'
  BY ZenonT(40), <1>0, <1>6 DEF LoadFails, ChatShape, Shown, Requests, Asked
<1>7. ASSUME NEW r \in Routes, Navigate(r) PROVE ChatShape'
  BY ZenonT(40), <1>0, <1>7 DEF Navigate, ChatShape, Shown, Requests, Asked
<1>8. CASE RouteChanges
  <2>1. wanted \in Routes
    BY <1>0, <1>8 DEF RouteChanges, ChatShape
  <2>2. CASE wanted = route \/ project # "known"
    BY ZenonT(40), <1>0, <1>8, <2>1, <2>2 DEF RouteChanges, ChatShape, Shown, Requests, Asked
  <2>3. CASE ~(wanted = route \/ project # "known")
    <3>1. StartLoad(wanted)
      BY <1>8, <2>3 DEF RouteChanges
    <3>2. /\ generation' \in Nat /\ loads' \subseteq Requests /\ thread' \in Seq(Shown)
          /\ conversation' \in Conversations \cup {NoConversation} /\ loading' \in BOOLEAN
      BY <1>0, <2>1, <3>1, StartLoadShape
    <3> QED
      BY <1>0, <1>8, <2>1, <3>2 DEF RouteChanges, ChatShape, Shown, Requests, Asked
  <2> QED
    BY <2>2, <2>3
<1>9. CASE StartNewProjectChat
  <2>1. << >> \in Seq(Shown)
    OBVIOUS
  <2> QED
    BY ZenonT(40), <1>0, <1>9, <2>1 DEF StartNewProjectChat, ChatShape, Shown, Requests, Asked, Routes
<1>10. ASSUME NEW p \in Prompts, SubmitQuestion(p) PROVE ChatShape'
  <2> DEFINE f == Fingerprint(p)
             it == ResolveIntentKey(f)
             m == Message(conversation, "user", it.key, TRUE)
             s == [fingerprint |-> f, key |-> it.key, end |-> "open"]
  <2>1. f \in Asked
    BY <1>0 DEF Fingerprint, Asked, ChatShape
  <2>2. Len(submits) \in Nat /\ Len(submits) + 1 \in Keys
    <3>1. Len(submits) \in Nat
      BY <1>0 DEF ChatShape
    <3> QED
      BY <1>10, <3>1, Values DEF SubmitQuestion, Keys
  <2>3. it \in [fingerprint : Asked, key : Keys] /\ it.key \in Keys
    BY <1>0, <2>1, <2>2 DEF ResolveIntentKey, ChatShape
  <2>4. m \in Shown
    BY <1>0, <2>3 DEF Message, Shown, ChatShape
  <2>5. s \in [fingerprint : Asked, key : Keys, end : {"open", "failed", "answered"}]
    BY <2>1, <2>3
  <2>6. /\ intent' = it /\ ask' = [key |-> it.key] /\ thread' = Append(thread, m)
        /\ submits' = Append(submits, s)
    BY <1>10 DEF SubmitQuestion
  <2> HIDE DEF f, it, m, s
  <2>7. /\ intent' \in {NoIntent} \cup [fingerprint : Asked, key : Keys]
        /\ ask' \in [key : Keys \cup {0}]
    BY <2>3, <2>6
  <2>8. thread' \in Seq(Shown)
    BY <1>0, <2>4, <2>6 DEF ChatShape
  <2>9. submits' \in Seq([fingerprint : Asked, key : Keys, end : {"open", "failed", "answered"}])
    BY <1>0, <2>5, <2>6 DEF ChatShape
  <2>10. UNCHANGED <<project, route, wanted, generation, loads, conversation, loading, upload, moves,
                     recent, stored, runs, attached>>
    BY <1>10 DEF SubmitQuestion
  <2> QED
    BY <1>0, <2>7, <2>8, <2>9, <2>10 DEF ChatShape, Shown, Requests, Asked
<1>11. CASE AnswerArrives
  <2>1. ask.key \in Keys /\ Len(submits) > 0 /\ Len(submits) \in Nat
    BY <1>0, <1>11, KeysOfRequests DEF AnswerArrives
  <2>2. runs[ask.key] \in Conversations
    BY <1>0, <1>11, <2>1 DEF AnswerArrives, ChatShape
  <2>3. thread' \in Seq(Shown)
    BY <1>0, <1>11, <2>1, <2>2, AnswerShown DEF AnswerArrives
  <2>4. submits' \in Seq([fingerprint : Asked, key : Keys, end : {"open", "failed", "answered"}])
    BY <1>0, <1>11, <2>1, ClosedSubmits DEF AnswerArrives, ChatShape
  <2>5. intent' \in {NoIntent} \cup [fingerprint : Asked, key : Keys]
    BY <1>0, <1>11 DEF AnswerArrives, ChatShape, ClearCompletedIntent
  <2>6. ask' \in [key : Keys \cup {0}]
    BY <1>11 DEF AnswerArrives, NoAsk
  <2>7. wanted' \in Routes \cup {"none"} /\ conversation' \in Conversations \cup {NoConversation}
    BY <1>11, <2>2 DEF AnswerArrives, Routes
  <2>8. UNCHANGED <<project, route, generation, loads, loading, upload, moves,
                     recent, stored, runs, attached>>
    BY <1>11 DEF AnswerArrives
  <2> QED
    BY <1>0, <2>3, <2>4, <2>5, <2>6, <2>7, <2>8 DEF ChatShape, Shown, Requests, Asked
<1>12. CASE AskFails
  <2>1. ask.key \in Keys /\ Len(submits) > 0 /\ Len(submits) \in Nat
    BY <1>0, <1>12, KeysOfRequests DEF AskFails
  <2>2. thread' \in Seq(Shown)
    BY <1>0, <1>12, Kept DEF AskFails, ThreadTakenBack, ChatShape
  <2>3. submits' \in Seq([fingerprint : Asked, key : Keys, end : {"open", "failed", "answered"}])
    BY <1>0, <1>12, <2>1, ClosedSubmits DEF AskFails, ChatShape
  <2>4. ask' \in [key : Keys \cup {0}]
    BY <1>12 DEF AskFails, NoAsk
  <2>5. UNCHANGED <<project, route, wanted, generation, loads, conversation, loading, intent, upload,
                 moves, recent, stored, runs, attached>>
    BY <1>12 DEF AskFails
  <2> QED
    BY ZenonT(40), <1>0, <2>2, <2>3, <2>4, <2>5 DEF ChatShape, Shown, Requests, Asked
<1>13. ASSUME NEW k \in Keys, Run(k) PROVE ChatShape'
  <2>1. PICK i \in DOMAIN submits :
           \E c \in IF submits[i].fingerprint.conv # NoConversation
                    THEN {submits[i].fingerprint.conv} ELSE Conversations \ Existing :
             /\ recent' = <<c>> \o Keep(recent, Existing \ {c})
             /\ stored' = [stored EXCEPT ![c] = Append(@, k)]
             /\ runs' = [runs EXCEPT ![k] = c]
    BY <1>13 DEF Run
  <2>2. submits[i].fingerprint.conv \in Conversations \cup {NoConversation}
    <3> DEFINE R == [fingerprint : Asked, key : Keys, end : {"open", "failed", "answered"}]
    <3>1. submits \in Seq(R)
      BY <1>0 DEF ChatShape
    <3>2. submits[i] \in R
      <4> HIDE DEF R
      <4> QED
        BY <2>1, <3>1
    <3> QED
      BY <3>2 DEF Asked
  <2>3. PICK c \in Conversations :
             /\ recent' = <<c>> \o Keep(recent, Existing \ {c})
             /\ stored' = [stored EXCEPT ![c] = Append(@, k)]
             /\ runs' = [runs EXCEPT ![k] = c]
    BY <2>1, <2>2
  <2>4. recent \in Seq(Conversations)
    BY <1>0 DEF ChatShape
  <2>5. Keep(recent, Existing \ {c}) \in Seq(Conversations)
    BY <2>4, Kept
  <2>6. recent' \in Seq(Conversations)
    <3>1. \A s \in Seq(Conversations) : <<c>> \o s \in Seq(Conversations)
      OBVIOUS
    <3> QED
      BY <2>3, <2>5, <3>1
  <2>7. stored' \in [Conversations -> Seq(Keys \cup {Old})]
    <3>1. Append(stored[c], k) \in Seq(Keys \cup {Old})
      BY <1>0 DEF ChatShape
    <3> QED
      BY <1>0, <2>3, <3>1 DEF ChatShape
  <2>8. runs' \in [Keys -> Conversations \cup {NoConversation}]
    BY <1>0, <2>3 DEF ChatShape
  <2>9. UNCHANGED <<tabVars, attached>>
    BY <1>13 DEF Run
  <2> QED
    BY ZenonT(40), <1>0, <2>6, <2>7, <2>8, <2>9 DEF ChatShape, Shown, Requests, Asked
<1>14. CASE ChooseFiles
  <2>1. upload' \in [step : {"none", "creating", "sending", "ended"},
                 chosen : Conversations \cup {NoConversation},
                 conv : Conversations \cup {NoConversation}]
    BY <1>0, <1>14 DEF ChooseFiles, ChatShape
  <2> QED
    BY <1>0, <1>14, <2>1 DEF ChooseFiles, ChatShape, Shown, Requests, Asked
<1>15. CASE EnsureConversation
  <2>1. PICK c \in Conversations \ Existing :
           /\ recent' = <<c>> \o recent
           /\ conversation' = c /\ wanted' = c
           /\ upload' = [upload EXCEPT !.step = "sending", !.conv = c]
    BY <1>15 DEF EnsureConversation
  <2>2. recent' \in Seq(Conversations)
    BY <1>0, <2>1 DEF ChatShape
  <2>3. upload' \in [step : {"none", "creating", "sending", "ended"},
                 chosen : Conversations \cup {NoConversation},
                 conv : Conversations \cup {NoConversation}]
    BY <1>0, <2>1 DEF ChatShape
  <2>4. conversation' \in Conversations /\ wanted' \in Routes
    BY <2>1 DEF Routes
  <2> QED
    BY <1>0, <1>15, <2>2, <2>3, <2>4 DEF EnsureConversation, ChatShape, Shown, Requests, Asked
<1>16. CASE UploadFile
  <2>1. ActiveConversation \in Conversations \cup {NoConversation}
    BY <1>0 DEF ActiveConversation, ChatShape
  <2>2. attached' \in Seq(Conversations \cup {NoConversation})
    <3>1. attached \in Seq(Conversations \cup {NoConversation}) /\ attached' = Append(attached, ActiveConversation)
      BY <1>0, <1>16 DEF UploadFile, ChatShape
    <3> QED
      BY <2>1, <3>1
  <2>3. upload' \in [step : {"none", "creating", "sending", "ended"},
                 chosen : Conversations \cup {NoConversation},
                 conv : Conversations \cup {NoConversation}]
    BY <1>0, <1>16 DEF UploadFile, ChatShape
  <2> QED
    BY <1>0, <1>16, <2>2, <2>3 DEF UploadFile, ChatShape, Shown, Requests, Asked
<1>17. CASE UploadFails
  <2>1. recent' \in Seq(Conversations)
    <3>1. recent' = recent \/ \E c \in Conversations : recent' = <<c>> \o recent
      BY <1>17 DEF UploadFails
    <3>2. recent \in Seq(Conversations)
      BY <1>0 DEF ChatShape
    <3>3. \A c \in Conversations : <<c>> \o recent \in Seq(Conversations)
      BY <3>2
    <3> QED
      BY <3>1, <3>2, <3>3
  <2>2. upload' \in [step : {"none", "creating", "sending", "ended"},
                 chosen : Conversations \cup {NoConversation},
                 conv : Conversations \cup {NoConversation}]
    BY <1>0, <1>17 DEF UploadFails, ChatShape
  <2> QED
    BY <1>0, <1>17, <2>1, <2>2 DEF UploadFails, ChatShape, Shown, Requests, Asked
<1>18. CASE UNCHANGED chatVars
  BY ZenonT(40), <1>0, <1>18 DEF chatVars, ChatShape, Shown, Requests, Asked
<1> QED
  BY <1>1, <1>2, <1>3, <1>4, <1>5, <1>6, <1>7, <1>8, <1>9, <1>10, <1>11, <1>12, <1>13, <1>14, <1>15,
     <1>16, <1>17, <1>18 DEF ChatNext, Returns

LEMMA LoadsStep ==
  ASSUME ChatInv, [ChatNext]_chatVars
  PROVE  LoadsInv'
<1>0. ChatShape /\ LoadsInv
  BY DEF ChatInv
<1> USE DEF tabVars, serverVars
<1>00. generation \in Nat /\ \A l \in loads : l.generation \in Nat /\ l.generation <= generation
  BY <1>0, RequestParts DEF ChatShape, LoadsInv, LoadInv
\* Steps that leave the requests, the route and the generation alone.
<1>1. ASSUME loads' \subseteq loads, generation' = generation, route' = route,
             project' = project, project # "known" => thread' = << >> /\ ask' = NoAsk
      PROVE  LoadsInv'
  BY <1>0, <1>1 DEF LoadsInv, LoadInv
<1>2. ASSUME NEW r \in Routes, StartLoad(r), route' = r, project' = "known"
      PROVE  LoadsInv'
  <2>1. ASSUME NEW l \in loads PROVE LoadInv(l)'
    <3>1. generation' = generation + 1 /\ l.generation < generation'
      BY <1>2, <1>00 DEF StartLoad
    <3> QED
      BY <1>0, <3>1, <1>00 DEF LoadsInv, LoadInv
  <2>2. PICK m : m = NewLoad(generation + 1, r)
    OBVIOUS
  <2>3. /\ m.generation = generation + 1 /\ m.asked = r /\ m.served = FALSE
        /\ m.selected = IF r \in Conversations THEN r ELSE NoConversation
    BY <2>2 DEF NewLoad
  <2>4. CASE r = "new"
    BY <1>2, <2>1, <2>4 DEF LoadsInv, StartLoad
  <2>5. CASE r # "new"
    <3>1. generation' = generation + 1 /\ loads' = loads \cup {m}
      BY <1>2, <2>2, <2>5 DEF StartLoad
    <3>2. LoadInv(m)'
      <4>1. r \in Conversations \/ r = "latest"
        BY <2>5 DEF Routes
      <4> QED
        BY <1>2, <2>3, <3>1, <4>1, <1>00, Values DEF LoadInv
    <3> QED
      BY <1>2, <2>1, <3>1, <3>2 DEF LoadsInv
  <2> QED
    BY <2>4, <2>5
<1>3. CASE Bootstrap
  BY <1>0, <1>2, <1>3 DEF Bootstrap, ChatShape
<1>4. CASE BootstrapFails
  BY <1>0, <1>4 DEF BootstrapFails, LoadsInv, LoadInv
<1>5. ASSUME NEW l \in loads, ServeLoad(l) PROVE LoadsInv'
  <2>1. PICK reply \in Seq(Shown) \cup Seq(Conversations) :
           LET m == [l EXCEPT !.served = TRUE, !.reply = reply] IN
           /\ m \in Requests /\ m.generation = l.generation /\ m.asked = l.asked
           /\ m.selected = l.selected /\ m.served = TRUE /\ m.reply = reply
           /\ loads' = (loads \ {l}) \cup {m}
           /\ reply = IF l.selected # NoConversation THEN History(l.selected) ELSE recent
    BY <1>5, ServedShape
  <2> DEFINE m == [l EXCEPT !.served = TRUE, !.reply = reply]
  <2>2. /\ m.generation = l.generation /\ m.asked = l.asked
        /\ m.selected = l.selected /\ m.served = TRUE /\ m.reply = reply
        /\ loads' = (loads \ {l}) \cup {m}
    BY <2>1
  <2> HIDE DEF m
  <2>3. l.selected # NoConversation => l.selected \in Conversations
    BY <1>0, RequestParts
  <2>4. IF l.selected = NoConversation THEN reply \in Seq(Conversations)
        ELSE /\ reply \in Seq(Shown)
             /\ \A i \in 1..Len(reply) : reply[i].conv = l.selected /\ reply[i].temporary = FALSE
    <3>1. CASE l.selected = NoConversation
      BY <1>0, <2>1, <3>1 DEF ChatShape
    <3>2. CASE l.selected # NoConversation
      <4>1. reply = History(l.selected) /\ l.selected \in Conversations
        BY <2>1, <2>3, <3>2
      <4> QED
        BY <1>0, <3>2, <4>1, HistoryShown
    <3> QED
      BY <3>1, <3>2
  <2>5. generation' = generation /\ route' = route /\ project' = project /\ thread' = thread
    BY <1>5 DEF ServeLoad
  <2>6. LoadInv(m)'
    BY <1>0, <2>2, <2>4, <2>5 DEF LoadsInv, LoadInv
  <2> QED
    BY <1>0, <2>2, <2>5, <2>6 DEF LoadsInv, LoadInv
<1>6. ASSUME NEW l \in loads, ListReturns(l) PROVE LoadsInv'
  <2>1. generation' = generation /\ route' = route /\ project' = project /\ thread' = thread
    BY <1>6 DEF ListReturns
  <2>2. CASE IsCurrent(l) /\ l.reply # << >>
    <3> DEFINE m == [l EXCEPT !.selected = l.reply[1], !.served = FALSE, !.reply = << >>]
    <3>1. /\ m.generation = l.generation /\ m.asked = l.asked
          /\ m.selected = l.reply[1] /\ m.served = FALSE /\ l.reply[1] \in Conversations
          /\ loads' = (loads \ {l}) \cup {m}
      BY <1>6, <2>2, ListedShape
    <3> HIDE DEF m
    <3>2. l.asked = "latest"
      BY <1>0, <1>6 DEF ListReturns, LoadsInv, LoadInv
    <3>3. LoadInv(m)'
      BY <1>0, <2>1, <3>1, <3>2 DEF LoadsInv, LoadInv
    <3> QED
      BY <1>0, <2>1, <3>1, <3>3 DEF LoadsInv, LoadInv
  <2>3. CASE ~(IsCurrent(l) /\ l.reply # << >>)
    <3>1. l.reply = << >> => DOMAIN l.reply \cap {1} = {}
      OBVIOUS
    <3>2. loads' \subseteq loads
      BY <1>6, <2>3, <3>1 DEF ListReturns
    <3> QED
      BY <1>0, <1>1, <2>1, <3>2 DEF LoadsInv
  <2> QED
    BY <2>2, <2>3
<1>7. ASSUME NEW l \in loads, HistoryReturns(l) PROVE LoadsInv'
  <2>1. project = "known"
    BY <1>0 DEF LoadsInv
  <2> QED
    BY <1>1, <1>7, <2>1 DEF HistoryReturns
<1>8. ASSUME NEW l \in loads, LoadFails(l) PROVE LoadsInv'
  BY <1>0, <1>1, <1>8 DEF LoadFails, LoadsInv
<1>9. CASE RouteChanges
  <2>1. CASE ~(wanted = route \/ project # "known")
    BY <1>0, <1>2, <1>9, <2>1 DEF RouteChanges, ChatShape
  <2>2. CASE wanted = route \/ project # "known"
    BY <1>0, <1>9, <2>2 DEF RouteChanges, LoadsInv, LoadInv
  <2> QED
    BY <2>1, <2>2
<1>10. CASE StartNewProjectChat
  BY <1>0, <1>1, <1>10 DEF StartNewProjectChat, LoadsInv
<1>11. ASSUME NEW p \in Prompts, SubmitQuestion(p) PROVE LoadsInv'
  BY <1>1, <1>11 DEF SubmitQuestion
<1>12. CASE AnswerArrives \/ AskFails
  <2>1. project = "known"
    BY <1>0, <1>12 DEF LoadsInv, AnswerArrives, AskFails
  <2> QED
    BY <1>1, <1>12, <2>1 DEF AnswerArrives, AskFails
<1>13. ASSUME NEW k \in Keys, Run(k) PROVE LoadsInv'
  BY <1>0, <1>1, <1>13 DEF Run, LoadsInv
<1>14. ASSUME NEW r \in Routes, Navigate(r) PROVE LoadsInv'
  BY <1>0, <1>1, <1>14 DEF Navigate, LoadsInv
<1>15. CASE ChooseFiles \/ EnsureConversation \/ UploadFile \/ UploadFails \/ UNCHANGED chatVars
  BY <1>0, <1>1, <1>15 DEF ChooseFiles, EnsureConversation, UploadFile, UploadFails, chatVars, LoadsInv
<1> QED
  BY <1>3, <1>4, <1>5, <1>6, <1>7, <1>8, <1>9, <1>10, <1>11, <1>12, <1>13, <1>14, <1>15 DEF ChatNext, Returns

LEMMA UploadStep ==
  ASSUME ChatInv, [ChatNext]_chatVars
  PROVE  UploadInv'
<1>0. ChatShape /\ UploadInv
  BY DEF ChatInv
<1> USE DEF tabVars, serverVars
<1>00. /\ upload = [step |-> upload.step, chosen |-> upload.chosen, conv |-> upload.conv]
       /\ attached \in Seq(Conversations \cup {NoConversation})
  BY <1>0 DEF ChatShape
<1>1. ASSUME UNCHANGED <<upload, attached>> PROVE UploadInv'
  BY <1>0, <1>1 DEF UploadInv
<1>2. CASE ChooseFiles
  <2>1. upload.step = "none" /\ attached' = attached
    BY <1>2 DEF ChooseFiles, NoUpload
  <2>2. attached = << >>
    BY <1>0, <2>1 DEF UploadInv
  <2>3. /\ upload'.chosen = conversation /\ upload'.conv = conversation
        /\ upload'.step = IF conversation = NoConversation THEN "creating" ELSE "sending"
    BY <1>2 DEF ChooseFiles
  <2> QED
    BY <2>1, <2>2, <2>3 DEF UploadInv
<1>3. CASE EnsureConversation
  <2>1. attached' = attached /\ attached = << >> /\ upload.chosen = NoConversation
    BY <1>0, <1>3 DEF EnsureConversation, UploadInv
  <2>2. upload'.chosen = upload.chosen /\ upload'.step = "sending"
    BY <1>3, <1>00 DEF EnsureConversation
  <2> QED
    BY <2>1, <2>2 DEF UploadInv
<1>4. CASE UploadFile
  <2>1. attached' = Append(attached, upload.conv)
    BY <1>4 DEF UploadFile, ActiveConversation
  <2>2. upload'.chosen = upload.chosen /\ upload'.conv = upload.conv /\ upload'.step \in {"sending", "ended"}
    BY <1>4, <1>00 DEF UploadFile
  <2>3. \A i \in 1..Len(attached') : attached'[i] = upload.conv
    <3>1. \A i \in 1..Len(attached) : attached[i] = upload.conv
      BY <1>0 DEF UploadInv
    <3> QED
      BY <1>00, <2>1, <3>1
  <2> QED
    BY <1>0, <2>2, <2>3 DEF UploadInv
<1>5. CASE UploadFails
  <2>1. upload'.chosen = upload.chosen /\ upload'.conv = upload.conv /\ upload'.step = "ended" /\ attached' = attached
    BY <1>5, <1>00 DEF UploadFails
  <2> QED
    BY <1>0, <2>1 DEF UploadInv
<1>6. ASSUME NEW l \in loads, Returns(l) PROVE UploadInv'
  BY <1>1, <1>6 DEF Returns, ServeLoad, ListReturns, HistoryReturns, LoadFails
<1>7. CASE \/ Bootstrap \/ BootstrapFails \/ RouteChanges \/ StartNewProjectChat
           \/ AnswerArrives \/ AskFails \/ UNCHANGED chatVars
  BY <1>1, <1>7 DEF Bootstrap, BootstrapFails, RouteChanges, StartNewProjectChat, AnswerArrives,
                    AskFails, chatVars
<1>8. ASSUME (\E r \in Routes : Navigate(r)) \/ (\E p \in Prompts : SubmitQuestion(p))
             \/ (\E k \in Keys : Run(k))
      PROVE  UploadInv'
  BY <1>1, <1>8 DEF Navigate, SubmitQuestion, Run
<1> QED
  BY <1>2, <1>3, <1>4, <1>5, <1>6, <1>7, <1>8 DEF ChatNext

\* A submit repeats the key of the last one exactly when it repeats its question
\* after a failure; what ends a request only marks its submit.
LEMMA SubmitsStep ==
  ASSUME ChatInv, [ChatNext]_chatVars
  PROVE  SubmitsInv' /\ RetriesReuseTheKey'
<1>0. ChatShape /\ SubmitsInv /\ RetriesReuseTheKey
  BY DEF ChatInv
<1> USE DEF tabVars, serverVars
<1> DEFINE R == [fingerprint : Asked, key : Keys, end : {"open", "failed", "answered"}]
           n == Len(submits)
<1>00. submits \in Seq(R) /\ n \in Nat /\ DOMAIN submits = 1..n
  <2>1. submits \in Seq(R)
    BY <1>0 DEF ChatShape
  <2> QED
    BY <2>1
<1>01. /\ \A i \in 1..n : submits[i].key \in 1..i
       /\ \A i \in 1..n : i >= 2 => (submits[i].key = submits[i - 1].key <=>
            submits[i].fingerprint = submits[i - 1].fingerprint /\ submits[i - 1].end = "failed")
       /\ n = 0 => ask = NoAsk /\ intent = NoIntent
       /\ n > 0 =>
            \/ submits[n].end = "open" /\ IntentIs(n) /\ ask.key = submits[n].key
            \/ submits[n].end = "failed" /\ IntentIs(n) /\ ask = NoAsk
            \/ submits[n].end = "answered" /\ intent = NoIntent /\ ask = NoAsk
  BY <1>0, <1>00 DEF SubmitsInv, RetriesReuseTheKey
<1>02. ask # NoAsk => n > 0 /\ ask.key \in Keys /\ submits[n].end = "open" /\ IntentIs(n)
                      /\ ask.key = submits[n].key
  BY <1>0, <1>00, <1>01, KeysOfRequests
<1>03. \A i \in 1..n : submits[i].key \in Nat /\ submits[i].key >= 1
  BY <1>01, <1>00
<1>1. ASSUME UNCHANGED <<ask, intent, submits>> PROVE SubmitsInv' /\ RetriesReuseTheKey'
  BY <1>0, <1>1 DEF SubmitsInv, RetriesReuseTheKey, IntentIs
<1>2. ASSUME NEW p \in Prompts, SubmitQuestion(p) PROVE SubmitsInv' /\ RetriesReuseTheKey'
  <2> DEFINE f == Fingerprint(p)
             it == ResolveIntentKey(f)
             s == [fingerprint |-> f, key |-> it.key, end |-> "open"]
  <2>1. ask = NoAsk /\ n < MaxAsks /\ MaxAsks \in Nat
    BY <1>2, Values DEF SubmitQuestion
  <2>2. /\ intent' = it /\ ask' = [key |-> it.key] /\ submits' = Append(submits, s)
    BY <1>2 DEF SubmitQuestion
  <2>2a. PICK m : m = n + 1
    OBVIOUS
  <2>3. CASE intent # NoIntent /\ intent.fingerprint = f
    <3>1. n > 0
      BY <1>00, <1>01, <2>3
    <3>2. IntentIs(n) /\ submits[n].end # "answered"
      BY <1>01, <2>3, <3>1
    <3>3. it.key = submits[n].key /\ it.fingerprint = f /\ f = submits[n].fingerprint
          /\ it = [fingerprint |-> f, key |-> it.key]
      BY <2>3, <3>2 DEF ResolveIntentKey, IntentIs
    <3>4. submits[n].end = "failed"
      <4>1. NoAsk.key = 0 /\ submits[n].key # 0
        BY <1>00, <1>03, <3>1 DEF NoAsk
      <4> QED
        BY <1>01, <2>1, <3>1, <3>2, <4>1
    <3>5. it.key \in 1..(n + 1)
      BY <1>00, <1>01, <3>1, <3>3
    <3> QED
      <4> DEFINE k == it.key
      <4> HIDE DEF k
      <4>1. /\ Len(submits') = n + 1 /\ submits'[n + 1] = s
            /\ \A i \in 1..n : submits'[i] = submits[i]
        BY <1>00, <2>2
      <4>2. s.key = it.key /\ s.fingerprint = f /\ s.end = "open"
        OBVIOUS
      <4> HIDE DEF s, it, f
      <4>3. \A i \in 1..(n + 1) : submits'[i].key \in 1..i
        BY <1>00, <1>01, <3>5, <4>1, <4>2
      <4>4. \A i \in 2..(n + 1) : submits'[i].key = submits'[i - 1].key <=>
              submits'[i].fingerprint = submits'[i - 1].fingerprint /\ submits'[i - 1].end = "failed"
        <5>1. SUFFICES ASSUME NEW i \in 2..(n + 1)
                       PROVE  submits'[i].key = submits'[i - 1].key <=>
                                submits'[i].fingerprint = submits'[i - 1].fingerprint
                                /\ submits'[i - 1].end = "failed"
          OBVIOUS
        <5>2. CASE i = n + 1
          <6>1. i - 1 = n /\ n \in 1..n
            BY <1>00, <3>1, <5>2
          <6> QED
            BY <3>3, <3>4, <4>1, <4>2, <5>2, <6>1
        <5>3. CASE i # n + 1
          <6>1. i \in 1..n /\ i >= 2 /\ i - 1 \in 1..n
            BY <1>00, <5>3
          <6> QED
            BY <1>01, <4>1, <6>1
        <5> QED
          BY <5>2, <5>3
      <4>5. ask'.key = submits'[m].key /\ submits'[m].end = "open" /\ IntentIs(m)'
        BY <2>2, <2>2a, <3>3, <4>1, <4>2 DEF IntentIs
      <4> QED
        BY <1>00, <2>1, <2>2a, <4>1, <4>3, <4>4, <4>5 DEF SubmitsInv, RetriesReuseTheKey
  <2>4. CASE ~(intent # NoIntent /\ intent.fingerprint = f)
    <3>1. it = [fingerprint |-> f, key |-> n + 1]
      BY <2>4 DEF ResolveIntentKey
    <3>2. it.key = n + 1 /\ it.fingerprint = f
      BY <3>1
    <3>3. /\ Len(submits') = n + 1 /\ submits'[n + 1] = s
          /\ \A i \in 1..n : submits'[i] = submits[i]
      BY <1>00, <2>2
    <3>4. s.key = n + 1 /\ s.fingerprint = f /\ s.end = "open"
      BY <3>2
    <3>5. n > 0 => ~(f = submits[n].fingerprint /\ submits[n].end = "failed")
      <4>1. SUFFICES ASSUME n > 0, f = submits[n].fingerprint, submits[n].end = "failed" PROVE FALSE
        OBVIOUS
      <4>2. IntentIs(n)
        BY <1>01, <4>1
      <4>3. intent.fingerprint = f /\ intent.key = submits[n].key
        BY <4>1, <4>2 DEF IntentIs
      <4>4. intent.key # 0
        BY <1>00, <1>03, <4>1, <4>3
      <4> QED
        BY <2>4, <4>3, <4>4 DEF NoIntent
    <3>6. n > 0 => submits[n].key < n + 1
      BY <1>00, <1>01
    <3> HIDE DEF s, it, f
    <3>7. \A i \in 1..(n + 1) : submits'[i].key \in 1..i
      BY <1>00, <1>01, <3>3, <3>4
    <3>8. \A i \in 2..(n + 1) : submits'[i].key = submits'[i - 1].key <=>
            submits'[i].fingerprint = submits'[i - 1].fingerprint /\ submits'[i - 1].end = "failed"
      <4>1. SUFFICES ASSUME NEW i \in 2..(n + 1)
                     PROVE  submits'[i].key = submits'[i - 1].key <=>
                              submits'[i].fingerprint = submits'[i - 1].fingerprint
                              /\ submits'[i - 1].end = "failed"
        OBVIOUS
      <4>2. CASE i = n + 1
        <5>1. i - 1 = n /\ n \in 1..n /\ n > 0
          BY <1>00, <4>1, <4>2
        <5>2. submits'[i].key = n + 1 /\ submits'[i - 1] = submits[n] /\ submits[n].key # n + 1
          BY <1>00, <1>03, <3>3, <3>4, <3>6, <4>2, <5>1
        <5> QED
          BY <3>3, <3>4, <3>5, <4>2, <5>1, <5>2
      <4>3. CASE i # n + 1
        <5>1. i \in 1..n /\ i >= 2 /\ i - 1 \in 1..n
          BY <1>00, <4>3
        <5> QED
          BY <1>01, <3>3, <5>1
      <4> QED
        BY <4>2, <4>3
    <3>9. ask'.key = submits'[m].key /\ submits'[m].end = "open" /\ IntentIs(m)'
      BY <2>2, <2>2a, <3>1, <3>3, <3>4 DEF IntentIs
    <3> QED
      BY <1>00, <2>1, <2>2a, <3>3, <3>7, <3>8, <3>9 DEF SubmitsInv, RetriesReuseTheKey
  <2> QED
    BY <2>3, <2>4
<1>3. ASSUME ask # NoAsk, ask' = NoAsk, NEW e \in {"failed", "answered"}, submits' = Closed(e),
             intent' = IF e = "failed" THEN intent ELSE NoIntent
      PROVE  SubmitsInv' /\ RetriesReuseTheKey'
  <2>1. n > 0 /\ IntentIs(n)
    BY <1>02, <1>3
  <2>2. /\ Len(submits') = n
        /\ \A i \in 1..n : i # n => submits'[i] = submits[i]
        /\ submits'[n].end = e
        /\ \A i \in 1..n : /\ submits'[i].key = submits[i].key
                           /\ submits'[i].fingerprint = submits[i].fingerprint
    BY <1>00, <1>3, <2>1, ClosedSubmits
  <2>3. \A i \in 2..n : submits'[i].key = submits'[i - 1].key <=>
          submits'[i].fingerprint = submits'[i - 1].fingerprint /\ submits'[i - 1].end = "failed"
    <3>1. \A i \in 2..n : i \in 1..n /\ i >= 2 /\ i - 1 \in 1..n /\ i - 1 # n
      BY <1>00
    <3> QED
      BY <1>01, <2>2, <3>1
  <2>4. n \in 1..n
    BY <1>00, <2>1
  <2>5. e = "failed" => IntentIs(n)'
    BY <1>3, <2>1, <2>2, <2>4 DEF IntentIs
  <2> QED
    BY <1>0, <1>00, <1>01, <1>3, <2>1, <2>2, <2>3, <2>5 DEF SubmitsInv, RetriesReuseTheKey
<1>4. CASE AnswerArrives
  <2>1. intent.key = ask.key
    BY <1>02, <1>4 DEF AnswerArrives, IntentIs
  <2> QED
    BY <1>3, <1>4, <2>1 DEF AnswerArrives, ClearCompletedIntent
<1>5. CASE AskFails
  BY <1>3, <1>5 DEF AskFails
<1>6. ASSUME NEW l \in loads, Returns(l) PROVE SubmitsInv' /\ RetriesReuseTheKey'
  BY <1>1, <1>6 DEF Returns, ServeLoad, ListReturns, HistoryReturns, LoadFails
<1>7. CASE \/ Bootstrap \/ BootstrapFails \/ RouteChanges \/ StartNewProjectChat \/ UNCHANGED chatVars
           \/ ChooseFiles \/ EnsureConversation \/ UploadFile \/ UploadFails
  BY <1>1, <1>7 DEF Bootstrap, BootstrapFails, RouteChanges, StartNewProjectChat, chatVars,
                    ChooseFiles, EnsureConversation, UploadFile, UploadFails
<1>8. ASSUME (\E r \in Routes : Navigate(r)) \/ (\E k \in Keys : Run(k))
      PROVE  SubmitsInv' /\ RetriesReuseTheKey'
  BY <1>1, <1>8 DEF Navigate, Run
<1> QED
  BY <1>2, <1>4, <1>5, <1>6, <1>7, <1>8 DEF ChatNext

LEMMA ThreadStep ==
  ASSUME ChatInv, [ChatNext]_chatVars
  PROVE  LoadedThreadIsOfTheRoute' /\ ShownQuestionsAreAskedOrAnswered'
<1>0. ChatShape /\ LoadsInv /\ SubmitsInv /\ LoadedThreadIsOfTheRoute /\ ShownQuestionsAreAskedOrAnswered
  BY DEF ChatInv
<1> USE DEF tabVars, serverVars
<1> DEFINE n == Len(thread)
           Goal == LoadedThreadIsOfTheRoute /\ ShownQuestionsAreAskedOrAnswered
<1>00. thread \in Seq(Shown) /\ n \in Nat /\ DOMAIN thread = 1..n
  BY <1>0 DEF ChatShape
<1>01. \A i \in 1..n : thread[i] \in Shown
  BY <1>00
<1>02. /\ \A i \in 1..n : ~thread[i].temporary => route \in {thread[i].conv, "latest"}
       /\ \A i \in 1..n : thread[i].temporary /\ thread[i].role = "user" =>
            IF i = n THEN ask # NoAsk /\ ask.key = thread[i].ask
            ELSE thread[i + 1].role = "assistant" /\ thread[i + 1].ask = thread[i].ask
  BY <1>0, <1>00 DEF LoadedThreadIsOfTheRoute, ShownQuestionsAreAskedOrAnswered
<1>03. \A i \in 1..n : i # n => i + 1 \in 1..n
  <2>1. n \in Nat
    BY <1>00
  <2> HIDE DEF n
  <2> QED
    BY <2>1
<1>1. ASSUME thread' = thread, ask' = ask, route' = route PROVE Goal'
  BY <1>0, <1>1 DEF LoadedThreadIsOfTheRoute, ShownQuestionsAreAskedOrAnswered
<1>2. ASSUME thread' = << >> PROVE Goal'
  BY <1>2 DEF LoadedThreadIsOfTheRoute, ShownQuestionsAreAskedOrAnswered
<1>3. CASE Bootstrap \/ StartNewProjectChat
  BY <1>2, <1>3 DEF Bootstrap, StartNewProjectChat, StartLoad
<1>4. CASE RouteChanges
  <2>1. CASE wanted = route
    BY <1>1, <1>4, <2>1 DEF RouteChanges
  <2>2. CASE wanted # route /\ project # "known"
    BY <1>0, <1>2, <1>4, <2>2 DEF RouteChanges, LoadsInv
  <2>3. CASE wanted # route /\ project = "known"
    BY <1>2, <1>4, <2>3 DEF RouteChanges, StartLoad
  <2> QED
    BY <2>1, <2>2, <2>3
<1>5. ASSUME NEW l \in loads, HistoryReturns(l) PROVE Goal'
  <2>1. CASE ~IsCurrent(l)
    BY <1>1, <1>5, <2>1 DEF HistoryReturns
  <2>2. CASE IsCurrent(l)
    <3>1. thread' = l.reply /\ route' = route
      BY <1>5, <2>2 DEF HistoryReturns
    <3>2. /\ l.asked = route /\ l.asked \in {l.selected, "latest"} /\ l.reply \in Seq(Shown)
          /\ \A i \in 1..Len(l.reply) : l.reply[i].conv = l.selected /\ l.reply[i].temporary = FALSE
      BY <1>0, <1>5, <2>2 DEF HistoryReturns, LoadsInv, LoadInv, IsCurrent
    <3>3. DOMAIN l.reply = 1..Len(l.reply)
      BY <3>2
    <3> QED
      BY <3>1, <3>2, <3>3 DEF LoadedThreadIsOfTheRoute, ShownQuestionsAreAskedOrAnswered
  <2> QED
    BY <2>1, <2>2
<1>6. ASSUME NEW p \in Prompts, SubmitQuestion(p) PROVE Goal'
  <2> DEFINE k == ResolveIntentKey(Fingerprint(p)).key
             m == Message(conversation, "user", k, TRUE)
  <2>1. thread' = Append(thread, m) /\ ask' = [key |-> k] /\ route' = route /\ ask = NoAsk
    BY <1>6 DEF SubmitQuestion
  <2>2. m.temporary = TRUE /\ m.role = "user" /\ m.ask = k
    BY DEF Message
  <2>3. ask' # NoAsk
    <3> DEFINE f == Fingerprint(p)
    <3>1. Len(submits) \in Nat
      BY <1>0 DEF ChatShape
    <3>2. intent # NoIntent => intent.key \in Keys
      BY <1>0 DEF ChatShape
    <3>3. k = Len(submits) + 1 \/ k \in Keys
      <4>1. \/ ResolveIntentKey(f) = intent /\ intent # NoIntent
            \/ ResolveIntentKey(f) = [fingerprint |-> f, key |-> Len(submits) + 1]
        BY DEF ResolveIntentKey
      <4> QED
        BY <3>2, <4>1
    <3>4. k # 0
      BY <3>1, <3>3 DEF Keys
    <3> HIDE DEF k
    <3>5. ask'.key = k
      BY <2>1
    <3> QED
      BY <3>4, <3>5 DEF NoAsk
  <2> HIDE DEF k, m
  <2>4. /\ Len(thread') = n + 1 /\ DOMAIN thread' = 1..(n + 1) /\ thread'[n + 1] = m
        /\ \A i \in 1..n : thread'[i] = thread[i]
    BY <1>00, <2>1
  <2>5. LoadedThreadIsOfTheRoute'
    <3>1. SUFFICES ASSUME NEW i \in 1..(n + 1), ~thread'[i].temporary
                   PROVE  route' \in {thread'[i].conv, "latest"}
      BY <2>4 DEF LoadedThreadIsOfTheRoute
    <3>2. i \in 1..n
      BY <1>00, <2>2, <2>4, <3>1
    <3> QED
      BY <1>02, <2>1, <2>4, <3>1, <3>2
  <2>6. ShownQuestionsAreAskedOrAnswered'
    <3>1. SUFFICES ASSUME NEW i \in 1..(n + 1), thread'[i].temporary, thread'[i].role = "user"
                   PROVE  IF i = n + 1 THEN ask' # NoAsk /\ ask'.key = thread'[i].ask
                          ELSE thread'[i + 1].role = "assistant" /\ thread'[i + 1].ask = thread'[i].ask
      BY <2>4 DEF ShownQuestionsAreAskedOrAnswered
    <3>2. CASE i = n + 1
      BY <2>1, <2>2, <2>3, <2>4, <3>2
    <3>3. CASE i # n + 1
      <4>1. i \in 1..n /\ thread[i].temporary /\ thread[i].role = "user"
        BY <1>00, <2>4, <3>1, <3>3
      <4>2. i # n
        BY <1>02, <2>1, <4>1
      <4>3. i + 1 \in 1..n
        BY <1>03, <4>1, <4>2
      <4> QED
        BY <1>02, <2>4, <3>3, <4>1, <4>2, <4>3
    <3> QED
      BY <3>2, <3>3
  <2> QED
    BY <2>5, <2>6
<1>7. CASE AnswerArrives
  <2>1. ask.key \in Keys
    BY <1>0, <1>7, KeysOfRequests DEF AnswerArrives
  <2>2. runs[ask.key] \in Conversations
    BY <1>0, <1>7, <2>1 DEF AnswerArrives, ChatShape
  <2> DEFINE c == runs[ask.key]
             t == ThreadWithAnswer(c)
  <2>3. thread' = t /\ route' = route
    BY <1>7 DEF AnswerArrives
  <2>4. /\ t \in Seq(Shown) /\ Len(t) = n + 1 /\ t[n + 1] = Message(c, "assistant", ask.key, TRUE)
        /\ \A i \in 1..n : \A f \in {"role", "ask", "temporary"} : t[i][f] = thread[i][f]
        /\ \A i \in 1..n : ~thread[i].temporary => t[i] = thread[i]
    BY <1>0, <2>1, <2>2, AnswerShown
  <2> HIDE DEF c, t
  <2>5. DOMAIN t = 1..(n + 1) /\ t[n + 1].temporary = TRUE /\ t[n + 1].role = "assistant"
        /\ t[n + 1].ask = ask.key
    <3>1. DOMAIN t = 1..Len(t)
      BY <2>4
    <3> QED
      BY <2>4, <3>1 DEF Message
  <2>6. \A i \in 1..n : t[i].role = thread[i].role /\ t[i].ask = thread[i].ask
                        /\ t[i].temporary = thread[i].temporary
    BY <2>4
  <2>7. LoadedThreadIsOfTheRoute'
    <3>1. SUFFICES ASSUME NEW i \in 1..(n + 1), ~t[i].temporary
                   PROVE  route \in {t[i].conv, "latest"}
      BY <2>3, <2>5 DEF LoadedThreadIsOfTheRoute
    <3>2. i \in 1..n
      BY <1>00, <2>5, <3>1
    <3> QED
      BY <1>02, <2>4, <2>6, <3>1, <3>2
  <2>8. ShownQuestionsAreAskedOrAnswered'
    <3>1. SUFFICES ASSUME NEW i \in 1..(n + 1), t[i].temporary, t[i].role = "user"
                   PROVE  i # n + 1 /\ t[i + 1].role = "assistant" /\ t[i + 1].ask = t[i].ask
      BY <2>3, <2>4, <2>5 DEF ShownQuestionsAreAskedOrAnswered
    <3>2. i # n + 1 /\ i \in 1..n
      BY <1>00, <2>5, <3>1
    <3>3. thread[i].temporary /\ thread[i].role = "user"
      BY <2>6, <3>1, <3>2
    <3>4. CASE i = n
      BY <1>02, <2>5, <2>6, <3>2, <3>3, <3>4
    <3>5. CASE i # n
      <4>1. i + 1 \in 1..n
        BY <1>03, <3>2, <3>5
      <4> QED
        BY <1>02, <2>6, <3>2, <3>3, <3>5, <4>1
    <3> QED
      BY <3>2, <3>4, <3>5
  <2> QED
    BY <2>7, <2>8
<1>8. CASE AskFails
  <2> DEFINE K == {m \in ToSet(thread) : ~IsQuestion(m, ask.key)}
             t == Keep(thread, K)
  <2>1. thread' = t /\ route' = route
    BY <1>8 DEF AskFails, ThreadTakenBack
  <2>2. t \in Seq(Shown)
    BY <1>00, Kept
  <2>3. PICK g : KeptAt(g, thread, K)
    BY <1>00, Kept
  <2>4. \A i \in 1..n : thread[i] \in K <=> ~IsQuestion(thread[i], ask.key)
    BY <1>00 DEF ToSet
  <2> HIDE DEF K
  <2>5. /\ g \in [1..Len(t) -> 1..n]
        /\ \A i, j \in 1..Len(t) : i < j => g[i] < g[j]
        /\ \A j \in 1..Len(t) : t[j] = thread[g[j]]
        /\ \A i \in 1..n : thread[i] \in K <=> \E j \in 1..Len(t) : g[j] = i
    BY <2>3 DEF KeptAt
  <2> HIDE DEF t
  <2>6. Len(t) \in Nat /\ DOMAIN t = 1..Len(t)
    BY <2>2
  <2>7. LoadedThreadIsOfTheRoute'
    <3>1. SUFFICES ASSUME NEW j \in 1..Len(t), ~t[j].temporary
                   PROVE  route \in {t[j].conv, "latest"}
      BY <2>1, <2>6 DEF LoadedThreadIsOfTheRoute
    <3> QED
      BY <1>02, <2>5, <3>1
  <2>8. ShownQuestionsAreAskedOrAnswered'
    <3>1. SUFFICES ASSUME NEW j \in 1..Len(t), t[j].temporary, t[j].role = "user"
                   PROVE  j # Len(t) /\ t[j + 1].role = "assistant" /\ t[j + 1].ask = t[j].ask
      BY <2>1, <2>6 DEF ShownQuestionsAreAskedOrAnswered
    <3>2. PICK i \in 1..n : i = g[j]
      BY <2>5
    <3>3. t[j] = thread[i] /\ thread[i] \in K
      BY <2>5, <3>2
    <3>4. thread[i].ask # ask.key
      BY <2>4, <3>1, <3>3 DEF IsQuestion
    <3>5. i # n /\ thread[i + 1].role = "assistant" /\ thread[i + 1].ask = thread[i].ask
      BY <1>02, <3>1, <3>3, <3>4
    <3>6. i + 1 \in 1..n
      BY <1>03, <3>5
    <3>7. thread[i + 1] \in K
      BY <2>4, <3>5, <3>6 DEF IsQuestion
    <3>8. PICK h \in 1..Len(t) : g[h] = i + 1
      BY <2>5, <3>6, <3>7
    <3>9. \A a, b \in 1..Len(t) : g[a] \in Nat /\ (a < b => g[a] < g[b])
      BY <1>00, <2>5
    <3>10. h > j
      <4>1. h \in Nat /\ j \in Nat /\ i \in Nat /\ (h < j \/ h = j \/ h > j)
        BY <2>6
      <4>2. ~(h < j)
        BY <3>2, <3>8, <3>9, <4>1
      <4>3. h # j
        BY <3>2, <3>8, <4>1
      <4> QED
        BY <4>1, <4>2, <4>3
    <3>11. j + 1 \in 1..Len(t) /\ j # Len(t)
      <4>1. \A m \in Nat : \A a, b \in 1..m : b > a => a + 1 \in 1..m /\ a # m
        OBVIOUS
      <4> QED
        BY <2>6, <3>10, <4>1
    <3>12. h = j + 1
      <4>1. CASE j + 1 < h
        <5>1. j < j + 1 /\ i \in Nat
          BY <1>00
        <5>2. g[j] < g[j + 1] /\ g[j + 1] < g[h] /\ g[j + 1] \in Nat
          BY <3>9, <3>11, <4>1, <5>1
        <5> QED
          BY <3>2, <3>8, <5>1, <5>2
      <4>2. CASE ~(j + 1 < h)
        BY <2>6, <3>10, <4>2
      <4> QED
        BY <4>1, <4>2
    <3>13. t[j + 1] = thread[i + 1]
      BY <2>5, <3>8, <3>12
    <3> QED
      BY <3>3, <3>5, <3>11, <3>13
  <2> QED
    BY <2>7, <2>8
<1>9. ASSUME NEW l \in loads, ServeLoad(l) \/ ListReturns(l) \/ LoadFails(l) PROVE Goal'
  BY <1>1, <1>9 DEF ServeLoad, ListReturns, LoadFails
<1>10. CASE \/ BootstrapFails \/ ChooseFiles \/ EnsureConversation \/ UploadFile \/ UploadFails
            \/ UNCHANGED chatVars
  BY <1>1, <1>10 DEF BootstrapFails, ChooseFiles, EnsureConversation, UploadFile, UploadFails, chatVars
<1>11. ASSUME (\E r \in Routes : Navigate(r)) \/ (\E k \in Keys : Run(k)) PROVE Goal'
  BY <1>1, <1>11 DEF Navigate, Run
<1> QED
  BY <1>3, <1>4, <1>5, <1>6, <1>7, <1>8, <1>9, <1>10, <1>11 DEF ChatNext, Returns

LEMMA ChatStart == ChatInit => ChatInv
<1> SUFFICES ASSUME ChatInit PROVE ChatInv
  OBVIOUS
<1> USE DEF ChatInit
<1>1. << >> \in Seq(Shown) /\ << >> \in Seq(Conversations) /\ Len(<< >>) = 0
  OBVIOUS
<1>2. loads \subseteq Requests /\ generation \in Nat
  <2>1. NewLoad(1, "latest") \in Requests
    BY <1>1 DEF NewLoad, Requests, Routes
  <2> QED
    BY <2>1
<1>3. recent \in Seq(Conversations) /\ thread \in Seq(Shown)
  <2>1. \A c \in Conversations : <<c>> \in Seq(Conversations)
    OBVIOUS
  <2>2. recent = << >> \/ \E c \in Conversations : recent = <<c>>
    OBVIOUS
  <2> QED
    BY <1>1, <2>1, <2>2
<1>4. stored \in [Conversations -> Seq(Keys \cup {Old})]
  <2>1. <<Old>> \in Seq(Keys \cup {Old}) /\ << >> \in Seq(Keys \cup {Old})
    OBVIOUS
  <2> QED
    BY <2>1
<1>5. runs \in [Keys -> Conversations \cup {NoConversation}]
      /\ attached \in Seq(Conversations \cup {NoConversation})
  OBVIOUS
<1>6. submits \in Seq([fingerprint : Asked, key : Keys, end : {"open", "failed", "answered"}])
  OBVIOUS
<1>7. ChatShape
  BY <1>2, <1>3, <1>4, <1>5, <1>6
     DEF ChatShape, NoAsk, NoIntent, NoUpload, Routes
<1>8. LoadsInv
  <2>1. project # "known" => loads = {} /\ thread = << >> /\ ask = NoAsk
    OBVIOUS
  <2>2. ASSUME NEW l \in loads PROVE LoadInv(l)
    <3>1. l = NewLoad(1, "latest") /\ generation = 1 /\ route = "latest"
      OBVIOUS
    <3>2. /\ l.generation = 1 /\ l.asked = "latest" /\ l.served = FALSE
          /\ l.selected = IF "latest" \in Conversations THEN "latest" ELSE NoConversation
      BY <3>1 DEF NewLoad
    <3> QED
      BY <3>1, <3>2 DEF LoadInv
  <2> QED
    BY <2>1, <2>2 DEF LoadsInv
<1>9. UploadInv /\ SubmitsInv
  BY <1>1, Values DEF UploadInv, SubmitsInv, NoUpload
<1>10. LoadedThreadIsOfTheRoute /\ ShownQuestionsAreAskedOrAnswered /\ RetriesReuseTheKey
  BY <1>1 DEF LoadedThreadIsOfTheRoute, ShownQuestionsAreAskedOrAnswered, RetriesReuseTheKey
<1> QED
  BY <1>7, <1>8, <1>9, <1>10 DEF ChatInv

LEMMA ChatInductive == ChatSpec => []ChatInv
<1>1. ChatInv /\ [ChatNext]_chatVars => ChatInv'
  BY ChatShapeStep, LoadsStep, UploadStep, SubmitsStep, ThreadStep DEF ChatInv
<1> QED
  BY <1>1, ChatStart, PTL DEF ChatSpec

\* What the tab shows belongs together: the loaded messages are of the route, a
\* question shown before it was stored is the one being asked or its answer
\* follows, and the files chosen together are of one conversation, however
\* responses overtake each other and wherever the user goes meanwhile.
THEOREM ChatThreadsAreConsistent == ChatSpec => []ThreadsAreConsistent
<1>1. ChatInv => ThreadsAreConsistent
  <2> SUFFICES ASSUME ChatInv PROVE ThreadsAreConsistent
    OBVIOUS
  <2>0. ChatShape /\ LoadsInv /\ UploadInv
    BY DEF ChatInv
  <2>1. ChatTypeOK
    <3>1. thread \in Seq(Shown) /\ DOMAIN thread = 1..Len(thread)
      BY <2>0 DEF ChatShape
    <3>2. \A i \in DOMAIN thread : thread[i] \in Shown
      BY <3>1
    <3>3. Existing \subseteq Conversations
      <4>1. recent \in Seq(Conversations)
        BY <2>0 DEF ChatShape
      <4> QED
        BY <4>1 DEF Existing, ToSet
    <3> QED
      BY <2>0, <3>2, <3>3 DEF ChatTypeOK, ChatShape, LoadsInv, LoadInv, Shown
  <2>2. FilesStayTogether
    <3>1. attached \in Seq(Conversations \cup {NoConversation}) /\ DOMAIN attached = 1..Len(attached)
      BY <2>0 DEF ChatShape
    <3> QED
      BY <2>0, <3>1 DEF UploadInv, FilesStayTogether
  <2> QED
    BY <2>1, <2>2 DEF ChatInv, ThreadsAreConsistent
<1> QED
  BY <1>1, ChatInductive, PTL

\* A retry after a failure repeats its key, and nothing else does: the server runs
\* a question once, and answers none with the answer to another.
THEOREM ChatRetriesReuseTheKey == ChatSpec => []RetriesReuseTheKey
<1>1. ChatInv => RetriesReuseTheKey
  BY DEF ChatInv
<1> QED
  BY <1>1, ChatInductive, PTL

-----------------------------------------------------------------------------
(* The Wiki.                                                               *)

PageIds(g) == Docs \X (1..g) \X Names
PageClaims == [object : Objects, sources : SUBSET Docs, conflicting : BOOLEAN]
PageRelations == [between : Names \X Names, sources : SUBSET Docs]

\* Pages with sources among D and identifiers of generations up to g.
PageSet(D, g) ==
  [id : PageIds(g), title : Names, aliases : SUBSET Names, claims : SUBSET PageClaims,
   relations : SUBSET PageRelations, sources : SUBSET D, removes : SUBSET PageIds(g)]

Exact(C) == \A c \in C : c.conflicting <=> \E b \in C : b.object # c.object
CitedBy(S, D) == \A c \in S : c.sources # {} /\ c.sources \subseteq D
Sound(p) == /\ p.title \notin p.aliases /\ Exact(p.claims)
            /\ CitedBy(p.claims, p.sources) /\ CitedBy(p.relations, p.sources)

UniqueIds(s) == \A i, j \in 1..Len(s) : s[i].id = s[j].id => i = j

\* A page continues every stored page that it replaces or removes.
Keeping(q, stored_pages) ==
  \A p \in ToSet(stored_pages) : p.id \in q.removes \cup {q.id} => Continues(q, p)
GoodPages(D, g, ps) == {p \in PageSet(D, g) : Sound(p) /\ Keeping(p, ps)}

\* A page is not removed by a later one.
Ordered(s) == \A i, j \in 1..Len(s) : i < j => s[i].id \notin s[j].removes

SourcesOf(ps) == UNION {p.sources : p \in ToSet(ps)}

\* What the compiler hands over for the pages ps.
Result(A, D, g, ps) == A \in Seq(GoodPages(D, g, ps)) /\ UniqueIds(A) /\ Ordered(A)

\* Outside C everything is in the Wiki or deleted; all of C is stored or deleted.
Misses(C) == \A e \in Docs \ C : raw[e] <= wiki \/ docStatus[e] = "deleted"
AreStored(C) == \A e \in C : raw[e] > 0 \/ docStatus[e] = "deleted"

CompilingInv(k) ==
  /\ k.docs \in Seq(Docs) /\ k.doc \in ToSet(k.docs)
  /\ \A i, j \in 1..Len(k.docs) : k.docs[i] = k.docs[j] => i = j
  /\ AreStored(ToSet(k.docs) \ {k.doc})
  /\ k.base = knowledge => k.wiki = wiki /\ k.pages = pages /\ Misses(ToSet(k.docs))

CompiledInv(k) ==
  k.result # NoCompile =>
    /\ k.result.covers \subseteq Docs /\ k.doc \in k.result.covers
    /\ AreStored(k.result.covers \ {k.doc})
    /\ k.base = knowledge =>
         /\ k.wiki = wiki /\ Misses(k.result.covers)
         /\ Result(k.result.affected, SourcesOf(pages) \cup k.result.covers, knowledge + 1, pages)

LocalInv(k) ==
  /\ k.pc \in {"idle", "compiling", "compiled", "stored"}
  /\ k.pc # "idle" => k.doc \in Docs
  /\ k.pc \in {"compiling", "compiled"} => k.base \in 0..knowledge
  /\ k.pc = "compiling" => CompilingInv(k)
  /\ k.pc = "compiled" => CompiledInv(k)
WorkersInv == \A w \in Workers : LocalInv(worker[w])

WikiShape ==
  /\ knowledge \in 0..MaxStores /\ wiki \in 0..knowledge
  /\ overview \in [Docs -> 0..wiki] /\ raw \in [Docs -> 0..knowledge]
  /\ docStatus \in [Docs -> {"uploaded", "parsing", "indexing", "ready", "deleted"}]
  /\ owner \in [Docs -> Workers \cup {NoDoc}]
  /\ worker = [w \in Workers |-> worker[w]]

PagesInv ==
  /\ pages \in Seq(PageSet(Docs, knowledge)) /\ UniqueIds(pages)
  /\ \A p \in ToSet(pages) : Sound(p) /\ p.removes = {}
  /\ \A d \in SourcesOf(pages) : overview[d] > 0
  /\ AreStored(SourcesOf(pages))

WikiInv == WikiShape /\ PagesInv /\ WorkersInv /\ FreshWikiCoversEveryDocument

LEMMA MinOf ==
  ASSUME NEW n \in Nat, NEW S \in SUBSET (1..n), S # {}
  PROVE  Min(S) \in S /\ \A y \in S : Min(S) <= y
<1> DEFINE R == {n + 1 - x : x \in S}
<1>1. R \in SUBSET (1..n) /\ R # {}
  <2>1. \A x \in 1..n : n + 1 - x \in 1..n
    OBVIOUS
  <2>2. PICK x \in S : TRUE
    OBVIOUS
  <2>3. n + 1 - x \in R
    OBVIOUS
  <2> QED
    BY <2>1, <2>3
<1>2. Max(R) \in R /\ \A y \in R : y <= Max(R)
  <2> HIDE DEF R
  <2> QED
    BY <1>1, MaxOf
<1>3. PICK x \in S : Max(R) = n + 1 - x
  BY <1>2
<1>4. \A y \in S : n + 1 - y \in R /\ x <= y
  <2>1. \A y \in S : n + 1 - y \in R
    OBVIOUS
  <2>2. \A y \in S : n + 1 - y <= n + 1 - x
    BY <1>2, <1>3, <2>1
  <2>3. \A y \in S : y \in Nat /\ x \in Nat
    OBVIOUS
  <2> HIDE DEF R
  <2> QED
    BY <2>1, <2>2, <2>3
<1>5. Min(S) \in S /\ \A y \in S : Min(S) =< y
  BY <1>4 DEF Min
<1> QED
  BY <1>5

\* The values that a fold passes, in their order.
RunAlong(r, T, n, base, G) ==
  /\ r \in [0..n -> T] /\ r[0] = base
  /\ \A i \in 1..n : r[i - 1] \in T /\ r[i] = G[i][r[i - 1]]

Climbs(h, T, n, base, G) ==
  /\ h[{}] = base
  /\ \A S \in SUBSET (1..n) : S # {} /\ h[S \ {Max(S)}] \in T => h[S] = G[Max(S)][h[S \ {Max(S)}]]
RunTo(r, T, n, base, G, end) == RunAlong(r, T, n, base, G) /\ r[n] = end /\ end \in T

LEMMA RunOf ==
  ASSUME NEW T, NEW n \in Nat, NEW base \in T, NEW G \in [1..n -> [T -> T]],
         NEW h, Climbs(h, T, n, base, G)
  PROVE  \E r : RunTo(r, T, n, base, G, h[1..n])
<1> DEFINE r == [i \in 0..n |-> h[1..i]]
<1>1. r[0] = base /\ r[n] = h[1..n]
  <2>1. 1..0 = {} /\ 0 \in 0..n /\ n \in 0..n
    OBVIOUS
  <2> QED
    BY <2>1 DEF Climbs
<1>2. ASSUME NEW i \in 1..n, r[i - 1] \in T PROVE r[i] = G[i][r[i - 1]]
  <2>1. i \in Nat /\ i > 0 /\ i \in 0..n /\ i - 1 \in 0..n /\ 1..i \in SUBSET (1..n) /\ 1..i # {}
    OBVIOUS
  <2>2. Max(1..i) = i /\ (1..i) \ {i} = 1..(i - 1)
    BY <2>1, TopOf
  <2>3. r[i] = h[1..i] /\ r[i - 1] = h[1..(i - 1)]
    BY <2>1
  <2> QED
    BY <1>2, <2>1, <2>2, <2>3 DEF Climbs
<1>3. r = [i \in 0..n |-> r[i]]
  OBVIOUS
<1> HIDE DEF r
<1>4. \A i \in 0..n : r[i] \in T
  <2> DEFINE Good == {i \in 0..n : r[i] \in T}
  <2>1. 0 \in Good
    <3>1. 0 \in 0..n
      OBVIOUS
    <3> QED
      BY <1>1, <3>1
  <2>2. \A i \in 0..n : i < n /\ i \in Good => i + 1 \in Good
    <3>1. SUFFICES ASSUME NEW i \in 0..n, i < n, r[i] \in T PROVE r[i + 1] \in T /\ i + 1 \in 0..n
      OBVIOUS
    <3>2. i + 1 \in 1..n /\ (i + 1) - 1 = i /\ i + 1 \in 0..n
      BY <3>1
    <3>3. r[i + 1] = G[i + 1][r[i]]
      BY <1>2, <3>1, <3>2
    <3> QED
      BY <3>1, <3>2, <3>3
  <2> HIDE DEF Good
  <2>3. \A i \in 0..n : i \in Good
    BY <2>1, <2>2, UpTo
  <2> QED
    BY <2>3 DEF Good
<1>5. \A i \in 1..n : r[i - 1] \in T /\ r[i] = G[i][r[i - 1]]
  <2>1. \A i \in 1..n : i - 1 \in 0..n
    OBVIOUS
  <2> QED
    BY <1>2, <1>4, <2>1
<1>6. RunAlong(r, T, n, base, G)
  BY <1>1, <1>3, <1>4, <1>5 DEF RunAlong
<1>7. n \in 0..n
  OBVIOUS
<1>8. RunTo(r, T, n, base, G, h[1..n])
  BY <1>1, <1>4, <1>6, <1>7 DEF RunTo
<1> QED
  BY <1>8
-----------------------------------------------------------------------------
(* Sets as sequences.                                                      *)

LEMMA ToSetOf ==
  ASSUME NEW V, NEW s \in Seq(V)
  PROVE  /\ Len(s) \in Nat /\ DOMAIN s = 1..Len(s)
         /\ ToSet(s) = {s[i] : i \in 1..Len(s)} /\ ToSet(s) \subseteq V
         /\ \A i \in 1..Len(s) : s[i] \in V /\ s[i] \in ToSet(s)
         /\ \A x \in ToSet(s) : \E i \in 1..Len(s) : x = s[i]
         /\ IsFiniteSet(ToSet(s))
<1>1. Len(s) \in Nat /\ DOMAIN s = 1..Len(s) /\ \A i \in 1..Len(s) : s[i] \in V
  OBVIOUS
<1>2. ToSet(s) = {s[i] : i \in 1..Len(s)}
  BY <1>1 DEF ToSet
<1>3. IsFiniteSet(ToSet(s))
  <2>1. s \in Surjection(1..Len(s), ToSet(s))
    BY <1>1, <1>2 DEF Surjection
  <2>2. IsFiniteSet(1..Len(s))
    BY <1>1, FS_Interval
  <2> QED
    BY <2>1, <2>2, FS_Surjection
<1> QED
  BY <1>1, <1>2, <1>3

IsInjection(s, S) == s \in [1..Cardinality(S) -> S] /\ \A i, j \in 1..Cardinality(S) : s[i] = s[j] => i = j
Enumerates(s, S) == s \in Seq(S) /\ ToSet(s) = S /\ \A i, j \in 1..Len(s) : s[i] = s[j] => i = j

LEMMA InjectionEnumerates ==
  ASSUME NEW S, IsFiniteSet(S), NEW s, IsInjection(s, S)
  PROVE  Enumerates(s, S)
<1> DEFINE n == Cardinality(S)
<1>1. n \in Nat
  BY FS_CardinalityType
<1>2. s \in [1..n -> S] /\ \A i, j \in 1..n : s[i] = s[j] => i = j
  BY DEF IsInjection
<1>3. s \in Injection(1..n, S)
  BY <1>2 DEF Injection, IsInjective
<1>4. IsFiniteSet(1..n) /\ Cardinality(1..n) = n
  <2> HIDE DEF n
  <2> QED
    BY <1>1, FS_Interval
<1>5. s \in Surjection(1..n, S)
  BY <1>3, <1>4, FS_Injection
<1> HIDE DEF n
<1>6. s \in Seq(S) /\ Len(s) = n
  BY <1>1, <1>2
<1>7. ToSet(s) = S
  BY <1>2, <1>5, <1>6 DEF ToSet, Surjection
<1> QED
  BY <1>2, <1>6, <1>7 DEF Enumerates

LEMMA SetToSeqOf ==
  ASSUME NEW S, IsFiniteSet(S)
  PROVE  Enumerates(SetToSeq(S), S)
<1> DEFINE n == Cardinality(S)
<1>1. \E f \in [1..n -> S] : IsInjective(f)
  BY FS_CardinalityType DEF ExistsBijection, Bijection, Injection
<1>2. SetToSeq(S) \in [1..n -> S] /\ IsInjective(SetToSeq(S))
  BY <1>1 DEF SetToSeq
<1>3. IsInjection(SetToSeq(S), S)
  BY <1>2 DEF IsInjection, IsInjective
<1> QED
  BY <1>3, InjectionEnumerates

LEMMA SetToSeqsOf ==
  ASSUME NEW S, IsFiniteSet(S), NEW s \in SetToSeqs(S)
  PROVE  Enumerates(s, S)
<1>1. IsInjection(s, S)
  BY DEF SetToSeqs, IsInjection
<1> QED
  BY <1>1, InjectionEnumerates

\* What a filter keeps, as sets and as positions.
LEMMA KeptSet ==
  ASSUME NEW V, NEW s \in Seq(V), NEW K
  PROVE  /\ Keep(s, K) \in Seq(V) /\ ToSet(Keep(s, K)) = ToSet(s) \cap K
<1>1. Keep(s, K) \in Seq(V)
  BY Kept
<1>2. PICK g : KeptAt(g, s, K)
  BY Kept
<1> DEFINE t == Keep(s, K)
<1>3. /\ g \in [1..Len(t) -> 1..Len(s)]
      /\ \A j \in 1..Len(t) : t[j] = s[g[j]]
      /\ \A i \in 1..Len(s) : s[i] \in K <=> \E j \in 1..Len(t) : g[j] = i
  BY <1>2 DEF KeptAt
<1>4. ToSet(t) = {t[i] : i \in 1..Len(t)} /\ ToSet(s) = {s[i] : i \in 1..Len(s)}
  BY <1>1, ToSetOf
<1> HIDE DEF t
<1>5. \A j \in 1..Len(t) : t[j] \in ToSet(s) /\ t[j] \in K
  BY <1>3, <1>4
<1>6. \A i \in 1..Len(s) : s[i] \in K => s[i] \in ToSet(t)
  BY <1>3, <1>4
<1>7. ToSet(t) = ToSet(s) \cap K
  BY <1>4, <1>5, <1>6
<1> QED
  BY <1>1, <1>7 DEF t

-----------------------------------------------------------------------------
(* Pages in sequences.                                                     *)

LEMMA WithoutOf ==
  ASSUME NEW V, NEW s \in Seq(V), NEW ids
  PROVE  /\ Without(s, ids) \in Seq(V)
         /\ ToSet(Without(s, ids)) = {p \in ToSet(s) : p.id \notin ids}
         /\ UniqueIds(s) => UniqueIds(Without(s, ids))
         /\ Ordered(s) => Ordered(Without(s, ids))
<1> DEFINE K == {p \in ToSet(s) : p.id \notin ids}
           t == Keep(s, K)
<1>0. Without(s, ids) = t
  BY DEF Without
<1>1. t \in Seq(V) /\ ToSet(t) = ToSet(s) \cap K
  BY KeptSet
<1>2. PICK g : KeptAt(g, s, K)
  BY Kept
<1>3. /\ g \in [1..Len(t) -> 1..Len(s)]
      /\ \A i, j \in 1..Len(t) : i < j => g[i] < g[j]
      /\ \A j \in 1..Len(t) : t[j] = s[g[j]]
  BY <1>2 DEF KeptAt
<1>4. ToSet(t) = {p \in ToSet(s) : p.id \notin ids}
  BY <1>1
<1> HIDE DEF t, K
<1>5. Len(t) \in Nat /\ Len(s) \in Nat
  BY <1>1
<1>6. UniqueIds(s) => UniqueIds(t)
  <2>1. SUFFICES ASSUME UniqueIds(s), NEW i \in 1..Len(t), NEW j \in 1..Len(t), t[i].id = t[j].id
                 PROVE  i = j
    BY DEF UniqueIds
  <2>2. g[i] = g[j]
    BY <1>3, <2>1 DEF UniqueIds
  <2>3. i \in Nat /\ j \in Nat /\ g[i] \in Nat
    BY <1>3, <1>5
  <2> QED
    BY <1>3, <2>2, <2>3
<1>7. Ordered(s) => Ordered(t)
  BY <1>3 DEF Ordered
<1> QED
  BY <1>0, <1>1, <1>4, <1>6, <1>7

LEMMA UpsertOf ==
  ASSUME NEW V, NEW s \in Seq(V), NEW p \in V, UniqueIds(s)
  PROVE  /\ Upsert(s, p) \in Seq(V)
         /\ ToSet(Upsert(s, p)) = {q \in ToSet(s) : q.id # p.id} \cup {p}
         /\ UniqueIds(Upsert(s, p))
         /\ Ordered(s) /\ (\A q \in ToSet(s) : q.id # p.id => q.id \notin p.removes)
              => Ordered(Upsert(s, p))
<1> DEFINE n == Len(s)
           t == Upsert(s, p)
<1>1. n \in Nat /\ DOMAIN s = 1..n /\ \A i \in 1..n : s[i] \in V
  OBVIOUS
<1>2. \A i, j \in 1..n : s[i].id = s[j].id => i = j
  BY DEF UniqueIds
<1>3. ToSet(s) = {s[i] : i \in 1..n}
  BY ToSetOf
<1>4. CASE \E k \in DOMAIN s : s[k].id = p.id
  <2>1. PICK k \in 1..n : s[k].id = p.id
    BY <1>1, <1>4
  <2>2. t = [i \in 1..n |-> IF s[i].id = p.id THEN p ELSE s[i]]
    BY <1>1, <1>4 DEF Upsert
  <2> HIDE DEF t
  <2>3. t \in Seq(V) /\ Len(t) = n
    <3> HIDE DEF n
    <3>1. t \in [1..n -> V]
      BY <1>1, <2>2
    <3> QED
      BY <1>1, <2>2, <3>1
  <2>4. t[k] = p /\ \A i \in 1..n : i # k => t[i] = s[i] /\ s[i].id # p.id
    BY <1>2, <2>1, <2>2
  <2>5. ToSet(t) = {t[i] : i \in 1..n}
    BY <2>3, ToSetOf
  <2> HIDE DEF n
  <2>6. ToSet(t) = {q \in ToSet(s) : q.id # p.id} \cup {p}
    <3>1. ASSUME NEW q \in ToSet(t) PROVE q = p \/ (q \in ToSet(s) /\ q.id # p.id)
      BY <1>3, <2>4, <2>5
    <3>2. ASSUME NEW q \in ToSet(s), q.id # p.id PROVE q \in ToSet(t)
      BY <1>3, <2>1, <2>4, <2>5, <3>2
    <3>3. p \in ToSet(t)
      BY <2>4, <2>5
    <3> QED
      BY <3>1, <3>2, <3>3
  <2>7. UniqueIds(t)
    <3>1. \A i \in 1..n : t[i].id = s[i].id
      BY <2>1, <2>4
    <3> QED
      BY <1>2, <2>3, <3>1 DEF UniqueIds
  <2>8. ASSUME Ordered(s), \A q \in ToSet(s) : q.id # p.id => q.id \notin p.removes
        PROVE  Ordered(t)
    <3>1. SUFFICES ASSUME NEW i \in 1..n, NEW j \in 1..n, i < j PROVE t[i].id \notin t[j].removes
      BY <2>3 DEF Ordered
    <3>2. t[i].id = s[i].id /\ s[i] \in ToSet(s)
      BY <1>3, <2>1, <2>4
    <3>3. i # j
      BY <1>1, <3>1
    <3>4. CASE j = k
      BY <2>4, <2>8, <3>2, <3>3, <3>4
    <3>5. CASE j # k
      BY <2>4, <2>8, <3>1, <3>2, <3>5 DEF Ordered, n
    <3> QED
      BY <3>4, <3>5
  <2> QED
    BY <2>3, <2>6, <2>7, <2>8 DEF t
<1>5. CASE ~ \E k \in DOMAIN s : s[k].id = p.id
  <2>1. \A i \in 1..n : s[i].id # p.id
    BY <1>1, <1>5
  <2>2. t = Append(s, p)
    BY <1>5 DEF Upsert
  <2> HIDE DEF t
  <2>3. t \in Seq(V) /\ Len(t) = n + 1 /\ t[n + 1] = p /\ \A i \in 1..n : t[i] = s[i]
    BY <2>2
  <2>4. ToSet(t) = {t[i] : i \in 1..(n + 1)}
    BY <2>3, ToSetOf
  <2> HIDE DEF n
  <2>5. n + 1 \in 1..(n + 1) /\ \A i \in 1..(n + 1) : i = n + 1 \/ i \in 1..n
    BY <1>1
  <2>6. \A i \in 1..n : i \in 1..(n + 1) /\ i # n + 1 /\ ~ (n + 1 < i)
    BY <1>1
  <2>7. ToSet(t) = {q \in ToSet(s) : q.id # p.id} \cup {p}
    <3>1. ASSUME NEW q \in ToSet(t) PROVE q = p \/ (q \in ToSet(s) /\ q.id # p.id)
      BY <1>3, <2>1, <2>3, <2>4, <2>5
    <3>2. ASSUME NEW q \in ToSet(s) PROVE q \in ToSet(t)
      BY <1>3, <2>3, <2>4, <2>6
    <3>3. p \in ToSet(t)
      BY <2>3, <2>4, <2>5
    <3> QED
      BY <3>1, <3>2, <3>3
  <2>8. UniqueIds(t)
    BY <1>2, <2>1, <2>3, <2>5 DEF UniqueIds
  <2>9. ASSUME Ordered(s), \A q \in ToSet(s) : q.id # p.id => q.id \notin p.removes
        PROVE  Ordered(t)
    <3>1. SUFFICES ASSUME NEW i \in 1..(n + 1), NEW j \in 1..(n + 1), i < j
                   PROVE t[i].id \notin t[j].removes
      BY <2>3 DEF Ordered
    <3>2. i \in 1..n
      BY <1>1, <3>1
    <3>3. s[i] \in ToSet(s) /\ t[i] = s[i]
      BY <1>3, <2>3, <3>2
    <3>4. CASE j = n + 1
      BY <2>1, <2>3, <2>9, <3>2, <3>3, <3>4
    <3>5. CASE j \in 1..n
      BY <2>3, <2>9, <3>1, <3>2, <3>5 DEF Ordered, n
    <3> QED
      BY <2>5, <3>4, <3>5
  <2> QED
    BY <2>3, <2>7, <2>8, <2>9 DEF t
<1> QED
  BY <1>4, <1>5

-----------------------------------------------------------------------------
(* Merging claims and relations.                                           *)

LEMMA SeveralObjects ==
  ASSUME NEW S, IsFiniteSet(S)
  PROVE  Cardinality(S) > 1 <=> \E x, y \in S : x # y
<1>1. CASE S = {}
  <2>1. Cardinality(S) = 0
    BY <1>1, FS_EmptySet
  <2> QED
    BY <1>1, <2>1
<1>2. CASE S # {}
  <2>1. PICK x \in S : TRUE
    BY <1>2
  <2>2. Cardinality(S) \in Nat /\ Cardinality(S) # 0
    BY <1>2, FS_CardinalityType, FS_EmptySet
  <2>3. CASE \E y \in S : y # x
    <3>1. Cardinality(S) # 1
      <4>1. SUFFICES ASSUME Cardinality(S) = 1 PROVE FALSE
        OBVIOUS
      <4>2. \E z : S = {z}
        BY <4>1, FS_Singleton
      <4> QED
        BY <2>1, <2>3, <4>2
    <3> QED
      BY <2>2, <2>3, <3>1
  <2>4. CASE ~ \E y \in S : y # x
    <3>1. S = {x}
      BY <2>1, <2>4
    <3>2. Cardinality(S) = 1
      BY <3>1, FS_Singleton
    <3> QED
      BY <3>1, <3>2
  <2> QED
    BY <2>3, <2>4
<1> QED
  BY <1>1, <1>2

\* A claim that is marked contradicts another one.
Marked(C) == \A c \in C : c.conflicting => \E b \in C : b.object # c.object
MergesClaims(M, C, D) ==
  /\ M \in SUBSET PageClaims /\ Exact(M)
  /\ CitedBy(C, D) => CitedBy(M, D)
  /\ \A c \in C : \E b \in M : b.object = c.object /\ c.sources \subseteq b.sources
  /\ \A b \in M : \E c \in C : b.object = c.object

LEMMA MergeClaimsOf ==
  ASSUME WikiAssumption, NEW old \in SUBSET PageClaims, NEW new \in SUBSET PageClaims,
         Marked(old \cup new), NEW D
  PROVE  MergesClaims(MergeClaims(old, new), old \cup new, D)
<1> DEFINE C == old \cup new
           O == {c.object : c \in C}
           Src(o) == UNION {c.sources : c \in {x \in C : x.object = o}}
           Con(o) == Cardinality(O) > 1 \/ \E c \in C : c.object = o /\ c.conflicting
           Row(o) == [object |-> o, sources |-> Src(o), conflicting |-> Con(o)]
           M == MergeClaims(old, new)
<1>1. M = {Row(o) : o \in O}
  BY DEF MergeClaims
<1>2. \A c \in C : c.object \in Objects /\ c.sources \in SUBSET Docs /\ c.conflicting \in BOOLEAN
                   /\ c.object \in O
  BY DEF PageClaims
<1>3. O \in SUBSET Objects /\ IsFiniteSet(O)
  <2>1. O \in SUBSET Objects
    BY <1>2
  <2>2. IsFiniteSet(Objects)
    BY DEF WikiAssumption
  <2> HIDE DEF O
  <2> QED
    BY <2>1, <2>2, FS_Subset
<1>4. Cardinality(O) > 1 <=> \E x, y \in O : x # y
  <2> HIDE DEF O
  <2> QED
    BY <1>3, SeveralObjects
<1>5. \A o \in O : /\ Row(o).object = o /\ Row(o).sources = Src(o) /\ Row(o).conflicting = Con(o)
                   /\ Row(o) \in M
  BY <1>1
<1>6. \A o \in O : \E c \in C : c.object = o
  OBVIOUS
<1>7. \A o \in O : Src(o) \in SUBSET Docs /\ Con(o) \in BOOLEAN
  BY <1>2
<1>8. M \in SUBSET PageClaims
  <2> HIDE DEF Src, Con, O, M
  <2>1. \A o \in O : Row(o) \in PageClaims
    BY <1>3, <1>7 DEF PageClaims
  <2> HIDE DEF Row
  <2> QED
    BY <1>1, <2>1
<1>9. \A c \in C : c.sources \subseteq Src(c.object)
  OBVIOUS
<1>10. \A o \in O : Con(o) <=> \E b \in O : b # o
  <2>1. SUFFICES ASSUME NEW o \in O PROVE Con(o) <=> \E b \in O : b # o
    OBVIOUS
  <2>2. CASE \E b \in O : b # o
    BY <1>4, <2>1, <2>2
  <2>3. CASE ~ \E b \in O : b # o
    <3>1. ~ (Cardinality(O) > 1)
      BY <1>4, <2>1, <2>3
    <3>2. \A c \in C : c.conflicting => \E b \in C : b.object # c.object
      BY DEF Marked
    <3>3. \A c \in C : c.object = o
      BY <1>2, <2>3
    <3>4. ~ \E c \in C : c.object = o /\ c.conflicting
      BY <3>2, <3>3
    <3> QED
      BY <2>3, <3>1, <3>4
  <2> QED
    BY <2>2, <2>3
<1>11. ASSUME CitedBy(C, D), NEW o \in O PROVE Src(o) # {} /\ Src(o) \subseteq D
  <2>1. PICK c \in C : c.object = o
    BY <1>6
  <2>2. \A x \in C : x.sources # {} /\ x.sources \subseteq D
    BY <1>11 DEF CitedBy
  <2> QED
    BY <2>1, <2>2
<1> HIDE DEF Src, Con, M
<1>12. \A b \in M : \E o \in O : b = Row(o)
  BY <1>1
<1>13. Exact(M)
  <2>1. SUFFICES ASSUME NEW c \in M PROVE c.conflicting <=> \E b \in M : b.object # c.object
    BY DEF Exact
  <2>2. PICK o \in O : c = Row(o)
    BY <1>12
  <2> HIDE DEF Row, O
  <2>3. (\E b \in M : b.object # c.object) <=> (\E b \in O : b # o)
    BY <1>5, <1>12, <2>2
  <2> QED
    BY <1>5, <1>10, <2>2, <2>3
<1>14. CitedBy(C, D) => CitedBy(M, D)
  <2> HIDE DEF Row, O, C
  <2> QED
    BY <1>5, <1>11, <1>12 DEF CitedBy
<1>15. \A c \in C : \E b \in M : b.object = c.object /\ c.sources \subseteq b.sources
  <2> HIDE DEF Row, O, C
  <2> QED
    BY <1>2, <1>5, <1>9
<1>16. \A b \in M : \E c \in C : b.object = c.object
  <2> HIDE DEF Row
  <2> QED
    BY <1>5, <1>6, <1>12
<1> QED
  BY <1>8, <1>13, <1>14, <1>15, <1>16 DEF MergesClaims, C, M

MergesRelations(M, R, D) ==
  /\ M \in SUBSET PageRelations
  /\ CitedBy(R, D) => CitedBy(M, D)
  /\ \A r \in R : \E s \in M : s.between = r.between /\ r.sources \subseteq s.sources

LEMMA MergeRelationsOf ==
  ASSUME NEW old \in SUBSET PageRelations, NEW new \in SUBSET PageRelations, NEW D
  PROVE  MergesRelations(MergeRelations(old, new), old \cup new, D)
<1> DEFINE C == old \cup new
           O == {c.between : c \in C}
           Src(o) == UNION {c.sources : c \in {x \in C : x.between = o}}
           Row(o) == [between |-> o, sources |-> Src(o)]
           M == MergeRelations(old, new)
<1>1. M = {Row(o) : o \in O}
  BY DEF MergeRelations
<1>2. \A c \in C : c.between \in Names \X Names /\ c.sources \in SUBSET Docs /\ c.between \in O
  BY DEF PageRelations
<1>3. O \in SUBSET (Names \X Names)
  BY <1>2
<1>5. \A o \in O : Row(o).between = o /\ Row(o).sources = Src(o) /\ Row(o) \in M
  BY <1>1
<1>6. \A o \in O : \E c \in C : c.between = o
  OBVIOUS
<1>7. \A o \in O : Src(o) \in SUBSET Docs
  BY <1>2
<1>8. M \in SUBSET PageRelations
  BY <1>1, <1>3, <1>7 DEF PageRelations
<1>9. \A c \in C : c.sources \subseteq Src(c.between)
  OBVIOUS
<1>11. ASSUME CitedBy(C, D), NEW o \in O PROVE Src(o) # {} /\ Src(o) \subseteq D
  <2>1. PICK c \in C : c.between = o
    BY <1>6
  <2>2. \A x \in C : x.sources # {} /\ x.sources \subseteq D
    BY <1>11 DEF CitedBy
  <2> QED
    BY <2>1, <2>2
<1> HIDE DEF Src, M
<1>12. \A b \in M : \E o \in O : b = Row(o)
  BY <1>1
<1> HIDE DEF Row, O, C
<1>14. CitedBy(C, D) => CitedBy(M, D)
  BY <1>5, <1>11, <1>12 DEF CitedBy
<1>15. \A c \in C : \E b \in M : b.between = c.between /\ c.sources \subseteq b.sources
  BY <1>2, <1>5, <1>9
<1> QED
  BY <1>8, <1>14, <1>15 DEF MergesRelations, C, M

-----------------------------------------------------------------------------
(* From a mutation to a page.                                              *)

SoundPages(D, g) == {p \in PageSet(D, g) : Sound(p)}

LEMMA PageFields ==
  ASSUME NEW D, NEW g, NEW p \in PageSet(D, g)
  PROVE  /\ p.id \in PageIds(g) /\ p.title \in Names /\ p.aliases \in SUBSET Names
         /\ p.claims \in SUBSET PageClaims /\ p.relations \in SUBSET PageRelations
         /\ p.sources \in SUBSET D /\ p.removes \in SUBSET PageIds(g)
         /\ p = [id |-> p.id, title |-> p.title, aliases |-> p.aliases, claims |-> p.claims,
                 relations |-> p.relations, sources |-> p.sources, removes |-> p.removes]
  BY DEF PageSet

LEMMA ContinuesReflexive == \A p : Continues(p, p)
  BY DEF Continues

LEMMA ContinuesTransitive ==
  ASSUME NEW p, NEW q, NEW r, Continues(r, q), Continues(q, p)
  PROVE  Continues(r, p)
<1>1. NamesOf(p) \subseteq NamesOf(r)
  BY DEF Continues
<1>2. ASSUME NEW c \in p.claims
      PROVE  \E b \in r.claims : b.object = c.object /\ c.sources \subseteq b.sources
  <2>1. PICK b \in q.claims : b.object = c.object /\ c.sources \subseteq b.sources
    BY DEF Continues
  <2>2. PICK a \in r.claims : a.object = b.object /\ b.sources \subseteq a.sources
    BY DEF Continues
  <2> QED
    BY <2>1, <2>2
<1>3. ASSUME NEW c \in p.relations
      PROVE  \E b \in r.relations : b.between = c.between /\ c.sources \subseteq b.sources
  <2>1. PICK b \in q.relations : b.between = c.between /\ c.sources \subseteq b.sources
    BY DEF Continues
  <2>2. PICK a \in r.relations : a.between = b.between /\ b.sources \subseteq a.sources
    BY DEF Continues
  <2> QED
    BY <2>1, <2>2
<1> QED
  BY <1>1, <1>2, <1>3 DEF Continues

LEMMA PageOfIs ==
  ASSUME NEW V, NEW ps \in Seq(V), UniqueIds(ps), NEW p \in ToSet(ps)
  PROVE  PageOf(p.id, ps) = p
<1>1. PICK i \in 1..Len(ps) : p = ps[i]
  BY ToSetOf
<1>2. \A j \in 1..Len(ps) : ps[j].id = p.id => j = i
  BY <1>1 DEF UniqueIds
<1>3. DOMAIN ps = 1..Len(ps)
  OBVIOUS
<1> QED
  BY <1>1, <1>2, <1>3 DEF PageOf

MutationSet(g) ==
  [target : PageIds(g) \cup {NoPage}, removes : SUBSET PageIds(g), title : Names,
   aliases : SUBSET Names, claims : SUBSET PageClaims, relations : SUBSET PageRelations]

\* What plan_wiki_mutations gives for a document and the pages ps.
GoodMutation(m, doc, ps) ==
  /\ m.title \notin m.aliases /\ Exact(m.claims)
  /\ CitedBy(m.claims, {doc}) /\ CitedBy(m.relations, {doc})
  /\ \A id \in m.removes : \E p \in ToSet(ps) : p.id = id
  /\ m.target = NoPage => m.removes = {}
  /\ m.target # NoPage => \E p \in ToSet(ps) : p.id = m.target /\ p.title = m.title
GoodMutations(g, doc, ps) == {m \in MutationSet(g) : GoodMutation(m, doc, ps)}

LEMMA MutationFields ==
  ASSUME NEW g, NEW m \in MutationSet(g)
  PROVE  /\ m.target \in PageIds(g) \cup {NoPage} /\ m.removes \in SUBSET PageIds(g)
         /\ m.title \in Names /\ m.aliases \in SUBSET Names
         /\ m.claims \in SUBSET PageClaims /\ m.relations \in SUBSET PageRelations
         /\ m = [target |-> m.target, removes |-> m.removes, title |-> m.title,
                 aliases |-> m.aliases, claims |-> m.claims, relations |-> m.relations]
  BY DEF MutationSet

FoldsPages(F, m, D, g, ps) ==
  /\ F \in PageSet(D, g) /\ Sound(F) /\ F.id = m.target /\ F.title = m.title
  /\ \A p \in ToSet(ps) : p.id \in m.removes \cup {m.target} => Continues(F, p)

LEMMA FoldedOf ==
  ASSUME WikiAssumption, NEW D \in SUBSET Docs, NEW g,
         NEW ps \in Seq(SoundPages(D, g)), UniqueIds(ps),
         NEW doc, NEW m \in GoodMutations(g, doc, ps), m.target # NoPage
  PROVE  FoldsPages(Folded(m, ps), m, D, g, ps)
<1>1. PICK kept \in ToSet(ps) : kept.id = m.target /\ kept.title = m.title
  BY DEF GoodMutations, GoodMutation
<1>2. PageOf(m.target, ps) = kept
  BY <1>1, PageOfIs
<1> DEFINE all == {kept} \cup {p \in ToSet(ps) : p.id \in m.removes}
           C == UNION {p.claims : p \in all}
           R == UNION {p.relations : p \in all}
           S == UNION {p.sources : p \in all}
           A == (UNION {NamesOf(p) : p \in all}) \ {kept.title}
           F == Folded(m, ps)
<1>3. \A p \in all : p \in PageSet(D, g) /\ Sound(p)
  BY <1>1, ToSetOf DEF SoundPages
<1>4. kept \in all
  OBVIOUS
<1>5. \A p \in all : /\ p.claims \in SUBSET PageClaims /\ p.relations \in SUBSET PageRelations
                     /\ p.sources \in SUBSET D /\ NamesOf(p) \in SUBSET Names
  BY <1>3, PageFields DEF NamesOf
<1>6. F = [kept EXCEPT !.aliases = A, !.claims = MergeClaims({}, C),
                       !.relations = MergeRelations({}, R), !.sources = S]
  BY <1>2 DEF Folded
<1>7. C \in SUBSET PageClaims /\ R \in SUBSET PageRelations /\ S \in SUBSET D /\ A \in SUBSET Names
  <2> HIDE DEF all
  <2> QED
    BY <1>5
<1>8. Marked({} \cup C)
  <2>1. SUFFICES ASSUME NEW p \in all, NEW c \in p.claims, c.conflicting
                 PROVE  \E b \in C : b.object # c.object
    BY DEF Marked
  <2>2. \E b \in p.claims : b.object # c.object
    BY <1>3, <2>1 DEF Sound, Exact
  <2> QED
    BY <2>2
<1>9. CitedBy(C, S) /\ CitedBy(R, S)
  <2>1. \A p \in all : CitedBy(p.claims, p.sources) /\ CitedBy(p.relations, p.sources)
    BY <1>3 DEF Sound
  <2>2. \A p \in all : p.sources \subseteq S
    OBVIOUS
  <2>3. \A c \in C : \E p \in all : c \in p.claims
    OBVIOUS
  <2>4. \A c \in R : \E p \in all : c \in p.relations
    OBVIOUS
  <2> HIDE DEF C, R, S, all
  <2> QED
    BY <2>1, <2>2, <2>3, <2>4 DEF CitedBy
<1> DEFINE MC == MergeClaims({}, C)
           MR == MergeRelations({}, R)
<1>10. MergesClaims(MC, C, S) /\ MergesRelations(MR, R, S)
  <2>1. {} \cup C = C /\ {} \cup R = R /\ {} \in SUBSET PageClaims /\ {} \in SUBSET PageRelations
    OBVIOUS
  <2> HIDE DEF C, R, S
  <2>2. MergesClaims(MergeClaims({}, C), {} \cup C, S)
    BY <1>7, <1>8, <2>1, MergeClaimsOf
  <2>3. MergesRelations(MergeRelations({}, R), {} \cup R, S)
    BY <1>7, <2>1, MergeRelationsOf
  <2> QED
    BY <2>1, <2>2, <2>3
<1>11. \A p \in all : /\ NamesOf(p) \subseteq A \cup {kept.title}
                      /\ p.claims \subseteq C /\ p.relations \subseteq R
  <2> DEFINE N == UNION {NamesOf(p) : p \in all}
  <2>0. A = N \ {kept.title}
    <3> HIDE DEF all, C, R, S, F
    <3> QED
      BY Zenon
  <2>1. \A p \in all : NamesOf(p) \subseteq N
    <3> HIDE DEF all
    <3> QED
      OBVIOUS
  <2>2. \A p \in all : p.claims \subseteq C /\ p.relations \subseteq R
    <3> HIDE DEF all
    <3> QED
      OBVIOUS
  <2>3. N \subseteq A \cup {kept.title}
    <3> HIDE DEF all, N, A
    <3> QED
      BY <2>0
  <2> HIDE DEF all, C, R, A, N
  <2> QED
    BY <2>1, <2>2, <2>3
<1>12. kept.title \notin A /\ \A p \in ToSet(ps) : p.id \in m.removes => p \in all
  <2> DEFINE N == UNION {NamesOf(p) : p \in all}
  <2>0. A = N \ {kept.title}
    <3> HIDE DEF all, C, R, S, F
    <3> QED
      BY Zenon
  <2>1. kept.title \notin A
    <3> HIDE DEF N, A
    <3> QED
      BY <2>0
  <2>2. \A p \in ToSet(ps) : p.id \in m.removes => p \in all
    OBVIOUS
  <2> QED
    BY <2>1, <2>2
<1>13. kept \in PageSet(D, g)
  BY <1>3, <1>4
<1> HIDE DEF all, C, R, S, A, MC, MR
<1>14. F = [kept EXCEPT !.aliases = A, !.claims = MC, !.relations = MR, !.sources = S]
  BY <1>6 DEF MC, MR
<1> HIDE DEF F
<1>15. /\ MC \in SUBSET PageClaims /\ Exact(MC) /\ CitedBy(MC, S)
       /\ MR \in SUBSET PageRelations /\ CitedBy(MR, S)
  BY <1>9, <1>10 DEF MergesClaims, MergesRelations
<1>16. /\ F.id = kept.id /\ F.title = kept.title /\ F.aliases = A /\ F.claims = MC
       /\ F.relations = MR /\ F.sources = S
       /\ F \in PageSet(D, g)
  BY <1>7, <1>13, <1>14, <1>15 DEF PageSet
<1>17. Sound(F)
  BY <1>12, <1>15, <1>16 DEF Sound
<1>18. \A p \in all : Continues(F, p)
  BY <1>10, <1>11, <1>16 DEF Continues, MergesClaims, MergesRelations, NamesOf
<1>19. \A p \in ToSet(ps) : p.id \in m.removes \cup {m.target} => p \in all
  <2>1. ASSUME NEW p \in ToSet(ps), p.id = m.target PROVE p = kept
    BY <1>2, <2>1, PageOfIs
  <2> QED
    BY <1>4, <1>12, <2>1
<1> QED
  BY <1>1, <1>16, <1>17, <1>18, <1>19 DEF FoldsPages, F

AppliesTo(q, m, doc, D, g, ps) ==
  /\ q \in SoundPages(D, g) /\ q.removes = m.removes
  /\ q.id = IF m.target = NoPage THEN <<doc, g, m.title>> ELSE m.target
  /\ \A p \in ToSet(ps) : p.id \in m.removes \cup {m.target} => Continues(q, p)

LEMMA AppliedOf ==
  ASSUME WikiAssumption, NEW D \in SUBSET Docs, NEW g \in Nat, g > 0,
         NEW ps \in Seq(SoundPages(D, g)), UniqueIds(ps),
         NEW doc \in D, NEW m \in GoodMutations(g, doc, ps)
  PROVE  AppliesTo(Projected(Applied(m, doc, ps, g), m), m, doc, D, g, ps)
<1> DEFINE new == [id |-> <<doc, g, m.title>>, title |-> m.title, aliases |-> {},
                   claims |-> {}, relations |-> {}, sources |-> {}]
           base == IF m.target = NoPage THEN new ELSE Folded(m, ps)
           S == base.sources \cup {doc}
           MC == MergeClaims(base.claims, m.claims)
           MR == MergeRelations(base.relations, m.relations)
           a == Applied(m, doc, ps, g)
           q == [a EXCEPT !.removes = m.removes]
<1>1. m \in MutationSet(g) /\ GoodMutation(m, doc, ps)
  BY DEF GoodMutations
<1>2. /\ m.target \in PageIds(g) \cup {NoPage} /\ m.removes \in SUBSET PageIds(g)
      /\ m.title \in Names /\ m.aliases \in SUBSET Names
      /\ m.claims \in SUBSET PageClaims /\ m.relations \in SUBSET PageRelations
  BY <1>1, MutationFields
<1>3. a = [id |-> base.id, title |-> base.title, aliases |-> base.aliases \cup m.aliases,
           claims |-> MC, relations |-> MR, sources |-> S, removes |-> {}]
  BY DEF Applied
<1>4. /\ base.id = IF m.target = NoPage THEN <<doc, g, m.title>> ELSE m.target
      /\ base.id \in PageIds(g) /\ base.title = m.title /\ base.aliases \in SUBSET Names
      /\ base.title \notin base.aliases
      /\ base.claims \in SUBSET PageClaims /\ Exact(base.claims)
      /\ base.relations \in SUBSET PageRelations /\ base.sources \in SUBSET D
      /\ CitedBy(base.claims, base.sources) /\ CitedBy(base.relations, base.sources)
      /\ \A p \in ToSet(ps) : p.id \in m.removes \cup {m.target} => Continues(base, p)
  <2>1. CASE m.target = NoPage
    <3>1. base = new /\ m.removes = {}
      BY <1>1, <2>1 DEF GoodMutation
    <3>2. <<doc, g, m.title>> \in PageIds(g)
      <4>1. g \in 1..g /\ doc \in Docs
        OBVIOUS
      <4> QED
        BY <1>2, <4>1 DEF PageIds
    <3>3. Exact({}) /\ CitedBy({}, {})
      BY DEF Exact, CitedBy
    <3>4. \A p \in ToSet(ps) : p.id # NoPage
      <4>1. \A p \in ToSet(ps) : p.id \in PageIds(g)
        BY ToSetOf, PageFields DEF SoundPages
      <4>2. \A x \in PageIds(g) : x \in Docs \X Nat \X Names
        BY DEF PageIds
      <4> QED
        BY <4>1, <4>2 DEF WikiAssumption
    <3> HIDE DEF base
    <3>5. base.id = <<doc, g, m.title>> /\ base.title = m.title /\ base.aliases = {}
          /\ base.claims = {} /\ base.relations = {} /\ base.sources = {}
      BY <3>1
    <3> QED
      BY <1>2, <2>1, <3>1, <3>2, <3>3, <3>4, <3>5
  <2>2. CASE m.target # NoPage
    <3>1. base = Folded(m, ps)
      BY <2>2
    <3> HIDE DEF base
    <3>2. FoldsPages(base, m, D, g, ps)
      BY <2>2, <3>1, FoldedOf
    <3>3. base \in PageSet(D, g) /\ Sound(base) /\ base.id = m.target /\ base.title = m.title
          /\ \A p \in ToSet(ps) : p.id \in m.removes \cup {m.target} => Continues(base, p)
      BY <3>2 DEF FoldsPages
    <3>4. /\ base.id \in PageIds(g) /\ base.title \in Names /\ base.aliases \in SUBSET Names
          /\ base.claims \in SUBSET PageClaims /\ base.relations \in SUBSET PageRelations
          /\ base.sources \in SUBSET D
      BY <3>3, PageFields
    <3>5. /\ base.title \notin base.aliases /\ Exact(base.claims)
          /\ CitedBy(base.claims, base.sources) /\ CitedBy(base.relations, base.sources)
      BY <3>3 DEF Sound
    <3> QED
      BY <2>2, <3>3, <3>4, <3>5
  <2> QED
    BY <2>1, <2>2
<1> HIDE DEF base, a, q
<1>5. Marked(base.claims \cup m.claims)
  BY <1>1, <1>4 DEF Marked, Exact, GoodMutation
<1>6. CitedBy(base.claims \cup m.claims, S) /\ CitedBy(base.relations \cup m.relations, S)
  BY <1>1, <1>4 DEF CitedBy, GoodMutation
<1>7. MergesClaims(MC, base.claims \cup m.claims, S)
  <2> HIDE DEF S
  <2> QED
    BY <1>2, <1>4, <1>5, MergeClaimsOf
<1>8. MergesRelations(MR, base.relations \cup m.relations, S)
  <2> HIDE DEF S
  <2> QED
    BY <1>2, <1>4, MergeRelationsOf
<1>9. S \in SUBSET D
  BY <1>4
<1> HIDE DEF MC, MR, S
<1>10. MC \in SUBSET PageClaims /\ Exact(MC) /\ CitedBy(MC, S)
  BY <1>6, <1>7 DEF MergesClaims
<1>11. MR \in SUBSET PageRelations /\ CitedBy(MR, S)
  BY <1>6, <1>8 DEF MergesRelations
<1>12. /\ a.id = base.id /\ a.title = base.title /\ a.aliases = base.aliases \cup m.aliases
       /\ a.claims = MC /\ a.relations = MR /\ a.sources = S
       /\ a \in PageSet(D, g)
  <2>1. {} \in SUBSET PageIds(g) /\ base.aliases \cup m.aliases \in SUBSET Names
    BY <1>2, <1>4
  <2> QED
    BY <1>2, <1>3, <1>4, <1>9, <1>10, <1>11, <2>1 DEF PageSet
<1>13. /\ q.id = base.id /\ q.title = base.title /\ q.aliases = base.aliases \cup m.aliases
       /\ q.claims = MC /\ q.relations = MR /\ q.sources = S /\ q.removes = m.removes
       /\ q \in PageSet(D, g)
  BY <1>2, <1>12 DEF PageSet, q
<1>14. Sound(q)
  BY <1>1, <1>4, <1>10, <1>11, <1>13 DEF Sound, GoodMutation
<1>15. Continues(q, base)
  <2>1. NamesOf(base) \subseteq NamesOf(q)
    BY <1>13 DEF NamesOf
  <2>2. \A c \in base.claims : \E b \in q.claims : b.object = c.object /\ c.sources \subseteq b.sources
    BY <1>7, <1>13 DEF MergesClaims
  <2>3. \A c \in base.relations : \E b \in q.relations : b.between = c.between /\ c.sources \subseteq b.sources
    BY <1>8, <1>13 DEF MergesRelations
  <2> QED
    BY <2>1, <2>2, <2>3 DEF Continues
<1>16. \A p \in ToSet(ps) : p.id \in m.removes \cup {m.target} => Continues(q, p)
  BY <1>4, <1>15, ContinuesTransitive
<1>17. q \in SoundPages(D, g)
  BY <1>13, <1>14 DEF SoundPages
<1> QED
  BY <1>4, <1>13, <1>16, <1>17 DEF AppliesTo, Projected, q, a

-----------------------------------------------------------------------------
(* The knowledge of one document.                                          *)

FragmentSet == [cites : SUBSET Nat, entities : Seq(Entities), claims : SUBSET Statements,
                relations : SUBSET (Names \X Names)]
KnowledgeSet == [entities : Seq(Entities), claims : SUBSET Statements,
                 relations : SUBSET (Names \X Names)]

LEMMA RunExists ==
  ASSUME NEW T, NEW n \in Nat, NEW base \in T, NEW G \in [1..n -> [T -> T]]
  PROVE  \E r : RunAlong(r, T, n, base, G)
<1>1. PICK f : FoldsAlong(f, T, n, base, G)
  BY FoldExists
<1>2. \A S \in SUBSET (1..n) : f[S] = IF S = {} THEN base ELSE G[Max(S)][f[S \ {Max(S)}]]
  BY <1>1 DEF FoldsAlong
<1>3. Climbs(f, T, n, base, G)
  BY <1>2 DEF Climbs
<1>4. PICK r : RunTo(r, T, n, base, G, f[1..n])
  BY <1>3, RunOf
<1> QED
  BY <1>4 DEF RunTo

FlattenFun(f, ss) == [i \in 1..Len(ss) |-> IF i = 1 THEN ss[i] ELSE f[i - 1] \o ss[i]]

LEMMA FlattenIs ==
  \A ss : FlattenSeq(ss) = IF Len(ss) = 0 THEN ss ELSE (CHOOSE f : f = FlattenFun(f, ss))[Len(ss)]
  BY DEF FlattenSeq, FlattenFun

LEMMA FlattenSeqOf ==
  ASSUME NEW V, NEW ss \in Seq(Seq(V))
  PROVE  FlattenSeq(ss) \in Seq(V)
<1> DEFINE n == Len(ss)
           T == Seq(V)
           G == [i \in 1..n |-> [x \in T |-> x \o ss[i]]]
<1>1. n \in Nat /\ \A i \in 1..n : ss[i] \in T
  OBVIOUS
<1>2. CASE n = 0
  <2>1. ss = <<>> /\ <<>> \in Seq(V) /\ FlattenSeq(ss) = ss
    BY <1>2, FlattenIs
  <2> QED
    BY <2>1
<1>3. CASE n # 0
  <2>1. G \in [1..n -> [T -> T]] /\ \A i \in 1..n : \A x \in T : G[i][x] = x \o ss[i]
    BY <1>1
  <2>2. <<>> \in T /\ \A x \in T : <<>> \o x = x
    OBVIOUS
  <2>3. \A x, y \in T : x \o y \in T
    OBVIOUS
  <2> HIDE DEF n, T, G
  <2>4. PICK r : RunAlong(r, T, n, <<>>, G)
    BY <1>1, <2>1, <2>2, RunExists
  <2>5. r[0] = <<>> /\ \A i \in 1..n : r[i - 1] \in T /\ r[i] = r[i - 1] \o ss[i]
    BY <2>1, <2>4 DEF RunAlong
  <2> DEFINE f0 == [i \in 1..n |-> r[i]]
  <2>6. \E f : f = FlattenFun(f, ss)
    <3>1. \A i \in 1..n : i = 1 => r[i] = ss[i]
      <4>1. \A i \in 1..n : i = 1 => r[i] = <<>> \o ss[i]
        <5>1. \A i \in 1..n : i = 1 => i - 1 = 0
          BY <1>1
        <5> QED
          BY <2>5, <5>1
      <4> QED
        BY <1>1, <2>2, <4>1
    <3>2. \A i \in 1..n : i # 1 => i - 1 \in 1..n
      BY <1>1
    <3>3. \A i \in 1..n : f0[i] = IF i = 1 THEN ss[i] ELSE f0[i - 1] \o ss[i]
      BY <2>5, <3>1, <3>2
    <3>4. f0 = FlattenFun(f0, ss)
      BY <3>3 DEF FlattenFun, n
    <3> HIDE DEF f0
    <3> QED
      BY <3>4
  <2> DEFINE h == CHOOSE f : f = FlattenFun(f, ss)
  <2>7. h = FlattenFun(h, ss) /\ FlattenSeq(ss) = h[n]
    BY <1>3, <2>6, FlattenIs DEF n
  <2> HIDE DEF h
  <2>8. \A i \in 1..n : h[i] = IF i = 1 THEN ss[i] ELSE h[i - 1] \o ss[i]
    BY <2>7 DEF FlattenFun, n
  <2> DEFINE Good == {i \in 0..n : i = 0 \/ h[i] \in T}
  <2>9. 0 \in Good
    BY <1>1
  <2>10. \A i \in 0..n : i < n /\ i \in Good => i + 1 \in Good
    <3>1. SUFFICES ASSUME NEW i \in 0..n, i < n, i = 0 \/ h[i] \in T
                   PROVE  i + 1 \in 0..n /\ h[i + 1] \in T
      OBVIOUS
    <3>2. i + 1 \in 1..n /\ i + 1 \in 0..n /\ (i + 1) - 1 = i /\ (i + 1 = 1 <=> i = 0)
      BY <1>1, <3>1
    <3>3. h[i + 1] = IF i = 0 THEN ss[i + 1] ELSE h[i] \o ss[i + 1]
      BY <2>8, <3>2
    <3> QED
      BY <1>1, <2>3, <3>1, <3>2, <3>3
  <2>11. \A i \in 0..n : i \in Good
    <3> HIDE DEF Good
    <3> QED
      BY <1>1, <2>9, <2>10, UpTo
  <2>12. n \in 0..n
    BY <1>1
  <2> QED
    BY <1>3, <2>7, <2>11, <2>12 DEF T
<1> QED
  BY <1>2, <1>3

LEMMA JoinEntityOf ==
  ASSUME NEW reduced \in Seq(Entities), NEW e \in Entities
  PROVE  JoinEntity(reduced, e) \in Seq(Entities)
<1> DEFINE hits == {i \in DOMAIN reduced : NamesOf(reduced[i]) \cap NamesOf(e) # {}}
           k == Min(hits)
           n == Len(reduced)
<1>1. n \in Nat /\ DOMAIN reduced = 1..n /\ hits \in SUBSET (1..n) /\ \A i \in 1..n : reduced[i] \in Entities
  OBVIOUS
<1>2. NamesOf(e) \in SUBSET Names
  BY DEF NamesOf, Entities
<1>3. CASE hits = {}
  <2>1. JoinEntity(reduced, e) = Append(reduced, e)
    BY <1>3 DEF JoinEntity
  <2> QED
    BY <2>1
<1>4. CASE hits # {}
  <2>1. k \in 1..n
    <3> HIDE DEF hits, n
    <3> QED
      BY <1>1, <1>4, MinOf
  <2>2. JoinEntity(reduced, e) =
          [reduced EXCEPT ![k].aliases = (@ \cup NamesOf(e)) \ {reduced[k].title}]
    BY <1>4 DEF JoinEntity
  <2> HIDE DEF k, hits
  <2> DEFINE x == [reduced[k] EXCEPT !.aliases = (@ \cup NamesOf(e)) \ {reduced[k].title}]
  <2>3. x \in Entities
    BY <1>1, <1>2, <2>1 DEF Entities
  <2>4. JoinEntity(reduced, e) = [i \in 1..n |-> IF i = k THEN x ELSE reduced[i]]
    BY <1>1, <2>1, <2>2
  <2> HIDE DEF x, n
  <2>5. JoinEntity(reduced, e) \in [1..n -> Entities]
    BY <1>1, <2>3, <2>4
  <2> QED
    BY <1>1, <2>5
<1> QED
  BY <1>3, <1>4

EntitiesFold(f, s) ==
  [S \in SUBSET DOMAIN s |-> IF S = {} THEN <<>> ELSE JoinEntity(f[S \ {Max(S)}], s[Max(S)])]

LEMMA ReduceEntitiesIsAFold ==
  \A s : ReduceEntities(s) = (CHOOSE f : f = EntitiesFold(f, s))[DOMAIN s]
  BY DEF ReduceEntities, FoldLeft, MapThenFoldSet, EntitiesFold

LEMMA ReduceEntitiesOf ==
  ASSUME NEW s \in Seq(Entities)
  PROVE  ReduceEntities(s) \in Seq(Entities)
<1> DEFINE n == Len(s)
           T == Seq(Entities)
           G == [i \in 1..n |-> [x \in T |-> JoinEntity(x, s[i])]]
<1>1. n \in Nat /\ DOMAIN s = 1..n /\ \A i \in 1..n : s[i] \in Entities
  OBVIOUS
<1>2. \A i \in 1..n : \A x \in T : JoinEntity(x, s[i]) \in T
  BY <1>1, JoinEntityOf
<1>3. G \in [1..n -> [T -> T]] /\ \A i \in 1..n : \A x \in T : G[i][x] = JoinEntity(x, s[i])
  BY <1>2
<1>4. <<>> \in T
  OBVIOUS
<1> HIDE DEF n, T, G
<1>5. PICK f : FoldsAlong(f, T, n, <<>>, G)
  BY <1>1, <1>3, <1>4, FoldExists
<1>6. /\ f \in [SUBSET (1..n) -> T]
      /\ \A S \in SUBSET (1..n) : f[S] = IF S = {} THEN <<>> ELSE G[Max(S)][f[S \ {Max(S)}]]
  BY <1>5 DEF FoldsAlong
<1>7. \A S \in SUBSET (1..n) : S # {} => Max(S) \in 1..n /\ S \ {Max(S)} \in SUBSET (1..n)
  BY <1>1, MaxOf
<1>8. \A S \in SUBSET (1..n) : f[S] = IF S = {} THEN <<>> ELSE JoinEntity(f[S \ {Max(S)}], s[Max(S)])
  BY <1>3, <1>6, <1>7
<1>9. f = EntitiesFold(f, s)
  BY <1>1, <1>6, <1>8 DEF EntitiesFold
<1> DEFINE h == CHOOSE x : x = EntitiesFold(x, s)
<1>10. h = EntitiesFold(h, s) /\ ReduceEntities(s) = h[1..n]
  BY <1>1, <1>9, ReduceEntitiesIsAFold
<1> HIDE DEF h
<1>11. \A S \in SUBSET (1..n) : h[S] = IF S = {} THEN <<>> ELSE JoinEntity(h[S \ {Max(S)}], s[Max(S)])
  BY <1>1, <1>10 DEF EntitiesFold
<1>12. Climbs(h, T, n, <<>>, G)
  BY <1>3, <1>7, <1>11 DEF Climbs
<1>13. PICK r : RunTo(r, T, n, <<>>, G, h[1..n])
  BY <1>1, <1>3, <1>4, <1>12, RunOf
<1> QED
  BY <1>10, <1>13 DEF RunTo, T

LEMMA CanonicalOf ==
  ASSUME NEW s \in Seq(Entities), NEW name \in Names
  PROVE  Canonical(s, name) \in Names
<1> DEFINE hits == {i \in DOMAIN s : name \in NamesOf(s[i])}
           n == Len(s)
<1>1. n \in Nat /\ hits \in SUBSET (1..n) /\ \A i \in 1..n : s[i] \in Entities
  OBVIOUS
<1>2. hits # {} => Max(hits) \in 1..n
  <2> HIDE DEF hits, n
  <2> QED
    BY <1>1, MaxOf
<1>3. Canonical(s, name) = IF hits = {} THEN name ELSE s[Max(hits)].title
  BY DEF Canonical
<1> HIDE DEF hits, n
<1> QED
  BY <1>1, <1>2, <1>3 DEF Entities

LEMMA WithSubjectsOf ==
  ASSUME WikiAssumption, NEW entities \in Seq(Entities), NEW claims \in SUBSET Statements
  PROVE  WithSubjects(entities, claims) \in Seq(Entities)
<1> DEFINE known == UNION {NamesOf(entities[i]) : i \in DOMAIN entities}
           U == {c.subject : c \in claims} \ known
           unknown == SetToSeq(U)
           extra == [i \in DOMAIN unknown |-> [title |-> unknown[i], aliases |-> {}]]
<1>1. U \in SUBSET Names /\ IsFiniteSet(U)
  <2>1. U \in SUBSET Names
    BY DEF Statements
  <2>2. IsFiniteSet(Names)
    BY DEF WikiAssumption
  <2> HIDE DEF U
  <2> QED
    BY <2>1, <2>2, FS_Subset
<1> HIDE DEF U
<1>2. unknown \in Seq(U)
  BY <1>1, SetToSeqOf DEF Enumerates
<1> HIDE DEF unknown
<1>3. Len(unknown) \in Nat /\ DOMAIN unknown = 1..Len(unknown)
      /\ \A i \in 1..Len(unknown) : unknown[i] \in Names
  BY <1>1, <1>2
<1>4. \A i \in 1..Len(unknown) : [title |-> unknown[i], aliases |-> {}] \in Entities
  BY <1>3 DEF Entities
<1>5. extra \in Seq(Entities)
  <2>1. extra \in [1..Len(unknown) -> Entities]
    BY <1>3, <1>4
  <2> HIDE DEF extra
  <2> QED
    BY <1>3, <2>1
<1>6. WithSubjects(entities, claims) = entities \o extra
  BY DEF WithSubjects, unknown, U
<1> HIDE DEF extra
<1> QED
  BY <1>5, <1>6

LEMMA ReduceOf ==
  ASSUME WikiAssumption, NEW s \in Seq(FragmentSet)
  PROVE  Reduce(s) \in KnowledgeSet
<1> DEFINE n == Len(s)
           all == [i \in DOMAIN s |-> s[i].entities]
           entities == ReduceEntities(FlattenSeq(all))
           canonical == [x \in Names |-> Canonical(entities, x)]
           C == UNION {s[i].claims : i \in DOMAIN s}
           R == UNION {s[i].relations : i \in DOMAIN s}
           claims == ReduceClaims(C, canonical)
<1>1. n \in Nat /\ DOMAIN s = 1..n /\ \A i \in 1..n : s[i] \in FragmentSet
  OBVIOUS
<1>2. \A i \in 1..n : /\ s[i].entities \in Seq(Entities) /\ s[i].claims \in SUBSET Statements
                      /\ s[i].relations \in SUBSET (Names \X Names)
  BY <1>1 DEF FragmentSet
<1>3. entities \in Seq(Entities)
  <2>1. all \in [1..n -> Seq(Entities)]
    BY <1>1, <1>2
  <2> HIDE DEF all, n
  <2>2. all \in Seq(Seq(Entities))
    BY <1>1, <2>1
  <2>3. FlattenSeq(all) \in Seq(Entities)
    BY <2>2, FlattenSeqOf
  <2> QED
    BY <2>3, ReduceEntitiesOf
<1>4. C \in SUBSET Statements /\ R \in SUBSET (Names \X Names)
  BY <1>1, <1>2
<1> HIDE DEF entities, C, R
<1>5. canonical \in [Names -> Names]
  BY <1>3, CanonicalOf
<1> HIDE DEF canonical
<1>6. claims \in SUBSET Statements
  BY <1>4, <1>5 DEF ReduceClaims, Statements
<1>7. ReduceRelations(R, canonical) \in SUBSET (Names \X Names)
  BY <1>4, <1>5 DEF ReduceRelations
<1> HIDE DEF claims
<1>8. WithSubjects(entities, claims) \in Seq(Entities)
  BY <1>3, <1>6, WithSubjectsOf
<1>9. Reduce(s) = [entities |-> WithSubjects(entities, claims), claims |-> claims,
                   relations |-> ReduceRelations(R, canonical)]
  BY DEF Reduce, claims, canonical, entities, C, R
<1> QED
  BY <1>6, <1>7, <1>8, <1>9 DEF KnowledgeSet

-----------------------------------------------------------------------------
(* The pages that one document changes.                                    *)

LEMMA MutationOf ==
  ASSUME WikiAssumption, NEW D \in SUBSET Docs, NEW g,
         NEW ps \in Seq(SoundPages(D, g)), NEW doc \in Docs,
         NEW e \in Entities, NEW delta \in KnowledgeSet
  PROVE  Mutation(e, delta, doc, ps) \in GoodMutations(g, doc, ps)
<1> DEFINE names == NamesOf(e)
           matches == Matches(names, ps)
           found == IF matches # <<>> THEN {matches[1]} ELSE Candidates(names, ps)
           page == CHOOSE p \in found : TRUE
           title == IF found = {} THEN e.title ELSE page.title
           X == {[object |-> c.object, sources |-> {doc}, conflicting |-> FALSE]
                   : c \in {x \in delta.claims : x.subject \in names}}
           R == {[between |-> r, sources |-> {doc}]
                   : r \in {r \in delta.relations : {r[1], r[2]} \cap names # {}}}
           removes == {matches[i].id : i \in 2..Len(matches)}
           target == IF found = {} THEN NoPage ELSE page.id
           M == MergeClaims({}, X)
           m == Mutation(e, delta, doc, ps)
<1>1. /\ e.title \in Names /\ names \in SUBSET Names
      /\ delta.claims \in SUBSET Statements /\ delta.relations \in SUBSET (Names \X Names)
  BY DEF NamesOf, Entities, KnowledgeSet
<1>2. matches \in Seq(SoundPages(D, g)) /\ ToSet(matches) \subseteq ToSet(ps)
  BY KeptSet DEF Matches
<1>3. m = [target |-> target, removes |-> removes, title |-> title, aliases |-> names \ {title},
           claims |-> M, relations |-> R]
  BY DEF Mutation
<1>4. \A p \in ToSet(ps) : p \in PageSet(D, g) /\ p.id \in PageIds(g) /\ p.title \in Names
  <2>1. \A p \in ToSet(ps) : p \in PageSet(D, g)
    BY ToSetOf DEF SoundPages
  <2> QED
    BY <2>1, PageFields
<1>5. X \in SUBSET PageClaims /\ R \in SUBSET PageRelations
  <2>1. \A c \in delta.claims : c.object \in Objects
    BY <1>1 DEF Statements
  <2>2. {doc} \in SUBSET Docs
    OBVIOUS
  <2>3. \A o \in Objects : [object |-> o, sources |-> {doc}, conflicting |-> FALSE] \in PageClaims
    BY <2>2 DEF PageClaims
  <2>4. \A r \in Names \X Names : [between |-> r, sources |-> {doc}] \in PageRelations
    BY <2>2 DEF PageRelations
  <2>5. \A x \in X : \E o \in Objects : x = [object |-> o, sources |-> {doc}, conflicting |-> FALSE]
    BY <2>1
  <2>6. \A x \in R : \E r \in Names \X Names : x = [between |-> r, sources |-> {doc}]
    BY <1>1
  <2> HIDE DEF X, R
  <2> QED
    BY <2>3, <2>4, <2>5, <2>6
<1>6. Marked({} \cup X) /\ CitedBy({} \cup X, {doc}) /\ CitedBy(R, {doc})
  BY DEF Marked, CitedBy
<1>7. M \in SUBSET PageClaims /\ Exact(M) /\ CitedBy(M, {doc})
  <2> HIDE DEF X
  <2>1. {} \in SUBSET PageClaims
    OBVIOUS
  <2>2. MergesClaims(M, {} \cup X, {doc})
    BY <1>5, <1>6, <2>1, MergeClaimsOf
  <2> QED
    BY <1>6, <2>2 DEF MergesClaims
<1> HIDE DEF M, R, X
<1>8. /\ Len(matches) \in Nat /\ \A i \in 1..Len(matches) : matches[i] \in ToSet(ps)
      /\ matches = <<>> => Len(matches) = 0
      /\ matches # <<>> => Len(matches) > 0
  <2>1. Len(matches) \in Nat /\ \A i \in 1..Len(matches) : matches[i] \in ToSet(matches)
    BY <1>2, ToSetOf
  <2>2. Len(matches) = 0 <=> matches = <<>>
    <3> HIDE DEF matches
    <3> QED
      BY <1>2
  <2> HIDE DEF matches
  <2> QED
    BY <1>2, <2>1, <2>2
<1> HIDE DEF matches
<1>9. \A i \in 2..Len(matches) : i \in 1..Len(matches)
  BY <1>8
<1>10. \A id \in removes : \E p \in ToSet(ps) : p.id = id
  BY <1>8, <1>9
<1>11. \A p \in found : p \in ToSet(ps)
  <2>1. CASE matches # <<>>
    <3>1. 1 \in 1..Len(matches)
      BY <1>8, <2>1
    <3> QED
      BY <1>8, <2>1, <3>1
  <2>2. CASE matches = <<>>
    BY <2>2 DEF Candidates
  <2> QED
    BY <2>1, <2>2
<1>12. found = {} => removes = {}
  <2>1. SUFFICES ASSUME found = {} PROVE \A i \in 2..Len(matches) : FALSE
    OBVIOUS
  <2>2. matches = <<>>
    BY <2>1
  <2> QED
    BY <1>8, <2>2
<1> HIDE DEF found
<1>13. found # {} => page \in ToSet(ps)
  BY <1>11
<1> HIDE DEF page
<1>14. NoPage \notin PageIds(g)
  BY DEF WikiAssumption, PageIds
<1>15. /\ target \in PageIds(g) \cup {NoPage} /\ title \in Names
       /\ target = NoPage => removes = {}
       /\ target # NoPage => \E p \in ToSet(ps) : p.id = target /\ p.title = title
  BY <1>1, <1>4, <1>12, <1>13, <1>14
<1>16. removes \in SUBSET PageIds(g)
  <2> HIDE DEF removes
  <2> QED
    BY <1>4, <1>10
<1> HIDE DEF removes, target, title, names, m
<1>17. m \in MutationSet(g)
  BY <1>1, <1>3, <1>5, <1>7, <1>15, <1>16 DEF MutationSet
<1>18. GoodMutation(m, doc, ps)
  <2>1. /\ m.target = target /\ m.removes = removes /\ m.title = title
        /\ m.aliases = names \ {title} /\ m.claims = M /\ m.relations = R
    BY <1>3
  <2> QED
    BY <1>6, <1>7, <1>10, <1>15, <2>1 DEF GoodMutation
<1> QED
  BY <1>17, <1>18 DEF GoodMutations, m

Distinct(s) == \A i, j \in 1..Len(s) : SamePage(s[i], s[j]) => i = j

LEMMA JoinMutationOf ==
  ASSUME WikiAssumption, NEW D \in SUBSET Docs, NEW g,
         NEW ps \in Seq(SoundPages(D, g)), UniqueIds(ps), NEW doc,
         NEW s \in Seq(GoodMutations(g, doc, ps)), Distinct(s),
         NEW m \in GoodMutations(g, doc, ps)
  PROVE  JoinMutation(s, m) \in Seq(GoodMutations(g, doc, ps)) /\ Distinct(JoinMutation(s, m))
<1> DEFINE V == GoodMutations(g, doc, ps)
           n == Len(s)
           hits == {i \in DOMAIN s : SamePage(s[i], m)}
           k == Min(hits)
           t == JoinMutation(s, m)
<1>1. n \in Nat /\ DOMAIN s = 1..n /\ hits \in SUBSET (1..n) /\ \A i \in 1..n : s[i] \in V
  OBVIOUS
<1>2. \A i, j \in 1..n : SamePage(s[i], s[j]) => i = j
  BY DEF Distinct
<1>3. CASE hits = {}
  <2>1. t = Append(s, m)
    BY <1>3 DEF JoinMutation
  <2>2. \A i \in 1..n : ~ SamePage(s[i], m) /\ ~ SamePage(m, s[i])
    BY <1>1, <1>3 DEF SamePage
  <2> HIDE DEF t, hits, V
  <2>3. t \in Seq(V) /\ Len(t) = n + 1 /\ t[n + 1] = m /\ \A i \in 1..n : t[i] = s[i]
    BY <2>1 DEF V
  <2>4. \A i \in 1..(n + 1) : i = n + 1 \/ i \in 1..n
    BY <1>1
  <2> HIDE DEF n
  <2>5. Distinct(t)
    BY <1>2, <2>2, <2>3, <2>4 DEF Distinct
  <2> QED
    BY <2>3, <2>5 DEF t, V
<1>4. CASE hits # {}
  <2>1. k \in hits
    <3> HIDE DEF hits, n
    <3> QED
      BY <1>1, <1>4, MinOf
  <2>2. k \in 1..n /\ SamePage(s[k], m)
    BY <1>1, <2>1
  <2> DEFINE old == s[k]
             MC == MergeClaims(old.claims, m.claims)
             MR == MergeRelations(old.relations, m.relations)
             x == [old EXCEPT !.removes = @ \cup m.removes, !.aliases = @ \cup m.aliases,
                              !.claims = MC, !.relations = MR]
  <2>3. t = [s EXCEPT
          ![k].removes = @ \cup m.removes, ![k].aliases = @ \cup m.aliases,
          ![k].claims = MergeClaims(@, m.claims),
          ![k].relations = MergeRelations(@, m.relations)]
    BY <1>4 DEF JoinMutation
  <2> HIDE DEF hits, k
  <2>4. t = [i \in 1..n |-> IF i = k THEN x ELSE s[i]]
    <3> DEFINE u == [i \in 1..n |-> IF i = k THEN x ELSE s[i]]
    <3>1. s \in [1..n -> V] /\ k \in 1..n /\ old \in MutationSet(g)
      BY <1>1, <2>2 DEF GoodMutations
    <3> HIDE DEF n, V
    <3> QED
      BY <2>3, <3>1 DEF MutationSet
  <2>5. old \in MutationSet(g) /\ GoodMutation(old, doc, ps) /\ m \in MutationSet(g) /\ GoodMutation(m, doc, ps)
    BY <1>1, <2>2 DEF GoodMutations
  <2> HIDE DEF old, t
  <2>6. old.target = m.target /\ old.title = m.title
    <3>1. old.target = m.target /\ (m.target # NoPage \/ old.title = m.title)
      BY <2>2 DEF SamePage, old
    <3>2. CASE m.target # NoPage
      <4>1. PICK p \in ToSet(ps) : p.id = m.target /\ p.title = old.title
        BY <2>5, <3>1, <3>2 DEF GoodMutation
      <4>2. PICK q \in ToSet(ps) : q.id = m.target /\ q.title = m.title
        BY <2>5, <3>2 DEF GoodMutation
      <4>3. PageOf(p.id, ps) = p /\ PageOf(q.id, ps) = q
        BY PageOfIs
      <4> QED
        BY <3>1, <4>1, <4>2, <4>3
    <3> QED
      BY <3>1, <3>2
  <2>7. /\ old.target \in PageIds(g) \cup {NoPage} /\ old.removes \in SUBSET PageIds(g)
        /\ old.title \in Names /\ old.aliases \in SUBSET Names
        /\ old.claims \in SUBSET PageClaims /\ old.relations \in SUBSET PageRelations
        /\ m.removes \in SUBSET PageIds(g) /\ m.aliases \in SUBSET Names
        /\ m.claims \in SUBSET PageClaims /\ m.relations \in SUBSET PageRelations
    BY <2>5, MutationFields
  <2>8. MC \in SUBSET PageClaims /\ Exact(MC) /\ CitedBy(MC, {doc})
    <3>1. Marked(old.claims \cup m.claims) /\ CitedBy(old.claims \cup m.claims, {doc})
      BY <2>5 DEF Marked, GoodMutation, Exact, CitedBy
    <3>2. MergesClaims(MC, old.claims \cup m.claims, {doc})
      BY <2>7, <3>1, MergeClaimsOf
    <3> QED
      BY <3>1, <3>2 DEF MergesClaims
  <2>9. MR \in SUBSET PageRelations /\ CitedBy(MR, {doc})
    <3>1. CitedBy(old.relations \cup m.relations, {doc})
      BY <2>5 DEF GoodMutation, CitedBy
    <3>2. MergesRelations(MR, old.relations \cup m.relations, {doc})
      BY <2>7, MergeRelationsOf
    <3> QED
      BY <3>1, <3>2 DEF MergesRelations
  <2> HIDE DEF MC, MR
  <2>10. /\ x.target = old.target /\ x.title = old.title /\ x.removes = old.removes \cup m.removes
         /\ x.aliases = old.aliases \cup m.aliases /\ x.claims = MC /\ x.relations = MR
         /\ x \in MutationSet(g)
    BY <2>5, <2>7, <2>8, <2>9 DEF MutationSet
  <2> HIDE DEF x
  <2>11. GoodMutation(x, doc, ps)
    BY <2>5, <2>6, <2>8, <2>9, <2>10 DEF GoodMutation
  <2>12. x \in V
    BY <2>10, <2>11 DEF GoodMutations
  <2>13. t \in Seq(V) /\ Len(t) = n
    <3> HIDE DEF n, V
    <3>1. t \in [1..n -> V]
      BY <1>1, <2>4, <2>12
    <3> QED
      BY <1>1, <2>4, <3>1
  <2>14. \A i \in 1..n : t[i].target = s[i].target /\ t[i].title = s[i].title
    BY <2>4, <2>10 DEF old
  <2>15. Distinct(t)
    <3> HIDE DEF n, V
    <3> QED
      BY <1>2, <2>13, <2>14 DEF Distinct, SamePage
  <2> QED
    BY <2>13, <2>15 DEF t, V
<1> QED
  BY <1>3, <1>4

CoalesceFold(f, s) ==
  [S \in SUBSET DOMAIN s |-> IF S = {} THEN <<>> ELSE JoinMutation(f[S \ {Max(S)}], s[Max(S)])]

LEMMA CoalesceIsAFold ==
  \A s : Coalesce(s) = (CHOOSE f : f = CoalesceFold(f, s))[DOMAIN s]
  BY DEF Coalesce, FoldLeft, MapThenFoldSet, CoalesceFold

LEMMA CoalesceOf ==
  ASSUME WikiAssumption, NEW D \in SUBSET Docs, NEW g,
         NEW ps \in Seq(SoundPages(D, g)), UniqueIds(ps), NEW doc,
         NEW s \in Seq(GoodMutations(g, doc, ps))
  PROVE  Coalesce(s) \in Seq(GoodMutations(g, doc, ps)) /\ Distinct(Coalesce(s))
<1> DEFINE n == Len(s)
           V == GoodMutations(g, doc, ps)
           T == {x \in Seq(V) : Distinct(x)}
           G == [i \in 1..n |-> [x \in T |-> JoinMutation(x, s[i])]]
<1>1. n \in Nat /\ DOMAIN s = 1..n /\ \A i \in 1..n : s[i] \in V
  OBVIOUS
<1>2. \A i \in 1..n : \A x \in T : JoinMutation(x, s[i]) \in T
  BY <1>1, JoinMutationOf
<1>3. G \in [1..n -> [T -> T]] /\ \A i \in 1..n : \A x \in T : G[i][x] = JoinMutation(x, s[i])
  <2> HIDE DEF T, n
  <2> QED
    BY <1>2
<1>4. <<>> \in T
  <2>1. <<>> \in Seq(V) /\ Len(<<>>) = 0
    OBVIOUS
  <2>2. Distinct(<<>>)
    BY <2>1 DEF Distinct
  <2> QED
    BY <2>1, <2>2
<1> HIDE DEF n, T, G
<1>5. PICK f : FoldsAlong(f, T, n, <<>>, G)
  BY <1>1, <1>3, <1>4, FoldExists
<1>6. /\ f \in [SUBSET (1..n) -> T]
      /\ \A S \in SUBSET (1..n) : f[S] = IF S = {} THEN <<>> ELSE G[Max(S)][f[S \ {Max(S)}]]
  BY <1>5 DEF FoldsAlong
<1>7. \A S \in SUBSET (1..n) : S # {} => Max(S) \in 1..n /\ S \ {Max(S)} \in SUBSET (1..n)
  BY <1>1, MaxOf
<1>8. \A S \in SUBSET (1..n) : f[S] = IF S = {} THEN <<>> ELSE JoinMutation(f[S \ {Max(S)}], s[Max(S)])
  BY <1>3, <1>6, <1>7
<1>9. f = CoalesceFold(f, s)
  BY <1>1, <1>6, <1>8 DEF CoalesceFold
<1> DEFINE h == CHOOSE x : x = CoalesceFold(x, s)
<1>10. h = CoalesceFold(h, s) /\ Coalesce(s) = h[1..n]
  BY <1>1, <1>9, CoalesceIsAFold
<1> HIDE DEF h
<1>11. \A S \in SUBSET (1..n) : h[S] = IF S = {} THEN <<>> ELSE JoinMutation(h[S \ {Max(S)}], s[Max(S)])
  BY <1>1, <1>10 DEF CoalesceFold
<1>12. Climbs(h, T, n, <<>>, G)
  BY <1>3, <1>7, <1>11 DEF Climbs
<1>13. PICK r : RunTo(r, T, n, <<>>, G, h[1..n])
  BY <1>1, <1>3, <1>4, <1>12, RunOf
<1> QED
  BY <1>10, <1>13 DEF RunTo, T

Unused(doc, g, ps) == \A p \in ToSet(ps) : p.id[2] = g => p.id[1] # doc

PagesCompiled(A, doc, D, g, ps) ==
  /\ A \in Seq(SoundPages(D, g))
  /\ \A q \in ToSet(A) :
       /\ (\E p \in ToSet(ps) : p.id = q.id) \/ (q.id[1] = doc /\ q.id[2] = g)
       /\ \A id \in q.removes : \E p \in ToSet(ps) : p.id = id
  /\ Unused(doc, g, ps) =>
       /\ UniqueIds(A)
       /\ \A q \in ToSet(A) : \A p \in ToSet(ps) : p.id \in q.removes \cup {q.id} => Continues(q, p)

LEMMA CompiledPagesOf ==
  ASSUME WikiAssumption, NEW D \in SUBSET Docs, NEW g \in Nat, g > 0,
         NEW ps \in Seq(SoundPages(D, g)), UniqueIds(ps),
         NEW doc \in D, NEW answer \in Seq(FragmentSet)
  PROVE  PagesCompiled(CompiledPages(answer, doc, ps, g), doc, D, g, ps)
<1> DEFINE delta == Reduce(Resolved(answer))
           all == [i \in DOMAIN delta.entities |-> Mutation(delta.entities[i], delta, doc, ps)]
           V == GoodMutations(g, doc, ps)
           some == Keep(all, {m \in ToSet(all) : ~Redundant(m, doc, ps)})
           kept == Coalesce(some)
           Page(m) == Projected(Applied(m, doc, ps, g), m)
           A == CompiledPages(answer, doc, ps, g)
           n == Len(kept)
<1>1. delta \in KnowledgeSet
  <2>1. Resolved(answer) \in Seq(FragmentSet)
    BY KeptSet DEF Resolved
  <2> QED
    BY <2>1, ReduceOf
<1> HIDE DEF delta
<1>2. all \in Seq(V)
  <2> DEFINE l == Len(delta.entities)
  <2>1. l \in Nat /\ DOMAIN delta.entities = 1..l /\ \A i \in 1..l : delta.entities[i] \in Entities
    BY <1>1 DEF KnowledgeSet
  <2>2. \A i \in 1..l : Mutation(delta.entities[i], delta, doc, ps) \in V
    BY <1>1, <2>1, MutationOf
  <2> HIDE DEF V, l
  <2>3. all \in [1..l -> V]
    BY <2>1, <2>2
  <2> HIDE DEF all
  <2> QED
    BY <2>1, <2>3
<1> HIDE DEF all
<1>3. some \in Seq(V)
  <2> HIDE DEF V
  <2> QED
    BY <1>2, KeptSet
<1> HIDE DEF some
<1>4. kept \in Seq(V) /\ Distinct(kept)
  BY <1>3, CoalesceOf
<1>5. A = [i \in DOMAIN kept |-> Page(kept[i])]
  BY DEF CompiledPages, kept, some, all, delta
<1> HIDE DEF kept, A
<1>6. n \in Nat /\ DOMAIN kept = 1..n /\ \A i \in 1..n : kept[i] \in V
  <2> HIDE DEF V
  <2> QED
    BY <1>4
<1>7. \A i \in 1..n : AppliesTo(Page(kept[i]), kept[i], doc, D, g, ps)
  BY <1>6, AppliedOf
<1> HIDE DEF Page, n
<1>8. A \in [1..n -> SoundPages(D, g)] /\ \A i \in 1..n : AppliesTo(A[i], kept[i], doc, D, g, ps)
  BY <1>5, <1>6, <1>7 DEF AppliesTo
<1>9. A \in Seq(SoundPages(D, g)) /\ Len(A) = n
  <2> DEFINE P == SoundPages(D, g)
  <2>1. A \in [1..n -> P]
    BY <1>8
  <2> HIDE DEF P
  <2>2. A \in Seq(P) /\ Len(A) = n
    BY <1>6, <2>1
  <2> QED
    BY <2>2 DEF P
<1>10. \A q \in ToSet(A) : \E i \in 1..n : q = A[i]
  BY <1>9, ToSetOf
<1>11. \A i \in 1..n : /\ A[i].removes = kept[i].removes
                       /\ A[i].id = IF kept[i].target = NoPage THEN <<doc, g, kept[i].title>>
                                    ELSE kept[i].target
                       /\ \A p \in ToSet(ps) : p.id \in kept[i].removes \cup {kept[i].target}
                                                 => Continues(A[i], p)
  BY <1>8 DEF AppliesTo
<1>12. \A i \in 1..n : GoodMutation(kept[i], doc, ps)
  BY <1>6 DEF GoodMutations
<1>13. ASSUME NEW i \in 1..n
       PROVE  /\ (\E p \in ToSet(ps) : p.id = A[i].id) \/ (A[i].id[1] = doc /\ A[i].id[2] = g)
              /\ \A id \in A[i].removes : \E p \in ToSet(ps) : p.id = id
  <2>1. \A id \in A[i].removes : \E p \in ToSet(ps) : p.id = id
    BY <1>11, <1>12 DEF GoodMutation
  <2>2. CASE kept[i].target = NoPage
    <3>1. A[i].id = <<doc, g, kept[i].title>>
      BY <1>11, <2>2
    <3> QED
      BY <2>1, <3>1
  <2>3. CASE kept[i].target # NoPage
    <3>1. A[i].id = kept[i].target
      BY <1>11, <2>3
    <3> QED
      BY <1>12, <2>1, <2>3, <3>1 DEF GoodMutation
  <2> QED
    BY <2>2, <2>3
<1>14. ASSUME Unused(doc, g, ps)
       PROVE  /\ UniqueIds(A)
              /\ \A i \in 1..n : \A p \in ToSet(ps) : p.id \in A[i].removes \cup {A[i].id} => Continues(A[i], p)
  <2>1. \A p \in ToSet(ps) : \A x : p.id # <<doc, g, x>>
    BY <1>14 DEF Unused
  <2>2. \A i \in 1..n : \A p \in ToSet(ps) : p.id = A[i].id => p.id = kept[i].target
    BY <1>11, <2>1
  <2>3. \A i \in 1..n : kept[i].target # NoPage => \A x : kept[i].target # <<doc, g, x>>
    <3>1. \A i \in 1..n : kept[i].target # NoPage => \E p \in ToSet(ps) : p.id = kept[i].target
      BY <1>12 DEF GoodMutation
    <3> QED
      BY <2>1, <3>1
  <2>4. UniqueIds(A)
    <3>1. SUFFICES ASSUME NEW i \in 1..n, NEW j \in 1..n, A[i].id = A[j].id PROVE i = j
      BY <1>9 DEF UniqueIds
    <3>2. kept[i].target = kept[j].target
      BY <1>11, <2>3, <3>1
    <3>3. kept[i].target = NoPage => kept[i].title = kept[j].title
      <4>1. ASSUME kept[i].target = NoPage
            PROVE  <<doc, g, kept[i].title>> = <<doc, g, kept[j].title>>
        BY <1>11, <3>1, <3>2, <4>1
      <4> QED
        BY <4>1
    <3>4. SamePage(kept[i], kept[j])
      BY <3>2, <3>3 DEF SamePage
    <3> QED
      BY <1>4, <3>4 DEF Distinct, n
  <2> QED
    BY <1>11, <2>2, <2>4
<1> QED
  BY SMTT(40), <1>9, <1>10, <1>13, <1>14 DEF PagesCompiled, A

-----------------------------------------------------------------------------
(* The documents in turn.                                                  *)

CompileSet(D, g) ==
  {c \in [existing : Seq(SoundPages(D, g)), affected : Seq(SoundPages(D, g))] :
     UniqueIds(c.existing) /\ UniqueIds(c.affected)}

\* What merging a page does to the pages and to the affected ones.
Merges(e, c, page, D, g) ==
  /\ e \in CompileSet(D, g)
  /\ \E q \in SoundPages(D, g) :
       /\ q.id = page.id /\ \A p : Continues(page, p) => Continues(q, p)
       /\ \A id \in q.removes :
            id \in page.removes \/ \E p \in ToSet(c.affected) : p.id = page.id /\ id \in p.removes
       /\ ToSet(e.existing) = {p \in ToSet(c.existing) : p.id \notin q.removes /\ p.id # q.id} \cup {q}
       /\ ToSet(e.affected) = {p \in ToSet(c.affected) : p.id \notin q.removes /\ p.id # q.id} \cup {q}
  /\ Ordered(c.affected) => Ordered(e.affected)

LEMMA CompileFields ==
  ASSUME NEW D, NEW g, NEW c \in CompileSet(D, g)
  PROVE  /\ c.existing \in Seq(SoundPages(D, g)) /\ c.affected \in Seq(SoundPages(D, g))
         /\ UniqueIds(c.existing) /\ UniqueIds(c.affected)
  BY DEF CompileSet

LEMMA MergeCompiledOf ==
  ASSUME NEW D, NEW g, NEW c \in CompileSet(D, g), NEW page \in SoundPages(D, g)
  PROVE  Merges(MergeCompiled(c, page), c, page, D, g)
<1> DEFINE P == SoundPages(D, g)
           prior == {p \in ToSet(c.affected) : p.id = page.id}
           removes == page.removes \cup UNION {p.removes : p \in prior}
           q == [page EXCEPT !.removes = removes]
           X == Without(c.existing, removes)
           Y == Without(c.affected, removes)
           e == MergeCompiled(c, page)
<1>1. c.existing \in Seq(P) /\ c.affected \in Seq(P) /\ UniqueIds(c.existing) /\ UniqueIds(c.affected)
  BY CompileFields
<1>2. page \in PageSet(D, g) /\ Sound(page)
  BY DEF SoundPages
<1>3. removes \in SUBSET PageIds(g)
  <2>1. \A p \in prior : p \in PageSet(D, g)
    BY <1>1, ToSetOf DEF SoundPages
  <2>2. \A p \in prior : p.removes \in SUBSET PageIds(g)
    BY <2>1, PageFields
  <2>3. page.removes \in SUBSET PageIds(g)
    BY <1>2, PageFields
  <2> HIDE DEF prior
  <2> QED
    BY <2>2, <2>3
<1>4. \A id \in removes :
         id \in page.removes \/ \E p \in ToSet(c.affected) : p.id = page.id /\ id \in p.removes
  OBVIOUS
<1>5. e = [existing |-> Upsert(X, q), affected |-> Upsert(Y, q)]
  BY DEF MergeCompiled
<1> HIDE DEF removes, e
<1>6. /\ q.id = page.id /\ q.title = page.title /\ q.aliases = page.aliases /\ q.claims = page.claims
      /\ q.relations = page.relations /\ q.sources = page.sources /\ q.removes = removes
      /\ q \in PageSet(D, g)
  BY <1>2, <1>3 DEF PageSet
<1> HIDE DEF q
<1>7. q \in P
  BY <1>2, <1>6 DEF SoundPages, Sound
<1>8. \A p : Continues(page, p) => Continues(q, p)
  BY <1>6 DEF Continues, NamesOf
<1> HIDE DEF P
<1>9. /\ X \in Seq(P) /\ ToSet(X) = {p \in ToSet(c.existing) : p.id \notin removes} /\ UniqueIds(X)
      /\ Y \in Seq(P) /\ ToSet(Y) = {p \in ToSet(c.affected) : p.id \notin removes} /\ UniqueIds(Y)
      /\ Ordered(c.affected) => Ordered(Y)
  BY <1>1, WithoutOf
<1> HIDE DEF X, Y
<1>10. /\ Upsert(X, q) \in Seq(P) /\ UniqueIds(Upsert(X, q))
       /\ ToSet(Upsert(X, q)) = {p \in ToSet(X) : p.id # q.id} \cup {q}
  BY <1>7, <1>9, UpsertOf
<1>11. /\ Upsert(Y, q) \in Seq(P) /\ UniqueIds(Upsert(Y, q))
       /\ ToSet(Upsert(Y, q)) = {p \in ToSet(Y) : p.id # q.id} \cup {q}
       /\ Ordered(Y) /\ (\A p \in ToSet(Y) : p.id # q.id => p.id \notin q.removes)
            => Ordered(Upsert(Y, q))
  BY <1>7, <1>9, UpsertOf
<1>12. Ordered(c.affected) => Ordered(Upsert(Y, q))
  BY <1>6, <1>9, <1>11
<1>13. e.existing = Upsert(X, q) /\ e.affected = Upsert(Y, q) /\ e \in CompileSet(D, g)
  BY <1>5, <1>10, <1>11 DEF CompileSet, P
<1>14. ToSet(e.existing) = {p \in ToSet(c.existing) : p.id \notin q.removes /\ p.id # q.id} \cup {q}
  BY <1>6, <1>9, <1>10, <1>13
<1>15. ToSet(e.affected) = {p \in ToSet(c.affected) : p.id \notin q.removes /\ p.id # q.id} \cup {q}
  BY <1>6, <1>9, <1>11, <1>13
<1>16. \A id \in q.removes :
         id \in page.removes \/ \E p \in ToSet(c.affected) : p.id = page.id /\ id \in p.removes
  BY <1>4, <1>6
<1> QED
  BY <1>6, <1>7, <1>8, <1>12, <1>13, <1>14, <1>15, <1>16 DEF Merges, e, P

\* What every document leaves: the affected pages are among the pages, which
\* continue the stored ones they replace or remove, and the identifiers of the
\* generation are of the documents done.
CompileGood(c, S, done, g) ==
  /\ ToSet(c.affected) \subseteq ToSet(c.existing) /\ Ordered(c.affected)
  /\ \A q \in ToSet(c.existing) : Keeping(q, S) /\ (q.id[2] = g => q.id[1] \in done)

MergeFold(f, c, s) ==
  [S \in SUBSET DOMAIN s |-> IF S = {} THEN c ELSE MergeCompiled(f[S \ {Max(S)}], s[Max(S)])]

LEMMA MergeIsAFold ==
  \A s, c : FoldLeft(MergeCompiled, c, s) = (CHOOSE f : f = MergeFold(f, c, s))[DOMAIN s]
  BY DEF FoldLeft, MapThenFoldSet, MergeFold

MergeRun(r, c, A, D, g) ==
  /\ r \in [0..Len(A) -> CompileSet(D, g)] /\ r[0] = c
  /\ \A i \in 1..Len(A) : r[i] = MergeCompiled(r[i - 1], A[i])
  /\ FoldLeft(MergeCompiled, c, A) = r[Len(A)]

LEMMA MergeRuns ==
  ASSUME NEW D, NEW g, NEW c \in CompileSet(D, g), NEW A \in Seq(SoundPages(D, g))
  PROVE  \E r : MergeRun(r, c, A, D, g)
<1> DEFINE n == Len(A)
           T == CompileSet(D, g)
           G == [i \in 1..n |-> [x \in T |-> MergeCompiled(x, A[i])]]
<1>1. n \in Nat /\ DOMAIN A = 1..n /\ \A i \in 1..n : A[i] \in SoundPages(D, g)
  OBVIOUS
<1>2. \A i \in 1..n : \A x \in T : MergeCompiled(x, A[i]) \in T
  BY <1>1, MergeCompiledOf DEF Merges
<1>3. G \in [1..n -> [T -> T]] /\ \A i \in 1..n : \A x \in T : G[i][x] = MergeCompiled(x, A[i])
  <2> HIDE DEF T, n
  <2> QED
    BY <1>2
<1>4. c \in T
  OBVIOUS
<1> HIDE DEF n, T, G
<1>5. PICK f : FoldsAlong(f, T, n, c, G)
  BY <1>1, <1>3, <1>4, FoldExists
<1>6. /\ f \in [SUBSET (1..n) -> T]
      /\ \A S \in SUBSET (1..n) : f[S] = IF S = {} THEN c ELSE G[Max(S)][f[S \ {Max(S)}]]
  BY <1>5 DEF FoldsAlong
<1>7. \A S \in SUBSET (1..n) : S # {} => Max(S) \in 1..n /\ S \ {Max(S)} \in SUBSET (1..n)
  BY <1>1, MaxOf
<1>8. \A S \in SUBSET (1..n) : f[S] = IF S = {} THEN c ELSE MergeCompiled(f[S \ {Max(S)}], A[Max(S)])
  BY <1>3, <1>6, <1>7
<1>9. f = MergeFold(f, c, A)
  BY <1>1, <1>6, <1>8 DEF MergeFold
<1> DEFINE h == CHOOSE x : x = MergeFold(x, c, A)
<1>10. h = MergeFold(h, c, A) /\ FoldLeft(MergeCompiled, c, A) = h[1..n]
  BY <1>1, <1>9, MergeIsAFold
<1> HIDE DEF h
<1>11. \A S \in SUBSET (1..n) : h[S] = IF S = {} THEN c ELSE MergeCompiled(h[S \ {Max(S)}], A[Max(S)])
  BY <1>1, <1>10 DEF MergeFold
<1>12. Climbs(h, T, n, c, G)
  BY <1>3, <1>7, <1>11 DEF Climbs
<1>13. PICK r : RunTo(r, T, n, c, G, h[1..n])
  BY <1>1, <1>3, <1>4, <1>12, RunOf
<1>14. /\ r \in [0..n -> T] /\ r[0] = c /\ r[n] = h[1..n]
       /\ \A i \in 1..n : r[i] = MergeCompiled(r[i - 1], A[i])
  BY <1>3, <1>13 DEF RunTo, RunAlong
<1>15. MergeRun(r, c, A, D, g)
  BY <1>10, <1>14 DEF MergeRun, n, T
<1> QED
  BY <1>15

LEMMA MergeAllOf ==
  ASSUME NEW D, NEW g, NEW c \in CompileSet(D, g), NEW doc, NEW A,
         PagesCompiled(A, doc, D, g, c.existing),
         NEW S, NEW done, doc \notin done, CompileGood(c, S, done, g),
         \A p \in ToSet(S) : p.id[2] # g
  PROVE  /\ FoldLeft(MergeCompiled, c, A) \in CompileSet(D, g)
         /\ CompileGood(FoldLeft(MergeCompiled, c, A), S, done \cup {doc}, g)
<1> DEFINE ps == c.existing
           P == SoundPages(D, g)
           n == Len(A)
           all == done \cup {doc}
<1>1. /\ A \in Seq(P) /\ UniqueIds(A)
      /\ \A q \in ToSet(A) :
           /\ (\E p \in ToSet(ps) : p.id = q.id) \/ (q.id[1] = doc /\ q.id[2] = g)
           /\ \A id \in q.removes : \E p \in ToSet(ps) : p.id = id
           /\ \A p \in ToSet(ps) : p.id \in q.removes \cup {q.id} => Continues(q, p)
  <2>1. Unused(doc, g, ps)
    BY DEF Unused, CompileGood
  <2> QED
    BY <2>1 DEF PagesCompiled
<1>2. n \in Nat /\ \A i \in 1..n : A[i] \in P /\ A[i] \in ToSet(A)
  BY <1>1, ToSetOf
<1>3. \A i, j \in 1..n : A[i].id = A[j].id => i = j
  BY <1>1 DEF UniqueIds
<1> HIDE DEF P, n
<1>4. PICK r : MergeRun(r, c, A, D, g)
  BY <1>1, MergeRuns DEF P
<1>5. /\ r \in [0..n -> CompileSet(D, g)] /\ r[0] = c
      /\ \A i \in 1..n : r[i] = MergeCompiled(r[i - 1], A[i])
      /\ FoldLeft(MergeCompiled, c, A) = r[n]
  BY <1>4 DEF MergeRun, n
<1>6. /\ ToSet(c.affected) \subseteq ToSet(ps) /\ Ordered(c.affected)
      /\ \A q \in ToSet(ps) : Keeping(q, S) /\ (q.id[2] = g => q.id[1] \in done)
  BY DEF CompileGood
<1> HIDE DEF ps
<1> DEFINE Untouched(i) == \A q \in ToSet(r[i].existing) :
             (\E j \in 1..n : i < j /\ q.id = A[j].id) => q \in ToSet(ps)
           Good == {i \in 0..n : CompileGood(r[i], S, all, g) /\ Untouched(i)}
<1>7. 0 \in Good
  <2>1. 0 \in 0..n
    BY <1>2
  <2>2. CompileGood(c, S, all, g)
    BY <1>6 DEF CompileGood, ps
  <2>3. Untouched(0)
    BY <1>5 DEF ps
  <2> QED
    BY <1>5, <2>1, <2>2, <2>3
<1>8. ASSUME NEW i \in 0..n, i < n, i \in Good PROVE i + 1 \in Good
  <2>1. i + 1 \in 1..n /\ i + 1 \in 0..n /\ (i + 1) - 1 = i /\ i \in Nat
    BY <1>2, <1>8
  <2> DEFINE x == r[i]
             e == r[i + 1]
             page == A[i + 1]
  <2>2. x \in CompileSet(D, g) /\ page \in P /\ page \in ToSet(A) /\ e = MergeCompiled(x, page)
    BY <1>2, <1>5, <2>1
  <2>3. Merges(e, x, page, D, g)
    BY <2>2, MergeCompiledOf DEF P
  <2>4. /\ ToSet(x.affected) \subseteq ToSet(x.existing) /\ Ordered(x.affected)
        /\ \A q \in ToSet(x.existing) : Keeping(q, S) /\ (q.id[2] = g => q.id[1] \in all)
    BY <1>8 DEF CompileGood
  <2>5. \A q \in ToSet(x.existing) : (\E j \in 1..n : i < j /\ q.id = A[j].id) => q \in ToSet(ps)
    BY <1>8
  <2>6. i < i + 1
    BY <2>1
  <2>7. \A q \in ToSet(x.existing) : q.id = page.id => q \in ToSet(ps)
    BY <2>1, <2>5, <2>6
  <2> HIDE DEF x, e, page
  <2>8. PICK q \in P :
       /\ q.id = page.id /\ \A p : Continues(page, p) => Continues(q, p)
       /\ \A id \in q.removes :
            id \in page.removes \/ \E p \in ToSet(x.affected) : p.id = page.id /\ id \in p.removes
       /\ ToSet(e.existing) = {p \in ToSet(x.existing) : p.id \notin q.removes /\ p.id # q.id} \cup {q}
       /\ ToSet(e.affected) = {p \in ToSet(x.affected) : p.id \notin q.removes /\ p.id # q.id} \cup {q}
    BY <2>3 DEF Merges, P
  <2>9. Ordered(e.affected)
    BY <2>3, <2>4 DEF Merges
  <2>10. ToSet(e.affected) \subseteq ToSet(e.existing)
    BY <2>4, <2>8
  <2>11. Keeping(q, S)
    <3>1. SUFFICES ASSUME NEW p \in ToSet(S), p.id \in q.removes \cup {q.id} PROVE Continues(q, p)
      BY DEF Keeping
    <3>2. ASSUME NEW y \in ToSet(ps), p.id \in y.removes \cup {y.id}, Continues(page, y)
          PROVE  Continues(q, p)
      <4>1. Continues(y, p)
        BY <1>6, <3>2 DEF Keeping
      <4>2. Continues(q, y)
        BY <2>8, <3>2
      <4> QED
        BY <4>1, <4>2, ContinuesTransitive
    <3>3. CASE p.id \in page.removes
      <4>1. PICK y \in ToSet(ps) : y.id = p.id
        BY <1>1, <2>2, <3>3
      <4>2. Continues(page, y)
        BY <1>1, <2>2, <3>3, <4>1
      <4> QED
        BY <3>2, <4>1, <4>2
    <3>4. CASE p.id = page.id
      <4>1. page.id[2] # g
        BY <3>4
      <4>2. PICK y \in ToSet(ps) : y.id = page.id
        BY <1>1, <2>2, <4>1
      <4>3. Continues(page, y)
        BY <1>1, <2>2, <4>2
      <4> QED
        BY <3>2, <3>4, <4>2, <4>3
    <3>5. CASE \E y \in ToSet(x.affected) : y.id = page.id /\ p.id \in y.removes
      <4>1. PICK y \in ToSet(x.affected) : y.id = page.id /\ p.id \in y.removes
        BY <3>5
      <4>2. y \in ToSet(ps)
        BY <2>4, <2>7, <4>1
      <4>3. Continues(page, y)
        BY <1>1, <2>2, <4>1, <4>2
      <4> QED
        BY <3>2, <4>1, <4>2, <4>3
    <3> QED
      BY <2>8, <3>1, <3>3, <3>4, <3>5
  <2>12. q.id[2] = g => q.id[1] \in all
    <3>1. (\E p \in ToSet(ps) : p.id = page.id) \/ (page.id[1] = doc /\ page.id[2] = g)
      BY <1>1, <2>2
    <3> QED
      BY <1>6, <2>8, <3>1
  <2>13. CompileGood(e, S, all, g)
    <3>1. ASSUME NEW p \in ToSet(e.existing) PROVE Keeping(p, S) /\ (p.id[2] = g => p.id[1] \in all)
      <4>1. p = q \/ p \in ToSet(x.existing)
        BY <2>8
      <4> QED
        BY <2>4, <2>11, <2>12, <4>1
    <3> QED
      BY <2>9, <2>10, <3>1 DEF CompileGood
  <2>14. ASSUME NEW p \in ToSet(e.existing), NEW j \in 1..n, i + 1 < j, p.id = A[j].id
         PROVE  p \in ToSet(ps)
    <3>1. j # i + 1 /\ i < j
      BY <2>1, <2>14
    <3>2. p.id # page.id
      BY <1>3, <2>1, <2>14, <3>1 DEF page
    <3>3. p \in ToSet(x.existing)
      BY <2>8, <3>2
    <3> QED
      BY <2>5, <2>14, <3>1, <3>3
  <2>15. Untouched(i + 1)
    BY <2>14 DEF e
  <2> QED
    BY <2>1, <2>13, <2>15 DEF e
<1>9. \A i \in 0..n : i \in Good
  <2> HIDE DEF Good
  <2> QED
    BY <1>2, <1>7, <1>8, UpTo
<1>10. n \in 0..n
  BY <1>2
<1> QED
  BY <1>5, <1>9, <1>10

CompileFold(f, said, docs, ps, g) ==
  [S \in SUBSET DOMAIN docs |->
     IF S = {} THEN [existing |-> ps, affected |-> <<>>]
     ELSE CompileNext(f[S \ {Max(S)}], said[docs[Max(S)]], docs[Max(S)], g)]

CompileEnd(said, docs, ps, g) ==
  FoldLeft(LAMBDA c, d : CompileNext(c, said[d], d, g), [existing |-> ps, affected |-> <<>>], docs)

LEMMA CompileIsAFold ==
  \A said, docs, ps, g :
    CompileEnd(said, docs, ps, g) = (CHOOSE f : f = CompileFold(f, said, docs, ps, g))[DOMAIN docs]
  BY DEF CompileEnd, FoldLeft, MapThenFoldSet, CompileFold

LEMMA CompileAllIs ==
  \A said, docs, ps, g :
    CompileAll(said, docs, ps, g) =
      IF CompileEnd(said, docs, ps, g) = NoCompile THEN NoCompile
      ELSE [affected |-> CompileEnd(said, docs, ps, g).affected, covers |-> ToSet(docs)]
  BY DEF CompileAll, CompileEnd

ExtendsCompile(e, c, d, D, g) ==
  /\ e \in CompileSet(D, g) \cup {NoCompile}
  /\ \A S, done : /\ e # NoCompile /\ CompileGood(c, S, done, g)
                  /\ d \notin done /\ \A p \in ToSet(S) : p.id[2] # g
                  => CompileGood(e, S, done \cup {d}, g)

LEMMA CompileNextOf ==
  ASSUME WikiAssumption, NEW D \in SUBSET Docs, NEW g \in Nat, g > 0,
         NEW c \in CompileSet(D, g) \cup {NoCompile}, NEW d \in D, NEW answer \in Seq(FragmentSet)
  PROVE  ExtendsCompile(CompileNext(c, answer, d, g), c, d, D, g)
<1> DEFINE e == CompileNext(c, answer, d, g)
<1>1. CASE c = NoCompile \/ ~Compiles(answer, c.existing)
  <2>1. e = NoCompile
    BY <1>1 DEF CompileNext
  <2> QED
    BY <2>1 DEF ExtendsCompile
<1>2. CASE ~ (c = NoCompile \/ ~Compiles(answer, c.existing))
  <2> DEFINE A == CompiledPages(answer, d, c.existing, g)
  <2>1. e = FoldLeft(MergeCompiled, c, A)
    BY <1>2 DEF CompileNext
  <2>2. c # NoCompile /\ c \in CompileSet(D, g)
    BY <1>2
  <2> HIDE DEF e, A
  <2>3. c.existing \in Seq(SoundPages(D, g)) /\ UniqueIds(c.existing)
    BY <2>2, CompileFields
  <2>4. PagesCompiled(A, d, D, g, c.existing)
    BY <2>3, CompiledPagesOf DEF A
  <2>5. A \in Seq(SoundPages(D, g))
    BY <2>4 DEF PagesCompiled
  <2>6. PICK r : MergeRun(r, c, A, D, g)
    BY <2>2, <2>5, MergeRuns
  <2>7. e \in CompileSet(D, g)
    <3>1. Len(A) \in 0..Len(A)
      BY <2>5
    <3> QED
      BY <2>1, <2>6, <3>1 DEF MergeRun
  <2>8. ASSUME NEW S, NEW done, CompileGood(c, S, done, g), d \notin done,
               \A p \in ToSet(S) : p.id[2] # g
        PROVE  CompileGood(e, S, done \cup {d}, g)
    BY <2>1, <2>2, <2>4, <2>8, MergeAllOf
  <2> QED
    BY <2>7, <2>8 DEF e, ExtendsCompile
<1> QED
  BY <1>1, <1>2

LEMMA CompileAllOf ==
  ASSUME WikiAssumption, NEW D \in SUBSET Docs, NEW g \in Nat, g > 0,
         NEW S \in Seq(SoundPages(D, g)), UniqueIds(S),
         \A p \in ToSet(S) : p.removes = {} /\ p.id[2] # g,
         NEW docs \in Seq(D), \A i, j \in 1..Len(docs) : docs[i] = docs[j] => i = j,
         NEW said, \A d \in ToSet(docs) : said[d] \in Seq(FragmentSet),
         CompileAll(said, docs, S, g) # NoCompile
  PROVE  /\ CompileAll(said, docs, S, g).covers = ToSet(docs)
         /\ Result(CompileAll(said, docs, S, g).affected, D, g, S)
<1> DEFINE n == Len(docs)
           T == CompileSet(D, g) \cup {NoCompile}
           c0 == [existing |-> S, affected |-> <<>>]
           Onto(i, x) == CompileNext(x, said[docs[i]], docs[i], g)
           G == [i \in 1..n |-> [x \in T |-> Onto(i, x)]]
           end == CompileEnd(said, docs, S, g)
<1>1. n \in Nat /\ DOMAIN docs = 1..n
      /\ \A i \in 1..n : docs[i] \in D /\ said[docs[i]] \in Seq(FragmentSet)
  <2>1. \A i \in 1..n : docs[i] \in ToSet(docs) /\ docs[i] \in D
    BY ToSetOf
  <2> QED
    BY <2>1
<1>2. \A i \in 1..n : \A x \in T : Onto(i, x) \in T
  BY <1>1, CompileNextOf DEF ExtendsCompile
<1>3. G \in [1..n -> [T -> T]] /\ \A i \in 1..n : \A x \in T : G[i][x] = Onto(i, x)
  <2> HIDE DEF T, n, Onto
  <2> QED
    BY <1>2
<1>4. c0 \in CompileSet(D, g) /\ c0.existing = S /\ c0.affected = <<>>
  <2>1. <<>> \in Seq(SoundPages(D, g)) /\ UniqueIds(<<>>)
    BY DEF UniqueIds
  <2> QED
    BY <2>1 DEF CompileSet
<1>4a. c0 \in T
  BY <1>4
<1> HIDE DEF n, T, G, Onto, c0
<1>5. PICK f : FoldsAlong(f, T, n, c0, G)
  BY <1>1, <1>3, <1>4a, FoldExists
<1>6. /\ f \in [SUBSET (1..n) -> T]
      /\ \A U \in SUBSET (1..n) : f[U] = IF U = {} THEN c0 ELSE G[Max(U)][f[U \ {Max(U)}]]
  BY <1>5 DEF FoldsAlong
<1>7. \A U \in SUBSET (1..n) : U # {} => Max(U) \in 1..n /\ U \ {Max(U)} \in SUBSET (1..n)
  BY <1>1, MaxOf
<1>8. \A U \in SUBSET (1..n) : f[U] = IF U = {} THEN c0 ELSE Onto(Max(U), f[U \ {Max(U)}])
  BY <1>3, <1>6, <1>7
<1>9. f = CompileFold(f, said, docs, S, g)
  BY <1>1, <1>6, <1>8 DEF CompileFold, Onto, c0
<1> DEFINE h == CHOOSE x : x = CompileFold(x, said, docs, S, g)
<1>10. h = CompileFold(h, said, docs, S, g) /\ end = h[1..n]
  BY <1>1, <1>9, CompileIsAFold
<1> HIDE DEF h, end
<1>11. \A U \in SUBSET (1..n) : h[U] = IF U = {} THEN c0 ELSE Onto(Max(U), h[U \ {Max(U)}])
  BY <1>1, <1>10 DEF CompileFold, Onto, c0
<1>12. Climbs(h, T, n, c0, G)
  BY ZenonT(40), <1>3, <1>7, <1>11 DEF Climbs
<1>13. PICK r : RunTo(r, T, n, c0, G, h[1..n])
  BY <1>1, <1>3, <1>4a, <1>12, RunOf
<1>14. /\ r \in [0..n -> T] /\ r[0] = c0 /\ r[n] = end
       /\ \A i \in 1..n : r[i - 1] \in T /\ r[i] = Onto(i, r[i - 1])
  BY <1>3, <1>10, <1>13 DEF RunTo, RunAlong
<1> DEFINE Done(i) == {docs[j] : j \in 1..i}
           Good == {i \in 0..n : r[i] = NoCompile \/ CompileGood(r[i], S, Done(i), g)}
<1>15. 0 \in Good
  <2>1. 0 \in 0..n
    BY <1>1
  <2>2. ToSet(<<>>) = {} /\ Ordered(<<>>)
    BY DEF ToSet, Ordered
  <2>3. \A q \in ToSet(S) : Keeping(q, S) /\ q.id[2] # g
    <3>1. SUFFICES ASSUME NEW q \in ToSet(S), NEW p \in ToSet(S), p.id \in q.removes \cup {q.id}
                   PROVE  Continues(q, p)
      BY DEF Keeping
    <3>2. PageOf(p.id, S) = p /\ PageOf(q.id, S) = q
      BY PageOfIs
    <3>3. p = q
      BY <3>1, <3>2
    <3> QED
      BY <3>3, ContinuesReflexive
  <2>4. CompileGood(c0, S, Done(0), g)
    BY <1>4, <2>2, <2>3 DEF CompileGood
  <2> QED
    BY <1>14, <2>1, <2>4
<1>16. ASSUME NEW i \in 0..n, i < n, i \in Good PROVE i + 1 \in Good
  <2>1. i + 1 \in 1..n /\ i + 1 \in 0..n /\ (i + 1) - 1 = i /\ i \in Nat
    BY <1>1, <1>16
  <2>2. r[i + 1] = Onto(i + 1, r[i]) /\ r[i] \in T
    BY <1>14, <2>1
  <2>3. docs[i + 1] \notin Done(i)
    <3>1. \A j \in 1..i : j \in 1..n /\ j # i + 1
      BY <1>1, <1>16
    <3> QED
      BY <2>1, <3>1 DEF n
  <2>4. Done(i + 1) = Done(i) \cup {docs[i + 1]}
    <3>1. \A j : j \in 1..(i + 1) <=> j \in 1..i \/ j = i + 1
      BY <2>1
    <3> QED
      BY <3>1
  <2> HIDE DEF Done
  <2>5. SUFFICES ASSUME r[i + 1] # NoCompile PROVE CompileGood(r[i + 1], S, Done(i + 1), g)
    BY <2>1
  <2>6. docs[i + 1] \in D /\ said[docs[i + 1]] \in Seq(FragmentSet) /\ r[i] \in CompileSet(D, g) \cup {NoCompile}
    BY <1>1, <2>1, <2>2 DEF T
  <2>7. r[i] # NoCompile
    BY <2>2, <2>5 DEF Onto, CompileNext
  <2>8. CompileGood(r[i], S, Done(i), g)
    BY <1>16, <2>7
  <2>9. CompileNext(r[i], said[docs[i + 1]], docs[i + 1], g) = r[i + 1]
    BY <2>2 DEF Onto
  <2>10. CompileGood(CompileNext(r[i], said[docs[i + 1]], docs[i + 1], g), S, Done(i) \cup {docs[i + 1]}, g)
    <3>1. ExtendsCompile(CompileNext(r[i], said[docs[i + 1]], docs[i + 1], g), r[i], docs[i + 1], D, g)
      BY <2>6, CompileNextOf
    <3> QED
      BY <2>3, <2>5, <2>8, <2>9, <3>1 DEF ExtendsCompile
  <2> QED
    BY <2>4, <2>9, <2>10
<1>17. \A i \in 0..n : i \in Good
  <2> HIDE DEF Good
  <2> QED
    BY <1>1, <1>15, <1>16, UpTo
<1>18. n \in 0..n
  BY <1>1
<1>19. end # NoCompile /\ CompileAll(said, docs, S, g) = [affected |-> end.affected, covers |-> ToSet(docs)]
  BY CompileAllIs DEF end
<1>20. end \in CompileSet(D, g) /\ CompileGood(end, S, Done(n), g)
  BY <1>14, <1>17, <1>18, <1>19 DEF T
<1> DEFINE A == end.affected
<1>21. A \in Seq(SoundPages(D, g)) /\ UniqueIds(A)
  BY <1>20, CompileFields
<1>22. ToSet(A) \subseteq ToSet(end.existing) /\ Ordered(A)
       /\ \A q \in ToSet(end.existing) : Keeping(q, S)
  BY <1>20 DEF CompileGood
<1>23. A \in Seq(GoodPages(D, g, S))
  <2> HIDE DEF A
  <2> DEFINE V == GoodPages(D, g, S)
  <2>1. Len(A) \in Nat /\ DOMAIN A = 1..Len(A)
        /\ \A i \in 1..Len(A) : A[i] \in SoundPages(D, g) /\ A[i] \in ToSet(A)
    BY <1>21, ToSetOf
  <2>2. \A i \in 1..Len(A) : A[i] \in V
    BY <1>22, <2>1 DEF GoodPages, SoundPages
  <2>3. A = [i \in 1..Len(A) |-> A[i]]
    BY <1>21
  <2> HIDE DEF V
  <2>4. A \in [1..Len(A) -> V]
    BY <2>2, <2>3
  <2>5. A \in Seq(V)
    BY <2>1, <2>4
  <2> QED
    BY <2>5 DEF V
<1>24. Result(A, D, g, S)
  BY <1>21, <1>22, <1>23 DEF Result
<1> QED
  BY <1>19, <1>24

-----------------------------------------------------------------------------
(* Storing the pages.                                                      *)

RowSet(D, g) == {s \in Seq(SoundPages(D, g)) : UniqueIds(s)}
Writes(t, s, p) ==
  \E q : /\ q.id = p.id /\ q.removes = {} /\ q = Reloaded(p)
         /\ ToSet(t) = {x \in ToSet(s) : x.id \notin p.removes /\ x.id # q.id} \cup {q}

LEMMA WriteOf ==
  ASSUME NEW D, NEW g, NEW s \in RowSet(D, g), NEW p \in SoundPages(D, g)
  PROVE  Write(s, p) \in RowSet(D, g) /\ Writes(Write(s, p), s, p)
<1> DEFINE V == SoundPages(D, g)
           q == [p EXCEPT !.removes = {}]
           X == Without(s, p.removes)
<1>1. s \in Seq(V) /\ UniqueIds(s) /\ p \in PageSet(D, g) /\ Sound(p)
  BY DEF RowSet, SoundPages
<1>2. /\ q.id = p.id /\ q.title = p.title /\ q.aliases = p.aliases /\ q.claims = p.claims
      /\ q.relations = p.relations /\ q.sources = p.sources /\ q.removes = {}
      /\ q \in PageSet(D, g)
  BY <1>1 DEF PageSet
<1>3. q = Reloaded(p)
  BY DEF Reloaded
<1> HIDE DEF q
<1>4. q \in V
  BY <1>1, <1>2 DEF SoundPages, Sound
<1> HIDE DEF V
<1>5. X \in Seq(V) /\ UniqueIds(X) /\ ToSet(X) = {x \in ToSet(s) : x.id \notin p.removes}
  BY <1>1, WithoutOf
<1> HIDE DEF X
<1>6. Upsert(X, q) \in Seq(V) /\ UniqueIds(Upsert(X, q))
      /\ ToSet(Upsert(X, q)) = {x \in ToSet(X) : x.id # q.id} \cup {q}
  BY <1>4, <1>5, UpsertOf
<1>7. Write(s, p) = Upsert(X, q)
  BY <1>3 DEF Write, X
<1>8. Write(s, p) \in RowSet(D, g)
  BY <1>6, <1>7 DEF RowSet, V
<1>9. ToSet(Write(s, p)) = {x \in ToSet(s) : x.id \notin p.removes /\ x.id # q.id} \cup {q}
  BY <1>5, <1>6, <1>7
<1>10. Writes(Write(s, p), s, p)
  BY <1>2, <1>3, <1>9 DEF Writes
<1> QED
  BY <1>8, <1>10

WriteFold(f, c, s) ==
  [S \in SUBSET DOMAIN s |-> IF S = {} THEN c ELSE Write(f[S \ {Max(S)}], s[Max(S)])]

LEMMA WriteIsAFold ==
  \A s, c : FoldLeft(Write, c, s) = (CHOOSE f : f = WriteFold(f, c, s))[DOMAIN s]
  BY DEF FoldLeft, MapThenFoldSet, WriteFold

\* The rows once all affected pages are written.
AllWritten(rows, S, A, D, g) ==
  /\ rows \in RowSet(D, g) /\ \A q \in ToSet(rows) : q.removes = {}
  /\ \A p \in ToSet(S) : \E q \in ToSet(rows) : Continues(q, p)

LEMMA WriteAllOf ==
  ASSUME NEW D, NEW g, NEW S \in RowSet(D, g), \A p \in ToSet(S) : p.removes = {},
         NEW A, Result(A, D, g, S)
  PROVE  AllWritten(FoldLeft(Write, S, A), S, A, D, g)
<1> DEFINE n == Len(A)
           T == RowSet(D, g)
           G == [i \in 1..n |-> [x \in T |-> Write(x, A[i])]]
           end == FoldLeft(Write, S, A)
<1>1. n \in Nat /\ DOMAIN A = 1..n /\ \A i \in 1..n : A[i] \in SoundPages(D, g) /\ Keeping(A[i], S)
  <2> DEFINE V == GoodPages(D, g, S)
  <2>1. A \in Seq(V)
    BY DEF Result
  <2>2. \A x \in V : x \in SoundPages(D, g) /\ Keeping(x, S)
    BY DEF GoodPages, SoundPages
  <2> HIDE DEF V
  <2>3. n \in Nat /\ DOMAIN A = 1..n /\ \A i \in 1..n : A[i] \in V
    BY <2>1
  <2> QED
    BY <2>2, <2>3
<1>2. \A i \in 1..n : \A x \in T : Write(x, A[i]) \in T /\ Writes(Write(x, A[i]), x, A[i])
  BY <1>1, WriteOf
<1>3. G \in [1..n -> [T -> T]] /\ \A i \in 1..n : \A x \in T : G[i][x] = Write(x, A[i])
  <2> HIDE DEF T, n
  <2> QED
    BY <1>2
<1>4. S \in T
  OBVIOUS
<1> HIDE DEF n, T, G
<1>5. PICK f : FoldsAlong(f, T, n, S, G)
  BY <1>1, <1>3, <1>4, FoldExists
<1>6. /\ f \in [SUBSET (1..n) -> T]
      /\ \A U \in SUBSET (1..n) : f[U] = IF U = {} THEN S ELSE G[Max(U)][f[U \ {Max(U)}]]
  BY <1>5 DEF FoldsAlong
<1>7. \A U \in SUBSET (1..n) : U # {} => Max(U) \in 1..n /\ U \ {Max(U)} \in SUBSET (1..n)
  BY <1>1, MaxOf
<1>8. \A U \in SUBSET (1..n) : f[U] = IF U = {} THEN S ELSE Write(f[U \ {Max(U)}], A[Max(U)])
  BY <1>3, <1>6, <1>7
<1>9. f = WriteFold(f, S, A)
  BY <1>1, <1>6, <1>8 DEF WriteFold
<1> DEFINE h == CHOOSE x : x = WriteFold(x, S, A)
<1>10. h = WriteFold(h, S, A) /\ end = h[1..n]
  BY <1>1, <1>9, WriteIsAFold
<1> HIDE DEF h, end
<1>11. \A U \in SUBSET (1..n) : h[U] = IF U = {} THEN S ELSE Write(h[U \ {Max(U)}], A[Max(U)])
  BY <1>1, <1>10 DEF WriteFold
<1>12. Climbs(h, T, n, S, G)
  BY <1>3, <1>7, <1>11 DEF Climbs
<1>13. PICK r : RunTo(r, T, n, S, G, h[1..n])
  BY <1>1, <1>3, <1>4, <1>12, RunOf
<1>14. /\ r \in [0..n -> T] /\ r[0] = S /\ r[n] = end
       /\ \A i \in 1..n : r[i - 1] \in T /\ r[i] = Write(r[i - 1], A[i])
  BY <1>3, <1>10, <1>13 DEF RunTo, RunAlong
<1> DEFINE Clean(s) == \A q \in ToSet(s) : q.removes = {}
           Covered(s, i) == \A p \in ToSet(S) : p \in ToSet(s) \/ \E j \in 1..i : p.id \in A[j].removes \cup {A[j].id}
           There(s, i) == \A j \in 1..i : Reloaded(A[j]) \in ToSet(s)
           Good == {i \in 0..n : Clean(r[i]) /\ Covered(r[i], i) /\ There(r[i], i)}
<1>15. 0 \in Good
  <2>1. 0 \in 0..n /\ 1..0 = {}
    BY <1>1
  <2> QED
    BY <1>14, <2>1
<1>16. ASSUME NEW i \in 0..n, i < n, i \in Good PROVE i + 1 \in Good
  <2>1. i + 1 \in 1..n /\ i + 1 \in 0..n /\ (i + 1) - 1 = i /\ i \in Nat
    BY <1>1, <1>16
  <2> DEFINE s == r[i]
             t == r[i + 1]
             p == A[i + 1]
  <2>2. Writes(t, s, p)
    BY <1>2, <1>14, <2>1
  <2>3. Clean(s) /\ Covered(s, i) /\ There(s, i)
    BY <1>16
  <2>4. p.id = A[i + 1].id /\ p.removes = A[i + 1].removes /\ p = A[i + 1]
    OBVIOUS
  <2> HIDE DEF s, t, p
  <2>5. PICK q : /\ q.id = p.id /\ q.removes = {} /\ q = Reloaded(p)
                 /\ ToSet(t) = {x \in ToSet(s) : x.id \notin p.removes /\ x.id # q.id} \cup {q}
    BY <2>2 DEF Writes
  <2>6. Clean(t)
    BY <2>3, <2>5
  <2>7. \A j \in 1..i : j \in 1..(i + 1) /\ j \in 1..n /\ j < i + 1 /\ j # i + 1
    BY <1>1, <1>16, <2>1
  <2>8. i + 1 \in 1..(i + 1) /\ \A j \in 1..(i + 1) : j \in 1..i \/ j = i + 1
    BY <2>1
  <2>9. Covered(t, i + 1)
    <3>1. SUFFICES ASSUME NEW x \in ToSet(S), x \notin ToSet(t)
                   PROVE  \E j \in 1..(i + 1) : x.id \in A[j].removes \cup {A[j].id}
      OBVIOUS
    <3>2. CASE x \in ToSet(s)
      BY <2>4, <2>5, <2>8, <3>1, <3>2
    <3>3. CASE x \notin ToSet(s)
      BY <2>3, <2>7, <3>3
    <3> QED
      BY <3>2, <3>3
  <2>10. There(t, i + 1)
    <3>1. SUFFICES ASSUME NEW j \in 1..(i + 1) PROVE Reloaded(A[j]) \in ToSet(t)
      OBVIOUS
    <3>2. CASE j = i + 1
      BY <2>4, <2>5, <3>2
    <3>3. CASE j \in 1..i
      <4>1. A[j].id # A[i + 1].id /\ A[j].id \notin A[i + 1].removes
        BY <2>1, <2>7, <3>3 DEF Result, UniqueIds, Ordered, n
      <4>2. Reloaded(A[j]).id = A[j].id
        <5>1. A[j] \in PageSet(D, g)
          BY <1>1, <2>7, <3>3 DEF SoundPages
        <5> QED
          BY <5>1 DEF Reloaded, PageSet
      <4> QED
        BY <2>3, <2>4, <2>5, <3>3, <4>1, <4>2
    <3> QED
      BY <2>8, <3>2, <3>3
  <2> QED
    BY <2>1, <2>6, <2>9, <2>10 DEF t
<1>17. \A i \in 0..n : i \in Good
  <2> HIDE DEF Good
  <2> QED
    BY <1>1, <1>15, <1>16, UpTo
<1>18. n \in 0..n
  BY <1>1
<1>19. end \in T /\ Clean(end) /\ Covered(end, n) /\ There(end, n)
  BY <1>14, <1>17, <1>18
<1>20. ASSUME NEW p \in ToSet(S) PROVE \E q \in ToSet(end) : Continues(q, p)
  <2>1. CASE p \in ToSet(end)
    BY <2>1, ContinuesReflexive
  <2>2. CASE p \notin ToSet(end)
    <3>1. PICK j \in 1..n : p.id \in A[j].removes \cup {A[j].id}
      BY <1>19, <2>2
    <3>2. Continues(A[j], p)
      BY <1>1, <3>1 DEF Keeping
    <3>3. Continues(Reloaded(A[j]), p)
      <4>1. A[j] \in PageSet(D, g)
        BY <1>1 DEF SoundPages
      <4> DEFINE q == Reloaded(A[j])
      <4>2. q.title = A[j].title /\ q.aliases = A[j].aliases /\ q.claims = A[j].claims /\ q.relations = A[j].relations
        BY <4>1 DEF Reloaded, PageSet
      <4> HIDE DEF q
      <4> QED
        BY <3>2, <4>2 DEF Continues, NamesOf, q
    <3> QED
      BY <1>19, <3>3
  <2> QED
    BY <2>1, <2>2
<1> QED
  BY <1>19, <1>20 DEF AllWritten, T, end

LEMMA StoredPagesOf ==
  ASSUME NEW D, NEW g, pages \in RowSet(D, g), \A p \in ToSet(pages) : p.removes = {},
         NEW A, Result(A, D, g, pages), NEW new \in StoredPages(A)
  PROVE  AllWritten(new, pages, A, D, g)
<1> DEFINE V == SoundPages(D, g)
           rows == FoldLeft(Write, pages, A)
           removed == UNION {p.removes : p \in ToSet(A)}
           old == {p.id : p \in ToSet(pages)} \ removed
           K == {p \in ToSet(rows) : p.id \in old}
           N == {p \in ToSet(rows) : p.id \notin old}
           kept == Keep(rows, K)
           ids == {p.id : p \in ToSet(rows)} \ old
<1>1. AllWritten(rows, pages, A, D, g)
  BY WriteAllOf
<1>2. PICK order \in SetToSeqs(N) : new = kept \o order
  BY DEF StoredPages
<1> HIDE DEF rows, old
<1>3. rows \in Seq(V) /\ UniqueIds(rows) /\ \A q \in ToSet(rows) : q.removes = {}
  BY <1>1 DEF AllWritten, RowSet
<1>4. \A x, y \in ToSet(rows) : x.id = y.id => x = y
  <2>1. \A x \in ToSet(rows) : PageOf(x.id, rows) = x
    BY <1>3, PageOfIs
  <2> QED
    BY <2>1
<1>5. kept = Without(rows, ids)
  <2>1. K = {p \in ToSet(rows) : p.id \notin ids}
    OBVIOUS
  <2> QED
    BY <2>1 DEF Without
<1> HIDE DEF V
<1>6. kept \in Seq(V) /\ UniqueIds(kept) /\ ToSet(kept) = {p \in ToSet(rows) : p.id \notin ids}
  <2> HIDE DEF kept, ids
  <2> QED
    BY <1>3, <1>5, WithoutOf
<1>7. ToSet(kept) = K
  BY <1>6
<1>8. Enumerates(order, N)
  <2>1. IsFiniteSet(ToSet(rows))
    BY <1>3, ToSetOf
  <2>2. IsFiniteSet(N)
    BY <2>1, FS_Subset
  <2> HIDE DEF N
  <2> QED
    BY <1>2, <2>2, SetToSeqsOf
<1>9. order \in Seq(V) /\ ToSet(order) = N /\ \A i, j \in 1..Len(order) : order[i] = order[j] => i = j
  <2>1. N \subseteq V
    BY <1>3, ToSetOf
  <2> HIDE DEF N
  <2>2. order \in Seq(N) /\ ToSet(order) = N /\ \A i, j \in 1..Len(order) : order[i] = order[j] => i = j
    BY <1>8 DEF Enumerates
  <2> QED
    BY <2>1, <2>2
<1> DEFINE a == Len(kept)
           b == Len(order)
<1> HIDE DEF kept, ids
<1>10. /\ new \in Seq(V) /\ a \in Nat /\ b \in Nat /\ Len(new) = a + b
       /\ \A i \in 1..(a + b) : new[i] = IF i <= a THEN kept[i] ELSE order[i - a]
  BY <1>2, <1>6, <1>9
<1>11. /\ \A i \in 1..a : kept[i] \in K
       /\ \A x \in K : \E j \in 1..a : kept[j] = x
       /\ \A i \in 1..b : order[i] \in N
       /\ \A x \in N : \E j \in 1..b : order[j] = x
  <2> HIDE DEF K, N
  <2>1. \A i \in 1..a : kept[i] \in K
    BY <1>6, <1>7, ToSetOf
  <2>2. \A x \in K : \E j \in 1..a : kept[j] = x
    BY <1>6, <1>7, ToSetOf
  <2>3. \A i \in 1..b : order[i] \in N
    BY <1>9, ToSetOf
  <2>4. \A x \in N : \E j \in 1..b : order[j] = x
    BY <1>9, ToSetOf
  <2> QED
    BY <2>1, <2>2, <2>3, <2>4
<1> HIDE DEF a, b
<1>12. \A i \in 1..(a + b) : (i <= a /\ i \in 1..a) \/ (~ i <= a /\ i - a \in 1..b)
  BY <1>10
<1>13. \A i \in 1..a : i \in 1..(a + b) /\ i <= a
  BY <1>10
<1>14. \A i \in 1..b : i + a \in 1..(a + b) /\ ~ (i + a <= a) /\ (i + a) - a = i
  BY <1>10
<1>15. ToSet(new) = {new[i] : i \in 1..(a + b)}
  BY <1>10, ToSetOf
<1>16. ToSet(new) = ToSet(rows)
  <2>1. \A i \in 1..(a + b) : new[i] \in ToSet(rows)
    BY <1>10, <1>11, <1>12
  <2>2. \A x \in K : x \in ToSet(new)
    <3>1. SUFFICES ASSUME NEW x \in K PROVE x \in ToSet(new)
      OBVIOUS
    <3>2. PICK j \in 1..a : kept[j] = x
      BY <1>11
    <3>3. j \in 1..(a + b) /\ new[j] = kept[j]
      BY <1>10, <1>13
    <3> QED
      BY <1>15, <3>2, <3>3
  <2>3. \A x \in N : x \in ToSet(new)
    <3>1. SUFFICES ASSUME NEW x \in N PROVE x \in ToSet(new)
      OBVIOUS
    <3>2. PICK j \in 1..b : order[j] = x
      BY <1>11
    <3>3. j + a \in 1..(a + b) /\ new[j + a] = order[(j + a) - a] /\ (j + a) - a = j
      BY <1>10, <1>14
    <3> QED
      BY <1>15, <3>2, <3>3
  <2>4. \A x \in ToSet(rows) : x \in K \/ x \in N
    OBVIOUS
  <2> HIDE DEF K, N
  <2> QED
    BY <1>15, <2>1, <2>2, <2>3, <2>4
<1>17. UniqueIds(new)
  <2>1. SUFFICES ASSUME NEW i \in 1..(a + b), NEW j \in 1..(a + b), new[i].id = new[j].id PROVE i = j
    BY <1>10 DEF UniqueIds
  <2>2. CASE i <= a /\ j <= a
    <3>1. i \in 1..a /\ j \in 1..a /\ kept[i].id = kept[j].id
      BY <1>10, <1>12, <2>1, <2>2
    <3> QED
      BY <1>6, <3>1 DEF UniqueIds, a
  <2>3. CASE ~ i <= a /\ ~ j <= a
    <3>1. i - a \in 1..b /\ j - a \in 1..b /\ order[i - a].id = order[j - a].id
      BY <1>10, <1>12, <2>1, <2>3
    <3>2. order[i - a] = order[j - a]
      BY <1>4, <1>11, <3>1
    <3>3. i - a = j - a
      BY <1>9, <3>1, <3>2 DEF b
    <3> QED
      BY <1>10, <3>3
  <2>4. CASE i <= a /\ ~ j <= a
    BY SMTT(40), <1>10, <1>11, <1>12, <2>1, <2>4
  <2>5. CASE ~ i <= a /\ j <= a
    BY <1>10, <1>11, <1>12, <2>1, <2>5
  <2> QED
    BY <2>2, <2>3, <2>4, <2>5
<1>18. \A p \in ToSet(pages) : \E q \in ToSet(new) : Continues(q, p)
  BY <1>1, <1>16 DEF AllWritten
<1> QED
  BY <1>3, <1>10, <1>16, <1>17, <1>18 DEF AllWritten, RowSet, V

-----------------------------------------------------------------------------
(* The invariant.                                                          *)

LEMMA PageSetGrows ==
  ASSUME NEW g \in Nat, NEW h \in Nat, g <= h, NEW D, NEW E, D \subseteq E,
         NEW p \in PageSet(D, g)
  PROVE  p \in PageSet(E, h)
<1>1. 1..g \subseteq 1..h
  OBVIOUS
<1>2. PageIds(g) \subseteq PageIds(h)
  BY <1>1 DEF PageIds
<1> QED
  BY <1>2, PageFields DEF PageSet

LEMMA PagesAreRows ==
  ASSUME knowledge \in Nat, PagesInv, NEW C \in SUBSET Docs
  PROVE  /\ SourcesOf(pages) \cup C \in SUBSET Docs
         /\ pages \in RowSet(SourcesOf(pages) \cup C, knowledge + 1)
         /\ \A p \in ToSet(pages) : p.removes = {} /\ p.id[2] # knowledge + 1
<1> DEFINE D == SourcesOf(pages) \cup C
           g == knowledge + 1
           V == SoundPages(D, g)
           n == Len(pages)
<1>1. pages \in Seq(PageSet(Docs, knowledge)) /\ UniqueIds(pages)
      /\ \A p \in ToSet(pages) : Sound(p) /\ p.removes = {}
  BY DEF PagesInv
<1>2. /\ n \in Nat /\ DOMAIN pages = 1..n
      /\ \A p \in ToSet(pages) : p \in PageSet(Docs, knowledge)
      /\ \A i \in 1..n : pages[i] \in ToSet(pages)
      /\ pages = [i \in 1..n |-> pages[i]]
  <2>1. \A p \in ToSet(pages) : p \in PageSet(Docs, knowledge)
    BY <1>1, ToSetOf
  <2>2. \A i \in 1..n : pages[i] \in ToSet(pages)
    BY <1>1, ToSetOf
  <2>3. n \in Nat /\ DOMAIN pages = 1..n /\ pages = [i \in 1..n |-> pages[i]]
    BY <1>1
  <2> QED
    BY <2>1, <2>2, <2>3
<1>3. \A p \in ToSet(pages) : p.sources \in SUBSET Docs /\ p.id \in PageIds(knowledge)
  BY <1>2, PageFields
<1>4. D \in SUBSET Docs
  BY <1>3 DEF SourcesOf
<1>5. \A p \in ToSet(pages) : p \in V
  <2>1. SUFFICES ASSUME NEW p \in ToSet(pages) PROVE p \in V
    OBVIOUS
  <2>2. p.sources \subseteq D
    BY DEF SourcesOf
  <2> HIDE DEF D
  <2>3. p \in PageSet(D, knowledge)
    <3>1. p \in PageSet(Docs, knowledge)
      BY <1>2
    <3> QED
      BY <2>2, <3>1, PageFields DEF PageSet
  <2>4. p \in PageSet(D, g)
    BY <2>3, PageSetGrows
  <2> QED
    BY <1>1, <2>4 DEF SoundPages
<1> HIDE DEF V, n
<1>6. pages \in Seq(V)
  <2>1. pages \in [1..n -> V]
    BY <1>2, <1>5
  <2> QED
    BY <1>2, <2>1
<1>7. \A p \in ToSet(pages) : p.id[2] # g
  <2>1. \A x \in PageIds(knowledge) : x[2] \in 1..knowledge
    BY DEF PageIds
  <2>2. \A y \in 1..knowledge : y # knowledge + 1
    OBVIOUS
  <2> QED
    BY <1>3, <2>1, <2>2
<1> QED
  BY <1>1, <1>4, <1>6, <1>7 DEF RowSet, V

\* A step that leaves the Wiki alone, and a document or its chunks to deletion.
Quiet ==
  /\ UNCHANGED <<knowledge, wiki, pages, overview>>
  /\ \A e \in Docs : /\ docStatus[e] = "deleted" => docStatus'[e] = "deleted"
                     /\ raw'[e] = raw[e] \/ (docStatus'[e] = "deleted" /\ raw'[e] = 0)

LEMMA QuietKeeps ==
  ASSUME WikiInv, Quiet
  PROVE  /\ PagesInv' /\ FreshWikiCoversEveryDocument'
         /\ \A k : LocalInv(k) => LocalInv(k)'
<1> USE DEF Quiet
<1>1. WikiShape /\ PagesInv /\ FreshWikiCoversEveryDocument
  BY DEF WikiInv
<1>2. \A e \in Docs : raw[e] > 0 \/ docStatus[e] = "deleted" => raw'[e] > 0 \/ docStatus'[e] = "deleted"
  OBVIOUS
<1>3. \A e \in Docs : raw[e] <= wiki \/ docStatus[e] = "deleted" => raw'[e] <= wiki \/ docStatus'[e] = "deleted"
  OBVIOUS
<1>4. SourcesOf(pages) \subseteq Docs
  <2>1. knowledge \in Nat
    BY <1>1, WikiAssumption DEF WikiShape, WikiAssumption
  <2>2. SourcesOf(pages) \cup {} \in SUBSET Docs
    BY <1>1, <2>1, PagesAreRows
  <2> QED
    BY <2>2
<1>5. PagesInv'
  <2>1. \A d \in SourcesOf(pages) : overview[d] > 0 /\ (raw'[d] > 0 \/ docStatus'[d] = "deleted")
    BY <1>1, <1>2, <1>4 DEF PagesInv, AreStored
  <2>2. SourcesOf(pages)' = SourcesOf(pages)
    BY DEF SourcesOf
  <2> QED
    BY <1>1, <2>1, <2>2 DEF PagesInv, AreStored
<1>6. FreshWikiCoversEveryDocument'
  BY <1>1 DEF FreshWikiCoversEveryDocument
<1>7. ASSUME NEW k, LocalInv(k) PROVE LocalInv(k)'
  <2>1. \A C : Misses(C) => Misses(C)'
    BY <1>3 DEF Misses
  <2>2. \A C : C \subseteq Docs /\ AreStored(C) => AreStored(C)'
    BY <1>2 DEF AreStored
  <2>3. CompilingInv(k) => CompilingInv(k)'
    <3>1. SUFFICES ASSUME CompilingInv(k) PROVE CompilingInv(k)'
      OBVIOUS
    <3>2. ToSet(k.docs) \subseteq Docs
      BY <3>1, ToSetOf DEF CompilingInv
    <3>3. AreStored(ToSet(k.docs) \ {k.doc})'
      <4>1. PICK C : C = ToSet(k.docs) \ {k.doc}
        OBVIOUS
      <4> QED
        BY <2>2, <3>1, <3>2 DEF CompilingInv
    <3>4. k.base = knowledge => Misses(ToSet(k.docs))'
      BY <2>1, <3>1 DEF CompilingInv
    <3> QED
      BY <3>1, <3>3, <3>4 DEF CompilingInv
  <2>4. CompiledInv(k) => CompiledInv(k)'
    <3>1. SUFFICES ASSUME CompiledInv(k), k.result # NoCompile PROVE CompiledInv(k)'
      BY DEF CompiledInv
    <3>2. AreStored(k.result.covers \ {k.doc})'
      BY <2>2, <3>1 DEF CompiledInv
    <3>3. k.base = knowledge => Misses(k.result.covers)'
      BY <2>1, <3>1 DEF CompiledInv
    <3>4. SourcesOf(pages)' = SourcesOf(pages)
      BY DEF SourcesOf
    <3> QED
      BY <3>1, <3>2, <3>3, <3>4 DEF CompiledInv
  <2> QED
    BY <1>7, <2>3, <2>4 DEF LocalInv
<1> QED
  BY <1>5, <1>6, <1>7

\* One worker changes its local state; everything else is as it was there.
LEMMA WorkerMoves ==
  ASSUME WikiInv, Quiet, NEW w \in Workers, NEW k, worker' = [worker EXCEPT ![w] = k], LocalInv(k)'
  PROVE  WorkersInv' /\ worker' = [v \in Workers |-> worker'[v]]
<1>1. worker = [v \in Workers |-> worker[v]] /\ \A v \in Workers : LocalInv(worker[v])
  BY DEF WikiInv, WikiShape, WorkersInv
<1>2. worker' = [v \in Workers |-> worker'[v]]
  BY <1>1
<1>3. ASSUME NEW v \in Workers PROVE LocalInv(worker[v])'
  <2>1. PICK x : x = worker'[v]
    OBVIOUS
  <2>2. LocalInv(x)'
    <3>1. CASE v = w
      <4>1. x = k
        BY <1>1, <2>1, <3>1
      <4> QED
        BY <4>1
    <3>2. CASE v # w
      <4>1. x = worker[v]
        BY <1>1, <2>1, <3>2
      <4>2. LocalInv(x)
        BY <1>1, <4>1
      <4> QED
        BY <4>2, QuietKeeps
    <3> QED
      BY <3>1, <3>2
  <2> QED
    BY <2>1, <2>2 DEF LocalInv, CompilingInv, CompiledInv, Misses, AreStored, SourcesOf
<1> QED
  BY <1>2, <1>3 DEF WorkersInv

LEMMA WorkersStay ==
  ASSUME WikiInv, Quiet, worker' = worker
  PROVE  WorkersInv' /\ worker' = [v \in Workers |-> worker'[v]]
<1>1. worker = [v \in Workers |-> worker[v]] /\ \A v \in Workers : LocalInv(worker[v])
  BY DEF WikiInv, WikiShape, WorkersInv
<1>2. worker' = [v \in Workers |-> worker'[v]]
  BY <1>1
<1>3. ASSUME NEW v \in Workers PROVE LocalInv(worker[v])'
  <2>1. PICK x : x = worker[v]
    OBVIOUS
  <2>2. LocalInv(x)'
    BY <1>1, <2>1, QuietKeeps
  <2> QED
    BY <2>1, <2>2 DEF LocalInv, CompilingInv, CompiledInv, Misses, AreStored, SourcesOf
<1> QED
  BY <1>2, <1>3 DEF WorkersInv

-----------------------------------------------------------------------------
(* The steps.                                                              *)

LEMMA LoadKeeps ==
  ASSUME WikiInv, NEW w \in Workers, NEW d \in Docs, Load(w, d)
  PROVE  WikiInv'
<1>1. WikiShape /\ PagesInv /\ WorkersInv /\ FreshWikiCoversEveryDocument
  BY DEF WikiInv
<1>2. /\ worker[w] = Idle /\ Runnable(d) /\ owner[d] = NoDoc /\ knowledge < MaxStores
      /\ owner' = [owner EXCEPT ![d] = w] /\ docStatus' = [docStatus EXCEPT ![d] = "parsing"]
      /\ UNCHANGED <<knowledge, wiki, pages, overview, raw>>
  BY DEF Load
<1>3. docStatus[d] # "deleted" /\ docStatus \in [Docs -> {"uploaded", "parsing", "indexing", "ready", "deleted"}]
      /\ knowledge \in Nat /\ wiki \in Nat /\ raw \in [Docs -> Nat]
  BY <1>1, <1>2, WikiAssumption DEF Runnable, WikiShape, WikiAssumption
<1>4. Quiet
  BY <1>2, <1>3 DEF Quiet
<1>5. PICK pending \in Oldest(Pending(d)) :
        worker' = [worker EXCEPT ![w] =
          [pc |-> "compiling", doc |-> d, base |-> knowledge, wiki |-> wiki, pages |-> pages,
           docs |-> Append(pending, d)]]
  BY DEF Load
<1> DEFINE docs == Append(pending, d)
           k == [pc |-> "compiling", doc |-> d, base |-> knowledge, wiki |-> wiki, pages |-> pages,
                 docs |-> docs]
<1>6. /\ docs \in Seq(Docs) /\ ToSet(docs) = Pending(d) \cup {d}
      /\ \A i, j \in 1..Len(docs) : docs[i] = docs[j] => i = j
  <2> DEFINE P == Pending(d)
             n == Len(pending)
  <2>1. P \subseteq Docs /\ d \notin P
    BY DEF Pending
  <2>2. IsFiniteSet(P)
    <3> HIDE DEF P
    <3>1. IsFiniteSet(Docs)
      BY WikiAssumption DEF WikiAssumption
    <3> QED
      BY <2>1, <3>1, FS_Subset
  <2>3. pending \in SetToSeqs(P)
    BY DEF Oldest
  <2> HIDE DEF P
  <2>4. pending \in Seq(P) /\ ToSet(pending) = P /\ \A i, j \in 1..n : pending[i] = pending[j] => i = j
    BY <2>2, <2>3, SetToSeqsOf DEF Enumerates
  <2>5. pending \in Seq(Docs) /\ docs \in Seq(Docs) /\ Len(docs) = n + 1 /\ docs[n + 1] = d
        /\ n \in Nat /\ \A i \in 1..n : docs[i] = pending[i]
    BY <2>1, <2>4
  <2>6. \A i \in 1..n : pending[i] \in P
    BY <2>4
  <2>7. \A x \in P : \E i \in 1..n : x = pending[i]
    BY <2>4, ToSetOf
  <2>8. ToSet(docs) = {docs[i] : i \in 1..(n + 1)}
    BY <2>5, ToSetOf
  <2> HIDE DEF n, docs
  <2>9. \A i \in 1..(n + 1) : i = n + 1 \/ i \in 1..n
    BY <2>5
  <2>10. n + 1 \in 1..(n + 1) /\ \A i \in 1..n : i \in 1..(n + 1)
    BY <2>5
  <2>11. ToSet(docs) = P \cup {d}
    <3>1. \A x \in ToSet(docs) : x \in P \cup {d}
      BY <2>5, <2>6, <2>8, <2>9
    <3>2. \A x \in P : x \in ToSet(docs)
      <4>1. SUFFICES ASSUME NEW x \in P PROVE x \in ToSet(docs)
        OBVIOUS
      <4>2. PICK i \in 1..n : x = pending[i]
        BY <2>7
      <4>3. docs[i] = x /\ i \in 1..(n + 1)
        BY <2>5, <2>10, <4>2
      <4> QED
        BY <2>8, <4>3
    <3>3. d \in ToSet(docs)
      BY <2>5, <2>8, <2>10
    <3> QED
      BY <3>1, <3>2, <3>3
  <2>12. \A i, j \in 1..(n + 1) : docs[i] = docs[j] => i = j
    <3>1. SUFFICES ASSUME NEW i \in 1..(n + 1), NEW j \in 1..(n + 1), docs[i] = docs[j] PROVE i = j
      OBVIOUS
    <3>2. CASE i \in 1..n /\ j \in 1..n
      BY <2>4, <2>5, <3>1, <3>2
    <3>3. CASE i = n + 1 /\ j = n + 1
      BY <3>3
    <3>4. CASE i \in 1..n /\ j = n + 1
      BY <2>1, <2>5, <2>6, <3>1, <3>4
    <3>5. CASE i = n + 1 /\ j \in 1..n
      BY <2>1, <2>5, <2>6, <3>1, <3>5
    <3> QED
      BY <2>9, <3>2, <3>3, <3>4, <3>5
  <2> QED
    BY <2>5, <2>11, <2>12 DEF P
<1> HIDE DEF docs
<1>7. PICK kk : kk = k
  OBVIOUS
<1>8. /\ kk.pc = "compiling" /\ kk.doc = d /\ kk.base = knowledge /\ kk.wiki = wiki /\ kk.pages = pages
      /\ kk.docs = docs
  BY <1>7
<1>9. \A C : C = Pending(d) => AreStored(C)'
  <2>1. \A e \in Pending(d) : raw[e] > 0
    BY <1>3 DEF Pending
  <2> QED
    BY <1>2, <2>1 DEF AreStored
<1>10. \A C : C = Pending(d) \cup {d} => Misses(C)'
  <2>1. SUFFICES ASSUME NEW C, C = Pending(d) \cup {d} PROVE Misses(C)'
    OBVIOUS
  <2>2. \A e \in Docs \ C : e # d /\ (raw[e] <= wiki \/ docStatus[e] = "deleted")
    <3>1. SUFFICES ASSUME NEW e \in Docs \ C PROVE e # d /\ (raw[e] <= wiki \/ docStatus[e] = "deleted")
      OBVIOUS
    <3>2. e # d /\ e \in Docs /\ e \notin Pending(d)
      BY <2>1, <3>1
    <3>3. raw[e] \in Nat /\ wiki \in Nat
      BY <1>3, <3>2
    <3>4. ~ (raw[e] > wiki) => raw[e] <= wiki
      BY <3>3
    <3> QED
      BY <3>2, <3>4 DEF Pending
  <2>3. \A e \in Docs \ C : raw'[e] = raw[e] /\ wiki' = wiki /\ docStatus'[e] = docStatus[e]
    BY <1>2, <1>3, <2>2
  <2> QED
    BY <2>2, <2>3 DEF Misses
<1>11. \A C : C = Pending(d) \cup {d} => C \ {d} = Pending(d)
  BY DEF Pending
<1>12. CompilingInv(kk)'
  <2>1. PICK C : C = ToSet(docs)
    OBVIOUS
  <2>2. C = Pending(d) \cup {d}
    BY <1>6, <2>1
  <2>3. Misses(C)' /\ AreStored(C \ {d})'
    <3>1. PICK E : E = C \ {d}
      OBVIOUS
    <3>2. AreStored(E)'
      BY <1>9, <1>11, <2>2, <3>1
    <3> QED
      BY <1>10, <2>2, <3>1, <3>2 DEF AreStored
  <2>4. d \in C
    BY <2>2
  <2> QED
    BY <1>2, <1>6, <1>8, <2>1, <2>3, <2>4 DEF CompilingInv
<1>13. LocalInv(kk)'
  BY <1>2, <1>3, <1>8, <1>12 DEF LocalInv
<1>14. worker' = [worker EXCEPT ![w] = kk]
  BY <1>5, <1>7 DEF docs
<1>15. WorkersInv' /\ worker' = [v \in Workers |-> worker'[v]]
  BY <1>4, <1>13, <1>14, WorkerMoves
<1>16. WikiShape'
  BY <1>1, <1>2, <1>15 DEF WikiShape
<1> QED
  BY <1>4, <1>15, <1>16, QuietKeeps DEF WikiInv

\* The worker's own step, and nothing of the project.
LEMMA OwnStep ==
  ASSUME WikiInv, NEW w \in Workers, NEW k, LocalInv(k), worker' = [worker EXCEPT ![w] = k],
         UNCHANGED <<knowledge, wiki, pages, overview, docStatus, raw, owner>>
  PROVE  WikiInv'
<1>1. Quiet
  BY DEF Quiet
<1>2. LocalInv(k)'
  BY <1>1, QuietKeeps
<1>3. WorkersInv' /\ worker' = [v \in Workers |-> worker'[v]]
  BY <1>1, <1>2, WorkerMoves
<1>4. WikiShape'
  BY <1>3 DEF WikiInv, WikiShape
<1> QED
  BY <1>1, <1>3, <1>4, QuietKeeps DEF WikiInv

\* A step that leaves every worker as it is.
LEMMA OthersStep ==
  ASSUME WikiInv, Quiet, worker' = worker, WikiShape'
  PROVE  WikiInv'
BY WorkersStay, QuietKeeps DEF WikiInv

\* What the model answers is read as fragments.
LEMMA CompileResult ==
  ASSUME WikiInv, NEW w \in Workers, worker[w].pc = "compiling",
         NEW said, \A d \in ToSet(worker[w].docs) : said[d] \in Fragments[d],
         NEW r, r = CompileAll(said, worker[w].docs, worker[w].pages, worker[w].base + 1),
         r # NoCompile
  PROVE  /\ r.covers = ToSet(worker[w].docs)
         /\ worker[w].base = knowledge =>
              Result(r.affected, SourcesOf(pages) \cup r.covers, knowledge + 1, pages)
<1> DEFINE docs == worker[w].docs
           C == ToSet(docs)
           D == SourcesOf(pages) \cup C
           g == knowledge + 1
<1>1. CompilingInv(worker[w]) /\ knowledge \in Nat /\ PagesInv
  BY WikiAssumption DEF WikiInv, WikiShape, WorkersInv, LocalInv, WikiAssumption
<1>2. docs \in Seq(Docs) /\ C \in SUBSET Docs
  <2>1. docs \in Seq(Docs)
    BY <1>1 DEF CompilingInv
  <2> QED
    BY <2>1, ToSetOf
<1>3. r.covers = C
  BY CompileAllIs
<1>4. ASSUME worker[w].base = knowledge PROVE Result(r.affected, D, g, pages)
  <2>1. worker[w].pages = pages
    BY <1>1, <1>4 DEF CompilingInv
  <2> HIDE DEF C
  <2>2. /\ D \in SUBSET Docs /\ pages \in RowSet(D, g)
        /\ \A p \in ToSet(pages) : p.removes = {} /\ p.id[2] # g
    BY <1>1, <1>2, PagesAreRows
  <2>3. C \subseteq D
    OBVIOUS
  <2> HIDE DEF D
  <2>4. docs \in Seq(D)
    <3>1. \A i \in 1..Len(docs) : docs[i] \in D
      BY <1>2, <2>3, ToSetOf DEF C
    <3>2. docs \in [1..Len(docs) -> D] /\ Len(docs) \in Nat
      BY <1>2, <3>1
    <3> QED
      BY <3>2
  <2>5. \A d \in ToSet(docs) : said[d] \in Seq(FragmentSet)
    <3>1. \A d \in Docs : Fragments[d] \subseteq Seq(FragmentSet)
      BY WikiAssumption DEF WikiAssumption, FragmentSet
    <3>2. \A d \in ToSet(docs) : d \in Docs
      BY <1>2 DEF C
    <3> QED
      BY <3>1, <3>2
  <2>6. \A i, j \in 1..Len(docs) : docs[i] = docs[j] => i = j
    BY <1>1 DEF CompilingInv
  <2>7. pages \in Seq(SoundPages(D, g)) /\ UniqueIds(pages)
    BY <2>2 DEF RowSet
  <2>8. r = CompileAll(said, docs, pages, g)
    BY <1>4, <2>1
  <2>9. g > 0 /\ g \in Nat
    BY <1>1
  <2> HIDE DEF docs, g
  <2>10. CompileAll(said, docs, pages, g) # NoCompile
    BY <2>8
  <2>11. Result(CompileAll(said, docs, pages, g).affected, D, g, pages)
    BY <2>2, <2>4, <2>5, <2>6, <2>7, <2>9, <2>10, WikiAssumption, CompileAllOf
  <2> QED
    BY <2>8, <2>11
<1> QED
  BY <1>3, <1>4

LEMMA CompiledKeeps ==
  ASSUME WikiInv, NEW w \in Workers, worker[w].pc = "compiling", NEW r, Compiled(w, r),
         r # NoCompile => /\ r.covers = ToSet(worker[w].docs)
                          /\ worker[w].base = knowledge =>
                               Result(r.affected, SourcesOf(pages) \cup r.covers, knowledge + 1, pages)
  PROVE  WikiInv'
<1>1. PICK k : k = [pc |-> "compiled", doc |-> worker[w].doc, base |-> worker[w].base,
                    wiki |-> worker[w].wiki, result |-> r]
  OBVIOUS
<1>2. /\ k.pc = "compiled" /\ k.doc = worker[w].doc /\ k.base = worker[w].base
      /\ k.wiki = worker[w].wiki /\ k.result = r
  BY <1>1
<1>3. LocalInv(worker[w]) /\ CompilingInv(worker[w])
  BY DEF WikiInv, WorkersInv, LocalInv
<1>4. ASSUME r # NoCompile PROVE ToSet(worker[w].docs) \subseteq Docs
  BY <1>3, ToSetOf DEF CompilingInv
<1>5. CompiledInv(k)
  BY <1>2, <1>3, <1>4 DEF CompiledInv, CompilingInv
<1>6. LocalInv(k)
  BY <1>2, <1>3, <1>5 DEF LocalInv
<1> QED
  BY <1>1, <1>6, OwnStep DEF Compiled

LEMMA CompileKeeps ==
  ASSUME WikiInv, NEW w \in Workers, Compile(w) \/ CompileFails(w)
  PROVE  WikiInv'
<1>1. CASE Compile(w)
  <2>1. PICK said \in [ToSet(worker[w].docs) -> UNION {Fragments[d] : d \in Docs}] :
          /\ \A d \in ToSet(worker[w].docs) : said[d] \in Fragments[d]
          /\ Compiled(w, CompileAll(said, worker[w].docs, worker[w].pages, worker[w].base + 1))
    BY <1>1 DEF Compile
  <2>2. PICK r : r = CompileAll(said, worker[w].docs, worker[w].pages, worker[w].base + 1)
    OBVIOUS
  <2>3. Compiled(w, r) /\ worker[w].pc = "compiling"
    BY <1>1, <2>1, <2>2 DEF Compile
  <2>4. r # NoCompile => /\ r.covers = ToSet(worker[w].docs)
                         /\ worker[w].base = knowledge =>
                              Result(r.affected, SourcesOf(pages) \cup r.covers, knowledge + 1, pages)
    BY <2>1, <2>2, <2>3, CompileResult
  <2> QED
    BY <2>3, <2>4, CompiledKeeps
<1>2. CASE CompileFails(w)
  <2>1. Compiled(w, NoCompile) /\ worker[w].pc = "compiling"
    BY <1>2 DEF CompileFails
  <2> QED
    BY <2>1, CompiledKeeps
<1> QED
  BY <1>1, <1>2

LEMMA LocalSteps ==
  ASSUME WikiInv, NEW w \in Workers, StoreRefused(w) \/ Finish(w)
  PROVE  WikiInv'
<1>1. LocalInv(Idle) /\ LocalInv(Idle)'
  BY DEF LocalInv, Idle
<1>2. CASE StoreRefused(w)
  BY <1>1, <1>2, OwnStep DEF StoreRefused
<1>3. CASE Finish(w)
  <2>1. /\ worker' = [worker EXCEPT ![w] = Idle] /\ UNCHANGED <<knowledge, wiki, pages, overview, raw>>
        /\ WikiShape /\ LocalInv(worker[w]) /\ worker[w].pc = "stored"
    BY <1>3 DEF Finish, WikiInv, WorkersInv
  <2>2. worker[w].doc \in Docs
    BY <2>1 DEF LocalInv
  <2>3. \/ /\ Runnable(worker[w].doc)
           /\ docStatus' = [docStatus EXCEPT ![worker[w].doc] = "ready"]
           /\ owner' = [owner EXCEPT ![worker[w].doc] = NoDoc]
        \/ UNCHANGED <<docStatus, owner>>
    BY <1>3 DEF Finish
  <2>4. Quiet
    BY <2>1, <2>2, <2>3 DEF Quiet, Runnable, WikiShape
  <2>5. WorkersInv' /\ worker' = [v \in Workers |-> worker'[v]]
    BY <1>1, <2>1, <2>4, WorkerMoves
  <2>6. WikiShape'
    BY <2>1, <2>2, <2>3, <2>5 DEF WikiShape
  <2> QED
    BY <2>4, <2>5, <2>6, QuietKeeps DEF WikiInv
<1> QED
  BY <1>2, <1>3

LEMMA ProjectSteps ==
  ASSUME WikiInv, NEW d \in Docs, LeaseExpires(d) \/ DeleteDocument(d) \/ DeleteChunks(d)
  PROVE  WikiInv'
<1>1. WikiShape /\ knowledge \in Nat
  BY WikiAssumption DEF WikiInv, WikiShape, WikiAssumption
<1>2. CASE LeaseExpires(d)
  <2>1. Quiet /\ worker' = worker
    BY <1>2 DEF LeaseExpires, Quiet
  <2>2. WikiShape'
    BY <1>1, <1>2 DEF LeaseExpires, WikiShape
  <2> QED
    BY <2>1, <2>2, OthersStep
<1>3. CASE DeleteDocument(d)
  <2>1. Quiet /\ worker' = worker
    BY <1>1, <1>3 DEF DeleteDocument, Quiet, WikiShape
  <2>2. WikiShape'
    BY <1>1, <1>3 DEF DeleteDocument, WikiShape
  <2> QED
    BY <2>1, <2>2, OthersStep
<1>4. CASE DeleteChunks(d)
  <2>1. Quiet /\ worker' = worker
    BY <1>1, <1>4 DEF DeleteChunks, Quiet, WikiShape
  <2>2. WikiShape'
    BY <1>1, <1>4 DEF DeleteChunks, WikiShape
  <2> QED
    BY <2>1, <2>2, OthersStep
<1> QED
  BY <1>2, <1>3, <1>4

\* The other workers' pages are of an earlier generation after a commit.
LEMMA OthersAreLate ==
  ASSUME WikiInv, NEW w \in Workers, NEW k, worker' = [worker EXCEPT ![w] = k],
         k.pc = "stored", k.doc \in Docs, knowledge' = knowledge + 1,
         \A e \in Docs : raw[e] > 0 \/ docStatus[e] = "deleted"
                         => raw'[e] > 0 \/ docStatus'[e] = "deleted"
  PROVE  WorkersInv' /\ worker' = [v \in Workers |-> worker'[v]]
<1>1. /\ worker = [v \in Workers |-> worker[v]] /\ \A v \in Workers : LocalInv(worker[v])
      /\ knowledge \in Nat
  BY WikiAssumption DEF WikiInv, WikiShape, WorkersInv, WikiAssumption
<1>2. worker' = [v \in Workers |-> worker'[v]]
  BY <1>1
<1>3. \A C : C \subseteq Docs /\ AreStored(C) => AreStored(C)'
  BY DEF AreStored
<1>4. LocalInv(k)'
  BY DEF LocalInv
<1>5. ASSUME NEW x, LocalInv(x) PROVE LocalInv(x)'
  <2>1. x.pc \in {"compiling", "compiled"} => x.base \in 0..knowledge' /\ x.base # knowledge'
    BY <1>1, <1>5 DEF LocalInv
  <2>2. ASSUME x.pc = "compiling" PROVE CompilingInv(x)'
    <3>1. CompilingInv(x)
      BY <1>5, <2>2 DEF LocalInv
    <3>2. ToSet(x.docs) \subseteq Docs
      BY <3>1, ToSetOf DEF CompilingInv
    <3>3. AreStored(ToSet(x.docs) \ {x.doc})'
      <4>1. PICK C : C = ToSet(x.docs) \ {x.doc}
        OBVIOUS
      <4> QED
        BY <1>3, <3>1, <3>2, <4>1 DEF CompilingInv
    <3> QED
      BY <2>1, <2>2, <3>1, <3>3 DEF CompilingInv
  <2>3. ASSUME x.pc = "compiled" PROVE CompiledInv(x)'
    <3>1. CompiledInv(x)
      BY <1>5, <2>3 DEF LocalInv
    <3>2. x.result # NoCompile => AreStored(x.result.covers \ {x.doc})'
      <4>1. PICK C : C = x.result.covers \ {x.doc}
        OBVIOUS
      <4> QED
        BY <1>3, <3>1, <4>1 DEF CompiledInv
    <3> QED
      BY <2>1, <2>3, <3>1, <3>2 DEF CompiledInv
  <2> QED
    BY <1>5, <2>1, <2>2, <2>3 DEF LocalInv
<1>6. ASSUME NEW v \in Workers PROVE LocalInv(worker[v])'
  <2>1. PICK x : x = worker'[v]
    OBVIOUS
  <2>2. LocalInv(x)'
    <3>1. CASE v = w
      <4>1. x = k
        BY <1>1, <2>1, <3>1
      <4> QED
        BY <1>4, <4>1
    <3>2. CASE v # w
      <4>1. x = worker[v]
        BY <1>1, <2>1, <3>2
      <4>2. LocalInv(x)
        BY <1>1, <4>1
      <4> QED
        BY <1>5, <4>2
    <3> QED
      BY <3>1, <3>2
  <2> QED
    BY <2>1, <2>2 DEF LocalInv, CompilingInv, CompiledInv, Misses, AreStored, SourcesOf
<1> QED
  BY <1>2, <1>6 DEF WorkersInv

\* What a commit that applies the Wiki makes of the pages.
LEMMA NewPages ==
  ASSUME WikiInv, NEW w \in Workers, worker[w].pc = "compiled", Applies(w),
         NEW new \in StoredPages(worker[w].result.affected)
  PROVE  /\ new \in Seq(PageSet(Docs, knowledge + 1)) /\ UniqueIds(new)
         /\ \A p \in ToSet(new) : Sound(p) /\ p.removes = {}
         /\ SourcesOf(new) \subseteq SourcesOf(pages) \cup worker[w].result.covers
         /\ \A p \in ToSet(pages) : \E q \in ToSet(new) : Continues(q, p)
<1> DEFINE A == worker[w].result.affected
           C == worker[w].result.covers
           D == SourcesOf(pages) \cup C
           g == knowledge + 1
<1>1. CompiledInv(worker[w]) /\ knowledge \in Nat /\ PagesInv
  BY WikiAssumption DEF WikiInv, WikiShape, WorkersInv, LocalInv, WikiAssumption
<1>2. C \in SUBSET Docs /\ Result(A, D, g, pages)
  BY <1>1 DEF CompiledInv, Applies
<1> HIDE DEF A, C
<1>3. /\ D \in SUBSET Docs /\ pages \in RowSet(D, g)
      /\ \A p \in ToSet(pages) : p.removes = {}
  BY <1>1, <1>2, PagesAreRows
<1> HIDE DEF D, g
<1>4. new \in StoredPages(A)
  BY DEF A
<1>5. AllWritten(new, pages, A, D, g)
  BY <1>2, <1>3, <1>4, StoredPagesOf
<1>6. new \in Seq(SoundPages(D, g)) /\ UniqueIds(new)
  BY <1>5 DEF AllWritten, RowSet
<1>7. \A p \in ToSet(new) : p \in SoundPages(D, g)
  BY <1>6, ToSetOf
<1>8. \A p \in ToSet(new) : p \in PageSet(D, g) /\ Sound(p)
  BY <1>7 DEF SoundPages
<1>9. \A p \in ToSet(new) : p.sources \subseteq D
  BY <1>8, PageFields
<1>10. \A p \in PageSet(D, g) : p \in PageSet(Docs, g)
  BY <1>1, <1>3, PageSetGrows DEF g
<1>11. new \in Seq(PageSet(Docs, g))
  <2>1. Len(new) \in Nat /\ new \in [1..Len(new) -> SoundPages(D, g)]
    BY <1>6
  <2>2. \A i \in 1..Len(new) : new[i] \in ToSet(new)
    BY <1>6, ToSetOf
  <2>3. new \in [1..Len(new) -> PageSet(Docs, g)]
    BY <1>8, <1>10, <2>1, <2>2
  <2> QED
    BY <2>1, <2>3
<1>12. SourcesOf(new) \subseteq D
  BY <1>9 DEF SourcesOf
<1> QED
  BY <1>5, <1>6, <1>8, <1>11, <1>12 DEF AllWritten, D, C, g

LEMMA StoreKeeps ==
  ASSUME WikiInv, NEW w \in Workers, Store(w)
  PROVE  WikiInv'
<1> DEFINE d == worker[w].doc
           C == worker[w].result.covers
<1>1. /\ WikiShape /\ PagesInv /\ FreshWikiCoversEveryDocument /\ LocalInv(worker[w])
      /\ knowledge \in Nat /\ MaxStores \in Nat
  BY WikiAssumption DEF WikiInv, WikiShape, WorkersInv, WikiAssumption
<1>2. /\ worker[w].pc = "compiled" /\ Runnable(d) /\ knowledge < MaxStores
      /\ knowledge' = knowledge + 1 /\ raw' = [raw EXCEPT ![d] = knowledge + 1]
      /\ docStatus' = [docStatus EXCEPT ![d] = "indexing"] /\ owner' = owner
      /\ worker' = [worker EXCEPT ![w] = [pc |-> "stored", doc |-> d]]
  BY DEF Store
<1>3. d \in Docs /\ CompiledInv(worker[w]) /\ docStatus[d] # "deleted"
  BY <1>1, <1>2 DEF LocalInv, Runnable
<1>4. /\ raw \in [Docs -> 0..knowledge] /\ overview \in [Docs -> 0..wiki] /\ wiki \in 0..knowledge
      /\ docStatus \in [Docs -> {"uploaded", "parsing", "indexing", "ready", "deleted"}]
  BY <1>1 DEF WikiShape
<1> HIDE DEF d
<1>5. /\ raw'[d] = knowledge + 1 /\ docStatus'[d] = "indexing"
      /\ \A e \in Docs \ {d} : raw'[e] = raw[e] /\ docStatus'[e] = docStatus[e]
      /\ raw' \in [Docs -> 0..(knowledge + 1)]
  BY <1>1, <1>2, <1>3, <1>4
<1>6. \A e \in Docs : raw[e] > 0 \/ docStatus[e] = "deleted" => raw'[e] > 0 \/ docStatus'[e] = "deleted"
  BY <1>1, <1>3, <1>5
<1>7. WorkersInv' /\ worker' = [v \in Workers |-> worker'[v]]
  <2>1. PICK k : k = [pc |-> "stored", doc |-> d]
    OBVIOUS
  <2>2. k.pc = "stored" /\ k.doc \in Docs /\ worker' = [worker EXCEPT ![w] = k]
    BY <1>2, <1>3, <2>1
  <2> QED
    BY <1>2, <1>6, <2>2, OthersAreLate
<1>8. wiki' \in 0..(knowledge + 1) /\ overview' \in [Docs -> 0..wiki'] => WikiShape'
  BY <1>1, <1>2, <1>3, <1>5, <1>7 DEF WikiShape
<1>9. CASE Applies(w)
  <2>1. /\ wiki' = knowledge + 1 /\ pages' \in StoredPages(worker[w].result.affected)
        /\ overview' = [e \in Docs |-> IF e \in C THEN knowledge + 1 ELSE overview[e]]
    BY <1>9 DEF Store
  <2>2. /\ C \subseteq Docs /\ d \in C /\ AreStored(C \ {d}) /\ Misses(C)
    BY <1>3, <1>9 DEF CompiledInv, Applies, d
  <2>3. PICK new : new = pages'
    OBVIOUS
  <2>4. /\ new \in Seq(PageSet(Docs, knowledge + 1)) /\ UniqueIds(new)
        /\ \A p \in ToSet(new) : Sound(p) /\ p.removes = {}
        /\ SourcesOf(new) \subseteq SourcesOf(pages) \cup C
    BY <1>2, <1>9, <2>1, <2>3, NewPages
  <2> HIDE DEF C
  <2>5. SourcesOf(pages) \subseteq Docs
    <3>1. SourcesOf(pages) \cup {} \in SUBSET Docs
      BY <1>1, PagesAreRows
    <3> QED
      BY <3>1
  <2>6. \A e \in SourcesOf(pages) : overview[e] > 0 /\ (raw[e] > 0 \/ docStatus[e] = "deleted")
    BY <1>1 DEF PagesInv, AreStored
  <2>7. \A e \in SourcesOf(new) : overview'[e] > 0
    BY <1>1, <2>1, <2>2, <2>4, <2>5, <2>6
  <2>8. \A e \in SourcesOf(new) : raw'[e] > 0 \/ docStatus'[e] = "deleted"
    <3>1. ASSUME NEW e \in SourcesOf(new) PROVE raw'[e] > 0 \/ docStatus'[e] = "deleted"
      <4>1. CASE e = d
        BY <1>1, <1>5, <4>1
      <4>2. CASE e # d
        <5>1. e \in Docs /\ (raw[e] > 0 \/ docStatus[e] = "deleted")
          BY <2>2, <2>4, <2>5, <2>6, <3>1, <4>2 DEF AreStored
        <5> QED
          BY <1>6, <5>1
      <4> QED
        BY <4>1, <4>2
    <3> QED
      BY <3>1
  <2>9. PagesInv'
    <3>1. SourcesOf(pages)' = SourcesOf(new)
      BY <2>3 DEF SourcesOf
    <3>2. UniqueIds(pages)' /\ \A p \in ToSet(pages') : Sound(p) /\ p.removes = {}
      BY <2>3, <2>4 DEF UniqueIds
    <3>3. (\A p \in ToSet(pages) : Sound(p) /\ p.removes = {})'
      BY <3>2 DEF Sound, Exact, CitedBy
    <3> QED
      BY <1>2, <2>3, <2>4, <2>7, <2>8, <3>1, <3>2, <3>3 DEF PagesInv, AreStored
  <2>10. FreshWikiCoversEveryDocument'
    <3>1. SUFFICES ASSUME NEW e \in Docs, 0 < raw'[e], raw'[e] <= wiki', docStatus'[e] # "deleted"
                   PROVE  overview'[e] >= raw'[e]
      BY DEF FreshWikiCoversEveryDocument
    <3>2. CASE e \in C
      BY <1>1, <1>5, <2>1, <3>2
    <3>3. CASE e \notin C
      <4>1. e # d /\ raw'[e] = raw[e] /\ docStatus'[e] = docStatus[e] /\ overview'[e] = overview[e]
        BY <1>5, <2>1, <2>2, <3>3
      <4>2. raw[e] <= wiki
        BY <2>2, <3>1, <3>3, <4>1 DEF Misses
      <4> QED
        BY <1>1, <3>1, <4>1, <4>2 DEF FreshWikiCoversEveryDocument
    <3> QED
      BY <3>2, <3>3
  <2>11. WikiShape'
    <3>1. overview' \in [Docs -> 0..wiki'] /\ wiki' \in 0..(knowledge + 1)
      <4>1. \A e \in Docs : overview[e] \in 0..(knowledge + 1)
        BY <1>1, <1>4
      <4>2. knowledge + 1 \in 0..(knowledge + 1)
        BY <1>1
      <4> QED
        BY <2>1, <4>1, <4>2
    <3> QED
      BY <1>8, <3>1
  <2> QED
    BY <1>7, <2>9, <2>10, <2>11 DEF WikiInv
<1>10. CASE ~Applies(w)
  <2>1. wiki' = wiki /\ pages' = pages /\ overview' = overview
    BY <1>10 DEF Store
  <2>2. WikiShape'
    <3>1. wiki' \in 0..(knowledge + 1) /\ overview' \in [Docs -> 0..wiki']
      BY <1>1, <1>4, <2>1
    <3> QED
      BY <1>8, <3>1
  <2>3. FreshWikiCoversEveryDocument'
    <3>1. SUFFICES ASSUME NEW e \in Docs, 0 < raw'[e], raw'[e] <= wiki', docStatus'[e] # "deleted"
                   PROVE  overview'[e] >= raw'[e]
      BY DEF FreshWikiCoversEveryDocument
    <3>2. e # d
      BY <1>1, <1>4, <1>5, <2>1, <3>1
    <3> QED
      BY <1>1, <1>5, <2>1, <3>1, <3>2 DEF FreshWikiCoversEveryDocument
  <2>4. PagesInv'
    <3>1. SourcesOf(pages) \subseteq Docs
      <4>1. SourcesOf(pages) \cup {} \in SUBSET Docs
        BY <1>1, PagesAreRows
      <4> QED
        BY <4>1
    <3>2. \A e \in SourcesOf(pages) : overview[e] > 0 /\ (raw'[e] > 0 \/ docStatus'[e] = "deleted")
      BY <1>1, <1>6, <3>1 DEF PagesInv, AreStored
    <3>3. pages \in Seq(PageSet(Docs, knowledge + 1))
      <4>1. pages \in Seq(PageSet(Docs, knowledge))
        BY <1>1 DEF PagesInv
      <4>2. \A p \in PageSet(Docs, knowledge) : p \in PageSet(Docs, knowledge + 1)
        BY <1>1, PageSetGrows
      <4> QED
        BY <4>1, <4>2
    <3>4. SourcesOf(pages)' = SourcesOf(pages)
      BY <2>1 DEF SourcesOf
    <3> QED
      BY <1>1, <1>2, <2>1, <3>2, <3>3, <3>4 DEF PagesInv, AreStored
  <2> QED
    BY <1>7, <2>2, <2>3, <2>4 DEF WikiInv
<1> QED
  BY <1>9, <1>10

LEMMA WikiInitHolds == WikiInit => WikiInv
<1> SUFFICES ASSUME WikiInit PROVE WikiInv
  OBVIOUS
<1> USE DEF WikiInit
<1>1. WikiShape
  BY WikiAssumption DEF WikiShape, WikiAssumption
<1>2. ToSet(pages) = {} /\ SourcesOf(pages) = {}
  BY DEF ToSet, SourcesOf
<1>3. PagesInv
  <2>1. pages \in Seq(PageSet(Docs, knowledge)) /\ UniqueIds(pages)
    BY DEF UniqueIds
  <2> QED
    BY <1>2, <2>1 DEF PagesInv, AreStored
<1>4. WorkersInv
  BY DEF WorkersInv, LocalInv, Idle
<1>5. FreshWikiCoversEveryDocument
  BY DEF FreshWikiCoversEveryDocument
<1> QED
  BY <1>1, <1>3, <1>4, <1>5 DEF WikiInv

LEMMA WikiStep == WikiInv /\ [WikiNext]_wikiVars => WikiInv'
<1> SUFFICES ASSUME WikiInv, [WikiNext]_wikiVars PROVE WikiInv'
  OBVIOUS
<1>1. ASSUME NEW w \in Workers, NEW d \in Docs, Load(w, d) PROVE WikiInv'
  BY <1>1, LoadKeeps
<1>2. ASSUME NEW w \in Workers, Compile(w) \/ CompileFails(w) PROVE WikiInv'
  BY <1>2, CompileKeeps
<1>3. ASSUME NEW w \in Workers, Store(w) PROVE WikiInv'
  BY <1>3, StoreKeeps
<1>4. ASSUME NEW w \in Workers, StoreRefused(w) \/ Finish(w) PROVE WikiInv'
  BY <1>4, LocalSteps
<1>5. ASSUME NEW d \in Docs, LeaseExpires(d) \/ DeleteDocument(d) \/ DeleteChunks(d) PROVE WikiInv'
  BY <1>5, ProjectSteps
<1>6. ASSUME UNCHANGED wikiVars PROVE WikiInv'
  <2>1. Quiet /\ worker' = worker
    BY <1>6 DEF Quiet, wikiVars
  <2>2. WikiShape'
    BY <1>6, <2>1, WorkersStay DEF wikiVars, WikiInv, WikiShape
  <2> QED
    BY <2>1, <2>2, OthersStep
<1> QED
  BY <1>1, <1>2, <1>3, <1>4, <1>5, <1>6 DEF WikiNext

\* The Wiki's inductive invariant: what a worker has loaded or compiled is
\* right for the project as long as nothing was stored since (ingestion_store.py,
\* load_wiki_state and replace_content).
THEOREM WikiInvariant == WikiSpec => []WikiInv
<1>1. WikiInit => WikiInv
  BY WikiInitHolds
<1>2. WikiInv /\ [WikiNext]_wikiVars => WikiInv'
  BY WikiStep
<1> QED
  BY <1>1, <1>2, PTL DEF WikiSpec

\* A Wiki that counts as fresh covers every document, however ingestions,
\* expired leases and deletions interleave (ingestion_store.py, apply_wiki).
THEOREM WikiFresh == WikiSpec => []FreshWikiCoversEveryDocument
<1>1. WikiInv => FreshWikiCoversEveryDocument
  BY DEF WikiInv
<1> QED
  BY <1>1, WikiInvariant, PTL

\* Every stored page is well typed, cites what the Wiki covers and marks its
\* contradictions exactly (services/wiki_merge.py).
THEOREM WikiPagesSound == WikiSpec => []PagesAreSound
<1>1. ASSUME WikiInv PROVE PagesAreSound
  <2>1. WikiShape /\ PagesInv /\ WorkersInv /\ knowledge \in Nat /\ MaxStores \in Nat
    BY <1>1, WikiAssumption DEF WikiInv, WikiShape, WikiAssumption
  <2>2. /\ pages \in Seq(PageSet(Docs, knowledge)) /\ \A p \in ToSet(pages) : Sound(p) /\ p.removes = {}
    BY <2>1 DEF PagesInv
  <2>3. ASSUME NEW i \in DOMAIN pages
        PROVE  pages[i] \in PageSet(Docs, knowledge) /\ pages[i] \in ToSet(pages)
               /\ Sound(pages[i]) /\ pages[i].removes = {} /\ pages[i].sources \subseteq SourcesOf(pages)
    <3>1. pages[i] \in PageSet(Docs, knowledge) /\ pages[i] \in ToSet(pages)
      BY <2>2, ToSetOf
    <3> QED
      BY <2>2, <3>1 DEF SourcesOf
  <2>4. WikiTypeOK
    <3>1. ASSUME NEW i \in DOMAIN pages
          PROVE  /\ DOMAIN pages[i] = {"id", "title", "aliases", "claims", "relations", "sources", "removes"}
                 /\ pages[i].title \in Names /\ pages[i].aliases \subseteq Names \ {pages[i].title}
                 /\ pages[i].claims \subseteq [object : Objects, sources : SUBSET Docs, conflicting : BOOLEAN]
                 /\ pages[i].sources \subseteq Docs /\ pages[i].removes = {}
      <4>1. pages[i] \in PageSet(Docs, knowledge) /\ Sound(pages[i]) /\ pages[i].removes = {}
        BY <2>3
      <4>2. DOMAIN pages[i] = {"id", "title", "aliases", "claims", "relations", "sources", "removes"}
        BY <4>1 DEF PageSet
      <4>3. /\ pages[i].title \in Names /\ pages[i].aliases \subseteq Names
            /\ pages[i].claims \subseteq PageClaims /\ pages[i].sources \subseteq Docs
        BY <4>1, PageFields
      <4>4. pages[i].title \notin pages[i].aliases
        BY <4>1 DEF Sound
      <4> QED
        BY <4>1, <4>2, <4>3, <4>4 DEF PageClaims
    <3>2. \A w \in Workers : worker[w].pc \in {"idle", "compiling", "compiled", "stored"}
      BY <2>1 DEF WorkersInv, LocalInv
    <3>3. overview \in [Docs -> 0..MaxStores] /\ raw \in [Docs -> 0..MaxStores]
      BY <2>1 DEF WikiShape
    <3> QED
      BY <2>1, <3>1, <3>2, <3>3 DEF WikiTypeOK, WikiShape
  <2>5. ClaimsAreCited
    <3>1. ASSUME NEW i \in DOMAIN pages
          PROVE  /\ \A c \in pages[i].claims : c.sources # {} /\ c.sources \subseteq pages[i].sources
                 /\ \A r \in pages[i].relations : r.sources # {} /\ r.sources \subseteq pages[i].sources
                 /\ \A d \in pages[i].sources : overview[d] > 0 /\ (raw[d] > 0 \/ docStatus[d] = "deleted")
      BY <2>1, <2>3 DEF Sound, CitedBy, PagesInv, AreStored
    <3> QED
      BY <3>1 DEF ClaimsAreCited
  <2>6. ConflictsAreExact
    <3>1. ASSUME NEW i \in DOMAIN pages
          PROVE  \A c \in pages[i].claims : c.conflicting <=> \E b \in pages[i].claims : b.object # c.object
      BY <2>3 DEF Sound, Exact
    <3> QED
      BY <3>1 DEF ConflictsAreExact
  <2> QED
    BY <2>4, <2>5, <2>6 DEF PagesAreSound
<1> QED
  BY <1>1, WikiInvariant, PTL

\* No step loses what a stored page says (ingestion_store.py, replace_content;
\* services/wiki_merge.py, _merge_existing_pages).
THEOREM WikiKeeps == WikiSpec => StoredKnowledgeIsKept
<1> DEFINE Continued == \A i \in DOMAIN pages : \E j \in DOMAIN pages' : Continues(pages'[j], pages[i])
<1>1. ASSUME WikiInv, WikiInv', [WikiNext]_wikiVars PROVE [Continued]_wikiVars
  <2>1. pages \in Seq(PageSet(Docs, knowledge)) /\ pages' \in Seq(PageSet(Docs, knowledge'))
    BY <1>1 DEF WikiInv, PagesInv
  <2>2. CASE pages' = pages
    <3>1. \A i \in DOMAIN pages : Continues(pages'[i], pages[i])
      BY <2>2, ContinuesReflexive
    <3> QED
      BY <2>2, <3>1
  <2>3. CASE pages' # pages
    <3>1. PICK w \in Workers : Store(w)
      BY <1>1, <2>3 DEF WikiNext, wikiVars, Load, Compile, CompileFails, Compiled, StoreRefused, Finish,
                        LeaseExpires, DeleteDocument, DeleteChunks
    <3>2. Applies(w) /\ worker[w].pc = "compiled" /\ pages' \in StoredPages(worker[w].result.affected)
      BY <2>3, <3>1 DEF Store
    <3>3. PICK new : new = pages'
      OBVIOUS
    <3>4. \A p \in ToSet(pages) : \E q \in ToSet(new) : Continues(q, p)
      BY <1>1, <3>2, <3>3, NewPages
    <3>5. ASSUME NEW i \in DOMAIN pages PROVE \E j \in DOMAIN new : Continues(new[j], pages[i])
      <4>1. pages[i] \in ToSet(pages)
        BY <2>1, ToSetOf
      <4>2. PICK q \in ToSet(new) : Continues(q, pages[i])
        BY <3>4, <4>1
      <4>3. PICK j \in DOMAIN new : q = new[j]
        BY <2>1, <3>3, ToSetOf
      <4> QED
        BY <4>2, <4>3
    <3> QED
      BY <3>3, <3>5
  <2> QED
    BY <2>2, <2>3
<1>2. WikiInv /\ WikiInv' /\ [WikiNext]_wikiVars => [Continued]_wikiVars
  BY <1>1
<1> QED
  BY <1>2, WikiInvariant, PTL DEF WikiSpec, StoredKnowledgeIsKept
=============================================================================
