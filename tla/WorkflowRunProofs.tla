-------------------------- MODULE WorkflowRunProofs --------------------------
(***************************************************************************)
(* Proofs about WorkflowRun, for any number of workers, whatever hostnames *)
(* they share, any claims, and any number of faults and errors.            *)
(***************************************************************************)
EXTENDS WorkflowRunProperties, TLAPS

\* One more message of some kind, if it is a kind that is counted.
LEMMA CountsStayNatural ==
  ASSUME NEW S, NEW count \in [S -> Nat], NEW x
  PROVE  [count EXCEPT ![x] = @ + 1] \in [S -> Nat]
<1>1. CASE x \in S
  BY <1>1
<1>2. CASE x \notin S
  BY <1>2
<1> QED BY <1>1, <1>2

\* A worker forgets its task, or its task ends.
LEMMA TaskEnds ==
  ASSUME TypeOK, NEW w \in Workers
  PROVE  /\ Idle \in Tasks
         /\ [task EXCEPT ![w] = Idle] \in [Workers -> Tasks]
         /\ Finished(w) \in [Workers -> Tasks]
<1> DEFINE t == [task[w] EXCEPT !.pc = "done", !.at = Nowhere,
                                !.saved = TRUE, !.leased = FALSE]
<1>1. Nowhere \in Positions
  BY WorkflowAssumption DEF Nowhere, Positions
<1>2. Idle \in Tasks
  BY <1>1, WorkflowAssumption DEF Tasks, Idle, Kinds, Tries
<1>t. t \in Tasks
  BY <1>1, ZenonT(30) DEF TypeOK, Tasks
<1>3. Finished(w) = [task EXCEPT ![w] = t]
  BY DEF TypeOK, Finished, Tasks
<1> QED BY <1>2, <1>t, <1>3 DEF TypeOK

\* A step of the graph keeps the task and the checkpoint well typed.
LEMMA GoToTyped ==
  ASSUME TypeOK, NEW w \in Workers, NEW p \in Positions, GoTo(w, p)
  PROVE  task' \in [Workers -> Tasks] /\ checkpoint' \in Positions
<1> DEFINE t == [task[w] EXCEPT !.pc = "executing", !.at = p,
                                !.saved = ~LaggingCheckpoints]
<1>1. t \in Tasks
  BY WorkflowAssumption, ZenonT(30) DEF TypeOK, Tasks
<1>2. task' = [task EXCEPT ![w] = t]
  BY DEF TypeOK, GoTo, Tasks
<1> QED BY <1>1, <1>2 DEF TypeOK, GoTo

LEMMA TypeInit == Init => TypeOK
<1> SUFFICES ASSUME Init PROVE TypeOK
  OBVIOUS
<1>1. Nowhere \in Positions
  BY WorkflowAssumption DEF Nowhere, Positions
<1>2. Idle \in Tasks
  BY <1>1, WorkflowAssumption DEF Tasks, Idle, Kinds, Tries
<1> QED
  BY <1>1, <1>2, WorkflowAssumption DEF Init, TypeOK, Statuses, Kinds

\* Every reachable state is well typed; in particular the value of the
\* interrupt is held at the review only.
THEOREM TypeCorrect == Spec => []TypeOK
<1>1. TypeOK /\ [Next]_vars => TypeOK'
  <2> SUFFICES ASSUME TypeOK, [Next]_vars PROVE TypeOK'
    OBVIOUS
  <2> DEFINE Runs == [status : Statuses, owner : {Host[w] : w \in Workers} \cup {NoHost},
                      live : BOOLEAN]
  <2> USE DEF broker, budgets
  <2>typed. /\ run \in Runs /\ task \in [Workers -> Tasks] /\ checkpoint \in Positions
            /\ MaxFaults \in Nat /\ MaxErrors \in Nat
    BY WorkflowAssumption DEF TypeOK
  <2>failed. [status |-> "failed", owner |-> NoHost, live |-> FALSE] \in Runs
    BY DEF Statuses
  <2>released. ASSUME NEW w \in Workers PROVE ReleasedBy(w) \in Runs
    BY <2>typed DEF ReleasedBy
  <2>1. CASE Decide
    <3>1. run' \in Runs
      BY <2>1, <2>typed DEF Decide, Statuses
    <3>2. decisions' \in Nat
      BY <2>1 DEF Decide, TypeOK
    <3>3. unsent' \in [Kinds -> BOOLEAN]
      BY <2>1 DEF Decide, TypeOK
    <3> QED BY <2>1, <3>1, <3>2, <3>3 DEF Decide, TypeOK
  <2>2. CASE LeaseExpires
    <3>1. \A w \in Workers : [task[w] EXCEPT !.leased = FALSE] \in Tasks
      BY <2>typed DEF Tasks
    <3>2. run' \in Runs
      BY <2>2, <2>typed DEF LeaseExpires
    <3> QED BY <2>2, <3>1, <3>2 DEF LeaseExpires, TypeOK
  <2>3. ASSUME NEW k \in Kinds, PublishEvent(k) PROVE TypeOK'
    <3>1. queue' \in [Kinds \X Tries -> Nat]
      BY <2>3, WorkflowAssumption DEF TypeOK, PublishEvent, Tries
    <3>2. faults' \in 0..MaxFaults
      BY <2>3, <2>typed DEF TypeOK, PublishEvent
    <3> QED BY <2>3, <3>1, <3>2 DEF PublishEvent, TypeOK
  <2>4. ASSUME NEW k \in Kinds, NEW r \in Tries, Restore(k, r) PROVE TypeOK'
    BY <2>4 DEF Restore, TypeOK
  <2>5. ASSUME NEW k \in Kinds, NEW r \in Tries, NEW w \in Workers, Receive(w, k, r)
        PROVE TypeOK'
    <3>1. [Idle EXCEPT !.pc = "received", !.kind = k, !.tries = r, !.held = TRUE] \in Tasks
      BY TaskEnds DEF Tasks
    <3> QED BY <2>5, <3>1 DEF Receive, TypeOK
  <2>6. ASSUME NEW w \in Workers, Crash(w) PROVE TypeOK'
    <3>1. <<task[w].kind, task[w].tries>> \in Kinds \X Tries
      BY <2>typed DEF Tasks
    <3>2. lost' \in [Kinds \X Tries -> Nat] /\ faults' \in 0..MaxFaults
      BY <2>6, <2>typed, <3>1 DEF Crash, TypeOK
    <3> QED BY <2>6, <3>2, TaskEnds DEF Crash, TypeOK
  <2>7. ASSUME NEW w \in Workers, VisibilityTimeout(w) PROVE TypeOK'
    <3>1. <<task[w].kind, task[w].tries>> \in Kinds \X Tries
      BY <2>typed DEF Tasks
    <3>2. queue' \in [Kinds \X Tries -> Nat] /\ faults' \in 0..MaxFaults
      BY <2>7, <2>typed, <3>1 DEF VisibilityTimeout, TypeOK
    <3>3. [task[w] EXCEPT !.held = FALSE] \in Tasks
      BY <2>typed DEF Tasks
    <3>4. task' = [task EXCEPT ![w] = [task[w] EXCEPT !.held = FALSE]]
      BY <2>7, <2>typed DEF VisibilityTimeout, Tasks
    <3> QED BY <2>7, <3>2, <3>3, <3>4 DEF VisibilityTimeout, TypeOK
  <2>8. ASSUME NEW w \in Workers, BootstrapFails(w) PROVE TypeOK'
    <3>1. run' \in Runs
      BY <2>8, <2>typed, <2>failed DEF BootstrapFails, MarkBootstrapFailed
    <3> QED BY <2>8, <2>typed, <3>1, TaskEnds DEF BootstrapFails, TypeOK
  <2>9. ASSUME NEW w \in Workers, OutcomeUnrecorded(w) PROVE TypeOK'
    BY <2>9, <2>typed, TaskEnds DEF OutcomeUnrecorded, TypeOK
  <2>10. ASSUME NEW w \in Workers, ClaimDelivery(w) PROVE TypeOK'
    <3>1. run' \in Runs
      BY <2>10, <2>typed DEF ClaimDelivery
    <3>2. [task[w] EXCEPT !.pc = "claimed", !.leased = TRUE] \in Tasks
      BY <2>typed DEF Tasks
    <3>3. task' = [task EXCEPT ![w] = [task[w] EXCEPT !.pc = "claimed", !.leased = TRUE]]
      BY <2>10, <2>typed DEF ClaimDelivery, Tasks
    <3> QED BY <2>10, <3>1, <3>2, <3>3 DEF ClaimDelivery, TypeOK
  <2>11. ASSUME NEW w \in Workers, SkipDelivery(w) PROVE TypeOK'
    BY <2>11, TaskEnds DEF SkipDelivery, TypeOK
  <2>12. ASSUME NEW w \in Workers, SaveCheckpoint(w) PROVE TypeOK'
    <3>1. [task[w] EXCEPT !.saved = TRUE] \in Tasks /\ task[w].at \in Positions
      BY <2>typed DEF Tasks
    <3>2. task' = [task EXCEPT ![w] = [task[w] EXCEPT !.saved = TRUE]]
      BY <2>12, <2>typed DEF SaveCheckpoint, Tasks
    <3> QED BY <2>12, <3>1, <3>2 DEF SaveCheckpoint, TypeOK
  <2>13. ASSUME NEW w \in Workers, StartGraph(w) PROVE TypeOK'
    <3>1. [Nowhere EXCEPT !.node = "research"] \in Positions
      BY WorkflowAssumption DEF Nowhere, Positions, Nodes
    <3>2. run' \in Runs
      BY <2>13, <2>typed DEF StartGraph, Statuses
    <3> QED BY <2>13, <3>1, <3>2, GoToTyped DEF StartGraph, TypeOK
  <2>14. ASSUME NEW w \in Workers, ContinueGraph(w) PROVE TypeOK'
    <3>1. [task[w] EXCEPT !.pc = "executing", !.at = checkpoint] \in Tasks
      BY <2>typed DEF Tasks
    <3>2. task' = [task EXCEPT ![w] = [task[w] EXCEPT !.pc = "executing", !.at = checkpoint]]
      BY <2>14, <2>typed DEF ContinueGraph, Tasks
    <3> QED BY <2>14, <3>1, <3>2 DEF ContinueGraph, TypeOK
  <2>15. ASSUME NEW w \in Workers, ResumeGraph(w) PROVE TypeOK'
    <3>1. [checkpoint EXCEPT !.resume = (checkpoint.node = "human_review")] \in Positions
      BY <2>typed DEF Positions
    <3> QED BY <2>15, <3>1, GoToTyped DEF ResumeGraph, TypeOK
  <2>16. ASSUME NEW w \in Workers, Research(w) PROVE TypeOK'
    <3>1. PICK c \in Claims :
            GoTo(w, [node |-> "human_review", claims |-> c, resume |-> FALSE])
      BY <2>16 DEF Research
    <3>2. [node |-> "human_review", claims |-> c, resume |-> FALSE] \in Positions
      BY WorkflowAssumption DEF Positions, Nodes
    <3> QED BY <2>16, <3>1, <3>2, GoToTyped DEF Research, TypeOK
  <2>position. ASSUME NEW w \in Workers
               PROVE  /\ task[w].at \in Positions
                      /\ task[w].at.claims \in Claims \cup {NoClaims}
                      /\ task[w].at.node \notin {"none", "research"}
                           => task[w].at.claims # NoClaims
    BY <2>typed DEF Tasks, Positions
  <2>17. ASSUME NEW w \in Workers, PassReview(w) PROVE TypeOK'
    <3>1. [node |-> "synthesize", claims |-> task[w].at.claims, resume |-> FALSE]
            \in Positions
      BY <2>17, <2>position DEF PassReview, Executing, Positions, Nodes
    <3> QED BY <2>17, <3>1, GoToTyped DEF PassReview, TypeOK
  <2>18. ASSUME NEW w \in Workers, AskHuman(w) PROVE TypeOK'
    <3>1. asked' \in Claims \cup {NoClaims}
      BY <2>18, <2>position DEF AskHuman, RequestHuman, TypeOK
    <3>2. run' \in Runs
      BY <2>18, <2>typed DEF AskHuman, RequestHuman, Statuses
    <3>3. [task[w] EXCEPT !.pc = "interrupted"] \in Tasks
      BY <2>typed DEF Tasks
    <3>4. task' = [task EXCEPT ![w] = [task[w] EXCEPT !.pc = "interrupted"]]
      BY <2>18, <2>typed DEF AskHuman, Tasks
    <3> QED BY <2>18, <3>1, <3>2, <3>3, <3>4 DEF AskHuman, TypeOK
  <2>19. ASSUME NEW w \in Workers, ApplyDecision(w) PROVE TypeOK'
    <3>1. [node |-> "synthesize", claims |-> task[w].at.claims, resume |-> FALSE]
            \in Positions
      BY <2>19, <2>position DEF ApplyDecision, Executing, Positions, Nodes
    <3>2. run' \in Runs
      BY <2>19, <2>typed DEF ApplyDecision, Statuses
    <3> QED BY <2>19, <3>1, <3>2, GoToTyped DEF ApplyDecision, TypeOK
  <2>20. ASSUME NEW w \in Workers, Synthesize(w) PROVE TypeOK'
    <3>1. [task[w].at EXCEPT !.node = "commit"] \in Positions
      BY <2>20, <2>position DEF Synthesize, Executing, Positions, Nodes
    <3> QED BY <2>20, <3>1, GoToTyped DEF Synthesize, TypeOK
  <2>21. ASSUME NEW w \in Workers, Commit(w) PROVE TypeOK'
    <3>1. [task[w].at EXCEPT !.node = "end"] \in Positions
      BY <2>21, <2>position DEF Commit, Executing, Positions, Nodes
    <3>2. run' \in Runs /\ report' \in Claims \cup {NoClaims}
      BY <2>21, <2>typed, <2>position DEF Commit, Statuses, TypeOK
    <3> QED BY <2>21, <3>1, <3>2, GoToTyped DEF Commit, TypeOK
  <2>22. ASSUME NEW w \in Workers, ReleaseDelivery(w) PROVE TypeOK'
    BY <2>22, <2>released, TaskEnds DEF ReleaseDelivery, TypeOK
  <2>23. ASSUME NEW w \in Workers, NEW phase \in {"raised", "failing", "retrying"},
                task' = [task EXCEPT ![w].pc = phase]
         PROVE task' \in [Workers -> Tasks]
    <3>1. [task[w] EXCEPT !.pc = phase] \in Tasks
      BY <2>typed DEF Tasks
    <3>2. task' = [task EXCEPT ![w] = [task[w] EXCEPT !.pc = phase]]
      BY <2>23, <2>typed DEF Tasks
    <3> QED BY <2>typed, <3>1, <3>2
  <2>24. ASSUME NEW w \in Workers, RaiseRetryable(w) \/ Raise(w) PROVE TypeOK'
    <3>1. task' \in [Workers -> Tasks]
      BY <2>23, <2>24 DEF RaiseRetryable, Raise
    <3> QED BY <2>24, <3>1 DEF RaiseRetryable, Raise, TypeOK
  <2>25. ASSUME NEW w \in Workers, ReleaseForRetry(w) PROVE TypeOK'
    <3>1. task' \in [Workers -> Tasks]
      BY <2>23, <2>25 DEF ReleaseForRetry
    <3> QED BY <2>25, <2>released, <3>1 DEF ReleaseForRetry, TypeOK
  <2>26. ASSUME NEW w \in Workers, Retry(w) PROVE TypeOK'
    <3> DEFINE message == <<task[w].kind, task[w].tries + 1>>
    <3> HIDE DEF message
    <3>1. queue' = [queue EXCEPT ![message] = @ + 1]
      BY <2>26 DEF Retry, message
    <3>2. queue' \in [Kinds \X Tries -> Nat]
      BY <3>1, CountsStayNatural DEF TypeOK
    <3> QED BY <2>26, <3>2, TaskEnds DEF Retry, TypeOK
  <2>27. ASSUME NEW w \in Workers, MarkFailed(w) PROVE TypeOK'
    <3>1. run' \in Runs
      BY <2>27, <2>typed, <2>failed DEF MarkFailed
    <3> QED BY <2>27, <3>1, TaskEnds DEF MarkFailed, TypeOK
  <2>28. ASSUME NEW w \in Workers, Acknowledge(w) PROVE TypeOK'
    BY <2>28, TaskEnds DEF Acknowledge, TypeOK
  <2>29. CASE UNCHANGED vars
    BY <2>29 DEF vars, TypeOK
  <2> QED
    BY <2>1, <2>2, <2>3, <2>4, <2>5, <2>6, <2>7, <2>8, <2>9, <2>10, <2>11, <2>12, <2>13,
       <2>14, <2>15, <2>16, <2>17, <2>18, <2>19, <2>20, <2>21, <2>22, <2>24, <2>25, <2>26,
       <2>27, <2>28, <2>29 DEF Next, Work, Deliver
<1> QED BY <1>1, TypeInit, PTL DEF Spec

-----------------------------------------------------------------------------
(* One question, one answer.                                               *)

\* Nobody answers a question that was not put.
UnaskedIsUndecided == asked = NoClaims => decisions = 0

DecisionInv == TypeOK /\ WaitingIsAnswerable /\ UnaskedIsUndecided /\ DecidedOnce

LEMMA DecisionStep == DecisionInv /\ TypeOK' /\ [Next]_vars => DecisionInv'
<1> SUFFICES ASSUME DecisionInv, TypeOK', [Next]_vars PROVE DecisionInv'
  OBVIOUS
<1> USE DEF DecisionInv, WaitingIsAnswerable, UnaskedIsUndecided, DecidedOnce
<1>typed. /\ run.status \in Statuses /\ DOMAIN run = {"status", "owner", "live"}
          /\ decisions \in Nat
  BY DEF TypeOK
\* Most steps put no question and record no answer.
<1>kept. ASSUME UNCHANGED <<asked, decisions>>,
                run'.status = "waiting_human" => run.status = "waiting_human"
         PROVE  DecisionInv'
  BY <1>kept
<1>1. CASE Decide
  BY <1>1, <1>typed DEF Decide
<1>2. ASSUME NEW w \in Workers, AskHuman(w) PROVE DecisionInv'
  <2>1. task[w].at.claims \in Claims
    BY <1>2, WorkflowAssumption DEF AskHuman, NeedsReview
  <2>2. asked' # NoClaims /\ decisions' = decisions
    BY <1>2, <2>1, WorkflowAssumption DEF AskHuman, RequestHuman
  <2>3. CASE asked = NoClaims
    BY <2>2, <2>3
  <2>4. CASE asked # NoClaims
    BY <1>2, <2>2, <2>4 DEF AskHuman, RequestHuman
  <2> QED BY <2>3, <2>4
<1>3. CASE \/ LeaseExpires
           \/ \E k \in Kinds : PublishEvent(k) \/ \E r \in Tries : Deliver(k, r)
  BY <1>3, <1>kept, <1>typed DEF LeaseExpires, PublishEvent, Deliver, Restore, Receive
<1>4. ASSUME NEW w \in Workers,
             \/ BootstrapFails(w) \/ OutcomeUnrecorded(w) \/ Crash(w)
             \/ VisibilityTimeout(w) \/ MarkFailed(w)
      PROVE  DecisionInv'
  BY <1>4, <1>kept DEF BootstrapFails, MarkBootstrapFailed, OutcomeUnrecorded, Crash,
                       VisibilityTimeout, MarkFailed
<1>5. ASSUME NEW w \in Workers,
             \/ ClaimDelivery(w) \/ SkipDelivery(w) \/ StartGraph(w) \/ ContinueGraph(w)
             \/ ResumeGraph(w) \/ SaveCheckpoint(w)
      PROVE  DecisionInv'
  BY <1>5, <1>kept, <1>typed
     DEF ClaimDelivery, SkipDelivery, StartGraph, ContinueGraph, ResumeGraph, SaveCheckpoint
<1>6. ASSUME NEW w \in Workers,
             \/ Research(w) \/ PassReview(w) \/ ApplyDecision(w) \/ Synthesize(w) \/ Commit(w)
      PROVE  DecisionInv'
  BY <1>6, <1>kept, <1>typed DEF Research, PassReview, ApplyDecision, Synthesize, Commit
<1>7. ASSUME NEW w \in Workers,
             \/ ReleaseDelivery(w) \/ RaiseRetryable(w) \/ Raise(w) \/ ReleaseForRetry(w)
             \/ Retry(w) \/ Acknowledge(w)
      PROVE  DecisionInv'
  BY <1>7, <1>kept, <1>typed
     DEF ReleaseDelivery, RaiseRetryable, Raise, ReleaseForRetry, ReleasedBy, Retry,
         Acknowledge
<1>8. CASE UNCHANGED vars
  BY <1>8, <1>kept DEF vars
<1> QED BY <1>1, <1>2, <1>3, <1>4, <1>5, <1>6, <1>7, <1>8 DEF Next, Work

LEMMA DecisionInvariant == Spec => []DecisionInv
<1>1. Init => DecisionInv
  BY TypeInit DEF DecisionInv, WaitingIsAnswerable, UnaskedIsUndecided, DecidedOnce, Init
<1> QED BY <1>1, DecisionStep, TypeCorrect, PTL DEF Spec

\* A run takes at most one decision, however many deliveries execute its graph,
\* fail or crash in between.
THEOREM OneDecision == Spec => []DecidedOnce
<1>1. DecisionInv => DecidedOnce
  BY DEF DecisionInv
<1> QED BY <1>1, DecisionInvariant, PTL

\* A waiting run can be answered: the decision endpoint finds the question, and
\* no earlier answer.
THEOREM WaitingAnswerable == Spec => []WaitingIsAnswerable
<1>1. DecisionInv => WaitingIsAnswerable
  BY DEF DecisionInv
<1> QED BY <1>1, DecisionInvariant, PTL

-----------------------------------------------------------------------------
(* Nothing that needs review gets past the review unanswered.              *)

\* A position that has neither been given an answer nor gone past the review
\* with claims that need one.
Unanswered(p) ==
  /\ ~p.resume
  /\ p.node \in {"synthesize", "commit", "end"} => p.claims \notin Flagged

\* Before the decision there is no resume message, no task that received one,
\* and no position, stored or in memory, beyond the review.
NothingResumed ==
  /\ ~unsent["resume"]
  /\ \A r \in Tries : queue[<<"resume", r>>] = 0 /\ lost[<<"resume", r>>] = 0
  /\ \A w \in Workers : task[w].kind = "start" /\ Unanswered(task[w].at)
  /\ Unanswered(checkpoint)
  /\ report \notin Flagged

ReviewInv == TypeOK /\ (decisions = 0 => NothingResumed)

LEMMA ReviewInit == Init => ReviewInv
<1> SUFFICES ASSUME Init PROVE ReviewInv
  OBVIOUS
<1>1. NothingResumed
  BY WorkflowAssumption
     DEF Init, NothingResumed, Unanswered, Idle, Nowhere, Kinds
<1> QED BY <1>1, TypeInit DEF ReviewInv

\* A step of the graph to an unanswered position.
LEMMA GoToUnanswered ==
  ASSUME TypeOK, NothingResumed, NEW w \in Workers, NEW p \in Positions, GoTo(w, p),
         Unanswered(p)
  PROVE  /\ \A v \in Workers : task'[v].kind = "start" /\ Unanswered(task'[v].at)
         /\ Unanswered(checkpoint')
BY DEF TypeOK, GoTo, NothingResumed, Unanswered, Tasks

LEMMA ReviewStep == ReviewInv /\ TypeOK' /\ [Next]_vars => ReviewInv'
<1> SUFFICES ASSUME ReviewInv, TypeOK', [Next]_vars, decisions' = 0 PROVE NothingResumed'
  BY DEF ReviewInv
<1> USE DEF broker, budgets
<1>typed. /\ TypeOK /\ decisions \in Nat
          /\ task \in [Workers -> Tasks] /\ checkpoint \in Positions
          /\ queue \in [Kinds \X Tries -> Nat] /\ lost \in [Kinds \X Tries -> Nat]
          /\ \A r \in Tries : <<"resume", r>> \in Kinds \X Tries
  BY DEF ReviewInv, TypeOK, Kinds
<1>1. ~Decide
  BY <1>typed DEF Decide
<1>before. NothingResumed
  <2>1. decisions = 0
    BY <1>1, ZenonT(30) DEF Next, LeaseExpires, PublishEvent, Deliver, Restore, Receive, Work,
                BootstrapFails, OutcomeUnrecorded, Crash, VisibilityTimeout,
                ClaimDelivery, SkipDelivery, StartGraph, ContinueGraph, ResumeGraph,
                SaveCheckpoint, Research, PassReview, AskHuman, ApplyDecision, Synthesize,
                Commit, ReleaseDelivery, RaiseRetryable, Raise, ReleaseForRetry, Retry,
                MarkFailed, Acknowledge, vars
  <2> QED BY <2>1 DEF ReviewInv
\* Steps that leave the graph's positions where they are.
<1>2. CASE LeaseExpires
  BY <1>2, <1>typed, <1>before, ZenonT(30) DEF LeaseExpires, NothingResumed, Unanswered, Tasks
<1>3. ASSUME NEW k \in Kinds, PublishEvent(k) PROVE NothingResumed'
  <2>1. k = "start"
    BY <1>3, <1>before DEF PublishEvent, NothingResumed, Kinds
  <2>2. \A r \in Tries : queue'[<<"resume", r>>] = queue[<<"resume", r>>]
    BY <1>3, <1>typed, <2>1 DEF PublishEvent
  <2>3. ~unsent'["resume"]
    BY <1>3, <1>typed, <1>before, <2>1 DEF PublishEvent, NothingResumed, TypeOK, Kinds
  <2> QED BY <1>3, <1>before, <2>2, <2>3 DEF PublishEvent, NothingResumed, Unanswered
<1>4. ASSUME NEW k \in Kinds, NEW r \in Tries, Restore(k, r) PROVE NothingResumed'
  <2>1. k = "start"
    BY <1>4, <1>before DEF Restore, NothingResumed, Kinds
  <2>2. \A q \in Tries : /\ queue'[<<"resume", q>>] = queue[<<"resume", q>>]
                         /\ lost'[<<"resume", q>>] = lost[<<"resume", q>>]
    BY <1>4, <1>typed, <2>1 DEF Restore
  <2> QED BY <1>4, <1>before, <2>2 DEF Restore, NothingResumed, Unanswered
<1>5. ASSUME NEW k \in Kinds, NEW r \in Tries, NEW w \in Workers, Receive(w, k, r)
      PROVE NothingResumed'
  <2>1. k = "start"
    BY <1>5, <1>before DEF Receive, NothingResumed, Kinds
  <2>2. \A q \in Tries : queue'[<<"resume", q>>] = queue[<<"resume", q>>]
    BY <1>5, <1>typed, <2>1 DEF Receive
  <2>3. \A v \in Workers : task'[v].kind = "start" /\ Unanswered(task'[v].at)
    BY <1>5, <1>typed, <1>before, <2>1 DEF Receive, NothingResumed, Unanswered, Idle, Nowhere
  <2> QED BY <1>5, <1>before, <2>2, <2>3 DEF Receive, NothingResumed, Unanswered
<1>ends. ASSUME NEW w \in Workers, task' = Finished(w) \/ task' = [task EXCEPT ![w] = Idle]
         PROVE  \A v \in Workers : task'[v].kind = "start" /\ Unanswered(task'[v].at)
  <2>1. ASSUME NEW v \in Workers
        PROVE  /\ task'[v].kind \in {"start", task[v].kind}
               /\ task'[v].at \in {Nowhere, task[v].at}
    <3>1. CASE task' = Finished(w)
      BY <1>typed, <3>1 DEF Finished, Tasks
    <3>2. CASE task' = [task EXCEPT ![w] = Idle]
      BY <1>typed, <3>2 DEF Idle
    <3> QED BY <1>ends, <3>1, <3>2
  <2> QED BY <1>before, <2>1 DEF NothingResumed, Unanswered, Nowhere
<1>6. ASSUME NEW w \in Workers,
             \/ BootstrapFails(w) \/ OutcomeUnrecorded(w) \/ SkipDelivery(w)
             \/ ReleaseDelivery(w) \/ MarkFailed(w) \/ Acknowledge(w)
      PROVE  NothingResumed'
  <2>1. \A v \in Workers : task'[v].kind = "start" /\ Unanswered(task'[v].at)
    BY <1>6, <1>ends DEF BootstrapFails, OutcomeUnrecorded, SkipDelivery, ReleaseDelivery,
                         MarkFailed, Acknowledge
  <2>2. UNCHANGED <<checkpoint, unsent, queue, lost, report>>
    BY <1>6 DEF BootstrapFails, OutcomeUnrecorded, SkipDelivery, ReleaseDelivery,
                MarkFailed, Acknowledge
  <2> QED BY <1>before, <2>1, <2>2 DEF NothingResumed, Unanswered
<1>7. ASSUME NEW w \in Workers, Crash(w) PROVE NothingResumed'
  <2>1. task[w].kind = "start"
    BY <1>before DEF NothingResumed
  <2>2. \A q \in Tries : lost'[<<"resume", q>>] = lost[<<"resume", q>>]
    BY <1>7, <1>typed, <2>1 DEF Crash
  <2>3. \A v \in Workers : task'[v].kind = "start" /\ Unanswered(task'[v].at)
    BY <1>7, <1>ends DEF Crash
  <2> QED BY <1>7, <1>before, <2>2, <2>3 DEF Crash, NothingResumed, Unanswered
<1>8. ASSUME NEW w \in Workers, Retry(w) PROVE NothingResumed'
  <2>1. task[w].kind = "start"
    BY <1>before DEF NothingResumed
  <2>2. \A q \in Tries : queue'[<<"resume", q>>] = queue[<<"resume", q>>]
    BY <1>8, <1>typed, <2>1 DEF Retry
  <2>3. \A v \in Workers : task'[v].kind = "start" /\ Unanswered(task'[v].at)
    BY <1>8, <1>ends DEF Retry
  <2> QED BY <1>8, <1>before, <2>2, <2>3 DEF Retry, NothingResumed, Unanswered
<1>9. ASSUME NEW w \in Workers, VisibilityTimeout(w) PROVE NothingResumed'
  <2>1. task[w].kind = "start"
    BY <1>before DEF NothingResumed
  <2>2. \A q \in Tries : queue'[<<"resume", q>>] = queue[<<"resume", q>>]
    BY <1>9, <1>typed, <2>1 DEF VisibilityTimeout
  <2>3. \A v \in Workers : task'[v].kind = "start" /\ Unanswered(task'[v].at)
    BY <1>9, <1>typed, <1>before DEF VisibilityTimeout, NothingResumed, Unanswered, Tasks
  <2> QED BY <1>9, <1>before, <2>2, <2>3 DEF VisibilityTimeout, NothingResumed, Unanswered
<1>10. ASSUME NEW w \in Workers,
              \/ ClaimDelivery(w) \/ AskHuman(w) \/ RaiseRetryable(w) \/ Raise(w)
              \/ ReleaseForRetry(w)
       PROVE  NothingResumed'
  <2>1. \A v \in Workers : task'[v].kind = "start" /\ Unanswered(task'[v].at)
    BY <1>10, <1>typed, <1>before
       DEF ClaimDelivery, AskHuman, RaiseRetryable, Raise, ReleaseForRetry, NothingResumed,
           Unanswered, Tasks
  <2>2. UNCHANGED <<checkpoint, unsent, queue, lost, report>>
    BY <1>10 DEF ClaimDelivery, AskHuman, RaiseRetryable, Raise, ReleaseForRetry
  <2> QED BY <1>before, <2>1, <2>2 DEF NothingResumed, Unanswered
\* Steps of the graph.
<1>11. ASSUME NEW w \in Workers, ContinueGraph(w) \/ SaveCheckpoint(w) PROVE NothingResumed'
  <2>1. ASSUME NEW v \in Workers
        PROVE  task'[v].kind = task[v].kind /\ task'[v].at \in {task[v].at, checkpoint}
    <3>1. CASE ContinueGraph(w)
      BY <3>1, <1>typed DEF ContinueGraph, Tasks
    <3>2. CASE SaveCheckpoint(w)
      BY <3>2, <1>typed DEF SaveCheckpoint, Tasks
    <3> QED BY <1>11, <3>1, <3>2
  <2>2. checkpoint' \in {checkpoint, task[w].at}
    BY <1>11 DEF ContinueGraph, SaveCheckpoint
  <2>3. UNCHANGED <<unsent, queue, lost, report>>
    BY <1>11 DEF ContinueGraph, SaveCheckpoint, broker
  <2>4. \A v \in Workers : task'[v].kind = "start" /\ Unanswered(task'[v].at)
    BY <1>before, <2>1 DEF NothingResumed
  <2>5. Unanswered(checkpoint')
    BY <1>before, <2>2 DEF NothingResumed
  <2> QED BY <1>before, <2>3, <2>4, <2>5 DEF NothingResumed
<1>12. ASSUME NEW w \in Workers, ResumeGraph(w) PROVE NothingResumed'
  BY <1>12, <1>before DEF ResumeGraph, NothingResumed
<1>13. ASSUME NEW w \in Workers, ApplyDecision(w) PROVE NothingResumed'
  BY <1>13, <1>before DEF ApplyDecision, NothingResumed, Unanswered
<1>14. ASSUME NEW w \in Workers, NEW p \in Positions, GoTo(w, p), Unanswered(p),
              UNCHANGED broker, report' \notin Flagged
       PROVE  NothingResumed'
  <2>1. /\ \A v \in Workers : task'[v].kind = "start" /\ Unanswered(task'[v].at)
        /\ Unanswered(checkpoint')
    BY <1>14, <1>typed, <1>before, GoToUnanswered
  <2> QED BY <1>14, <1>before, <2>1 DEF NothingResumed
<1>15. ASSUME NEW w \in Workers, StartGraph(w) PROVE NothingResumed'
  <2>1. [Nowhere EXCEPT !.node = "research"] \in Positions
    BY WorkflowAssumption DEF Nowhere, Positions, Nodes
  <2>2. Unanswered([Nowhere EXCEPT !.node = "research"])
    BY DEF Nowhere, Unanswered
  <2> QED BY <1>14, <1>15, <1>before, <2>1, <2>2 DEF StartGraph, NothingResumed
<1>16. ASSUME NEW w \in Workers, Research(w) PROVE NothingResumed'
  <2>1. PICK c \in Claims :
          GoTo(w, [node |-> "human_review", claims |-> c, resume |-> FALSE])
    BY <1>16 DEF Research
  <2>2. [node |-> "human_review", claims |-> c, resume |-> FALSE] \in Positions
    BY WorkflowAssumption DEF Positions, Nodes
  <2>3. Unanswered([node |-> "human_review", claims |-> c, resume |-> FALSE])
    BY DEF Unanswered
  <2> QED BY <1>14, <1>16, <1>before, <2>1, <2>2, <2>3 DEF Research, NothingResumed
<1>position. ASSUME NEW w \in Workers
             PROVE  /\ task[w].at \in Positions
                    /\ Unanswered(task[w].at)
                    /\ task[w].at.node \notin {"none", "research"}
                         => task[w].at.claims \in Claims
  BY <1>typed, <1>before DEF Tasks, Positions, NothingResumed
<1>17. ASSUME NEW w \in Workers, PassReview(w) PROVE NothingResumed'
  <2> DEFINE p == [node |-> "synthesize", claims |-> task[w].at.claims, resume |-> FALSE]
  <2>1. p \in Positions
    BY <1>17, <1>position, WorkflowAssumption DEF PassReview, Executing, Positions, Nodes
  <2>2. Unanswered(p)
    BY <1>17 DEF PassReview, NeedsReview, Unanswered
  <2>3. GoTo(w, p) /\ UNCHANGED broker /\ report' \notin Flagged
    BY <1>17, <1>before DEF PassReview, NothingResumed
  <2> QED BY <1>14, <2>1, <2>2, <2>3
<1>18. ASSUME NEW w \in Workers, Synthesize(w) PROVE NothingResumed'
  <2> DEFINE p == [task[w].at EXCEPT !.node = "commit"]
  <2>1. p \in Positions /\ Unanswered(p)
    BY <1>18, <1>position, WorkflowAssumption
       DEF Synthesize, Executing, Positions, Nodes, Unanswered
  <2>2. GoTo(w, p) /\ UNCHANGED broker /\ report' \notin Flagged
    BY <1>18, <1>before DEF Synthesize, NothingResumed
  <2> QED BY <1>14, <2>1, <2>2
<1>19. ASSUME NEW w \in Workers, Commit(w) PROVE NothingResumed'
  <2> DEFINE p == [task[w].at EXCEPT !.node = "end"]
  <2>1. p \in Positions /\ Unanswered(p)
    BY <1>19, <1>position, WorkflowAssumption
       DEF Commit, Executing, Positions, Nodes, Unanswered
  <2>2. report' \notin Flagged
    BY <1>19, <1>position, <1>before DEF Commit, Executing, Unanswered, NothingResumed
  <2>3. GoTo(w, p) /\ UNCHANGED broker
    BY <1>19 DEF Commit
  <2> QED BY <1>14, <2>1, <2>2, <2>3
<1>20. CASE UNCHANGED vars
  BY <1>20, <1>before DEF vars, NothingResumed, Unanswered
<1> QED
  BY <1>1, <1>2, <1>3, <1>4, <1>5, <1>6, <1>7, <1>8, <1>9, <1>10, <1>11, <1>12, <1>13,
     <1>15, <1>16, <1>17, <1>18, <1>19, <1>20 DEF Next, Work, Deliver

\* Claims that need review are published only after a human has decided: no
\* crash, retry or redelivery gets a run past its review.
THEOREM ReviewedBeforePublished == Spec => []PublishedAfterDecision
<1>1. ReviewInv => PublishedAfterDecision
  BY DEF ReviewInv, NothingResumed, PublishedAfterDecision, TypeOK
<1> QED BY <1>1, ReviewInit, ReviewStep, TypeCorrect, PTL DEF Spec

\* No step, of whichever delivery, turns a published run into a failed one.
THEOREM SuccessStays == Spec => SuccessIsNotFailed
<1>1. TypeOK /\ [Next]_vars => [run.status = "succeeded" => run'.status # "failed"]_vars
  <2> SUFFICES ASSUME TypeOK, Next, run.status = "succeeded" PROVE run'.status # "failed"
    OBVIOUS
  <2>typed. /\ run \in [status : Statuses, owner : {Host[w] : w \in Workers} \cup {NoHost},
                        live : BOOLEAN]
    BY DEF TypeOK
  <2>1. CASE Decide \/ LeaseExpires
    BY <2>1, <2>typed DEF Decide, LeaseExpires
  <2>2. CASE \E k \in Kinds : PublishEvent(k) \/ \E r \in Tries : Deliver(k, r)
    BY <2>2 DEF PublishEvent, Deliver, Restore, Receive
  <2>3. ASSUME NEW w \in Workers,
               \/ Work(w) \/ BootstrapFails(w) \/ OutcomeUnrecorded(w)
               \/ Crash(w) \/ VisibilityTimeout(w)
        PROVE  run'.status # "failed"
    BY <2>3, <2>typed
       DEF Work, ClaimDelivery, SkipDelivery, StartGraph, ContinueGraph, ResumeGraph,
           SaveCheckpoint, Research, PassReview, AskHuman, RequestHuman, ApplyDecision,
           Synthesize, Commit, ReleaseDelivery, RaiseRetryable, Raise, ReleaseForRetry,
           ReleasedBy, Retry, MarkFailed, Acknowledge, BootstrapFails, MarkBootstrapFailed,
           OutcomeUnrecorded, Crash, VisibilityTimeout
  <2> QED BY <2>1, <2>2, <2>3 DEF Next
<1> QED BY <1>1, TypeCorrect, PTL DEF Spec, SuccessIsNotFailed

\* A run asks and hears its human once, before it publishes what needs review.
THEOREM ReviewSound == Spec => []ReviewIsSound
<1>1. TypeOK /\ PublishedAfterDecision /\ DecidedOnce /\ WaitingIsAnswerable => ReviewIsSound
  BY DEF ReviewIsSound
<1> QED BY <1>1, TypeCorrect, ReviewedBeforePublished, OneDecision, WaitingAnswerable, PTL
-----------------------------------------------------------------------------
(* No lost wake-up, as long as nobody has decided.                         *)

Active == {"received", "claimed", "executing", "interrupted", "raised", "failing", "retrying"}

\* Without a decision a run only advances: nothing is executed before it has
\* left "pending", a question takes it out of "running", an execution that has
\* reached the end finds it ended, and only a question interrupts one.
Advanced ==
  /\ checkpoint # Nowhere => run.status # "pending"
  /\ checkpoint.node = "end" => Ended
  /\ \A w \in Workers : /\ task[w].at # Nowhere => run.status # "pending"
                        /\ task[w].at.node = "end" => Ended
                        /\ task[w].pc = "interrupted" => asked # NoClaims
  /\ asked # NoClaims => run.status \notin {"pending", "running"}

\* A worker under its lease, or that has not claimed yet, has its message still
\* to acknowledge; a delivery that goes on to a retry has one left.
Holds(t) ==
  /\ t.leased \/ t.pc = "received" => t.held
  /\ t.leased => t.pc \in Active
  /\ t.pc \in {"raised", "retrying"} => t.tries < MaxRetries
Holding == (run.live => run.owner # NoHost) /\ \A w \in Workers : Holds(task[w])

\* The run waits for its first delivery to get anywhere.
Open == run.status \in {"pending", "running"} /\ decisions = 0 /\ errors = 0

IsLost == \E r \in Tries : lost[<<"start", r>>] > 0
IsQueued == \E r \in Tries : queue[<<"start", r>>] > 0
HasMessage(t) == t.held /\ t.pc \in Active

\* Its message is somewhere: to be sent, in the broker, or with a worker that
\* still has to acknowledge it.
Delivered == Open => unsent["start"] \/ IsQueued \/ IsLost \/ \E w \in Workers : HasMessage(task[w])

\* While the lease of the run has not expired, either the worker that won it
\* has it, or the message of that worker has been lost with it.
HasLease(w) == /\ task[w].leased /\ Host[w] = run.owner
               /\ task[w].pc \in Active \ {"received", "retrying"}
LeaseIsHeld == Open /\ run.live => IsLost \/ \E w \in Workers : HasLease(w)

\* Any message can be claimed where all workers share one hostname; elsewhere
\* one must not come back to a worker of another host before the lease ends.
OneHost == \A v, w \in Workers : Host[v] = Host[w]
Redelivered == OneHost \/ ~EarlyRedelivery

DeliveryInv == /\ TypeOK /\ (decisions = 0 => NothingResumed /\ Advanced) /\ Holding
               /\ Delivered /\ (~EarlyRedelivery => LeaseIsHeld)

\* A position of the graph changes by a step of the graph only.
LEMMA GoToMoves ==
  ASSUME TypeOK, NEW w \in Workers, NEW p \in Positions, GoTo(w, p)
  PROVE  /\ \A v \in Workers : /\ task'[v].at \in {task[v].at, p}
                               /\ task'[v].pc = "interrupted" => task[v].pc = "interrupted"
         /\ checkpoint' \in {checkpoint, p}
BY DEF TypeOK, GoTo, Tasks

\* A delivery that is over leaves the run as it was, without its lease, or failed.
LEMMA RunLeft ==
  ASSUME TypeOK, NEW w \in Workers,
         \/ BootstrapFails(w) \/ OutcomeUnrecorded(w) \/ SkipDelivery(w) \/ ReleaseDelivery(w)
         \/ ReleaseForRetry(w) \/ Retry(w) \/ MarkFailed(w) \/ Acknowledge(w)
  PROVE  /\ run'.status \in {run.status, "failed"}
         /\ (run'.live = run.live /\ run'.owner = run.owner) \/ (~run'.live /\ run'.owner = NoHost)
<1> DEFINE failed == [status |-> "failed", owner |-> NoHost, live |-> FALSE]
<1>1. run' = run \/ run' = ReleasedBy(w) \/ run' = failed
  <2>1. CASE BootstrapFails(w)
    BY <2>1 DEF BootstrapFails, MarkBootstrapFailed
  <2>2. CASE MarkFailed(w)
    BY <2>2 DEF MarkFailed
  <2>3. CASE OutcomeUnrecorded(w) \/ SkipDelivery(w) \/ ReleaseDelivery(w) \/ ReleaseForRetry(w)
    BY <2>3 DEF OutcomeUnrecorded, SkipDelivery, ReleaseDelivery, ReleaseForRetry
  <2>4. CASE Retry(w) \/ Acknowledge(w)
    BY <2>4 DEF Retry, Acknowledge
  <2> QED BY <2>1, <2>2, <2>3, <2>4
<1>2. run \in [status : Statuses, owner : {Host[v] : v \in Workers} \cup {NoHost}, live : BOOLEAN]
  BY DEF TypeOK
<1>3. CASE run' = run
  BY <1>3
<1>4. CASE run' = ReleasedBy(w)
  BY <1>2, <1>4 DEF ReleasedBy
<1>5. CASE run' = failed
  BY <1>5
<1> QED BY <1>1, <1>3, <1>4, <1>5

LEMMA AdvancedStep ==
  ASSUME TypeOK, decisions = 0, NothingResumed, Advanced, Next, decisions' = 0
  PROVE  Advanced'
<1> USE DEF Ended
<1>typed. /\ task \in [Workers -> Tasks] /\ checkpoint \in Positions /\ run.status \in Statuses
          /\ run \in [status : Statuses, owner : {Host[w] : w \in Workers} \cup {NoHost}, live : BOOLEAN]
  BY DEF TypeOK
<1>none. Nowhere.node = "none" /\ ~Decide
  BY DEF Nowhere, Decide
\* Steps that move no execution further.
<1>quiet. ASSUME \A v \in Workers : /\ task'[v].at \in {task[v].at, Nowhere, checkpoint}
                                    /\ task'[v].pc = "interrupted" => task[v].pc = "interrupted",
                 checkpoint' = checkpoint \/ \E v \in Workers : checkpoint' = task[v].at,
                 run'.status \in {run.status, "failed"}, UNCHANGED asked
          PROVE  Advanced'
  BY <1>quiet, <1>none DEF Advanced
<1>1. CASE LeaseExpires
  <2>1. \A v \in Workers : task'[v].at = task[v].at /\ task'[v].pc = task[v].pc
    BY <1>1, <1>typed DEF LeaseExpires, Tasks
  <2>2. run'.status = run.status
    BY <1>1, <1>typed DEF LeaseExpires
  <2> QED BY <1>1, <1>quiet, <2>1, <2>2 DEF LeaseExpires
<1>2. CASE \E k \in Kinds : PublishEvent(k) \/ \E r \in Tries : Restore(k, r)
  BY <1>2, <1>quiet DEF PublishEvent, Restore
<1>idle. ASSUME NEW w \in Workers, task' = Finished(w) \/ task' = [task EXCEPT ![w] = Idle]
         PROVE  \A v \in Workers : /\ task'[v].at \in {task[v].at, Nowhere}
                                   /\ task'[v].pc = "interrupted" => task[v].pc = "interrupted"
  BY <1>idle, <1>typed DEF Finished, Tasks, Idle
<1>3. ASSUME NEW k \in Kinds, NEW r \in Tries, NEW w \in Workers, Receive(w, k, r) PROVE Advanced'
  <2>1. \A v \in Workers : /\ task'[v].at \in {task[v].at, Nowhere}
                           /\ task'[v].pc = "interrupted" => task[v].pc = "interrupted"
    BY <1>3, <1>typed DEF Receive, Idle
  <2> QED BY <1>3, <1>quiet, <2>1 DEF Receive
<1>4. ASSUME NEW w \in Workers,
             \/ Crash(w) \/ BootstrapFails(w) \/ OutcomeUnrecorded(w) \/ SkipDelivery(w)
             \/ ReleaseDelivery(w) \/ Retry(w) \/ MarkFailed(w) \/ Acknowledge(w)
      PROVE  Advanced'
  <2>1. \A v \in Workers : /\ task'[v].at \in {task[v].at, Nowhere}
                           /\ task'[v].pc = "interrupted" => task[v].pc = "interrupted"
    BY <1>4, <1>idle DEF Crash, BootstrapFails, OutcomeUnrecorded, SkipDelivery, ReleaseDelivery,
                         Retry, MarkFailed, Acknowledge
  <2>2. run'.status \in {run.status, "failed"}
    BY <1>4, RunLeft DEF Crash
  <2>3. UNCHANGED <<asked, checkpoint>>
    BY <1>4 DEF Crash, BootstrapFails, OutcomeUnrecorded, SkipDelivery, ReleaseDelivery,
                Retry, MarkFailed, Acknowledge
  <2> QED BY <1>quiet, <2>1, <2>2, <2>3
<1>5. ASSUME NEW w \in Workers,
             \/ VisibilityTimeout(w) \/ ClaimDelivery(w) \/ RaiseRetryable(w) \/ Raise(w)
             \/ ReleaseForRetry(w) \/ ContinueGraph(w) \/ SaveCheckpoint(w)
      PROVE  Advanced'
  <2>1. \A v \in Workers : /\ task'[v].at \in {task[v].at, checkpoint}
                           /\ task'[v].pc = "interrupted" => task[v].pc = "interrupted"
    BY <1>5, <1>typed DEF VisibilityTimeout, ClaimDelivery, RaiseRetryable, Raise, ReleaseForRetry,
                          ContinueGraph, SaveCheckpoint, Tasks
  <2>2. run'.status = run.status
    BY <1>5, <1>typed DEF VisibilityTimeout, ClaimDelivery, RaiseRetryable, Raise, ReleaseForRetry,
                          ReleasedBy, ContinueGraph, SaveCheckpoint
  <2>3. UNCHANGED asked /\ checkpoint' \in {checkpoint, task[w].at}
    BY <1>5 DEF VisibilityTimeout, ClaimDelivery, RaiseRetryable, Raise, ReleaseForRetry,
                ContinueGraph, SaveCheckpoint
  <2> QED BY <1>quiet, <2>1, <2>2, <2>3
\* Steps of the graph.
<1>moves. ASSUME NEW w \in Workers, NEW p \in Positions, GoTo(w, p), UNCHANGED asked,
                 run'.status # "pending", Ended => Ended', p.node = "end" => Ended',
                 asked # NoClaims => run'.status # "running"
          PROVE  Advanced'
  <2>1. /\ \A v \in Workers : /\ task'[v].at \in {task[v].at, p}
                              /\ task'[v].pc = "interrupted" => task[v].pc = "interrupted"
        /\ checkpoint' \in {checkpoint, p}
    BY <1>moves, GoToMoves
  <2> QED BY <1>moves, <2>1 DEF Advanced
<1>6. ASSUME NEW w \in Workers, StartGraph(w) PROVE Advanced'
  <2>1. [Nowhere EXCEPT !.node = "research"] \in Positions
    BY WorkflowAssumption DEF Nowhere, Positions, Nodes
  <2>2. [Nowhere EXCEPT !.node = "research"].node = "research"
    BY DEF Nowhere
  <2>3. /\ run'.status # "pending" /\ (Ended => Ended')
        /\ asked # NoClaims => run'.status # "running"
    BY <1>6, <1>typed DEF StartGraph, Advanced
  <2> QED BY <1>6, <1>moves, <2>1, <2>2, <2>3 DEF StartGraph
<1>at. ASSUME NEW w \in Workers
       PROVE  /\ task[w].at \in Positions
              /\ task[w].at.node # "none" => run.status # "pending"
              /\ task[w].at.node \notin {"none", "research"} => task[w].at.claims \in Claims
  BY <1>typed, <1>none DEF Tasks, Positions, Advanced
<1>7. ASSUME NEW w \in Workers, Research(w) PROVE Advanced'
  <2>1. PICK c \in Claims : GoTo(w, [node |-> "human_review", claims |-> c, resume |-> FALSE])
    BY <1>7 DEF Research
  <2>2. [node |-> "human_review", claims |-> c, resume |-> FALSE] \in Positions
    BY WorkflowAssumption DEF Positions, Nodes
  <2>3. UNCHANGED <<run, asked>> /\ run.status # "pending"
    BY <1>7, <1>at DEF Research, Executing
  <2>4. asked # NoClaims => run.status # "running"
    BY DEF Advanced
  <2> QED BY <1>moves, <2>1, <2>2, <2>3, <2>4
<1>8. ASSUME NEW w \in Workers, PassReview(w) \/ Synthesize(w) PROVE Advanced'
  <2> DEFINE p == IF PassReview(w)
                  THEN [node |-> "synthesize", claims |-> task[w].at.claims, resume |-> FALSE]
                  ELSE [task[w].at EXCEPT !.node = "commit"]
  <2>1. p \in Positions /\ p.node # "end"
    BY <1>8, <1>at, WorkflowAssumption DEF PassReview, Synthesize, Executing, Positions, Nodes
  <2>2. GoTo(w, p) /\ UNCHANGED <<run, asked>> /\ run.status # "pending"
    BY <1>8, <1>at DEF PassReview, Synthesize, Executing
  <2>3. asked # NoClaims => run.status # "running"
    BY DEF Advanced
  <2> HIDE DEF p
  <2> QED BY <1>moves, <2>1, <2>2, <2>3
<1>9. ASSUME NEW w \in Workers, Commit(w) PROVE Advanced'
  <2> DEFINE p == [task[w].at EXCEPT !.node = "end"]
  <2>1. p \in Positions
    BY <1>9, <1>at, WorkflowAssumption DEF Commit, Executing, Positions, Nodes
  <2>2. GoTo(w, p) /\ UNCHANGED asked /\ run'.status \in {"succeeded", "failed"}
    BY <1>9, <1>typed DEF Commit
  <2> HIDE DEF p
  <2> QED BY <1>moves, <2>1, <2>2
<1>10. ASSUME NEW w \in Workers, AskHuman(w) PROVE Advanced'
  <2>1. \A v \in Workers : task'[v].at = task[v].at /\ checkpoint' = checkpoint
    BY <1>10, <1>typed DEF AskHuman, Tasks
  <2>2. asked' # NoClaims
    BY <1>10, WorkflowAssumption DEF AskHuman, NeedsReview, RequestHuman
  <2>3. run.status # "pending"
    BY <1>10, <1>at DEF AskHuman, Executing
  <2>4. run'.status \notin {"pending", "running"} /\ (Ended => Ended')
    BY <1>10, <1>typed, <2>3 DEF AskHuman, RequestHuman, Advanced
  <2> QED BY <1>10, <2>1, <2>2, <2>4 DEF Advanced, AskHuman
<1>11. ASSUME NEW w \in Workers PROVE ~ResumeGraph(w) /\ ~ApplyDecision(w)
  BY DEF NothingResumed, Unanswered, ResumeGraph, ApplyDecision
<1> QED
  BY <1>none, <1>1, <1>2, <1>3, <1>4, <1>5, <1>6, <1>7, <1>8, <1>9, <1>10, <1>11
     DEF Next, Work, Deliver

LEMMA HoldingStep == TypeOK /\ Holding /\ Next => Holding'
<1> SUFFICES ASSUME TypeOK, Holding, Next PROVE Holding'
  OBVIOUS
<1>typed. /\ task \in [Workers -> Tasks] /\ MaxRetries \in Nat
          /\ run \in [status : Statuses, owner : {Host[w] : w \in Workers} \cup {NoHost}, live : BOOLEAN]
          /\ \A v \in Workers : Holds(task[v])
  BY WorkflowAssumption DEF TypeOK, Holding
<1>1. ASSUME NEW v \in Workers PROVE Holds(task'[v])
  <2> USE DEF Holds
  <2>1. CASE LeaseExpires
    <3>1. task'[v] = [task[v] EXCEPT !.leased = FALSE]
      BY <2>1 DEF LeaseExpires
    <3> QED BY <1>typed, <3>1 DEF Tasks
  <2>2. CASE UNCHANGED task
    BY <2>2, <1>typed
  <2>3. ASSUME NEW w \in Workers, task' = Finished(w) \/ task' = [task EXCEPT ![w] = Idle]
        PROVE  Holds(task'[v])
    BY <2>3, <1>typed DEF Finished, Tasks, Idle
  <2>4. ASSUME NEW k \in Kinds, NEW r \in Tries, NEW w \in Workers, Receive(w, k, r)
        PROVE  Holds(task'[v])
    BY <2>4, <1>typed DEF Receive, Idle
  <2>5. ASSUME NEW w \in Workers,
               \/ ClaimDelivery(w) \/ ContinueGraph(w) \/ SaveCheckpoint(w) \/ AskHuman(w)
               \/ Raise(w) \/ VisibilityTimeout(w)
        PROVE  Holds(task'[v])
    BY <2>5, <1>typed DEF ClaimDelivery, ContinueGraph, SaveCheckpoint, AskHuman, Raise,
                          VisibilityTimeout, Executing, Tasks, Active
  <2>6. ASSUME NEW w \in Workers, RaiseRetryable(w) \/ ReleaseForRetry(w) PROVE Holds(task'[v])
    BY <2>6, <1>typed DEF RaiseRetryable, ReleaseForRetry, Executing, Tasks, Active
  <2>7. ASSUME NEW w \in Workers, NEW p, GoTo(w, p),
               task[w].pc \in {"claimed", "executing"}
        PROVE  Holds(task'[v])
    BY <2>7, <1>typed DEF GoTo, Tasks, Active
  <2>8. ASSUME NEW w \in Workers,
               \/ StartGraph(w) \/ ResumeGraph(w) \/ Research(w) \/ PassReview(w)
               \/ ApplyDecision(w) \/ Synthesize(w) \/ Commit(w)
        PROVE  Holds(task'[v])
    BY <2>7, <2>8, Zenon DEF StartGraph, ResumeGraph, Research, PassReview, ApplyDecision, Synthesize,
                             Commit, Executing
  <2> QED
    BY <2>1, <2>2, <2>3, <2>4, <2>5, <2>6, <2>8
       DEF Next, Work, Deliver, Decide, PublishEvent, Restore, BootstrapFails, OutcomeUnrecorded,
           Crash, SkipDelivery, ReleaseDelivery, Retry, MarkFailed, Acknowledge
<1>2. run'.live => run'.owner # NoHost
  <2>0. run.live => run.owner # NoHost
    BY DEF Holding
  <2>1. CASE Decide \/ LeaseExpires \/ UNCHANGED run
    BY <2>0, <2>1, <1>typed DEF Decide, LeaseExpires
  <2>2. ASSUME NEW w \in Workers, ClaimDelivery(w) PROVE run'.live => run'.owner # NoHost
    <3>1. Host[w] # NoHost
      BY WorkflowAssumption
    <3> QED BY <2>2, <3>1, <1>typed DEF ClaimDelivery
  <2>3. ASSUME NEW w \in Workers,
               \/ BootstrapFails(w) \/ ReleaseDelivery(w) \/ ReleaseForRetry(w) \/ MarkFailed(w)
        PROVE  run'.live => run'.owner # NoHost
    BY <2>0, <2>3, RunLeft
  <2>4. ASSUME NEW w \in Workers, StartGraph(w) \/ AskHuman(w) \/ ApplyDecision(w) \/ Commit(w)
        PROVE  run'.live => run'.owner # NoHost
    BY <2>0, <2>4, <1>typed DEF StartGraph, AskHuman, RequestHuman, ApplyDecision, Commit
  <2> QED
    BY <2>1, <2>2, <2>3, <2>4
       DEF Next, Work, Deliver, PublishEvent, Restore, Receive, OutcomeUnrecorded, Crash,
           VisibilityTimeout, SkipDelivery, ContinueGraph, ResumeGraph, SaveCheckpoint, Research,
           PassReview, Synthesize, RaiseRetryable, Raise, Retry, Acknowledge
<1> QED BY <1>1, <1>2 DEF Holding

\* A run does not open again, and an open one is not in the hands of a worker
\* that lets go of it for good.
LEMMA OpenSteps ==
  ASSUME DeliveryInv, Next, Open'
  PROVE  /\ Open /\ NothingResumed /\ Advanced
         /\ ~Decide
         /\ \A w \in Workers : /\ ~ReleaseDelivery(w) /\ ~MarkFailed(w) /\ ~BootstrapFails(w)
                               /\ ~OutcomeUnrecorded(w) /\ ~ResumeGraph(w) /\ ~ApplyDecision(w)
<1>typed. /\ decisions \in Nat /\ errors \in Nat
          /\ run \in [status : Statuses, owner : {Host[w] : w \in Workers} \cup {NoHost}, live : BOOLEAN]
  BY DEF DeliveryInv, TypeOK
<1>now. decisions' = 0 /\ errors' = 0 /\ run'.status \in {"pending", "running"}
  BY DEF Open
<1>1. ~Decide
  BY <1>typed, <1>now DEF Decide
<1>2. ASSUME NEW w \in Workers PROVE ~BootstrapFails(w) /\ ~OutcomeUnrecorded(w)
  BY <1>typed, <1>now DEF BootstrapFails, OutcomeUnrecorded
<1>3. UNCHANGED <<decisions, errors>>
  BY <1>1, <1>2, ZenonT(30)
     DEF Next, LeaseExpires, PublishEvent, Deliver, Restore, Receive, Work, Crash, VisibilityTimeout,
         ClaimDelivery, SkipDelivery, StartGraph, ContinueGraph, ResumeGraph, SaveCheckpoint, Research,
         PassReview, AskHuman, ApplyDecision, Synthesize, Commit, ReleaseDelivery, RaiseRetryable, Raise,
         ReleaseForRetry, Retry, MarkFailed, Acknowledge, budgets
<1>4. decisions = 0 /\ errors = 0 /\ NothingResumed /\ Advanced
  BY <1>3, <1>now DEF DeliveryInv
<1>5. ASSUME NEW w \in Workers PROVE ~ResumeGraph(w) /\ ~ApplyDecision(w)
  BY <1>4 DEF NothingResumed, Unanswered, ResumeGraph, ApplyDecision
<1>6. ASSUME NEW w \in Workers PROVE ~MarkFailed(w)
  BY <1>now, <1>typed DEF MarkFailed
<1>7. run.status \in {"pending", "running"}
  <2>1. CASE LeaseExpires
    BY <2>1, <1>now, <1>typed DEF LeaseExpires
  <2>2. CASE UNCHANGED run
    BY <2>2, <1>now
  <2>3. ASSUME NEW w \in Workers, ClaimDelivery(w) \/ StartGraph(w) \/ AskHuman(w) \/ Commit(w)
        PROVE  run.status \in {"pending", "running"}
    BY <2>3, <1>now, <1>typed DEF ClaimDelivery, StartGraph, AskHuman, RequestHuman, Commit
  <2>4. ASSUME NEW w \in Workers, ReleaseDelivery(w) \/ ReleaseForRetry(w)
        PROVE  run.status \in {"pending", "running"}
    BY <2>4, <1>now, RunLeft DEF DeliveryInv
  <2> QED
    BY <1>1, <1>2, <1>5, <1>6, <2>1, <2>2, <2>3, <2>4
       DEF Next, Work, Deliver, PublishEvent, Restore, Receive, Crash, VisibilityTimeout, SkipDelivery,
           ContinueGraph, SaveCheckpoint, Research, PassReview, Synthesize, RaiseRetryable, Raise,
           Retry, Acknowledge
<1>8. ASSUME NEW w \in Workers PROVE ~ReleaseDelivery(w)
  BY <1>4, <1>7 DEF ReleaseDelivery, Executing, Advanced, Ended
<1> QED BY <1>1, <1>2, <1>4, <1>5, <1>6, <1>7, <1>8 DEF Open

Executes(w) ==
  \/ StartGraph(w) \/ ContinueGraph(w) \/ SaveCheckpoint(w) \/ Research(w) \/ PassReview(w)
  \/ AskHuman(w) \/ Synthesize(w) \/ Commit(w) \/ RaiseRetryable(w) \/ Raise(w)

\* A crash loses no message that is lost already.
LEMMA LostStays ==
  ASSUME TypeOK, NEW w \in Workers, Crash(w), IsLost
  PROVE  IsLost'
<1>1. PICK r \in Tries : lost[<<"start", r>>] > 0
  BY DEF IsLost
<1> DEFINE m == <<"start", r>>
           x == <<task[w].kind, task[w].tries>>
<1>2. lost \in [Kinds \X Tries -> Nat] /\ m \in Kinds \X Tries /\ lost[m] > 0
  BY <1>1 DEF TypeOK, Kinds
<1>3. lost' = lost \/ lost' = [lost EXCEPT ![x] = @ + 1]
  BY DEF Crash
<1> HIDE DEF m, x
<1>4. lost'[m] > 0
  BY <1>2, <1>3
<1> QED BY <1>4 DEF IsLost, m

\* While it executes the graph a worker keeps its message and its lease.
LEMMA ExecutionKeeps ==
  ASSUME DeliveryInv, NEW w \in Workers, Executes(w)
  PROVE  /\ UNCHANGED broker /\ run'.live = run.live /\ run'.owner = run.owner
         /\ \A v \in Workers : /\ HasMessage(task[v]) => HasMessage(task'[v])
                               /\ HasLease(v) => HasLease(v)'
<1>typed. /\ task \in [Workers -> Tasks]
          /\ run \in [status : Statuses, owner : {Host[v] : v \in Workers} \cup {NoHost}, live : BOOLEAN]
  BY DEF DeliveryInv, TypeOK
<1>1. UNCHANGED broker
  BY DEF Executes, StartGraph, ContinueGraph, SaveCheckpoint, Research, PassReview, AskHuman,
         Synthesize, Commit, RaiseRetryable, Raise, budgets
<1>2. run'.live = run.live /\ run'.owner = run.owner
  BY <1>typed DEF Executes, StartGraph, ContinueGraph, SaveCheckpoint, Research, PassReview, AskHuman,
                  RequestHuman, Synthesize, Commit, RaiseRetryable, Raise
<1>3. ASSUME NEW v \in Workers
      PROVE  /\ task'[v].held = task[v].held /\ task'[v].leased = task[v].leased
             /\ \/ task'[v].pc = task[v].pc
                \/ task'[v].pc \in {"executing", "interrupted", "raised", "failing"}
  <2>1. ASSUME NEW p, GoTo(w, p)
        PROVE  /\ task'[v].held = task[v].held /\ task'[v].leased = task[v].leased
               /\ task'[v].pc = task[v].pc \/ task'[v].pc = "executing"
    BY <2>1, <1>typed DEF GoTo, Tasks
  <2>2. CASE StartGraph(w) \/ Research(w) \/ PassReview(w) \/ Synthesize(w) \/ Commit(w)
    BY <2>1, <2>2, Zenon DEF StartGraph, Research, PassReview, Synthesize, Commit
  <2>3. CASE ContinueGraph(w) \/ SaveCheckpoint(w)
    BY <2>3, <1>typed DEF ContinueGraph, SaveCheckpoint, Tasks
  <2>4. CASE AskHuman(w) \/ RaiseRetryable(w) \/ Raise(w)
    BY <2>4, <1>typed DEF AskHuman, RaiseRetryable, Raise, Tasks
  <2> QED BY <2>2, <2>3, <2>4 DEF Executes
<1> QED BY <1>1, <1>2, <1>3 DEF HasMessage, HasLease, Active

LEMMA DeliveredStep ==
  ASSUME DeliveryInv, Redelivered, Next, Open'
  PROVE  unsent'["start"] \/ IsQueued' \/ IsLost' \/ \E w \in Workers : HasMessage(task'[w])
<1> DEFINE Goal == unsent'["start"] \/ IsQueued' \/ IsLost' \/ \E w \in Workers : HasMessage(task'[w])
<1> USE DEF broker
<1>open. Open /\ NothingResumed /\ Advanced
  BY OpenSteps
<1>typed. /\ task \in [Workers -> Tasks] /\ unsent \in [Kinds -> BOOLEAN]
          /\ queue \in [Kinds \X Tries -> Nat] /\ lost \in [Kinds \X Tries -> Nat]
          /\ 0 \in Tries /\ \A r \in Tries : <<"start", r>> \in Kinds \X Tries
  BY WorkflowAssumption DEF DeliveryInv, TypeOK, Kinds, Tries
<1>before. unsent["start"] \/ IsQueued \/ IsLost \/ \E w \in Workers : HasMessage(task[w])
  BY <1>open DEF DeliveryInv, Delivered
<1>kind. \A w \in Workers : task[w].kind = "start" /\ task[w].tries \in Tries /\ Holds(task[w])
  BY <1>typed, <1>open DEF NothingResumed, Tasks, DeliveryInv, Holding
\* Messages stay where they are, and so does what the workers have.
<1>kept. ASSUME UNCHANGED broker, \A w \in Workers : HasMessage(task[w]) => HasMessage(task'[w])
         PROVE  Goal
  BY <1>before, <1>kept DEF IsQueued, IsLost
<1>more. ASSUME NEW r \in Tries, queue' = [queue EXCEPT ![<<"start", r>>] = @ + 1]
         PROVE  IsQueued'
  <2>1. queue'[<<"start", r>>] > 0
    BY <1>more, <1>typed
  <2> QED BY <2>1 DEF IsQueued
<1>1. CASE LeaseExpires
  <2>1. \A w \in Workers : HasMessage(task[w]) => HasMessage(task'[w])
    BY <1>1, <1>typed DEF LeaseExpires, HasMessage, Tasks
  <2> QED BY <1>1, <1>kept, <2>1 DEF LeaseExpires
<1>2. ASSUME NEW k \in Kinds, PublishEvent(k) PROVE Goal
  <2>1. k = "start"
    BY <1>2, <1>open DEF PublishEvent, NothingResumed, Kinds
  <2> QED BY <1>2, <1>more, <1>typed, <2>1 DEF PublishEvent
<1>3. ASSUME NEW k \in Kinds, NEW r \in Tries, Restore(k, r) PROVE Goal
  <2>1. k = "start"
    BY <1>3, <1>open DEF Restore, NothingResumed, Kinds
  <2> QED BY <1>3, <1>more, <2>1 DEF Restore
<1>4. ASSUME NEW k \in Kinds, NEW r \in Tries, NEW w \in Workers, Receive(w, k, r) PROVE Goal
  <2>1. HasMessage(task'[w])
    BY <1>4, <1>typed DEF Receive, HasMessage, Idle, Active
  <2> QED BY <2>1
\* One worker drops its task: what the others have stays.
<1>drops. ASSUME NEW w \in Workers, task' = Finished(w) \/ task' = [task EXCEPT ![w] = Idle],
                 ~HasMessage(task[w])
          PROVE  \A v \in Workers : HasMessage(task[v]) => HasMessage(task'[v])
  BY <1>drops, <1>typed DEF Finished
<1>5. ASSUME NEW w \in Workers, Crash(w) PROVE Goal
  <2> DEFINE m == <<"start", task[w].tries>>
  <2>1. m \in Kinds \X Tries /\ m = <<task[w].kind, task[w].tries>>
    BY <1>typed, <1>kind
  <2>2. CASE HasMessage(task[w])
    <3>1. lost' = [lost EXCEPT ![m] = @ + 1]
      BY <1>5, <2>1, <2>2 DEF Crash, HasMessage
    <3>2. lost'[m] > 0
      BY <2>1, <3>1, <1>typed
    <3> QED BY <1>kind, <3>2 DEF IsLost
  <2>3. CASE ~HasMessage(task[w])
    <3>1. \A v \in Workers : HasMessage(task[v]) => HasMessage(task'[v])
      BY <1>5, <1>drops, <2>3 DEF Crash
    <3>2. IsLost => IsLost'
      BY <1>5, LostStays DEF DeliveryInv
    <3>3. UNCHANGED <<unsent, queue>>
      BY <1>5 DEF Crash
    <3> QED BY <1>before, <3>1, <3>2, <3>3 DEF IsQueued
  <2> QED BY <2>2, <2>3
<1>6. ASSUME NEW w \in Workers, VisibilityTimeout(w) PROVE Goal
  BY <1>6, <1>more, <1>kind DEF VisibilityTimeout
<1>7. ASSUME NEW w \in Workers, SkipDelivery(w) PROVE Goal
  <2>1. task[w].pc = "received" /\ UNCHANGED broker /\ ~Claimable(w) /\ task' = Finished(w)
    BY <1>7 DEF SkipDelivery
  <2>2. run.live /\ run.owner # Host[w] /\ run.owner # NoHost
    BY <2>1, <1>open DEF Claimable, Open, DeliveryInv, Holding
  <2>3. run.owner \in {Host[v] : v \in Workers}
    BY <2>2 DEF DeliveryInv, TypeOK
  <2>4. ~EarlyRedelivery
    BY <2>2, <2>3 DEF Redelivered, OneHost
  <2>5. IsLost \/ \E v \in Workers : HasLease(v)
    BY <1>open, <2>2, <2>4 DEF DeliveryInv, LeaseIsHeld
  <2>6. CASE IsLost
    BY <2>1, <2>6 DEF IsLost
  <2>7. ASSUME NEW v \in Workers, HasLease(v) PROVE Goal
    <3>1. v # w /\ HasMessage(task[v])
      BY <2>1, <2>7, <1>kind DEF HasLease, Holds, HasMessage
    <3>2. task'[v] = task[v]
      BY <2>1, <3>1, <1>typed DEF Finished
    <3> QED BY <3>1, <3>2
  <2> QED BY <2>5, <2>6, <2>7
<1>8. ASSUME NEW w \in Workers, Retry(w) PROVE Goal
  <2>1. task[w].tries + 1 \in Tries
    BY <1>8, <1>kind, WorkflowAssumption DEF Retry, Holds, Tries
  <2> QED BY <1>8, <1>more, <1>kind, <2>1 DEF Retry
<1>9. ASSUME NEW w \in Workers, Acknowledge(w) PROVE Goal
  <2>1. \A v \in Workers : HasMessage(task[v]) => HasMessage(task'[v])
    BY <1>9, <1>drops DEF Acknowledge, HasMessage, Active
  <2> QED BY <1>9, <1>kept, <2>1 DEF Acknowledge
<1>10. ASSUME NEW w \in Workers, ClaimDelivery(w) \/ ReleaseForRetry(w) PROVE Goal
  <2>1. \A v \in Workers : HasMessage(task[v]) => HasMessage(task'[v])
    BY <1>10, <1>typed DEF ClaimDelivery, ReleaseForRetry, HasMessage, Tasks, Active
  <2> QED BY <1>10, <1>kept, <2>1 DEF ClaimDelivery, ReleaseForRetry
<1>11. ASSUME NEW w \in Workers, Executes(w) PROVE Goal
  BY <1>11, <1>kept, ExecutionKeeps
<1> QED
  BY OpenSteps, <1>1, <1>2, <1>3, <1>4, <1>5, <1>6, <1>7, <1>8, <1>9, <1>10, <1>11
     DEF Next, Work, Deliver, Executes

LEMMA LeaseStep ==
  ASSUME DeliveryInv, ~EarlyRedelivery, Next, Open', run'.live
  PROVE  IsLost' \/ \E w \in Workers : HasLease(w)'
<1> DEFINE Goal == IsLost' \/ \E w \in Workers : HasLease(w)'
<1> USE DEF broker
<1>open. Open /\ NothingResumed
  BY OpenSteps
<1>typed. /\ task \in [Workers -> Tasks] /\ lost \in [Kinds \X Tries -> Nat]
          /\ run \in [status : Statuses, owner : {Host[v] : v \in Workers} \cup {NoHost}, live : BOOLEAN]
          /\ \A r \in Tries : <<"start", r>> \in Kinds \X Tries
  BY DEF DeliveryInv, TypeOK, Kinds
<1>before. run.live => IsLost \/ \E w \in Workers : HasLease(w)
  BY <1>open DEF DeliveryInv, LeaseIsHeld
<1>kept. ASSUME UNCHANGED lost, run'.live = run.live, run'.owner = run.owner,
                \A w \in Workers : HasLease(w) => task'[w] = task[w] \/ HasLease(w)'
         PROVE  Goal
  BY <1>before, <1>kept DEF IsLost, HasLease
<1>1. ~LeaseExpires
  BY <1>typed DEF LeaseExpires
<1>2. ASSUME NEW k \in Kinds, PublishEvent(k) PROVE Goal
  BY <1>2, <1>kept DEF PublishEvent
<1>3. ASSUME NEW k \in Kinds, NEW r \in Tries PROVE ~Restore(k, r)
  BY <1>typed DEF Restore
<1>4. ASSUME NEW k \in Kinds, NEW r \in Tries, NEW w \in Workers, Receive(w, k, r) PROVE Goal
  <2>1. \A v \in Workers : HasLease(v) => task'[v] = task[v]
    BY <1>4, <1>typed DEF Receive, HasLease, Active
  <2> QED BY <1>4, <1>kept, <2>1 DEF Receive
<1>5. ASSUME NEW w \in Workers, Crash(w) PROVE Goal
  <2> DEFINE m == <<"start", task[w].tries>>
  <2>1. m \in Kinds \X Tries /\ m = <<task[w].kind, task[w].tries>> /\ task[w].tries \in Tries
    BY <1>typed, <1>open DEF NothingResumed, Tasks
  <2>2. CASE HasLease(w)
    <3>1. task[w].held
      BY <2>2 DEF HasLease, DeliveryInv, Holding, Holds
    <3>2. lost' = [lost EXCEPT ![m] = @ + 1]
      BY <1>5, <2>1, <3>1 DEF Crash
    <3>3. lost'[m] > 0
      BY <2>1, <3>2, <1>typed
    <3> QED BY <2>1, <3>3 DEF IsLost
  <2>3. CASE ~HasLease(w)
    <3>1. \A v \in Workers : HasLease(v) => task'[v] = task[v] /\ HasLease(v)'
      BY <1>5, <1>typed, <2>3 DEF Crash, HasLease
    <3>2. IsLost => IsLost'
      BY <1>5, LostStays DEF DeliveryInv
    <3>3. UNCHANGED run
      BY <1>5 DEF Crash
    <3> QED BY <1>before, <3>1, <3>2, <3>3
  <2> QED BY <2>2, <2>3
<1>6. ASSUME NEW w \in Workers, VisibilityTimeout(w) PROVE Goal
  <2>1. \A v \in Workers : HasLease(v) => task'[v] = task[v]
    BY <1>6, <1>typed DEF VisibilityTimeout, HasLease
  <2> QED BY <1>6, <1>kept, <2>1 DEF VisibilityTimeout
<1>7. ASSUME NEW w \in Workers, SkipDelivery(w) \/ Retry(w) \/ Acknowledge(w) PROVE Goal
  <2>1. \A v \in Workers : HasLease(v) => task'[v] = task[v]
    BY <1>7, <1>typed DEF SkipDelivery, Retry, Acknowledge, Finished, HasLease, Active
  <2> QED BY <1>7, <1>kept, <2>1 DEF SkipDelivery, Retry, Acknowledge
<1>8. ASSUME NEW w \in Workers, ClaimDelivery(w) PROVE Goal
  <2>1. task'[w].leased /\ task'[w].pc = "claimed" /\ run'.owner = Host[w]
    BY <1>8, <1>typed DEF ClaimDelivery, Tasks
  <2> QED BY <2>1 DEF HasLease, Active
<1>9. ASSUME NEW w \in Workers, ReleaseForRetry(w) PROVE Goal
  <2>1. run.owner # Host[w] /\ run' = run
    BY <1>9, <1>typed DEF ReleaseForRetry, ReleasedBy
  <2>2. \A v \in Workers : HasLease(v) => task'[v] = task[v]
    BY <1>9, <1>typed, <2>1 DEF ReleaseForRetry, HasLease
  <2> QED BY <1>9, <1>kept, <2>1, <2>2 DEF ReleaseForRetry
<1>10. ASSUME NEW w \in Workers, Executes(w) PROVE Goal
  BY <1>10, <1>kept, ExecutionKeeps
<1> QED
  BY OpenSteps, <1>1, <1>2, <1>3, <1>4, <1>5, <1>6, <1>7, <1>8, <1>9, <1>10
     DEF Next, Work, Deliver, Executes

LEMMA DeliveryStep ==
  ASSUME Redelivered, DeliveryInv, ReviewInv, TypeOK', ReviewInv', Next
  PROVE  DeliveryInv'
<1>1. decisions' = 0 => NothingResumed' /\ Advanced'
  <2> SUFFICES ASSUME decisions' = 0 PROVE Advanced'
    BY DEF ReviewInv
  <2>1. decisions = 0
    <3>1. ~Decide
      BY DEF Decide, DeliveryInv, TypeOK
    <3> QED
      BY <3>1, ZenonT(30)
         DEF Next, LeaseExpires, PublishEvent, Deliver, Restore, Receive, Work, Crash,
             VisibilityTimeout, BootstrapFails, OutcomeUnrecorded, ClaimDelivery, SkipDelivery,
             StartGraph, ContinueGraph, ResumeGraph, SaveCheckpoint, Research, PassReview, AskHuman,
             ApplyDecision, Synthesize, Commit, ReleaseDelivery, RaiseRetryable, Raise,
             ReleaseForRetry, Retry, MarkFailed, Acknowledge
  <2> QED BY <2>1, AdvancedStep DEF DeliveryInv
<1>2. Holding'
  BY HoldingStep DEF DeliveryInv
<1>3. Delivered'
  BY DeliveredStep DEF Delivered
<1>4. ~EarlyRedelivery => LeaseIsHeld'
  BY LeaseStep DEF LeaseIsHeld
<1> QED BY <1>1, <1>2, <1>3, <1>4 DEF DeliveryInv

\* No lost wake-up: as long as every outcome could be recorded, a run that has
\* neither ended nor asked has a message, or a worker that still has it, however
\* many crashes, duplicates, timeouts and retries there were.  A message that
\* comes back before the lease ends must find a worker of the same hostname.
THEOREM UnaskedDelivered == Redelivered => (Spec => []UnaskedRunIsDelivered)
<1> SUFFICES ASSUME Redelivered PROVE Spec => []UnaskedRunIsDelivered
  OBVIOUS
<1>1. Init => DeliveryInv
  <2> SUFFICES ASSUME Init PROVE DeliveryInv
    OBVIOUS
  <2>1. Nowhere.node = "none" /\ Idle.at = Nowhere /\ Idle.pc = "idle" /\ ~Idle.leased
    BY DEF Nowhere, Idle
  <2>2. Advanced /\ Holding
    BY <2>1 DEF Init, Advanced, Holding, Holds
  <2>3. NothingResumed /\ TypeOK
    BY ReviewInit, TypeInit DEF ReviewInv, Init
  <2>4. Delivered /\ LeaseIsHeld
    BY DEF Init, Delivered, LeaseIsHeld, Kinds
  <2> QED BY <2>2, <2>3, <2>4 DEF DeliveryInv
<1>2. DeliveryInv /\ ReviewInv /\ TypeOK' /\ ReviewInv' /\ [Next]_vars => DeliveryInv'
  <2> SUFFICES ASSUME DeliveryInv, UNCHANGED vars PROVE DeliveryInv'
    BY DeliveryStep
  <2> QED
    BY DEF vars, broker, budgets, DeliveryInv, TypeOK, NothingResumed, Unanswered, Advanced, Ended,
           Holding, Delivered, Open, IsQueued, IsLost, LeaseIsHeld, HasLease
<1>3. DeliveryInv => UnaskedRunIsDelivered
  <2> SUFFICES ASSUME DeliveryInv, Open,
                      NEW w \in Workers, HasMessage(task[w])
               PROVE  task[w].kind = "start" /\ task[w].pc \notin {"idle", "done"}
    BY DEF DeliveryInv, Delivered, UnaskedRunIsDelivered, Open, IsQueued, IsLost
  <2> QED BY DEF DeliveryInv, Open, NothingResumed, HasMessage, Active
<1>4. Spec => []ReviewInv
  BY ReviewInit, ReviewStep, TypeCorrect, PTL DEF Spec
<1> QED BY <1>1, <1>2, <1>3, <1>4, TypeCorrect, PTL DEF Spec
=============================================================================
