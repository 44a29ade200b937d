------------------------------ MODULE Evaluation ------------------------------
(***************************************************************************)
(* One evaluation run: its creation by the API, the run_evaluation task    *)
(* that claims it under a lease, reserves budget for each case, executes   *)
(* the cases in a pool of threads and saves their scores, the retries of   *)
(* the task, and the regression summary written at the end.                *)
(*                                                                         *)
(* Cases are numbered in the order of case_key.  The request asks for one  *)
(* metric; its value for a case is stored in thousandths, and the verdict  *)
(* follows from the value.  A failed case has a row "case_execution".      *)
(* late is a ghost: the cases saved by a transaction that checked the      *)
(* lease before another worker claimed the run and committed afterwards    *)
(* (the check locks nothing).                                              *)
(***************************************************************************)
EXTENDS Naturals, Integers, Sequences, FiniteSets, FiniteSetsExt, Functions

CONSTANTS Workers,
          NumCases,     \* cases of the frozen dataset
          Chunks,       \* chunks of the project
          Expected,     \* the expected evidence of each case
          Limit,        \* retrieval_limit of the pipeline version
          Metrics,      \* the metrics a request may name
          Budget,       \* budget_limit_usd in reservations of one case
          Baseline,     \* mean and pass rate of the latest succeeded run, or NoBaseline
          NoBaseline,
          MaxAttempts,  \* attempts of a run (3)
          MaxRetries,   \* max_retries of the Celery task (3)
          MaxEvents,    \* bound: deliveries of the outbox event
          MaxFaults,    \* bound: crashes, expired leases and unexpected exceptions
          NoWorker

Cases == 1..NumCases

\* The least value that passes, in thousandths.
Threshold == [schema_valid |-> 1000, citation_precision |-> 1000, evidence_recall |-> 800,
              retrieval_mrr |-> 500, retrieval_ndcg |-> 800, faithfulness |-> 800]

\* Rows without a value: a case without scores, the failure of a case, and a
\* rank metric of a case without expected evidence.
Unscored == -1
Failure == -1
NotJudged == -2
ASSUME EvaluationAssumption ==
  /\ NumCases \in Nat \ {0} /\ Expected \in [Cases -> SUBSET Chunks] /\ Budget \in Nat \ {0}
  /\ Limit \in 1..3 /\ Metrics \subseteq DOMAIN Threshold
  /\ Baseline \in [mean : 0..1000, rate : 0..1000] \cup {NoBaseline}
  /\ IsFiniteSet(Chunks)
  /\ MaxAttempts \in Nat \ {0} /\ MaxRetries \in Nat /\ MaxEvents \in Nat \ {0} /\ MaxFaults \in Nat
  /\ MaxAttempts <= MaxRetries
  /\ NoWorker \notin Workers

VARIABLES
  run,        \* the evaluation_runs row; reserved counts case reservations
  request,    \* what the request asked for: has a project, has cases, its metric
  score,      \* evaluation_scores: the value of each case, or Unscored
  failedRows, \* cases with a case_execution row
  summary,    \* the regression summary of a completed run
  events,     \* deliveries of evaluation.run.requested so far
  queue,      \* messages in the broker by retry count
  lost,       \* unacknowledged messages of dead workers
  task,       \* what each worker is doing
  executed,   \* number of pipeline executions paid for
  late,       \* ghost, see above
  abandoned,  \* a task has ended with an unexpected exception
  faults

rows == <<score, failedRows, late>>
broker == <<events, queue, lost>>
vars == <<run, request, rows, summary, broker, task, executed, abandoned, faults>>

Retries == 0..MaxRetries
NoSummary == [completed |-> 0, failed |-> 0, complete |-> FALSE, quality |-> FALSE, regressed |-> FALSE]
Idle == [pc |-> "idle", tries |-> 0, attempt |-> 0, todo |-> {}, submitted |-> {}, failed |-> {},
         retryable |-> {}, saving |-> 0, row |-> Failure]
Ended == {"succeeded", "failed"}

TypeOK ==
  /\ run \in [status : {"none", "pending", "running"} \cup Ended, attempts : 0..MaxAttempts,
              owner : Workers \cup {NoWorker}, live : BOOLEAN, reserved : 0..Budget]
  /\ request \in [project : BOOLEAN, cases : BOOLEAN, metric : Metrics]
  /\ score \in [Cases -> Unscored..1000] /\ failedRows \subseteq Cases
  /\ summary \in [completed : Int, failed : 0..NumCases, complete : BOOLEAN, quality : BOOLEAN,
                  regressed : BOOLEAN]
  /\ events \in 0..MaxEvents /\ queue \in [Retries -> Nat] /\ lost \in [Retries -> Nat]
  /\ task \in [Workers -> [pc : {"idle", "received", "invalid", "claimed", "reserving",
                                 "saving", "writing", "retrying"},
                           tries : Retries, attempt : 0..MaxAttempts, todo : SUBSET Cases,
                           submitted : SUBSET Cases, failed : SUBSET Cases,
                           retryable : SUBSET Cases, saving : 0..NumCases, row : NotJudged..1000]]
  /\ executed \in Nat /\ late \subseteq Cases /\ abandoned \in BOOLEAN /\ faults \in 0..MaxFaults

Init ==
  /\ run = [status |-> "none", attempts |-> 0, owner |-> NoWorker, live |-> FALSE, reserved |-> 0]
  /\ request \in [project : BOOLEAN, cases : BOOLEAN, metric : Metrics]
  /\ score = [c \in Cases |-> Unscored] /\ failedRows = {}
  /\ summary = NoSummary
  /\ events = 0 /\ queue = [r \in Retries |-> 0] /\ lost = [r \in Retries |-> 0]
  /\ task = [w \in Workers |-> Idle]
  /\ executed = 0 /\ late = {} /\ abandoned = FALSE /\ faults = 0

Scored == {c \in Cases : score[c] # Unscored}
Passing == {c \in Scored : score[c] >= Threshold[request.metric]}
HoldsLease(w) == run.status = "running" /\ run.owner = w /\ run.live

-----------------------------------------------------------------------------
(* The pipeline and its metrics.                                           *)

\* The chunks that the index returns and the project still has, best first.
Rankings == {s \in UNION {[1..n -> Chunks] : n \in 1..Limit} : IsInjective(s)}

\* What QdrantCaseExecutor.execute may return: an answer, blank or not, that
\* cites some of the chunks it was given.
Results == UNION {[blank : BOOLEAN, retrieved : {s}, cited : (SUBSET Range(s)) \ {{}}] : s \in Rankings}

Share(part, whole) == (1000 * Cardinality(part)) \div Cardinality(whole)

\* _reciprocal_rank.
ReciprocalRank(expected, s) ==
  LET hits == {i \in DOMAIN s : s[i] \in expected} IN
  IF hits = {} THEN 0 ELSE 1000 \div Min(hits)

\* _normalized_discounted_gain; Discount is 1 / log2(rank + 1).
Discount == <<1000, 631, 500>>
Gain(ranks) == LET Of(i) == IF i \in ranks THEN Discount[i] ELSE 0 IN Of(1) + Of(2) + Of(3)
NormalizedGain(expected, s) ==
  LET ideal == Gain(1..Min({Cardinality(expected), Len(s)})) IN
  (1000 * Gain({i \in DOMAIN s : s[i] \in expected})) \div ideal

\* deterministic_scores for one metric.
DeterministicScore(metric, expected, r) ==
  CASE metric = "schema_valid" -> IF r.blank \/ r.cited = {} THEN 0 ELSE 1000
    [] metric = "citation_precision" ->
         IF r.cited = {} THEN 0 ELSE Share(r.cited \cap Range(r.retrieved), r.cited)
    [] metric = "evidence_recall" ->
         IF expected = {} THEN 1000 ELSE Share(expected \cap Range(r.retrieved), expected)
    [] metric = "retrieval_mrr" ->
         IF expected = {} THEN NotJudged ELSE ReciprocalRank(expected, r.retrieved)
    [] metric = "retrieval_ndcg" ->
         IF expected = {} THEN NotJudged ELSE NormalizedGain(expected, r.retrieved)

\* RagasFaithfulnessScorer.score: whatever the judge says, on either side of the threshold.
Faithfulness == {700, 800, 1000}

Values == [metric \in Metrics |-> [c \in Cases |->
             IF metric = "faithfulness" THEN Faithfulness
             ELSE {DeterministicScore(metric, Expected[c], r) : r \in Results}]]

-----------------------------------------------------------------------------
(* The API and the broker.                                                 *)

\* create_evaluation_run: a repeated key finds the row and changes nothing.
CreateRun ==
  /\ run.status = "none"
  /\ run' = [run EXCEPT !.status = "pending"]
  /\ UNCHANGED <<request, rows, summary, broker, task, executed, abandoned, faults>>

\* The dispatcher sends the outbox event at least once.
PublishEvent ==
  /\ run.status # "none" /\ events < MaxEvents
  /\ events' = events + 1 /\ queue' = [queue EXCEPT ![0] = @ + 1]
  /\ UNCHANGED <<run, request, rows, summary, lost, task, executed, abandoned, faults>>

Receive(w, r) ==
  /\ task[w].pc = "idle" /\ queue[r] > 0
  /\ queue' = [queue EXCEPT ![r] = @ - 1]
  /\ task' = [task EXCEPT ![w] = [Idle EXCEPT !.pc = "received", !.tries = r]]
  /\ UNCHANGED <<run, request, rows, summary, events, lost, executed, abandoned, faults>>

\* Late acknowledgement: the message of a lost worker is delivered again.
Redeliver(r) ==
  /\ lost[r] > 0
  /\ lost' = [lost EXCEPT ![r] = @ - 1] /\ queue' = [queue EXCEPT ![r] = @ + 1]
  /\ UNCHANGED <<run, request, rows, summary, events, task, executed, abandoned, faults>>

-----------------------------------------------------------------------------
(* EvaluationRunner.run.                                                   *)

Claimable == /\ run.status = "pending" \/ (run.status = "running" /\ ~run.live)
             /\ run.attempts < MaxAttempts

\* _claim: the update commits, then a run without a project is rejected.
Claim(w) ==
  /\ task[w].pc = "received" /\ Claimable
  /\ run' = [run EXCEPT !.status = "running", !.attempts = @ + 1, !.owner = w, !.live = TRUE]
  /\ task' = [task EXCEPT ![w].pc = IF request.project THEN "claimed" ELSE "invalid",
                          ![w].attempt = run.attempts + 1]
  /\ UNCHANGED <<request, rows, summary, broker, executed, abandoned, faults>>

\* "not_claimed": the task succeeds and its message is acknowledged.
NotClaimed(w) ==
  /\ task[w].pc = "received" /\ ~Claimable
  /\ task' = [task EXCEPT ![w] = Idle]
  /\ UNCHANGED <<run, request, rows, summary, broker, executed, abandoned, faults>>

\* _terminal_failure and _release_for_retry ask for the owner, not for a live lease.
LeaveRun(w, status) ==
  run' = IF run.status = "running" /\ run.owner = w
         THEN [run EXCEPT !.status = status, !.owner = NoWorker, !.live = FALSE] ELSE run

\* A run without a project, or over a dataset without cases.
RejectRun(w) ==
  /\ \/ task[w].pc = "invalid"
     \/ task[w].pc = "claimed" /\ ~request.cases
  /\ LeaveRun(w, "failed")
  /\ task' = [task EXCEPT ![w] = Idle]
  /\ UNCHANGED <<request, rows, summary, broker, executed, abandoned, faults>>

\* A bug variant: a retried run starts over.
LoadEverything(w) ==
  /\ task[w].pc = "claimed" /\ request.cases
  /\ task' = [task EXCEPT ![w].pc = "reserving", ![w].todo = Cases]
  /\ UNCHANGED <<run, request, rows, summary, broker, executed, abandoned, faults>>

\* _load_cases and _completed_case_ids.
LoadCases(w) ==
  /\ task[w].pc = "claimed" /\ request.cases
  /\ task' = [task EXCEPT ![w].pc = "reserving", ![w].todo = Cases \ Scored]
  /\ UNCHANGED <<run, request, rows, summary, broker, executed, abandoned, faults>>

\* The loop over the pending cases: reserve, then submit or record a refusal.
Submitted(t, c) == [t EXCEPT !.todo = t.todo \ {c}, !.submitted = t.submitted \cup {c}]
Refused(t, c) == [t EXCEPT !.pc = "saving", !.todo = t.todo \ {c}, !.failed = t.failed \cup {c},
                           !.saving = c, !.row = Failure]
ReserveCase(w) ==
  LET c == Min(task[w].todo)
      granted == HoldsLease(w) /\ run.reserved < Budget IN
  /\ task[w].pc = "reserving" /\ task[w].todo # {}
  /\ run' = IF granted THEN [run EXCEPT !.reserved = @ + 1] ELSE run
  /\ executed' = IF granted THEN executed + 1 ELSE executed
  /\ task' = [task EXCEPT ![w] = IF granted THEN Submitted(task[w], c) ELSE Refused(task[w], c)]
  /\ UNCHANGED <<request, rows, summary, broker, abandoned, faults>>

\* What a case's thread returns.
Result(t, c, row, failed, retryable) ==
  [t EXCEPT !.pc = "saving", !.submitted = t.submitted \ {c}, !.saving = c, !.row = row,
            !.failed = t.failed \cup failed, !.retryable = t.retryable \cup retryable]
Collect(w, c, row, failed, retryable) ==
  /\ task[w].pc = "reserving" /\ task[w].todo = {} /\ c \in task[w].submitted
  /\ task' = [task EXCEPT ![w] = Result(task[w], c, row, failed, retryable)]
  /\ UNCHANGED <<run, request, rows, summary, broker, executed, abandoned, faults>>

\* _execute_case succeeds: the case has the value of some result.
CaseScored(w, c) ==
  \E value \in Values[request.metric][c] : Collect(w, c, value, {}, {})

\* It raises; _safe_evaluation_error tells failures for now from failures for good.
CaseFails(w, c) ==
  \/ Collect(w, c, Failure, {c}, {})
  \/ Collect(w, c, Failure, {}, {c})

\* _save_scores, first statement: a lost lease ends the attempt.
CheckLease(w) ==
  /\ task[w].pc = "saving"
  /\ task' = [task EXCEPT ![w].pc = IF HoldsLease(w) THEN "writing" ELSE "retrying"]
  /\ UNCHANGED <<run, request, rows, summary, broker, executed, abandoned, faults>>

\* A score with neither a value nor a verdict is refused by the check
\* constraint of evaluation_scores.
Storable(w) == task[w].row # NotJudged

\* A bug variant: the failure of an earlier attempt stays.
KeepFailure(w) ==
  LET c == task[w].saving IN
  /\ task[w].pc = "writing" /\ Storable(w)
  /\ IF task[w].row = Failure
     THEN failedRows' = failedRows \cup {c} /\ UNCHANGED score
     ELSE score' = [score EXCEPT ![c] = task[w].row] /\ UNCHANGED failedRows
  /\ late' = IF HoldsLease(w) THEN late ELSE late \cup {c}
  /\ task' = [task EXCEPT ![w].pc = "reserving"]
  /\ UNCHANGED <<run, request, summary, broker, executed, abandoned, faults>>

\* The rest of the transaction: scores replace the failure of an earlier attempt.
WriteRows(w) ==
  LET c == task[w].saving IN
  /\ task[w].pc = "writing" /\ Storable(w)
  /\ IF task[w].row = Failure
     THEN failedRows' = failedRows \cup {c} /\ UNCHANGED score
     ELSE failedRows' = failedRows \ {c} /\ score' = [score EXCEPT ![c] = task[w].row]
  /\ late' = IF HoldsLease(w) THEN late ELSE late \cup {c}
  /\ task' = [task EXCEPT ![w].pc = "reserving"]
  /\ UNCHANGED <<run, request, summary, broker, executed, abandoned, faults>>

Collected(w) == task[w].pc = "reserving" /\ task[w].todo = {} /\ task[w].submitted = {}

\* _release_for_retry and the retryable exception after it.
ReleaseRun(w) ==
  /\ Collected(w) /\ task[w].retryable # {} /\ task[w].attempt < MaxAttempts
  /\ LeaveRun(w, "pending")
  /\ task' = [task EXCEPT ![w].pc = "retrying"]
  /\ UNCHANGED <<request, rows, summary, broker, executed, abandoned, faults>>

Total == MapThenSumSet(LAMBDA c : score[c], Scored)

\* build_regression_summary over _metric_aggregates: the metric has regressed
\* when its mean fell by more than 0.02 or its pass rate by more than 0.05.
Summary(failures) ==
  LET judged == Cardinality(Scored)
      passed == Cardinality(Passing)
      completed == NumCases - failures
      complete == completed <= judged IN
  [completed |-> completed, failed |-> failures, complete |-> complete,
   quality |-> complete /\ passed = judged /\ failures = 0,
   regressed |-> /\ Baseline # NoBaseline /\ judged > 0
                 /\ \/ Total - Baseline.mean * judged < -20 * judged
                    \/ 1000 * passed - Baseline.rate * judged < -50 * judged]

\* A bug variant: the final update asks for neither owner nor lease.
CompleteUnguarded(w) ==
  LET failures == Cardinality(task[w].failed) + Cardinality(task[w].retryable) IN
  /\ Collected(w) /\ (task[w].retryable = {} \/ task[w].attempt >= MaxAttempts)
  /\ run' = [run EXCEPT !.status = IF failures > 0 THEN "failed" ELSE "succeeded",
                        !.owner = NoWorker, !.live = FALSE]
  /\ summary' = Summary(failures)
  /\ task' = [task EXCEPT ![w] = Idle]
  /\ UNCHANGED <<request, rows, broker, executed, abandoned, faults>>

\* _complete under a live lease.
CompleteRun(w) ==
  LET failures == Cardinality(task[w].failed) + Cardinality(task[w].retryable) IN
  /\ Collected(w) /\ (task[w].retryable = {} \/ task[w].attempt >= MaxAttempts)
  /\ HoldsLease(w)
  /\ run' = [run EXCEPT !.status = IF failures > 0 THEN "failed" ELSE "succeeded",
                        !.owner = NoWorker, !.live = FALSE]
  /\ summary' = Summary(failures)
  /\ task' = [task EXCEPT ![w] = Idle]
  /\ UNCHANGED <<request, rows, broker, executed, abandoned, faults>>

\* _complete without one: EVALUATION_LEASE_LOST.
CompletionRefused(w) ==
  /\ Collected(w) /\ (task[w].retryable = {} \/ task[w].attempt >= MaxAttempts)
  /\ ~HoldsLease(w)
  /\ task' = [task EXCEPT ![w].pc = "retrying"]
  /\ UNCHANGED <<run, request, rows, summary, broker, executed, abandoned, faults>>

\* A bug variant: a retryable failure is not retried.
DropTask(w) ==
  /\ task[w].pc = "retrying"
  /\ task' = [task EXCEPT ![w] = Idle]
  /\ UNCHANGED <<run, request, rows, summary, broker, executed, abandoned, faults>>

\* self.retry, or MaxRetriesExceeded.
RetryTask(w) ==
  LET r == task[w].tries IN
  /\ task[w].pc = "retrying"
  /\ queue' = IF r < MaxRetries THEN [queue EXCEPT ![r + 1] = @ + 1] ELSE queue
  /\ task' = [task EXCEPT ![w] = Idle]
  /\ UNCHANGED <<run, request, rows, summary, events, lost, executed, abandoned, faults>>

-----------------------------------------------------------------------------
(* Failures.                                                               *)

\* _mark_evaluation_run_failed assigns evaluation_runs.error_code, a column
\* that no migration creates: the statement raises and changes nothing.
MarkEvaluationRunFailed == UNCHANGED run

TaskRaises(w) ==
  /\ MarkEvaluationRunFailed
  /\ task' = [task EXCEPT ![w] = Idle]
  /\ abandoned' = TRUE
  /\ UNCHANGED <<request, rows, summary, broker, executed>>

RowRefused(w) ==
  /\ task[w].pc = "writing" /\ ~Storable(w)
  /\ TaskRaises(w) /\ UNCHANGED faults

\* Any other exception that is not an EvaluationRuntimeError, the soft time
\* limit among them.
UnexpectedException(w) ==
  /\ task[w].pc # "idle" /\ faults < MaxFaults
  /\ faults' = faults + 1
  /\ TaskRaises(w)

Crash(w) ==
  /\ task[w].pc # "idle" /\ faults < MaxFaults
  /\ faults' = faults + 1
  /\ lost' = [lost EXCEPT ![task[w].tries] = @ + 1]
  /\ task' = [task EXCEPT ![w] = Idle]
  /\ UNCHANGED <<run, request, rows, summary, events, queue, executed, abandoned>>

\* After the owner's death, or under a worker that is suspended or allowed to
\* run longer than lease_seconds.
LeaseExpires ==
  /\ run.status = "running" /\ run.live
  /\ \/ faults < MaxFaults /\ faults' = faults + 1
     \/ task[run.owner].pc = "idle" /\ UNCHANGED faults
  /\ run' = [run EXCEPT !.live = FALSE]
  /\ UNCHANGED <<request, rows, summary, broker, task, executed, abandoned>>

-----------------------------------------------------------------------------
Work(w) ==
  \/ \E r \in Retries : Receive(w, r)
  \/ Claim(w) \/ NotClaimed(w) \/ RejectRun(w) \/ LoadCases(w) \/ ReserveCase(w)
  \/ \E c \in Cases : CaseScored(w, c) \/ CaseFails(w, c)
  \/ CheckLease(w) \/ WriteRows(w) \/ RowRefused(w)
  \/ ReleaseRun(w) \/ CompleteRun(w) \/ CompletionRefused(w) \/ RetryTask(w)
Next == \/ CreateRun \/ PublishEvent \/ LeaseExpires
        \/ \E r \in Retries : Redeliver(r)
        \/ \E w \in Workers : Work(w) \/ UnexpectedException(w) \/ Crash(w)
Spec == Init /\ [][Next]_vars

\* The dispatcher, the broker and the workers go on.
Fairness == /\ WF_vars(PublishEvent) /\ \A r \in Retries : WF_vars(Redeliver(r))
            /\ \A w \in Workers : WF_vars(Work(w))
FairSpec == Spec /\ Fairness
-----------------------------------------------------------------------------
(* Properties.                                                             *)

\* The pipeline runs only for reservations, so that retries, lost leases and
\* two workers together stay within the run's limit.
ExecutionsAreReserved == executed <= run.reserved /\ run.reserved <= Budget

\* A run that succeeded has scores for every case, whatever its attempts
\* left behind, and passes its quality gate only when every case did.
SucceededMeansScored ==
  /\ run.status = "succeeded" => Scored = Cases
  /\ summary.quality => run.status = "succeeded" /\ Cases \ late \subseteq Passing

\* The summary's counts are those of the rows: a completed case has scores
\* and no failure, unless a late save came in between.
SummaryCountsRows ==
  run.status \in Ended /\ summary # NoSummary /\ late = {} =>
    /\ summary.completed = Cardinality(Scored)
    /\ summary.failed = Cardinality(failedRows)

\* No case has both scores and a failure, unless one of them was saved late.
FailureExcludesScores == failedRows \cap Scored \subseteq late

\* The attempt that holds the lease never pays again for a case that an
\* earlier attempt has scored.
ScoredCasesAreNotPaidAgain ==
  \A w \in Workers : HoldsLease(w) => task[w].todo \cap Scored \subseteq late

\* No pipeline runs without a reservation, none for what is scored already.
CasesArePaidOnce == ExecutionsAreReserved /\ ScoredCasesAreNotPaidAgain

InFlight == \/ events = 0
            \/ \E r \in Retries : queue[r] + lost[r] > 0
            \/ \E w \in Workers : task[w].pc # "idle"

\* A run that waits has an event, a message or a worker that will take it
\* up, unless a task for it has ended with an unexpected exception.
PendingIsInHand == run.status = "pending" => InFlight \/ abandoned

\* A worker that has lost the lease saves at most the one result whose check
\* it had passed: no more late saves than leases lost.
LateSavesAreBounded == Cardinality(late) <= faults

\* Status, scores, failures and summary agree.
ResultsAddUp == /\ TypeOK /\ SucceededMeansScored /\ SummaryCountsRows /\ FailureExcludesScores
                /\ PendingIsInHand /\ LateSavesAreBounded

\* A finished run keeps its status and its summary, whichever worker is
\* still busy with it.
EndIsFinal == [][run.status \in Ended => run' = run /\ summary' = summary]_vars

\* Without crashes, lost leases and unexpected exceptions every run ends,
\* whatever the pipeline answers and however small the budget.
RunEnds == run.status = "pending" ~> run.status \in Ended \/ abandoned \/ faults > 0
=============================================================================
