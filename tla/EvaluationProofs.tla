--------------------------- MODULE EvaluationProofs ---------------------------
(***************************************************************************)
(* Proofs about Evaluation, for any number of workers, cases, attempts,    *)
(* retries, events and faults, any dataset and any budget.                 *)
(***************************************************************************)
EXTENDS Evaluation, FiniteSetTheorems, TLAPS

\* A finished run keeps its status and its summary: every update of either
\* asks for a run that is pending, running or not there yet.
THEOREM EndStays == Spec => EndIsFinal
<1>1. ASSUME [Next]_vars, run.status \in Ended PROVE run' = run /\ summary' = summary
  <2> USE <1>1 DEF Ended
  <2>1. ASSUME NEW w \in Workers, Claim(w) PROVE FALSE
    BY <2>1 DEF Claim, Claimable
  <2>2. ASSUME NEW w \in Workers, RejectRun(w) \/ ReleaseRun(w) PROVE run' = run /\ summary' = summary
    BY <2>2 DEF RejectRun, ReleaseRun, LeaveRun
  <2>3. ASSUME NEW w \in Workers, ReserveCase(w) PROVE run' = run /\ summary' = summary
    BY <2>3 DEF ReserveCase, HoldsLease
  <2>4. ASSUME NEW w \in Workers, CompleteRun(w) PROVE FALSE
    BY <2>4 DEF CompleteRun, HoldsLease
  <2>5. CASE CreateRun \/ LeaseExpires
    BY <2>5 DEF CreateRun, LeaseExpires
  <2>6. CASE UNCHANGED <<run, summary>>
    BY <2>6
  <2> QED
    BY <2>1, <2>2, <2>3, <2>4, <2>5, <2>6
    DEF Next, Work, vars, PublishEvent, Redeliver, Receive, NotClaimed, LoadCases, CaseScored, CaseFails,
        Collect, CheckLease, WriteRows, RowRefused, CompletionRefused, RetryTask, UnexpectedException,
        Crash, TaskRaises, MarkEvaluationRunFailed
<1> QED BY <1>1, PTL DEF Spec, EndIsFinal

-----------------------------------------------------------------------------
(* The least of a set of numbers, by minimality.                           *)

LEMMA MinimalSubset ==
  ASSUME NEW T, T # {}, \A U \in T : IsFiniteSet(U)
  PROVE  \E U \in T : \A V \in T : V \subseteq U => V = U
<1> DEFINE S == UNION T
<1>1. T \subseteq FiniteSubsetsOf(S)
  BY DEF FiniteSubsetsOf
<1>2. \E U \in T : \A V \in T : ~ (<<V, U>> \in StrictSubsetOrdering(S))
  BY <1>1, FS_StrictSubsetOrderingWellFounded, WFMin
<1> QED
  BY <1>2 DEF StrictSubsetOrdering

LEMMA LeastNatural ==
  ASSUME NEW T \in SUBSET Nat, T # {}
  PROVE  \E n \in T : \A m \in T : n <= m
<1> DEFINE Initial(n) == 1..n
           Intervals == {Initial(n) : n \in T}
<1>1. /\ \A n \in T : Initial(n) \in Intervals
      /\ \A U \in Intervals : \E n \in T : U = Initial(n)
      /\ Intervals # {}
  OBVIOUS
<1>2. \A n \in T : IsFiniteSet(Initial(n))
  BY FS_Interval
<1>3. \A m, n \in T : m < n => Initial(m) \subseteq Initial(n) /\ Initial(m) # Initial(n)
  <2>1. SUFFICES ASSUME NEW m \in T, NEW n \in T, m < n
                 PROVE  Initial(m) \subseteq Initial(n) /\ Initial(m) # Initial(n)
    OBVIOUS
  <2>2. n \in Initial(n) /\ n \notin Initial(m)
    BY <2>1
  <2> QED
    BY <2>1, <2>2
<1> HIDE DEF Initial, Intervals
<1>4. PICK U \in Intervals : \A V \in Intervals : V \subseteq U => V = U
  <2>1. \A U \in Intervals : IsFiniteSet(U)
    BY <1>1, <1>2
  <2> QED
    BY <1>1, <2>1, MinimalSubset
<1>5. PICK n \in T : U = Initial(n)
  BY <1>1
<1>6. \A m \in T : ~ (m < n)
  BY <1>1, <1>3, <1>4, <1>5
<1> QED
  BY <1>6

\* The case that is reserved next.
LEMMA LeastCase ==
  ASSUME NEW S \in SUBSET Cases, S # {}
  PROVE  Min(S) \in S
<1>1. S \in SUBSET Nat
  BY EvaluationAssumption DEF Cases
<1>2. \E n \in S : \A m \in S : n <= m
  BY <1>1, LeastNatural
<1> QED BY <1>2 DEF Min

-----------------------------------------------------------------------------
(* The values of the metrics: thousandths of one, or nothing to judge.     *)

LEMMA QuotientIs ==
  ASSUME NEW a \in Nat, NEW b \in Nat \ {0}, a <= b
  PROVE  (1000 * a) \div b \in 0..1000
<1> DEFINE q == (1000 * a) \div b
<1>1. q \in Int /\ b * q <= 1000 * a /\ 1000 * a < b * (q + 1)
  OBVIOUS
<1>2. q >= 0
  <2>1. b * (q + 1) > 0
    BY <1>1
  <2> QED
    BY <1>1, <2>1
<1>3. q <= 1000
  <2>1. b * q <= b * 1000
    BY <1>1
  <2> QED
    BY <1>1, <2>1
<1> QED
  BY <1>1, <1>2, <1>3

LEMMA IntervalIs ==
  ASSUME NEW n \in Nat
  PROVE  IsFiniteSet(1..n) /\ Cardinality(1..n) = n
<1>1. 1 \in Int /\ n \in Int
  OBVIOUS
<1>2. IsFiniteSet(1..n) /\ Cardinality(1..n) = IF 1 > n THEN 0 ELSE n - 1 + 1
  BY <1>1, FS_Interval, Zenon
<1> QED
  BY <1>2

LEMMA ShareIs ==
  ASSUME NEW whole, IsFiniteSet(whole), whole # {}, NEW part \in SUBSET whole
  PROVE  Share(part, whole) \in 0..1000
<1>1. /\ Cardinality(whole) \in Nat \ {0} /\ Cardinality(part) \in Nat
      /\ Cardinality(part) <= Cardinality(whole)
  BY FS_CardinalityType, FS_EmptySet, FS_Subset
<1> DEFINE a == Cardinality(part)
           b == Cardinality(whole)
<1>2. Share(part, whole) = (1000 * a) \div b
  BY DEF Share
<1> HIDE DEF a, b
<1>3. a \in Nat /\ b \in Nat \ {0} /\ a <= b
  BY <1>1 DEF a, b
<1> QED
  BY <1>2, <1>3, QuotientIs

\* The first k ranks have the largest gain that k ranks can have.
LEMMA GainIs ==
  ASSUME NEW k \in 1..3, NEW S \in SUBSET (1..3), Cardinality(S) <= k
  PROVE  Gain(S) \in Nat /\ Gain(1..k) \in Nat \ {0} /\ Gain(S) <= Gain(1..k)
<1>1. \A T : Gain(T) = (IF 1 \in T THEN 1000 ELSE 0) + (IF 2 \in T THEN 631 ELSE 0)
                       + (IF 3 \in T THEN 500 ELSE 0)
  BY DEF Gain, Discount
<1>2. IsFiniteSet(S) /\ Cardinality(S) \in Nat
  <2>1. IsFiniteSet(1..3)
    BY IntervalIs
  <2> QED
    BY <2>1, FS_Subset, FS_CardinalityType
<1>3. \A i, j \in S : i # j => Cardinality(S) >= 2
  <2>1. SUFFICES ASSUME NEW i \in S, NEW j \in S, i # j PROVE Cardinality(S) >= 2
    OBVIOUS
  <2>2. IsFiniteSet({i}) /\ Cardinality({i}) = 1
    BY FS_Singleton
  <2>3. IsFiniteSet({i} \cup {j}) /\ Cardinality({i} \cup {j}) = 2
    BY <2>1, <2>2, FS_AddElement
  <2>4. {i} \cup {j} \in SUBSET S
    OBVIOUS
  <2>5. Cardinality({i} \cup {j}) <= Cardinality(S)
    BY <1>2, <2>4, FS_Subset
  <2> QED
    BY <1>2, <2>3, <2>5
<1>4. S = 1..3 => Cardinality(S) = 3
  BY IntervalIs
<1>5. CASE k = 1
  BY <1>1, <1>2, <1>3, <1>5
<1>6. CASE k = 2
  <2>1. ~ (1 \in S /\ 2 \in S /\ 3 \in S)
    <3>1. SUFFICES ASSUME 1 \in S, 2 \in S, 3 \in S PROVE S = 1..3
      BY <1>4, <1>6
    <3>2. \A x \in 1..3 : x = 1 \/ x = 2 \/ x = 3
      OBVIOUS
    <3> QED
      BY <3>1, <3>2
  <2> QED
    BY <1>1, <1>6, <2>1
<1>7. CASE k = 3
  BY <1>1, <1>7
<1> QED
  BY <1>5, <1>6, <1>7

LEMMA RankingIs ==
  ASSUME NEW s \in Rankings
  PROVE  /\ \E n \in 1..3 : DOMAIN s = 1..n /\ Len(s) = n
         /\ IsInjective(s) /\ IsFiniteSet(Range(s))
<1>1. PICK n \in 1..Limit : s \in [1..n -> Chunks]
  BY DEF Rankings
<1>2. n \in 1..3
  BY EvaluationAssumption
<1>3. DOMAIN s = 1..n /\ Len(s) = n
  BY <1>1, <1>2
<1>4. IsFiniteSet(Range(s))
  <2>1. Range(s) \in SUBSET Chunks
    BY <1>1 DEF Range
  <2> QED
    BY <2>1, FS_Subset, EvaluationAssumption
<1> QED
  BY <1>2, <1>3, <1>4 DEF Rankings

\* The hits of a ranking are at most as many as what was expected.
LEMMA NormalizedGainIs ==
  ASSUME NEW expected, IsFiniteSet(expected), expected # {}, NEW s \in Rankings
  PROVE  NormalizedGain(expected, s) \in 0..1000
<1> DEFINE hits == {i \in DOMAIN s : s[i] \in expected}
           k == Min({Cardinality(expected), Len(s)})
<1>1. PICK n \in 1..3 : DOMAIN s = 1..n /\ Len(s) = n
  BY RankingIs
<1>2. Cardinality(expected) \in Nat \ {0}
  BY FS_CardinalityType, FS_EmptySet
<1>3. k \in 1..3 /\ k \in {Cardinality(expected), n}
  <2> DEFINE c == Cardinality(expected)
  <2>1. c \in Nat \ {0}
    BY <1>2
  <2> HIDE DEF c
  <2>2. \E x \in {c, n} : \A y \in {c, n} : x <= y
    <3>1. CASE c <= n
      BY <2>1, <3>1
    <3>2. CASE n <= c
      BY <2>1, <3>2
    <3> QED
      BY <2>1, <3>1, <3>2
  <2>3. Min({c, n}) \in {c, n} /\ \A y \in {c, n} : Min({c, n}) <= y
    BY <2>2 DEF Min
  <2>4. k = Min({c, n})
    BY <1>1 DEF c
  <2> QED
    BY <2>1, <2>3, <2>4 DEF c
<1>4. hits \in SUBSET (1..3) /\ hits \in SUBSET (1..n)
  BY <1>1
<1>5. Cardinality(hits) <= n
  <2>1. IsFiniteSet(1..n) /\ Cardinality(1..n) = n
    BY IntervalIs
  <2> QED
    BY <1>4, <2>1, FS_Subset
<1>6. Cardinality(hits) <= Cardinality(expected)
  <2> DEFINE f == [i \in hits |-> s[i]]
  <2>1. f \in [hits -> expected]
    OBVIOUS
  <2>2. IsInjective(f)
    BY RankingIs DEF IsInjective
  <2>3. f \in Injection(hits, expected)
    BY <2>1, <2>2 DEF Injection
  <2> HIDE DEF f, hits
  <2> QED
    BY <2>3, FS_Injection
<1>7. Cardinality(hits) <= k
  BY <1>3, <1>5, <1>6
<1> DEFINE a == Gain(hits)
           b == Gain(1..k)
<1>8. NormalizedGain(expected, s) = (1000 * a) \div b
  BY DEF NormalizedGain
<1> HIDE DEF hits, k
<1>9. a \in Nat /\ b \in Nat \ {0} /\ a <= b
  BY <1>3, <1>4, <1>7, GainIs
<1> HIDE DEF a, b
<1> QED
  BY <1>8, <1>9, QuotientIs

LEMMA ReciprocalRankIs ==
  ASSUME NEW expected, NEW s \in Rankings
  PROVE  ReciprocalRank(expected, s) \in 0..1000
<1> DEFINE hits == {i \in DOMAIN s : s[i] \in expected}
<1>1. PICK n \in 1..3 : DOMAIN s = 1..n
  BY RankingIs
<1>2. hits \in SUBSET {1, 2, 3}
  BY <1>1
<1>3. ReciprocalRank(expected, s) = IF hits = {} THEN 0 ELSE 1000 \div Min(hits)
  BY DEF ReciprocalRank
<1> HIDE DEF hits
<1>4. ASSUME hits # {} PROVE Min(hits) \in {1, 2, 3}
  <2>1. \E x \in hits : \A y \in hits : x <= y
    <3>1. CASE 1 \in hits
      BY <1>2, <3>1
    <3>2. CASE 1 \notin hits /\ 2 \in hits
      BY <1>2, <3>2
    <3>3. CASE 1 \notin hits /\ 2 \notin hits
      <4>1. hits = {3}
        BY <1>2, <1>4, <3>3
      <4> QED
        BY <4>1
    <3> QED
      BY <3>1, <3>2, <3>3
  <2> QED
    BY <1>2, <2>1 DEF Min
<1> QED
  BY <1>3, <1>4

RequestTyped == request \in [project : BOOLEAN, cases : BOOLEAN, metric : Metrics]

\* What a case's thread returns is a value or nothing to judge, never what
\* stands for a case without scores.
Outcomes(c) == Values[request.metric][c]
Judgements == (0..1000) \cup {NotJudged}
LEMMA OutcomesAre ==
  ASSUME RequestTyped, NEW c \in Cases
  PROVE  Outcomes(c) \subseteq Judgements
<1> DEFINE metric == request.metric
           expected == Expected[c]
<1>1. metric \in Metrics /\ metric \in DOMAIN Threshold
  BY EvaluationAssumption DEF RequestTyped
<1>2. metric \in {"schema_valid", "citation_precision", "evidence_recall", "retrieval_mrr",
                  "retrieval_ndcg", "faithfulness"}
  BY <1>1 DEF Threshold
<1>3. Outcomes(c) = IF metric = "faithfulness" THEN Faithfulness
                    ELSE {DeterministicScore(metric, expected, r) : r \in Results}
  BY <1>1 DEF Outcomes, Values
<1>4. IsFiniteSet(expected)
  <2>1. expected \in SUBSET Chunks
    BY EvaluationAssumption
  <2> QED
    BY <2>1, FS_Subset, EvaluationAssumption
<1> HIDE DEF metric, expected
<1>5. ASSUME NEW r \in Results, metric # "faithfulness"
      PROVE  DeterministicScore(metric, expected, r) \in (0..1000) \cup {NotJudged}
  <2>1. PICK s \in Rankings : r \in [blank : BOOLEAN, retrieved : {s}, cited : (SUBSET Range(s)) \ {{}}]
    BY DEF Results
  <2>2. r.retrieved = s /\ r.cited \in SUBSET Range(s)
    BY <2>1
  <2>3. CASE metric = "schema_valid"
    BY <2>3 DEF DeterministicScore
  <2>4. CASE metric = "citation_precision"
    <3>1. IsFiniteSet(r.cited)
      BY <2>1, <2>2, RankingIs, FS_Subset
    <3>2. r.cited # {} => Share(r.cited \cap Range(r.retrieved), r.cited) \in 0..1000
      BY <3>1, ShareIs
    <3> QED
      BY <2>4, <3>2 DEF DeterministicScore
  <2>5. CASE metric = "evidence_recall"
    <3>1. expected # {} => Share(expected \cap Range(r.retrieved), expected) \in 0..1000
      BY <1>4, ShareIs
    <3> QED
      BY <2>5, <3>1 DEF DeterministicScore
  <2>6. CASE metric = "retrieval_mrr"
    <3>1. ReciprocalRank(expected, s) \in 0..1000
      BY ReciprocalRankIs
    <3> QED
      BY <2>2, <2>6, <3>1 DEF DeterministicScore
  <2>7. CASE metric = "retrieval_ndcg"
    <3>1. expected # {} => NormalizedGain(expected, s) \in 0..1000
      BY <1>4, NormalizedGainIs
    <3> QED
      BY <2>2, <2>7, <3>1 DEF DeterministicScore
  <2> QED
    BY <1>2, <1>5, <2>3, <2>4, <2>5, <2>6, <2>7
<1> QED
  BY <1>3, <1>5 DEF Faithfulness, Judgements

-----------------------------------------------------------------------------
(* Types, as far as the budget and the cases at hand need them.            *)

Statuses == {"none", "pending", "running", "succeeded", "failed"}
Runs == [status : Statuses, attempts : 0..MaxAttempts, owner : Workers \cup {NoWorker}, live : BOOLEAN, reserved : 0..Budget]

Attempts == 0..MaxAttempts
CaseNumbers == 0..NumCases
Verdicts == NotJudged..1000
Tasks == [pc : {"idle", "received", "invalid", "claimed", "reserving", "saving", "writing", "retrying"},
          tries : Retries, attempt : Attempts, todo : SUBSET Cases, submitted : SUBSET Cases,
          failed : SUBSET Cases, retryable : SUBSET Cases, saving : CaseNumbers, row : Verdicts]

RunTyped == run \in Runs /\ executed \in Nat
TaskTyped == task \in [Workers -> Tasks]

LEMMA RunStep == RunTyped /\ [Next]_vars => RunTyped'
<1> SUFFICES ASSUME RunTyped, [Next]_vars PROVE RunTyped'
  OBVIOUS
<1> USE DEF RunTyped, Runs, Statuses
<1>1. CASE CreateRun \/ LeaseExpires
  BY <1>1 DEF CreateRun, LeaseExpires
<1>2. ASSUME NEW w \in Workers, Claim(w) PROVE RunTyped'
  <2> DEFINE n == run.attempts + 1
  <2>1. /\ run' = [run EXCEPT !.status = "running", !.attempts = n, !.owner = w, !.live = TRUE]
        /\ UNCHANGED executed
    BY <1>2, Zenon DEF Claim
  <2>2. n \in 0..MaxAttempts
    BY <1>2, EvaluationAssumption DEF Claim, Claimable
  <2> HIDE DEF n
  <2>3. [run EXCEPT !.status = "running", !.attempts = n, !.owner = w, !.live = TRUE] \in Runs
    BY <2>2
  <2> QED BY <2>1, <2>3
<1>3. ASSUME NEW w \in Workers, RejectRun(w) \/ ReleaseRun(w) PROVE RunTyped'
  BY ZenonT(40), <1>3 DEF RejectRun, ReleaseRun, LeaveRun
<1>4. ASSUME NEW w \in Workers, ReserveCase(w) PROVE RunTyped'
  BY <1>4, EvaluationAssumption DEF ReserveCase
<1>5. ASSUME NEW w \in Workers, CompleteRun(w) PROVE RunTyped'
  BY <1>5 DEF CompleteRun
<1>6. CASE UNCHANGED <<run, executed>>
  BY <1>6
<1> QED
  BY <1>1, <1>2, <1>3, <1>4, <1>5, <1>6
  DEF Next, Work, vars, PublishEvent, Redeliver, Receive, NotClaimed, LoadCases, CaseScored, CaseFails,
      Collect, CheckLease, WriteRows, RowRefused, CompletionRefused, RetryTask, UnexpectedException,
      Crash, TaskRaises, MarkEvaluationRunFailed

LEMMA IdleTyped == Idle \in Tasks
<1>1. 0 \in Retries /\ 0 \in Attempts /\ 0 \in CaseNumbers /\ Failure \in Verdicts
  BY EvaluationAssumption DEF Retries, Attempts, CaseNumbers, Verdicts, Failure, NotJudged
<1> QED BY <1>1 DEF Idle, Tasks

\* How one step may change what a worker is doing.
Kept(w) == task'[w] = task[w]
Stops(w) == task'[w] = Idle
Receives(w) == \E r \in Retries : Receive(w, r) /\ task'[w] = [Idle EXCEPT !.pc = "received", !.tries = r]
Claims(w) ==
  /\ Claim(w)
  /\ \E pc \in {"claimed", "invalid"} :
       /\ pc = "claimed" <=> request.project
       /\ task'[w] = [task[w] EXCEPT !.pc = pc, !.attempt = run.attempts + 1]
Loads(w) == LoadCases(w) /\ task'[w] = [task[w] EXCEPT !.pc = "reserving", !.todo = Cases \ Scored]
Reserves(w) ==
  /\ ReserveCase(w) /\ task[w].pc = "reserving"
  /\ \E c \in task[w].todo :
       task'[w] = Submitted(task[w], c) \/ (UNCHANGED run /\ task'[w] = Refused(task[w], c))
Collects(w) ==
  /\ task[w].pc = "reserving" /\ task[w].todo = {}
  /\ \E c \in task[w].submitted :
       \/ \E row \in Judgements : task'[w] = Result(task[w], c, row, {}, {})
       \/ task'[w] = Result(task[w], c, Failure, {c}, {})
       \/ task'[w] = Result(task[w], c, Failure, {}, {c})
Checks(w) ==
  \E pc \in {"writing", "retrying"} :
    CheckLease(w) /\ task[w].pc = "saving" /\ (pc = "writing" => HoldsLease(w)) /\ task'[w] = [task[w] EXCEPT !.pc = pc]
Writes(w) == WriteRows(w) /\ task[w].pc = "writing" /\ task'[w] = [task[w] EXCEPT !.pc = "reserving"]
Retreats(w) == task[w].pc = "reserving" /\ task'[w] = [task[w] EXCEPT !.pc = "retrying"]

\* task stays a function of the workers.
Whole == task' = [w \in Workers |-> task'[w]]
Step(w) ==
  /\ Whole
  /\ \/ Kept(w) \/ Stops(w) \/ Receives(w) \/ Claims(w) \/ Loads(w) \/ Reserves(w)
     \/ Collects(w) \/ Checks(w) \/ Writes(w) \/ Retreats(w)

LEMMA TaskChanges ==
  ASSUME TaskTyped, RequestTyped,
         [Next]_vars, NEW w \in Workers
  PROVE  Step(w)
<1>t. task \in [Workers -> Tasks]
  BY DEF TaskTyped
<1>1. ASSUME NEW v \in Workers, NEW r, task' = [task EXCEPT ![v] = r]
      PROVE  Whole /\ IF v = w THEN task'[w] = r ELSE Kept(w)
  BY <1>t, <1>1 DEF Kept, Whole
<1>2. ASSUME NEW v \in Workers, task' = [task EXCEPT ![v] = Idle] PROVE Step(w)
  BY <1>1, <1>2 DEF Step, Stops
<1>3. ASSUME NEW v \in Workers, NEW r \in Retries, Receive(v, r) PROVE Step(w)
  <2>1. task' = [task EXCEPT ![v] = [Idle EXCEPT !.pc = "received", !.tries = r]]
    BY <1>3, Zenon DEF Receive
  <2> QED BY <1>1, <1>3, <2>1, Zenon DEF Step, Receives
<1>4. ASSUME NEW v \in Workers, Claim(v) PROVE Step(w)
  <2>1. PICK pc \in {"claimed", "invalid"} :
          /\ pc = "claimed" <=> request.project
          /\ task' = [task EXCEPT ![v].pc = pc, ![v].attempt = run.attempts + 1]
    <3> DEFINE p == IF request.project THEN "claimed" ELSE "invalid"
    <3>1. task' = [task EXCEPT ![v].pc = p, ![v].attempt = run.attempts + 1]
      BY <1>4, Zenon DEF Claim
    <3>2. p \in {"claimed", "invalid"} /\ (p = "claimed" <=> request.project)
      OBVIOUS
    <3> DEFINE Chosen(pc) == /\ pc = "claimed" <=> request.project
                             /\ task' = [task EXCEPT ![v].pc = pc, ![v].attempt = run.attempts + 1]
    <3>3. Chosen(p)
      BY <3>1, <3>2, Zenon
    <3> HIDE DEF p, Chosen
    <3>4. \E pc \in {"claimed", "invalid"} : Chosen(pc)
      BY <3>2, <3>3
    <3> QED BY <3>4, Zenon DEF Chosen
  <2>2. task' = [task EXCEPT ![v] = [task[v] EXCEPT !.pc = pc, !.attempt = run.attempts + 1]]
    BY <1>t, <2>1
  <2> QED BY <1>1, <1>4, <2>1, <2>2, Zenon DEF Step, Claims
<1>5. ASSUME NEW v \in Workers, LoadCases(v) PROVE Step(w)
  <2>1. task' = [task EXCEPT ![v].pc = "reserving", ![v].todo = Cases \ Scored]
    BY <1>5, Zenon DEF LoadCases
  <2>2. task' = [task EXCEPT ![v] = [task[v] EXCEPT !.pc = "reserving", !.todo = Cases \ Scored]]
    BY <1>t, <2>1
  <2> QED BY <1>1, <1>5, <2>2, Zenon DEF Step, Loads
<1>6. ASSUME NEW v \in Workers, ReserveCase(v) PROVE Step(w)
  <2> DEFINE c == Min(task[v].todo)
  <2>1. \/ task' = [task EXCEPT ![v] = Submitted(task[v], c)]
        \/ UNCHANGED run /\ task' = [task EXCEPT ![v] = Refused(task[v], c)]
    BY <1>6 DEF ReserveCase
  <2>2. c \in task[v].todo /\ task[v].pc = "reserving"
    <3>1. task[v].todo \in SUBSET Cases
      BY <1>t DEF Tasks
    <3>2. task[v].todo # {} /\ task[v].pc = "reserving"
      BY <1>6 DEF ReserveCase
    <3> QED BY <3>1, <3>2, LeastCase
  <2>3. v = w => task'[w] = Submitted(task[w], c) \/ (UNCHANGED run /\ task'[w] = Refused(task[w], c))
    BY <1>1, <2>1
  <2>4. Whole /\ (v # w => Kept(w))
    BY <1>1, <2>1
  <2> HIDE DEF c
  <2> QED BY <1>6, <2>2, <2>3, <2>4 DEF Step, Reserves
<1>7. ASSUME NEW v \in Workers, NEW c \in Cases, CaseScored(v, c) \/ CaseFails(v, c) PROVE Step(w)
  <2>1. PICK row \in Judgements \cup {Failure}, failed \in {{}, {c}}, retryable \in {{}, {c}} :
          /\ Collect(v, c, row, failed, retryable)
          /\ \/ row \in Judgements /\ failed = {} /\ retryable = {}
             \/ row = Failure /\ failed = {c} /\ retryable = {}
             \/ row = Failure /\ failed = {} /\ retryable = {c}
    <3>1. CASE CaseFails(v, c)
      BY <3>1 DEF CaseFails
    <3>2. CASE CaseScored(v, c)
      <4>1. PICK row \in Outcomes(c) : Collect(v, c, row, {}, {})
        BY <3>2, Zenon DEF CaseScored, Outcomes
      <4>2. row \in Judgements
        BY <4>1, OutcomesAre
      <4> QED BY <4>1, <4>2
    <3> QED BY <1>7, <3>1, <3>2
  <2>2. /\ task' = [task EXCEPT ![v] = Result(task[v], c, row, failed, retryable)]
        /\ task[v].todo = {} /\ task[v].pc = "reserving" /\ c \in task[v].submitted
    BY <2>1 DEF Collect
  <2>3. v = w => task'[w] = Result(task[w], c, row, failed, retryable)
    BY <1>1, <2>2
  <2>4. Whole /\ (v # w => Kept(w))
    BY <1>1, <2>2
  <2>5. v = w => Collects(w)
    BY <2>1, <2>2, <2>3 DEF Collects
  <2> QED BY <2>4, <2>5 DEF Step
<1>8. ASSUME NEW v \in Workers, CheckLease(v) PROVE Step(w)
  <2>1. PICK pc \in {"writing", "retrying"} :
          task[v].pc = "saving" /\ (pc = "writing" => HoldsLease(v)) /\ task' = [task EXCEPT ![v].pc = pc]
    BY <1>8 DEF CheckLease
  <2>2. task' = [task EXCEPT ![v] = [task[v] EXCEPT !.pc = pc]]
    BY <1>t, <2>1
  <2> QED BY <1>1, <1>8, <2>1, <2>2, Zenon DEF Step, Checks
<1>9. ASSUME NEW v \in Workers, ReleaseRun(v) \/ CompletionRefused(v) PROVE Step(w)
  <2>1. task[v].pc = "reserving" /\ task' = [task EXCEPT ![v].pc = "retrying"]
    BY <1>9, Zenon DEF ReleaseRun, CompletionRefused, Collected
  <2>2. task' = [task EXCEPT ![v] = [task[v] EXCEPT !.pc = "retrying"]]
    BY <1>t, <2>1
  <2> QED BY <1>1, <2>1, <2>2, Zenon DEF Step, Retreats
<1>12. ASSUME NEW v \in Workers, WriteRows(v) PROVE Step(w)
  <2>1. task[v].pc = "writing" /\ task' = [task EXCEPT ![v].pc = "reserving"]
    BY <1>12, Zenon DEF WriteRows
  <2>2. task' = [task EXCEPT ![v] = [task[v] EXCEPT !.pc = "reserving"]]
    BY <1>t, <2>1
  <2> QED BY <1>1, <1>12, <2>1, <2>2, Zenon DEF Step, Writes
<1>10. CASE UNCHANGED task
  BY <1>t, <1>10 DEF Step, Kept, Whole
<1>11. ASSUME NEW v \in Workers, Work(v) \/ UnexpectedException(v) \/ Crash(v) PROVE Step(w)
  BY <1>2, <1>3, <1>4, <1>5, <1>6, <1>7, <1>8, <1>9, <1>11, <1>12, SMTT(40)
  DEF Work, NotClaimed, RejectRun, RowRefused, CompleteRun, RetryTask, UnexpectedException, Crash, TaskRaises
<1> QED BY <1>10, <1>11 DEF Next, vars, broker, CreateRun, PublishEvent, LeaseExpires, Redeliver

LEMMA RequestStays == [Next]_vars => UNCHANGED request
  BY ZenonT(40) DEF Next, vars, Work, broker, CreateRun, PublishEvent, LeaseExpires, Redeliver, Receive, Claim, NotClaimed,
         RejectRun, LoadCases, ReserveCase, CaseScored, CaseFails, Collect, CheckLease, WriteRows, RowRefused,
         ReleaseRun, CompleteRun, CompletionRefused, RetryTask, UnexpectedException, Crash, TaskRaises

LEMMA TaskStep == RunTyped /\ TaskTyped /\ RequestTyped /\ [Next]_vars => TaskTyped'
<1> SUFFICES ASSUME RunTyped, TaskTyped, RequestTyped, [Next]_vars PROVE TaskTyped'
  OBVIOUS
<1>1. ASSUME NEW w \in Workers PROVE task'[w] \in Tasks
  <2>t. task[w] \in Tasks /\ Idle \in Tasks
    BY IdleTyped DEF TaskTyped
  <2>n. Failure \in Verdicts /\ Judgements \subseteq Verdicts /\ Cases \subseteq CaseNumbers
    BY EvaluationAssumption DEF Verdicts, Judgements, Failure, NotJudged, Cases, CaseNumbers
  <2>1. CASE Kept(w) \/ Stops(w)
    BY <2>1, <2>t DEF Kept, Stops
  <2>2. CASE Receives(w)
    BY <2>2, <2>t DEF Receives, Tasks
  <2>3. CASE Claims(w)
    <3>1. run.attempts + 1 \in Attempts
      BY <2>3, EvaluationAssumption DEF Attempts, Claims, Claim, Claimable, RunTyped, Runs
    <3> QED BY <2>3, <2>t, <3>1 DEF Claims, Tasks
  <2>4. CASE Loads(w)
    <3>1. \A S \in SUBSET Cases : [task[w] EXCEPT !.pc = "reserving", !.todo = S] \in Tasks
      BY <2>t DEF Tasks
    <3> QED BY <2>4, <3>1 DEF Loads
  <2>5. CASE Reserves(w)
    <3>1. \A c \in Cases : Submitted(task[w], c) \in Tasks /\ Refused(task[w], c) \in Tasks
      BY <2>t, <2>n DEF Submitted, Refused, Tasks
    <3>2. task[w].todo \subseteq Cases
      BY <2>t DEF Tasks
    <3> QED BY <2>5, <3>1, <3>2 DEF Reserves
  <2>6. CASE Collects(w)
    <3>1. \A c \in Cases, row \in Verdicts, failed, retryable \in SUBSET Cases :
            Result(task[w], c, row, failed, retryable) \in Tasks
      BY <2>t, <2>n DEF Result, Tasks
    <3>2. task[w].submitted \subseteq Cases
      BY <2>t DEF Tasks
    <3> QED BY <2>6, <2>n, <3>1, <3>2 DEF Collects
  <2>7. CASE Checks(w) \/ Writes(w) \/ Retreats(w)
    BY <2>7, <2>t DEF Checks, Writes, Retreats, Tasks
  <2> QED BY <2>1, <2>2, <2>3, <2>4, <2>5, <2>6, <2>7, TaskChanges DEF Step
<1>2. \A w \in Workers : task'[w] \in Tasks'
  BY <1>1 DEF Tasks
<1>3. task' = [w \in Workers |-> task'[w]]
  <2>1. CASE Workers = {}
    <3>1. UNCHANGED task
      BY <2>1 DEF Next, vars, broker, CreateRun, PublishEvent, LeaseExpires, Redeliver
    <3> QED BY <3>1 DEF TaskTyped
  <2>2. ASSUME NEW w \in Workers PROVE Whole
    BY TaskChanges, SMTT(40) DEF Step
  <2> QED BY <2>1, <2>2 DEF Whole
<1> QED BY <1>2, <1>3 DEF TaskTyped

-----------------------------------------------------------------------------
(* What is paid for.                                                       *)

\* No cases are at hand before they are loaded, and none is when a score is.
NothingToDo ==
  \A w \in Workers :
    /\ task[w].pc \in {"idle", "received", "invalid", "claimed"} => task[w].todo = {}
    /\ task[w].pc \in {"saving", "writing"} /\ task[w].row # Failure => task[w].todo = {}

PayInv == /\ RunTyped /\ TaskTyped /\ RequestTyped
          /\ executed <= run.reserved
          /\ NothingToDo /\ ScoredCasesAreNotPaidAgain

\* Every execution has its reservation, and reservations are never returned.
LEMMA ReservedStep == RunTyped /\ executed <= run.reserved /\ [Next]_vars => executed' <= run'.reserved
<1> SUFFICES ASSUME RunTyped, executed <= run.reserved, [Next]_vars PROVE executed' <= run'.reserved
  OBVIOUS
<1>t. run.reserved \in Nat /\ executed \in Nat
  BY EvaluationAssumption DEF RunTyped, Runs
<1>1. ASSUME NEW w \in Workers, ReserveCase(w) PROVE executed' <= run'.reserved
  <2> DEFINE n == run.reserved + 1
  <2>1. \/ UNCHANGED <<run, executed>>
        \/ executed' = executed + 1 /\ run' = [run EXCEPT !.reserved = n]
    BY <1>1 DEF ReserveCase
  <2>2. \A k : [run EXCEPT !.reserved = k].reserved = k
    BY DEF RunTyped, Runs
  <2>3. CASE UNCHANGED <<run, executed>>
    BY <2>3
  <2>4. CASE executed' = executed + 1 /\ run' = [run EXCEPT !.reserved = n]
    <3>1. run'.reserved = n
      BY <2>2, <2>4
    <3> QED BY <1>t, <2>4, <3>1
  <2> QED BY <2>1, <2>3, <2>4
<1>2. CASE executed' = executed /\ run'.reserved = run.reserved
  BY <1>2
<1>3. ASSUME NEW w \in Workers, Claim(w) PROVE executed' = executed /\ run'.reserved = run.reserved
  <2> DEFINE n == run.attempts + 1
  <2>1. /\ run' = [run EXCEPT !.status = "running", !.attempts = n, !.owner = w, !.live = TRUE]
        /\ UNCHANGED executed
    BY <1>3, Zenon DEF Claim
  <2> HIDE DEF n
  <2> QED BY <2>1 DEF RunTyped, Runs
<1>4. ASSUME NEW w \in Workers, RejectRun(w) \/ ReleaseRun(w) \/ CompleteRun(w)
      PROVE  executed' = executed /\ run'.reserved = run.reserved
  BY <1>4 DEF RejectRun, ReleaseRun, CompleteRun, LeaveRun, RunTyped, Runs
<1>5. CreateRun \/ LeaseExpires => executed' = executed /\ run'.reserved = run.reserved
  BY DEF CreateRun, LeaseExpires, RunTyped, Runs
<1> QED
  BY <1>1, <1>2, <1>3, <1>4, <1>5, ZenonT(60)
  DEF Next, Work, vars, PublishEvent, Redeliver, Receive, NotClaimed, LoadCases, CaseScored, CaseFails,
      Collect, CheckLease, WriteRows, RowRefused, CompletionRefused, RetryTask, UnexpectedException,
      Crash, TaskRaises, MarkEvaluationRunFailed

\* A lease is only ever won by a claim.
LEMMA LeaseSteps ==
  ASSUME RunTyped, [Next]_vars, NEW w \in Workers, HoldsLease(w)'
  PROVE  HoldsLease(w) \/ Claim(w)
<1>1. ASSUME NEW v \in Workers, ReserveCase(v) PROVE HoldsLease(w)
  BY <1>1 DEF ReserveCase, HoldsLease, RunTyped, Runs
<1>2. ASSUME NEW v \in Workers, Claim(v) PROVE v = w
  <2> DEFINE n == run.attempts + 1
  <2>1. run' = [run EXCEPT !.status = "running", !.attempts = n, !.owner = v, !.live = TRUE]
    BY <1>2, Zenon DEF Claim
  <2> HIDE DEF n
  <2> QED BY <2>1 DEF HoldsLease, RunTyped, Runs
<1>3. ASSUME NEW v \in Workers, RejectRun(v) \/ ReleaseRun(v) \/ CompleteRun(v) PROVE HoldsLease(w)
  BY <1>3 DEF RejectRun, ReleaseRun, CompleteRun, LeaveRun, HoldsLease, RunTyped, Runs
<1>4. CreateRun \/ LeaseExpires => HoldsLease(w)
  BY DEF CreateRun, LeaseExpires, HoldsLease, RunTyped, Runs
<1>5. UNCHANGED run => HoldsLease(w)
  BY DEF HoldsLease
<1> QED
  BY <1>1, <1>2, <1>3, <1>4, <1>5
  DEF Next, Work, vars, PublishEvent, Redeliver, Receive, NotClaimed, LoadCases, CaseScored, CaseFails,
      Collect, CheckLease, WriteRows, RowRefused, CompletionRefused, RetryTask, UnexpectedException,
      Crash, TaskRaises, MarkEvaluationRunFailed

LEMMA NothingStep == PayInv /\ [Next]_vars => NothingToDo'
<1> SUFFICES ASSUME PayInv, [Next]_vars, NEW w \in Workers
             PROVE  /\ task'[w].pc \in {"idle", "received", "invalid", "claimed"} => task'[w].todo = {}
                    /\ task'[w].pc \in {"saving", "writing"} /\ task'[w].row # Failure => task'[w].todo = {}
  BY DEF NothingToDo
<1>t. task[w] \in Tasks /\ Step(w)
  BY TaskChanges DEF PayInv, TaskTyped, RequestTyped
<1>n. /\ task[w].pc \in {"idle", "received", "invalid", "claimed"} => task[w].todo = {}
      /\ task[w].pc \in {"saving", "writing"} /\ task[w].row # Failure => task[w].todo = {}
  BY DEF PayInv, NothingToDo
<1> DEFINE Goal == /\ task'[w].pc \in {"idle", "received", "invalid", "claimed"} => task'[w].todo = {}
                   /\ task'[w].pc \in {"saving", "writing"} /\ task'[w].row # Failure => task'[w].todo = {}
<1>1. Kept(w) => Goal
  BY <1>n DEF Kept
<1>2. Stops(w) => Goal
  BY DEF Stops, Idle
<1>3. Receives(w) => Goal
  BY DEF Receives, Idle
<1>4. Claims(w) => Goal
  <2>1. Claim(w) => task[w].pc = "received"
    BY Zenon DEF Claim
  <2> QED BY <2>1, <1>n, <1>t DEF Claims, Tasks
<1>5. Loads(w) => Goal
  BY <1>t DEF Loads, Tasks
<1>6. Reserves(w) => Goal
  <2>1. \A c : /\ Submitted(task[w], c).pc = task[w].pc
               /\ Refused(task[w], c).pc = "saving" /\ Refused(task[w], c).row = Failure
    BY <1>t DEF Submitted, Refused, Tasks
  <2> QED BY <2>1 DEF Reserves
<1>7. Collects(w) => Goal
  <2>1. \A c, row, failed, retryable :
          Result(task[w], c, row, failed, retryable).todo = task[w].todo
    BY <1>t DEF Result, Tasks
  <2> QED BY <2>1 DEF Collects
<1>8. Checks(w) => Goal
  BY <1>n, <1>t DEF Checks, Tasks
<1>9. Writes(w) \/ Retreats(w) => Goal
  BY <1>t DEF Writes, Retreats, Tasks
<1> QED BY <1>t, <1>1, <1>2, <1>3, <1>4, <1>5, <1>6, <1>7, <1>8, <1>9 DEF Step

\* Cases are added to those at hand only when they are loaded.
LEMMA TodoSteps ==
  ASSUME TaskTyped, NEW w \in Workers, Step(w)
  PROVE  task'[w].todo \subseteq task[w].todo \/ (LoadCases(w) /\ task'[w].todo = Cases \ Scored)
<1>t. task[w] \in Tasks
  BY DEF TaskTyped
<1> DEFINE Goal == task'[w].todo \subseteq task[w].todo \/ (LoadCases(w) /\ task'[w].todo = Cases \ Scored)
<1>0. Kept(w) => task'[w].todo = task[w].todo
  BY DEF Kept
<1>1. Stops(w) \/ Receives(w) => task'[w].todo = {}
  <2>1. Idle.todo = {} /\ \A r : [Idle EXCEPT !.pc = "received", !.tries = r].todo = {}
    BY DEF Idle
  <2> QED BY <2>1 DEF Stops, Receives
<1>2. Claims(w) \/ Checks(w) \/ Writes(w) \/ Retreats(w) => Goal
  BY <1>t DEF Claims, Checks, Writes, Retreats, Tasks
<1>3. Loads(w) => Goal
  BY <1>t DEF Loads, Tasks
<1>4. Reserves(w) => Goal
  BY <1>t DEF Reserves, Submitted, Refused, Tasks
<1>5. Collects(w) => Goal
  BY <1>t, ZenonT(60) DEF Collects, Result, Tasks
<1> QED BY <1>0, <1>1, <1>2, <1>3, <1>4, <1>5 DEF Step

LEMMA NotAgainStep == PayInv /\ [Next]_vars => ScoredCasesAreNotPaidAgain'
<1> SUFFICES ASSUME PayInv, [Next]_vars, NEW w \in Workers, HoldsLease(w)'
             PROVE  task'[w].todo \cap Scored' \subseteq late'
  BY DEF ScoredCasesAreNotPaidAgain
<1>t. RunTyped /\ TaskTyped /\ Step(w)
  BY TaskChanges DEF PayInv, RequestTyped
<1>1. HoldsLease(w) => task[w].todo \cap Scored \subseteq late
  BY DEF PayInv, ScoredCasesAreNotPaidAgain
<1>2. ASSUME NEW v \in Workers, WriteRows(v) PROVE task'[w].todo \cap Scored' \subseteq late'
  <2> DEFINE c == task[v].saving
  <2>1. /\ UNCHANGED run /\ task' = [task EXCEPT ![v].pc = "reserving"] /\ task[v].pc = "writing"
        /\ late' = IF HoldsLease(v) THEN late ELSE late \cup {c}
        /\ (task[v].row = Failure /\ score' = score)
           \/ (task[v].row # Failure /\ score' = [score EXCEPT ![c] = task[v].row])
    BY <1>2, Zenon DEF WriteRows
  <2>2. HoldsLease(w) /\ task'[w].todo = task[w].todo
    BY <1>t, <2>1 DEF HoldsLease, TaskTyped, Tasks
  <2>3. CASE score' = score
    BY <1>1, <2>1, <2>2, <2>3 DEF Scored
  <2>4. CASE task[v].row # Failure /\ score' = [score EXCEPT ![c] = task[v].row]
    <3>1. Scored' \subseteq Scored \cup {c}
      BY <2>4 DEF Scored
    <3>2. CASE v = w
      BY <2>1, <2>2, <2>4, <3>2 DEF PayInv, NothingToDo
    <3>3. CASE v # w
      <4>1. ~HoldsLease(v)
        BY <2>2, <3>3 DEF HoldsLease
      <4> QED BY <1>1, <2>1, <2>2, <3>1, <4>1
    <3> QED BY <3>2, <3>3
  <2> QED BY <2>1, <2>3, <2>4
<1>3. CASE UNCHANGED <<score, late>>
  <2>1. Scored' = Scored
    BY <1>3 DEF Scored
  <2>2. CASE LoadCases(w) /\ task'[w].todo = Cases \ Scored
    BY <2>1, <2>2
  <2>3. CASE task'[w].todo \subseteq task[w].todo
    <3>1. Claim(w) => task[w].todo = {}
      <4>1. Claim(w) => task[w].pc = "received"
        BY Zenon DEF Claim
      <4> QED BY <4>1 DEF PayInv, NothingToDo
    <3> QED BY <1>1, <1>3, <1>t, <2>1, <2>3, <3>1, LeaseSteps
  <2> QED BY <1>t, <2>2, <2>3, TodoSteps
<1> QED
  BY ZenonT(40), <1>2, <1>3
  DEF Next, vars, rows, broker, Work, CreateRun, PublishEvent, LeaseExpires, Redeliver, Receive, Claim,
      NotClaimed, RejectRun, LoadCases, ReserveCase, CaseScored, CaseFails, Collect, CheckLease, RowRefused,
      ReleaseRun, CompleteRun, CompletionRefused, RetryTask, UnexpectedException, Crash, TaskRaises

\* The pipeline runs only for reservations within the limit, and the attempt
\* that holds the lease never pays for what an earlier one has scored.
THEOREM PaidOnce == Spec => []CasesArePaidOnce
<1>1. Init => PayInv
  <2> SUFFICES ASSUME Init PROVE PayInv
    OBVIOUS
  <2>1. RunTyped /\ executed <= run.reserved
    BY EvaluationAssumption DEF Init, RunTyped, Runs, Statuses
  <2>2. TaskTyped /\ RequestTyped
    BY IdleTyped DEF Init, TaskTyped, RequestTyped
  <2>3. NothingToDo /\ ScoredCasesAreNotPaidAgain
    BY DEF Init, NothingToDo, ScoredCasesAreNotPaidAgain, Idle
  <2> QED BY <2>1, <2>2, <2>3 DEF PayInv
<1>2. PayInv /\ [Next]_vars => PayInv'
  <2> SUFFICES ASSUME PayInv, [Next]_vars PROVE PayInv'
    OBVIOUS
  <2>1. RunTyped' /\ TaskTyped' /\ executed' <= run'.reserved
    BY RunStep, TaskStep, ReservedStep DEF PayInv, RequestTyped
  <2>2. UNCHANGED request
    BY RequestStays
  <2>3. RequestTyped'
    BY <2>2 DEF PayInv, RequestTyped
  <2> QED BY <2>1, <2>3, NothingStep, NotAgainStep DEF PayInv
<1>3. PayInv => CasesArePaidOnce
  BY EvaluationAssumption DEF PayInv, RunTyped, Runs, CasesArePaidOnce, ExecutionsAreReserved
<1> QED BY <1>1, <1>2, <1>3, PTL DEF Spec

-----------------------------------------------------------------------------
(* The cases an attempt has at hand.                                       *)

AtWork == {"reserving", "saving", "writing"}
Fresh == {"idle", "received", "invalid", "claimed"}

\* The case being saved, those that failed, and all the attempt answers for.
Saving(t) == IF t.pc \in {"saving", "writing"} THEN {t.saving} ELSE {}
Failing(t) == t.failed \cup t.retryable
AtHand(t) == t.todo \cup t.submitted \cup Failing(t) \cup Saving(t)

Distinct(t) ==
  /\ t.todo \cap t.submitted = {} /\ (t.todo \cup t.submitted) \cap Failing(t) = {}
  /\ t.failed \cap t.retryable = {}

\* A case is at hand in one way only, and is saved as a failure when it failed.
Shape(t) ==
  /\ t.pc \in Fresh => t.todo = {} /\ t.submitted = {} /\ Failing(t) = {}
  /\ Distinct(t)
  /\ t.pc \in {"saving", "writing"} =>
       /\ t.saving \in Cases /\ t.saving \notin t.todo \cup t.submitted
       /\ t.saving \in Failing(t) <=> t.row = Failure

LEMMA SubmittedIs ==
  ASSUME NEW t \in Tasks, NEW c \in t.todo, t.pc = "reserving", Shape(t)
  PROVE  /\ Shape(Submitted(t, c))
         /\ AtHand(Submitted(t, c)) = AtHand(t)
         /\ Failing(Submitted(t, c)) = Failing(t) /\ Saving(Submitted(t, c)) = Saving(t)
<1> DEFINE u == Submitted(t, c)
<1>1. /\ u.pc = "reserving" /\ u.todo = t.todo \ {c} /\ u.submitted = t.submitted \cup {c}
      /\ u.failed = t.failed /\ u.retryable = t.retryable
  BY DEF Submitted, Tasks
<1> HIDE DEF u
<1> QED BY <1>1 DEF Shape, Distinct, Fresh, AtHand, Failing, Saving, u

LEMMA RefusedIs ==
  ASSUME NEW t \in Tasks, NEW c \in t.todo, t.pc = "reserving", Shape(t)
  PROVE  /\ Shape(Refused(t, c))
         /\ AtHand(Refused(t, c)) = AtHand(t)
         /\ Failing(Refused(t, c)) \ Saving(Refused(t, c)) = Failing(t) \ Saving(t)
<1> DEFINE u == Refused(t, c)
<1>1. /\ u.pc = "saving" /\ u.todo = t.todo \ {c} /\ u.submitted = t.submitted
      /\ u.failed = t.failed \cup {c} /\ u.retryable = t.retryable /\ u.saving = c /\ u.row = Failure
  BY DEF Refused, Tasks
<1>2. c \in Cases
  BY DEF Tasks
<1> HIDE DEF u
<1> QED BY <1>1, <1>2 DEF Shape, Distinct, Fresh, AtHand, Failing, Saving, u

LEMMA ResultIs ==
  ASSUME NEW t \in Tasks, NEW c \in t.submitted, t.pc = "reserving", Shape(t),
         NEW row, NEW failed, NEW retryable,
         \/ row \in Judgements /\ failed = {} /\ retryable = {}
         \/ row = Failure /\ failed = {c} /\ retryable = {}
         \/ row = Failure /\ failed = {} /\ retryable = {c}
  PROVE  /\ Shape(Result(t, c, row, failed, retryable))
         /\ AtHand(Result(t, c, row, failed, retryable)) = AtHand(t)
         /\ Failing(Result(t, c, row, failed, retryable)) \ Saving(Result(t, c, row, failed, retryable))
              = Failing(t) \ Saving(t)
<1> DEFINE u == Result(t, c, row, failed, retryable)
<1>1. /\ u.pc = "saving" /\ u.todo = t.todo /\ u.submitted = t.submitted \ {c}
      /\ u.failed = t.failed \cup failed /\ u.retryable = t.retryable \cup retryable
      /\ u.saving = c /\ u.row = row
  BY DEF Result, Tasks
<1>2. c \in Cases
  BY DEF Tasks
<1>3. row \in Judgements => row # Failure
  BY DEF Judgements, Failure, NotJudged
<1> HIDE DEF u
<1> QED BY <1>1, <1>2, <1>3 DEF Shape, Distinct, Fresh, AtHand, Failing, Saving, u

LEMMA ShapeStep ==
  ASSUME TaskTyped, NEW w \in Workers, Step(w), Shape(task[w])
  PROVE  Shape(task'[w])
<1> DEFINE t == task[w]
           u == task'[w]
<1>t. t \in Tasks
  BY DEF TaskTyped
<1>1. Kept(w) \/ Stops(w) => Shape(u)
  BY DEF Kept, Stops, Idle, Shape, Distinct, Failing
<1>2. Receives(w) => Shape(u)
  <2>1. ASSUME NEW r PROVE Shape([Idle EXCEPT !.pc = "received", !.tries = r])
    BY DEF Idle, Shape, Distinct, Failing
  <2> QED BY <2>1 DEF Receives
<1>3. Claims(w) => Shape(u)
  <2>1. Claim(w) => t.pc = "received"
    BY Zenon DEF Claim
  <2>2. ASSUME NEW pc \in {"claimed", "invalid"}, NEW n, t.pc = "received"
        PROVE  Shape([t EXCEPT !.pc = pc, !.attempt = n])
    BY <1>t, <2>2 DEF Tasks, Shape, Distinct, Fresh, Failing
  <2>3. ASSUME Claims(w) PROVE Shape(u)
    <3> DEFINE n == run.attempts + 1
    <3>1. PICK pc \in {"claimed", "invalid"} : u = [t EXCEPT !.pc = pc, !.attempt = n]
      BY <2>3, Zenon DEF Claims
    <3>2. Shape([t EXCEPT !.pc = pc, !.attempt = n])
      BY <2>1, <2>2, <2>3, Zenon DEF Claims
    <3> QED BY <3>1, <3>2, Zenon
  <2> QED BY <2>3
<1>4. Loads(w) => Shape(u)
  <2>1. LoadCases(w) => t.pc = "claimed"
    BY DEF LoadCases
  <2>2. ASSUME NEW S, t.pc = "claimed" PROVE Shape([t EXCEPT !.pc = "reserving", !.todo = S])
    BY <1>t, <2>2 DEF Tasks, Shape, Distinct, Fresh, Failing
  <2> QED BY <2>1, <2>2 DEF Loads
<1>5. Reserves(w) => Shape(u)
  <2> HIDE DEF u
  <2> QED BY <1>t, SubmittedIs, RefusedIs DEF Reserves, u
<1>6. Collects(w) => Shape(u)
  BY <1>t, ResultIs DEF Collects
<1>7. Checks(w) \/ Writes(w) \/ Retreats(w) => Shape(u)
  <2>1. ASSUME NEW pc \in {"writing", "retrying"}, t.pc = "saving"
        PROVE  Shape([t EXCEPT !.pc = pc])
    BY <1>t, <2>1 DEF Tasks, Shape, Distinct, Fresh, Failing
  <2>2. ASSUME NEW pc \in {"reserving", "retrying"}
        PROVE  t.pc \in {"reserving", "writing"} => Shape([t EXCEPT !.pc = pc])
    BY <1>t, <2>2 DEF Tasks, Shape, Distinct, Fresh, Failing
  <2> QED BY <2>1, <2>2 DEF Checks, Writes, Retreats
<1> QED BY <1>1, <1>2, <1>3, <1>4, <1>5, <1>6, <1>7 DEF Step

\* An attempt answers for the cases it loaded, less those it saved with scores.
Writing(w) ==
  LET t == task[w] IN
  /\ Writes(w) /\ Failing(task'[w]) = Failing(t) /\ Saving(t) = {t.saving} /\ Saving(task'[w]) = {}
  /\ AtHand(t) = AtHand(task'[w]) \cup {t.saving}
  /\ t.row # Failure => t.saving \notin AtHand(task'[w])
  /\ t.row = Failure => t.saving \in Failing(t)
Going(w) ==
  /\ task[w].pc \in AtWork /\ AtHand(task'[w]) = AtHand(task[w])
  /\ Failing(task'[w]) \ Saving(task'[w]) = Failing(task[w]) \ Saving(task[w])

LEMMA WritingIs ==
  ASSUME TaskTyped, NEW w \in Workers, Shape(task[w]), WriteRows(w)
  PROVE  Writing(w) /\ task[w].pc = "writing"
<1> DEFINE t == task[w]
           u == task'[w]
<1>1. t \in Tasks /\ t.pc = "writing" /\ task' = [task EXCEPT ![w].pc = "reserving"]
  BY Zenon DEF TaskTyped, WriteRows
<1>2. u = [t EXCEPT !.pc = "reserving"]
  BY <1>1 DEF TaskTyped
<1>3. /\ u.pc = "reserving" /\ u.todo = t.todo /\ u.submitted = t.submitted
      /\ u.failed = t.failed /\ u.retryable = t.retryable
  BY <1>1, <1>2 DEF Tasks
<1>4. Writes(w)
  BY <1>1, <1>2 DEF Writes
<1> HIDE DEF u
<1> QED BY <1>1, <1>3, <1>4 DEF Writing, AtHand, Failing, Saving, Shape, u

LEMMA HandSteps ==
  ASSUME TaskTyped, NEW w \in Workers, Step(w), Shape(task[w]), task'[w].pc \in AtWork
  PROVE  \/ LoadCases(w) /\ AtHand(task'[w]) = Cases \ Scored /\ Failing(task'[w]) = {}
         \/ Writing(w) /\ task[w].pc = "writing"
         \/ Going(w)
<1> DEFINE t == task[w]
           u == task'[w]
<1>t. t \in Tasks
  BY DEF TaskTyped
<1>1. Kept(w) => Going(w)
  BY DEF Kept, Going
<1>2. ~Stops(w) /\ ~Receives(w)
  <2>1. Idle.pc = "idle" /\ \A r : [Idle EXCEPT !.pc = "received", !.tries = r].pc = "received"
    BY DEF Idle
  <2> QED BY <2>1 DEF Stops, Receives, AtWork
<1>3. ~Claims(w)
  <2>1. ASSUME NEW pc \in {"claimed", "invalid"}, NEW n PROVE [t EXCEPT !.pc = pc, !.attempt = n].pc = pc
    BY <1>t DEF Tasks
  <2> QED BY <2>1 DEF Claims, AtWork
<1>4. Loads(w) => LoadCases(w) /\ AtHand(u) = Cases \ Scored /\ Failing(u) = {}
  <2>1. ASSUME Loads(w) PROVE LoadCases(w) /\ AtHand(u) = Cases \ Scored /\ Failing(u) = {}
    <3> DEFINE S == Cases \ Scored
    <3>1. LoadCases(w) /\ t.pc = "claimed" /\ u = [t EXCEPT !.pc = "reserving", !.todo = S]
      BY <2>1 DEF Loads, LoadCases
    <3> HIDE DEF S
    <3>2. /\ u.pc = "reserving" /\ u.todo = S /\ u.submitted = t.submitted
          /\ u.failed = t.failed /\ u.retryable = t.retryable
      BY <1>t, <3>1 DEF Tasks
    <3>3. t.submitted = {} /\ Failing(t) = {}
      BY <3>1 DEF Shape, Fresh
    <3>4. AtHand(u) = S /\ Failing(u) = {}
      BY <3>2, <3>3 DEF AtHand, Failing, Saving
    <3> QED BY <3>1, <3>4 DEF S
  <2> QED BY <2>1
<1>5. Reserves(w) => Going(w)
  <2> HIDE DEF u
  <2>1. ASSUME NEW c \in t.todo, t.pc = "reserving", u = Submitted(t, c) PROVE Going(w)
    BY <1>t, <2>1, SubmittedIs DEF Going, AtWork, u
  <2>2. ASSUME NEW c \in t.todo, t.pc = "reserving", u = Refused(t, c) PROVE Going(w)
    BY <1>t, <2>2, RefusedIs DEF Going, AtWork, u
  <2> QED BY <2>1, <2>2 DEF Reserves, u
<1>6. Collects(w) => Going(w)
  <2>1. ASSUME NEW c \in t.submitted, t.pc = "reserving", NEW row, NEW failed, NEW retryable,
               \/ row \in Judgements /\ failed = {} /\ retryable = {}
               \/ row = Failure /\ failed = {c} /\ retryable = {}
               \/ row = Failure /\ failed = {} /\ retryable = {c},
               task'[w] = Result(t, c, row, failed, retryable)
        PROVE  Going(w)
    BY <1>t, <2>1, ResultIs DEF Going, AtWork
  <2> QED BY <2>1 DEF Collects
<1>7. Checks(w) => Going(w)
  <2>1. ASSUME NEW pc \in {"writing", "retrying"}, t.pc = "saving", u = [t EXCEPT !.pc = pc] PROVE Going(w)
    <3>1. /\ u.pc = pc /\ u.todo = t.todo /\ u.submitted = t.submitted /\ u.saving = t.saving
          /\ u.failed = t.failed /\ u.retryable = t.retryable
      BY <1>t, <2>1 DEF Tasks
    <3>2. pc = "writing"
      BY <3>1 DEF AtWork
    <3> HIDE DEF u
    <3> QED BY <2>1, <3>1, <3>2 DEF Going, AtWork, AtHand, Failing, Saving, u
  <2> QED BY <2>1 DEF Checks
<1>8. Writes(w) => Writing(w) /\ t.pc = "writing"
  BY WritingIs DEF Writes
<1>9. ~Retreats(w)
  BY <1>t, SMTT(40) DEF Retreats, Tasks, AtWork
<1> QED BY <1>1, <1>2, <1>3, <1>4, <1>5, <1>6, <1>7, <1>8, <1>9 DEF Step

-----------------------------------------------------------------------------
(* The rows of the run, and how a step changes them.                       *)

RowsTyped == score \in [Cases -> Unscored..1000] /\ failedRows \subseteq Cases /\ late \subseteq Cases

LEMMA RowSteps ==
  [Next]_vars => UNCHANGED <<score, failedRows, late>> \/ \E w \in Workers : WriteRows(w)
BY ZenonT(60) DEF Next, vars, rows, broker, Work, CreateRun, PublishEvent, LeaseExpires, Redeliver, Receive, Claim,
       NotClaimed, RejectRun, LoadCases, ReserveCase, CaseScored, CaseFails, Collect, CheckLease, RowRefused,
       ReleaseRun, CompleteRun, CompletionRefused, RetryTask, UnexpectedException, Crash, TaskRaises

\* What one save changes.
Fails(c) == score' = score /\ Scored' = Scored /\ failedRows' = failedRows \cup {c}
Scores(c) ==
  /\ \A d \in Cases \ {c} : score'[d] = score[d]
  /\ Scored' = Scored \cup {c} /\ failedRows' = failedRows \ {c}

LEMMA WriteIs ==
  ASSUME RowsTyped, TaskTyped, NEW w \in Workers, Shape(task[w]), WriteRows(w)
  PROVE  LET c == task[w].saving IN
         /\ task[w].pc = "writing" /\ c \in Cases /\ RowsTyped'
         /\ UNCHANGED <<run, request, summary, broker, executed, abandoned, faults>>
         /\ late' = IF HoldsLease(w) THEN late ELSE late \cup {c}
         /\ \/ task[w].row = Failure /\ Fails(c)
            \/ task[w].row # Failure /\ Scores(c)
<1> DEFINE c == task[w].saving
           r == task[w].row
<1>1. /\ task[w].pc = "writing" /\ r # NotJudged
      /\ UNCHANGED <<run, request, summary, broker, executed, abandoned, faults>>
      /\ late' = IF HoldsLease(w) THEN late ELSE late \cup {c}
      /\ \/ r = Failure /\ failedRows' = failedRows \cup {c} /\ score' = score
         \/ r # Failure /\ failedRows' = failedRows \ {c} /\ score' = [score EXCEPT ![c] = r]
  BY Zenon DEF WriteRows, Storable
<1>2. c \in Cases
  BY <1>1 DEF Shape
<1>3. r \in Verdicts
  BY DEF TaskTyped, Tasks
<1> HIDE DEF c, r
<1>4. CASE r = Failure /\ failedRows' = failedRows \cup {c} /\ score' = score
  <2>1. Fails(c) /\ RowsTyped'
    BY <1>1, <1>2, <1>4 DEF Fails, Scored, RowsTyped
  <2> QED BY <1>1, <1>2, <1>4, <2>1 DEF c, r
<1>5. CASE r # Failure /\ failedRows' = failedRows \ {c} /\ score' = [score EXCEPT ![c] = r]
  <2>1. r \in 0..1000
    BY <1>1, <1>3, <1>5 DEF Verdicts, Failure, NotJudged
  <2>2. r \in Unscored..1000 /\ r # Unscored
    BY <2>1 DEF Unscored
  <2>3. /\ score' \in [Cases -> Unscored..1000] /\ score'[c] = r
        /\ \A d \in Cases \ {c} : score'[d] = score[d]
    BY <1>2, <1>5, <2>2 DEF RowsTyped
  <2>4. Scored' = Scored \cup {c}
    BY <1>2, <2>2, <2>3 DEF Scored
  <2>5. Scores(c) /\ RowsTyped'
    BY <1>1, <1>2, <1>5, <2>3, <2>4 DEF Scores, RowsTyped
  <2> QED BY <1>1, <1>2, <1>5, <2>5 DEF c, r
<1> QED BY <1>1, <1>4, <1>5

\* Scores are never taken away.
LEMMA RowsStep ==
  ASSUME RowsTyped, TaskTyped, \A w \in Workers : Shape(task[w]), [Next]_vars
  PROVE  RowsTyped' /\ Scored \subseteq Scored'
<1>1. CASE UNCHANGED <<score, failedRows, late>>
  BY <1>1 DEF RowsTyped, Scored
<1>2. ASSUME NEW w \in Workers, WriteRows(w) PROVE RowsTyped' /\ Scored \subseteq Scored'
  <2>1. /\ RowsTyped'
        /\ Fails(task[w].saving) \/ Scores(task[w].saving)
    BY <1>2, WriteIs
  <2> QED BY <2>1 DEF Fails, Scores
<1> QED BY <1>1, <1>2, RowSteps

\* A case without scores is one the attempt still answers for, and the
\* attempt that holds the lease answers for no case that has scores.
Covering(w) == task[w].pc \in AtWork => Cases \ Scored \subseteq AtHand(task[w])
Holding(w) ==
  HoldsLease(w) /\ task[w].pc \in AtWork =>
    /\ AtHand(task[w]) \cap Scored \subseteq late
    /\ late = {} => Failing(task[w]) \ Saving(task[w]) \subseteq failedRows
AttemptsInv == \A w \in Workers : Shape(task[w]) /\ Covering(w) /\ Holding(w)

LEMMA CoveringStep ==
  ASSUME RunTyped, TaskTyped, RequestTyped, RowsTyped, AttemptsInv, [Next]_vars, NEW w \in Workers
  PROVE  Covering(w)'
<1>1. SUFFICES ASSUME task'[w].pc \in AtWork PROVE Cases \ Scored' \subseteq AtHand(task'[w])
  BY DEF Covering, AtHand, Failing, Saving
<1>2. /\ Scored \subseteq Scored' /\ Step(w) /\ Shape(task[w])
      /\ task[w].pc \in AtWork => Cases \ Scored \subseteq AtHand(task[w])
  BY RowsStep, TaskChanges DEF AttemptsInv, Covering
<1>3. CASE LoadCases(w) /\ AtHand(task'[w]) = Cases \ Scored
  BY <1>2, <1>3
<1>4. CASE Writing(w) /\ task[w].pc = "writing"
  <2>1. WriteRows(w) /\ AtHand(task[w]) = AtHand(task'[w]) \cup {task[w].saving}
    BY <1>4 DEF Writing, Writes
  <2>2. task[w].row = Failure => task[w].saving \in AtHand(task'[w])
    BY <1>4 DEF Writing, AtHand
  <2>3. task[w].row # Failure => task[w].saving \in Scored'
    BY <1>2, <2>1, WriteIs DEF Scores
  <2>4. Cases \ Scored \subseteq AtHand(task[w])
    BY <1>2, <1>4 DEF AtWork
  <2> QED BY <1>2, <2>1, <2>2, <2>3, <2>4
<1>5. CASE Going(w)
  BY <1>2, <1>5 DEF Going
<1> QED BY <1>1, <1>2, <1>3, <1>4, <1>5, HandSteps

LEMMA HoldingStep ==
  ASSUME RunTyped, TaskTyped, RequestTyped, RowsTyped, AttemptsInv, [Next]_vars, NEW w \in Workers
  PROVE  Holding(w)'
<1> DEFINE Goal == /\ AtHand(task'[w]) \cap Scored' \subseteq late'
                   /\ late' = {} => Failing(task'[w]) \ Saving(task'[w]) \subseteq failedRows'
<1>1. SUFFICES ASSUME HoldsLease(w)', task'[w].pc \in AtWork PROVE Goal
  BY DEF Holding, AtHand, Failing, Saving
<1>2. Step(w) /\ Shape(task[w]) /\ Holding(w) /\ (HoldsLease(w) \/ Claim(w))
  BY <1>1, TaskChanges, LeaseSteps DEF AttemptsInv
<1>3. CASE LoadCases(w) /\ AtHand(task'[w]) = Cases \ Scored /\ Failing(task'[w]) = {}
  <2>1. UNCHANGED score
    BY <1>3 DEF LoadCases, rows
  <2>2. Scored' = Scored
    BY <2>1 DEF Scored
  <2> QED BY <1>3, <2>2
<1>c. Claim(w) => task[w].pc = "received"
  BY Zenon DEF Claim
<1>4. CASE Writing(w) /\ task[w].pc = "writing"
  <2> DEFINE c == task[w].saving
  <2>1. /\ WriteRows(w) /\ AtHand(task[w]) = AtHand(task'[w]) \cup {c}
        /\ Failing(task'[w]) = Failing(task[w]) /\ Saving(task[w]) = {c} /\ Saving(task'[w]) = {}
        /\ task[w].row # Failure => c \notin AtHand(task'[w])
    BY <1>4 DEF Writing, Writes
  <2>2. HoldsLease(w) /\ task[w].pc \in AtWork
    BY <1>2, <1>4, <1>c DEF AtWork
  <2>3. /\ AtHand(task[w]) \cap Scored \subseteq late
        /\ late = {} => Failing(task[w]) \ {c} \subseteq failedRows
    BY <1>2, <2>1, <2>2 DEF Holding
  <2>4. late' = late /\ ((task[w].row = Failure /\ Fails(c)) \/ (task[w].row # Failure /\ Scores(c)))
    BY <1>2, <2>1, <2>2, WriteIs
  <2>5. Failing(task'[w]) \subseteq AtHand(task'[w])
    BY DEF AtHand
  <2> HIDE DEF c
  <2> QED BY <2>1, <2>3, <2>4, <2>5 DEF Fails, Scores
<1>5. CASE Going(w)
  <2>1. HoldsLease(w) /\ task[w].pc \in AtWork
    BY <1>2, <1>5, <1>c DEF AtWork, Going
  <2>2. /\ AtHand(task'[w]) \cap Scored \subseteq late
        /\ late = {} => Failing(task'[w]) \ Saving(task'[w]) \subseteq failedRows
    BY <1>2, <1>5, <2>1 DEF Holding, Going
  <2>3. CASE UNCHANGED <<score, failedRows, late>>
    <3>1. Scored' = Scored
      BY <2>3 DEF Scored
    <3> QED BY <2>2, <2>3, <3>1
  <2>4. ASSUME NEW v \in Workers, WriteRows(v), v # w PROVE Goal
    <3>1. ~HoldsLease(v)
      BY <2>1, <2>4 DEF HoldsLease
    <3>2. late' = late \cup {task[v].saving} /\ (Fails(task[v].saving) \/ Scores(task[v].saving))
      BY <2>4, <3>1, WriteIs DEF AttemptsInv
    <3> QED BY <2>2, <3>2 DEF Fails, Scores
  <2>5. WriteRows(w) => Writing(w) /\ task[w].pc = "writing"
    BY <1>2, WritingIs
  <2> QED BY <2>3, <2>4, <2>5, <1>4, RowSteps
<1> QED BY <1>1, <1>2, <1>3, <1>4, <1>5, HandSteps
-----------------------------------------------------------------------------
(* The run, and how a step changes it.                                     *)

SameRun ==
  run'.status = run.status /\ run'.attempts = run.attempts /\ run'.owner = run.owner /\ run'.live = run.live
Starts == CreateRun /\ run.status = "none" /\ run'.status = "pending" /\ run'.attempts = run.attempts
Won(w) ==
  /\ Claim(w) /\ Claimable
  /\ run'.status = "running" /\ run'.attempts = run.attempts + 1 /\ run'.owner = w /\ run'.live = TRUE
Expires ==
  /\ LeaseExpires /\ run.status = "running" /\ run'.status = "running"
  /\ run'.attempts = run.attempts /\ run'.owner = run.owner /\ run'.live = FALSE
Left(w, status) ==
  /\ run.status = "running" /\ run.owner = w
  /\ run'.status = status /\ run'.attempts = run.attempts /\ run'.live = FALSE

LEMMA ClaimIs ==
  ASSUME RunTyped, NEW w \in Workers, Claim(w)
  PROVE  Won(w)
<1> DEFINE n == run.attempts + 1
<1>1. Claimable /\ run' = [run EXCEPT !.status = "running", !.attempts = n, !.owner = w, !.live = TRUE]
  BY Zenon DEF Claim
<1> HIDE DEF n
<1>2. run'.status = "running" /\ run'.attempts = n /\ run'.owner = w /\ run'.live = TRUE
  BY <1>1 DEF RunTyped, Runs
<1> QED BY <1>1, <1>2 DEF Won, n

LEMMA RunSteps ==
  ASSUME RunTyped, [Next]_vars
  PROVE  \/ SameRun \/ Starts \/ Expires
         \/ \E w \in Workers : \/ Won(w)
                               \/ RejectRun(w) /\ Left(w, "failed")
                               \/ ReleaseRun(w) /\ Left(w, "pending")
                               \/ CompleteRun(w) /\ \E status \in Ended : Left(w, status)
<1> DEFINE Goal == \/ SameRun \/ Starts \/ Expires
                   \/ \E w \in Workers : \/ Won(w)
                                         \/ RejectRun(w) /\ Left(w, "failed")
                                         \/ ReleaseRun(w) /\ Left(w, "pending")
                                         \/ CompleteRun(w) /\ \E status \in Ended : Left(w, status)
<1>1. CreateRun => Starts
  BY DEF CreateRun, Starts, RunTyped, Runs
<1>2. LeaseExpires => Expires
  BY DEF LeaseExpires, Expires, RunTyped, Runs
<1>3. ASSUME NEW w \in Workers, Claim(w) PROVE Won(w)
  BY <1>3, ClaimIs
<1>4. ASSUME NEW w \in Workers, NEW status, LeaveRun(w, status) PROVE SameRun \/ Left(w, status)
  BY <1>4 DEF LeaveRun, SameRun, Left, RunTyped, Runs
<1>5. ASSUME NEW w \in Workers, RejectRun(w) PROVE SameRun \/ (RejectRun(w) /\ Left(w, "failed"))
  BY <1>4, <1>5 DEF RejectRun
<1>6. ASSUME NEW w \in Workers, ReleaseRun(w) PROVE SameRun \/ (ReleaseRun(w) /\ Left(w, "pending"))
  BY <1>4, <1>6 DEF ReleaseRun
<1>7. ASSUME NEW w \in Workers, CompleteRun(w) PROVE CompleteRun(w) /\ \E status \in Ended : Left(w, status)
  <2>1. PICK status \in Ended : run' = [run EXCEPT !.status = status, !.owner = NoWorker, !.live = FALSE]
    BY <1>7 DEF CompleteRun, Ended
  <2>2. run.status = "running" /\ run.owner = w
    BY <1>7 DEF CompleteRun, HoldsLease
  <2> QED BY <1>7, <2>1, <2>2 DEF Left, RunTyped, Runs
<1>8. ASSUME NEW w \in Workers, ReserveCase(w) PROVE SameRun
  BY <1>8 DEF ReserveCase, SameRun, RunTyped, Runs
<1>9. UNCHANGED run => SameRun
  BY DEF SameRun
<1> QED
  BY <1>1, <1>2, <1>3, <1>5, <1>6, <1>7, <1>8, <1>9, ZenonT(60)
  DEF Next, Work, vars, PublishEvent, Redeliver, Receive, NotClaimed, LoadCases, CaseScored, CaseFails,
      Collect, CheckLease, WriteRows, RowRefused, CompletionRefused, RetryTask, UnexpectedException,
      Crash, TaskRaises, MarkEvaluationRunFailed

LEMMA SummarySteps == [Next]_vars => UNCHANGED summary \/ \E w \in Workers : CompleteRun(w)
BY ZenonT(40) DEF Next, vars, rows, broker, Work, CreateRun, PublishEvent, LeaseExpires, Redeliver, Receive, Claim,
       NotClaimed, RejectRun, LoadCases, ReserveCase, CaseScored, CaseFails, Collect, CheckLease, WriteRows,
       RowRefused, ReleaseRun, CompletionRefused, RetryTask, UnexpectedException, Crash, TaskRaises

-----------------------------------------------------------------------------
(* What a completed run sums up.                                           *)

LEMMA CasesAre ==
  /\ IsFiniteSet(Cases) /\ Cardinality(Cases) = NumCases
  /\ \A S \in SUBSET Cases : IsFiniteSet(S) /\ Cardinality(S) \in 0..NumCases
<1>1. NumCases \in Nat
  BY EvaluationAssumption
<1>2. IsFiniteSet(Cases) /\ Cardinality(Cases) = NumCases
  BY <1>1, IntervalIs DEF Cases
<1>3. ASSUME NEW S \in SUBSET Cases PROVE IsFiniteSet(S) /\ Cardinality(S) \in 0..NumCases
  <2>1. IsFiniteSet(S) /\ Cardinality(S) <= NumCases
    BY <1>2, FS_Subset
  <2>2. Cardinality(S) \in Nat
    BY <2>1, FS_CardinalityType
  <2> QED BY <1>1, <2>1, <2>2
<1> QED BY <1>2, <1>3

LEMMA SummaryIs ==
  ASSUME NEW n \in 0..NumCases
  PROVE  /\ Summary(n).completed = NumCases - n /\ Summary(n).failed = n
         /\ Summary(n).quality => n = 0 /\ Cardinality(Passing) = Cardinality(Scored)
         /\ Summary(n) \in [completed : Int, failed : 0..NumCases, complete : BOOLEAN,
                            quality : BOOLEAN, regressed : BOOLEAN]
<1> DEFINE judged == Cardinality(Scored)
           passed == Cardinality(Passing)
           complete == NumCases - n <= judged
           quality == complete /\ passed = judged /\ n = 0
           regressed == /\ Baseline # NoBaseline /\ judged > 0
                        /\ \/ Total - Baseline.mean * judged < -20 * judged
                           \/ 1000 * passed - Baseline.rate * judged < -50 * judged
<1>1. Summary(n) = [completed |-> NumCases - n, failed |-> n, complete |-> complete,
                    quality |-> quality, regressed |-> regressed]
  BY Zenon DEF Summary
<1>2. complete \in BOOLEAN /\ quality \in BOOLEAN /\ regressed \in BOOLEAN
  OBVIOUS
<1>3. NumCases - n \in Int
  BY EvaluationAssumption
<1>4. quality => n = 0 /\ passed = judged
  OBVIOUS
<1> HIDE DEF complete, quality, regressed
<1> QED BY <1>1, <1>2, <1>3, <1>4

LEMMA CompletionIs ==
  ASSUME RunTyped, TaskTyped, RowsTyped, AttemptsInv, FailureExcludesScores, NEW w \in Workers, CompleteRun(w)
  PROVE  LET F == Failing(task[w]) IN
         /\ HoldsLease(w) /\ UNCHANGED <<score, failedRows, late, request>>
         /\ Cardinality(F) \in 0..NumCases /\ summary' = Summary(Cardinality(F))
         /\ run'.status = IF Cardinality(F) > 0 THEN "failed" ELSE "succeeded"
         /\ Cardinality(F) = 0 => Scored = Cases
         /\ late = {} => NumCases - Cardinality(F) = Cardinality(Scored) /\ failedRows = F
<1> DEFINE t == task[w]
           F == Failing(t)
           n == Cardinality(t.failed) + Cardinality(t.retryable)
<1>1. /\ HoldsLease(w) /\ UNCHANGED <<score, failedRows, late, request>> /\ Collected(w)
      /\ summary' = Summary(n)
      /\ run' = [run EXCEPT !.status = IF n > 0 THEN "failed" ELSE "succeeded",
                            !.owner = NoWorker, !.live = FALSE]
  BY Zenon DEF CompleteRun, rows
<1>t. t \in Tasks /\ Shape(t) /\ Covering(w) /\ Holding(w)
  BY DEF TaskTyped, AttemptsInv
<1>2. F \in SUBSET Cases /\ t.failed \in SUBSET Cases /\ t.retryable \in SUBSET Cases
  BY <1>t DEF Tasks, Failing
<1>3. n = Cardinality(F) /\ n \in 0..NumCases
  <2>1. IsFiniteSet(t.failed) /\ IsFiniteSet(t.retryable) /\ Cardinality(F) \in 0..NumCases
    BY <1>2, CasesAre
  <2>2. t.failed \cap t.retryable = {}
    BY <1>t DEF Shape, Distinct
  <2>3. Cardinality(F) = Cardinality(t.failed) + Cardinality(t.retryable) - Cardinality(t.failed \cap t.retryable)
    BY <2>1, FS_Union DEF Failing
  <2>4. Cardinality(t.failed) \in Nat /\ Cardinality(t.retryable) \in Nat /\ Cardinality({}) = 0
    BY <2>1, FS_CardinalityType, FS_EmptySet
  <2>5. Cardinality(t.failed \cap t.retryable) = 0
    BY <2>2, <2>4, Zenon
  <2>6. Cardinality(F) = Cardinality(t.failed) + Cardinality(t.retryable)
    <3> HIDE DEF t, F
    <3> QED BY <2>3, <2>4, <2>5
  <2> QED BY <2>1, <2>6, Zenon
<1>4. AtHand(t) = F /\ Saving(t) = {} /\ t.pc \in AtWork
  BY <1>1 DEF Collected, AtHand, Saving, AtWork
<1>5. Cases \ Scored \subseteq F /\ Scored \subseteq Cases
  BY <1>t, <1>4 DEF Covering, Scored
<1>6. run'.status = IF n > 0 THEN "failed" ELSE "succeeded"
  BY <1>1 DEF RunTyped, Runs
<1>7. n = 0 => Scored = Cases
  <2>1. n = 0 => F = {}
    BY <1>2, <1>3, CasesAre, FS_EmptySet
  <2> QED BY <1>5, <2>1
<1>8. ASSUME late = {} PROVE NumCases - n = Cardinality(Scored) /\ failedRows = F
  <2>1. F \cap Scored = {} /\ F \subseteq failedRows
    BY <1>1, <1>t, <1>4, <1>8 DEF Holding
  <2>2. failedRows \cap Scored = {} /\ failedRows \subseteq Cases
    BY <1>8 DEF FailureExcludesScores, RowsTyped
  <2>3. Scored = Cases \ F /\ Cases \cap F = F
    BY <1>2, <1>5, <2>1
  <2>4. Cardinality(Cases \ F) = Cardinality(Cases) - Cardinality(Cases \cap F)
    BY CasesAre, FS_Difference
  <2>5. Cardinality(Scored) = NumCases - n
    BY <1>3, <2>3, <2>4, CasesAre
  <2>6. failedRows = F
    BY <1>5, <2>1, <2>2
  <2> QED BY <2>5, <2>6
<1> HIDE DEF n, t
<1> QED BY <1>1, <1>3, <1>6, <1>7, <1>8 DEF t

-----------------------------------------------------------------------------
(* Status, scores, failures and summary agree.                             *)

EndsInv ==
  /\ run.status \notin Ended => summary = NoSummary
  /\ SucceededMeansScored /\ SummaryCountsRows /\ FailureExcludesScores

LEMMA ExclusionStep ==
  ASSUME RowsTyped, TaskTyped, AttemptsInv, FailureExcludesScores, [Next]_vars
  PROVE  FailureExcludesScores' /\ late \subseteq late'
<1>1. CASE UNCHANGED <<score, failedRows, late>>
  BY <1>1 DEF FailureExcludesScores, Scored
<1>2. ASSUME NEW w \in Workers, WriteRows(w) PROVE failedRows' \cap Scored' \subseteq late' /\ late \subseteq late'
  <2> DEFINE c == task[w].saving
  <2>1. /\ task[w].pc = "writing"
        /\ late' = IF HoldsLease(w) THEN late ELSE late \cup {c}
        /\ (task[w].row = Failure /\ Fails(c)) \/ (task[w].row # Failure /\ Scores(c))
    BY <1>2, WriteIs DEF AttemptsInv
  <2>2. HoldsLease(w) /\ c \in Scored => c \in late
    <3>1. c \in AtHand(task[w])
      BY <2>1 DEF AtHand, Saving
    <3> QED BY <2>1, <3>1 DEF AttemptsInv, Holding, AtWork
  <2>3. failedRows \cap Scored \subseteq late
    BY DEF FailureExcludesScores
  <2> HIDE DEF c
  <2> QED BY <2>1, <2>2, <2>3 DEF Fails, Scores
<1> QED BY <1>1, <1>2, RowSteps DEF FailureExcludesScores

\* A run that has ended stays as it is, and saves after its end are late.
LEMMA EndedStays ==
  ASSUME RunTyped, TaskTyped, RowsTyped, AttemptsInv, [Next]_vars, run.status \in Ended
  PROVE  /\ run'.status = run.status /\ UNCHANGED summary
         /\ \/ UNCHANGED <<score, failedRows, late>>
            \/ \E c \in Cases : late' = late \cup {c} /\ (Fails(c) \/ Scores(c))
<1>1. UNCHANGED summary /\ run'.status = run.status
  <2>1. \A w \in Workers : ~CompleteRun(w)
    BY DEF CompleteRun, HoldsLease, Ended
  <2>2. SameRun
    BY RunSteps DEF Ended, Starts, Expires, Won, Claimable, Left
  <2> QED BY <2>1, <2>2, SummarySteps DEF SameRun
<1>2. ASSUME NEW w \in Workers, WriteRows(w)
      PROVE  \E c \in Cases : late' = late \cup {c} /\ (Fails(c) \/ Scores(c))
  <2>1. ~HoldsLease(w)
    BY DEF HoldsLease, Ended
  <2> QED BY <1>2, <2>1, WriteIs DEF AttemptsInv
<1> QED BY <1>1, <1>2, RowSteps

LEMMA EndsStep ==
  ASSUME RunTyped, TaskTyped, RequestTyped, RowsTyped, AttemptsInv, EndsInv, [Next]_vars
  PROVE  EndsInv'
<1>1. FailureExcludesScores' /\ late \subseteq late' /\ Scored \subseteq Scored' /\ Scored' \subseteq Cases
  BY ExclusionStep, RowsStep DEF EndsInv, AttemptsInv, Scored
<1>2. ASSUME NEW w \in Workers, CompleteRun(w) PROVE EndsInv'
  <2> DEFINE n == Cardinality(Failing(task[w]))
  <2>1. /\ UNCHANGED <<score, failedRows, late, request>>
        /\ n \in 0..NumCases /\ summary' = Summary(n)
        /\ run'.status = IF n > 0 THEN "failed" ELSE "succeeded"
        /\ n = 0 => Scored = Cases
        /\ late = {} => NumCases - n = Cardinality(Scored) /\ Cardinality(failedRows) = n
    BY <1>2, CompletionIs DEF EndsInv
  <2>2. Scored' = Scored /\ Passing' = Passing
    BY <2>1 DEF Scored, Passing
  <2> HIDE DEF n
  <2>3. /\ summary'.completed = NumCases - n /\ summary'.failed = n
        /\ summary'.quality => n = 0 /\ Cardinality(Passing) = Cardinality(Scored)
    BY <2>1, SummaryIs
  <2>4. run'.status \in Ended /\ (run'.status = "succeeded" => n = 0) /\ (n = 0 => run'.status = "succeeded")
    BY <2>1 DEF Ended
  <2>5. ASSUME summary'.quality PROVE run'.status = "succeeded" /\ Cases \subseteq Passing
    <3>1. n = 0 /\ Scored = Cases /\ Cardinality(Passing) = Cardinality(Scored)
      BY <2>1, <2>3, <2>5
    <3>2. Passing = Scored
      BY <3>1, CasesAre, FS_Subset DEF Passing
    <3> QED BY <2>4, <3>1, <3>2
  <2>6. SucceededMeansScored'
    BY <2>1, <2>2, <2>4, <2>5 DEF SucceededMeansScored
  <2>7. SummaryCountsRows'
    BY <2>1, <2>2, <2>3 DEF SummaryCountsRows
  <2> QED BY <1>1, <2>4, <2>6, <2>7 DEF EndsInv
<1>3. ASSUME UNCHANGED summary, run.status \notin Ended, run'.status \notin Ended PROVE EndsInv'
  <2>1. summary' = NoSummary
    BY <1>3 DEF EndsInv
  <2>2. ~summary'.quality
    BY <2>1 DEF NoSummary
  <2> QED BY <1>1, <1>3, <2>1, <2>2 DEF EndsInv, SucceededMeansScored, SummaryCountsRows, Ended
<1>4. ASSUME UNCHANGED summary, run.status \notin Ended, run'.status \in Ended,
             \A w \in Workers : ~CompleteRun(w)
      PROVE  EndsInv'
  <2>1. summary' = NoSummary
    BY <1>4 DEF EndsInv
  <2>2. ~summary'.quality
    BY <2>1 DEF NoSummary
  <2>3. run'.status = "failed"
    BY <1>4, RunSteps DEF SameRun, Starts, Expires, Won, Left, Ended
  <2> QED BY <1>1, <1>4, <2>1, <2>2, <2>3 DEF EndsInv, SucceededMeansScored, SummaryCountsRows
<1>5. CASE run.status \in Ended
  <2>1. run'.status = run.status /\ UNCHANGED summary
    BY <1>5, EndedStays
  <2>2. ASSUME UNCHANGED <<score, failedRows, late>> PROVE EndsInv'
    <3>1. Scored' = Scored /\ Passing' = Passing
      BY <2>2, RequestStays DEF Scored, Passing
    <3> QED BY <1>1, <2>1, <2>2, <3>1 DEF EndsInv, SucceededMeansScored, SummaryCountsRows
  <2>3. ASSUME NEW c \in Cases, late' = late \cup {c}, Fails(c) \/ Scores(c) PROVE EndsInv'
    <3>1. Passing \ {c} \subseteq Passing'
      BY <2>3, RequestStays DEF Scored, Passing, Fails, Scores
    <3> QED BY <1>1, <1>5, <2>1, <2>3, <3>1 DEF EndsInv, SucceededMeansScored, SummaryCountsRows
  <2> QED BY <1>5, <2>2, <2>3, EndedStays
<1> QED BY <1>2, <1>3, <1>4, <1>5, SummarySteps

-----------------------------------------------------------------------------
(* A waiting run is in somebody's hand.                                    *)

BrokerTyped ==
  /\ events \in 0..MaxEvents /\ queue \in [Retries -> Nat] /\ lost \in [Retries -> Nat]
  /\ abandoned \in BOOLEAN /\ faults \in 0..MaxFaults

Loaded == AtWork \cup {"retrying"}
Busy == {"invalid", "claimed"} \cup Loaded
InBroker(r) == queue[r] > 0 \/ lost[r] > 0

\* A message of retry r has seen r attempts; a worker that is past its claim
\* has made one more.
Handled(w) ==
  LET t == task[w] IN
  /\ t.pc # "idle" => t.tries <= run.attempts
  /\ t.pc \in Busy => t.tries < run.attempts
  /\ t.pc = "invalid" => ~request.project
  /\ t.pc = "claimed" => request.project
  /\ t.pc \in Loaded => request.project /\ request.cases
  /\ run.status = "running" /\ run.owner = w /\ t.pc \in Busy => t.attempt = run.attempts

HandInv ==
  /\ run.status = "none" => events = 0 /\ run.attempts = 0
  /\ run.status = "pending" => run.attempts < MaxAttempts
  /\ run.status = "pending" /\ ~(request.project /\ request.cases) => run.attempts = 0
  /\ \A r \in Retries : InBroker(r) => r <= run.attempts
  /\ \A w \in Workers : Handled(w)
  /\ PendingIsInHand

\* A worker goes on with the cases it has loaded.
Moves(w) ==
  /\ task[w].pc \in Loaded /\ task'[w].pc \in Loaded
  /\ task'[w].tries = task[w].tries /\ task'[w].attempt = task[w].attempt

LEMMA MoveSteps ==
  ASSUME TaskTyped, NEW w \in Workers, Step(w)
  PROVE  Kept(w) \/ Stops(w) \/ Receives(w) \/ Claims(w) \/ Loads(w) \/ Moves(w)
<1> DEFINE t == task[w]
           u == task'[w]
<1>t. t \in Tasks
  BY DEF TaskTyped
<1>1. Reserves(w) => Moves(w)
  <2>1. \A c : /\ Submitted(t, c).pc = t.pc /\ Submitted(t, c).tries = t.tries
               /\ Submitted(t, c).attempt = t.attempt
               /\ Refused(t, c).pc = "saving" /\ Refused(t, c).tries = t.tries
               /\ Refused(t, c).attempt = t.attempt
    BY <1>t DEF Tasks, Submitted, Refused
  <2> HIDE DEF t, u
  <2> QED BY <2>1 DEF Reserves, Moves, Loaded, AtWork, t, u
<1>2. Collects(w) => Moves(w)
  <2>1. \A c, row, failed, retryable :
          /\ Result(t, c, row, failed, retryable).pc = "saving"
          /\ Result(t, c, row, failed, retryable).tries = t.tries
          /\ Result(t, c, row, failed, retryable).attempt = t.attempt
    BY <1>t DEF Tasks, Result
  <2> QED BY <2>1 DEF Collects, Moves, Loaded, AtWork
<1>3. Checks(w) \/ Writes(w) \/ Retreats(w) => Moves(w)
  <2>1. \A pc : /\ [t EXCEPT !.pc = pc].pc = pc /\ [t EXCEPT !.pc = pc].tries = t.tries
                /\ [t EXCEPT !.pc = pc].attempt = t.attempt
    BY <1>t DEF Tasks
  <2> QED BY <2>1, ZenonT(60) DEF Checks, Writes, Retreats, Moves, Loaded, AtWork
<1> QED BY <1>1, <1>2, <1>3 DEF Step

\* What a step does to the broker.
LEMMA BrokerSteps ==
  ASSUME BrokerTyped, TaskTyped, [Next]_vars
  PROVE  /\ BrokerTyped' /\ faults <= faults'
         /\ \A r \in Retries :
              InBroker(r)' => \/ InBroker(r) \/ r = 0
                              \/ \E w \in Workers :
                                   \/ task[w].pc # "idle" /\ r = task[w].tries
                                   \/ task[w].pc = "retrying" /\ r = task[w].tries + 1
<1> DEFINE From(r) == \/ InBroker(r) \/ r = 0
                      \/ \E w \in Workers :
                           \/ task[w].pc # "idle" /\ r = task[w].tries
                           \/ task[w].pc = "retrying" /\ r = task[w].tries + 1
           Goal == /\ BrokerTyped' /\ faults <= faults'
                   /\ \A r \in Retries : InBroker(r)' => From(r)
<1> SUFFICES Goal
  BY DEF Goal
<1>n. MaxRetries \in Nat /\ MaxEvents \in Nat /\ MaxFaults \in Nat /\ 0 \in Retries /\ Retries \subseteq Nat
  BY EvaluationAssumption DEF Retries
<1>1. ASSUME UNCHANGED broker, abandoned' \in BOOLEAN, faults' \in 0..MaxFaults, faults <= faults' PROVE Goal
  BY <1>1 DEF broker, BrokerTyped, InBroker
<1>2. ASSUME NEW q, q \in [Retries -> Nat], NEW l, l \in [Retries -> Nat], queue' = q, lost' = l,
             UNCHANGED <<abandoned, faults>>, events' \in 0..MaxEvents
      PROVE  BrokerTyped' /\ faults <= faults'
  BY <1>2, <1>n DEF BrokerTyped
<1>3. CASE PublishEvent
  <2>1. events < MaxEvents /\ events' = events + 1
    BY <1>3 DEF PublishEvent
  <2>2. events' \in 0..MaxEvents
    BY <1>n, <2>1 DEF BrokerTyped
  <2>3. /\ queue' = [queue EXCEPT ![0] = @ + 1] /\ lost' = lost /\ UNCHANGED <<abandoned, faults>>
        /\ queue' \in [Retries -> Nat]
    BY <1>3, <1>n DEF PublishEvent, BrokerTyped
  <2>4. \A r \in Retries : InBroker(r)' => InBroker(r) \/ r = 0
    BY <2>3 DEF InBroker, BrokerTyped
  <2> QED BY <1>2, <2>2, <2>3, <2>4 DEF BrokerTyped
<1>4. ASSUME NEW w \in Workers, NEW r \in Retries, Receive(w, r) PROVE Goal
  <2>1. /\ queue[r] > 0 /\ queue' = [queue EXCEPT ![r] = @ - 1] /\ UNCHANGED <<lost, events, abandoned, faults>>
    BY <1>4, Zenon DEF Receive
  <2>2. queue' \in [Retries -> Nat] /\ \A s \in Retries : queue'[s] <= queue[s]
    BY <2>1 DEF BrokerTyped
  <2>3. \A s \in Retries : InBroker(s)' => InBroker(s)
    BY <2>1, <2>2 DEF InBroker, BrokerTyped
  <2> QED BY <1>2, <2>1, <2>2, <2>3 DEF BrokerTyped
<1>5. ASSUME NEW r \in Retries, Redeliver(r) PROVE Goal
  <2>1. /\ lost[r] > 0 /\ lost' = [lost EXCEPT ![r] = @ - 1] /\ queue' = [queue EXCEPT ![r] = @ + 1]
        /\ UNCHANGED <<events, abandoned, faults>>
    BY <1>5, Zenon DEF Redeliver
  <2>2. lost' \in [Retries -> Nat] /\ queue' \in [Retries -> Nat]
    BY <2>1 DEF BrokerTyped
  <2>3. \A s \in Retries : InBroker(s)' => InBroker(s)
    BY <2>1, <2>2 DEF InBroker, BrokerTyped
  <2> QED BY <1>2, <2>1, <2>2, <2>3 DEF BrokerTyped
<1>6. ASSUME NEW w \in Workers, RetryTask(w) PROVE Goal
  <2> DEFINE r == task[w].tries
             s == r + 1
  <2>1. /\ task[w].pc = "retrying" /\ UNCHANGED <<lost, events, abandoned, faults>>
        /\ queue' = IF r < MaxRetries THEN [queue EXCEPT ![s] = @ + 1] ELSE queue
    BY <1>6, Zenon DEF RetryTask
  <2>2. r \in Retries
    BY DEF TaskTyped, Tasks
  <2>3. r < MaxRetries => s \in Retries
    BY <1>n, <2>2 DEF Retries
  <2> HIDE DEF r, s
  <2>4. /\ queue' \in [Retries -> Nat]
        /\ \A q \in Retries : queue'[q] > 0 => queue[q] > 0 \/ q = s
    BY <2>1, <2>3 DEF BrokerTyped
  <2>5. \A q \in Retries : InBroker(q)' => InBroker(q) \/ q = s
    BY <2>1, <2>4 DEF InBroker
  <2>6. \A q \in Retries : InBroker(q)' => From(q)
    BY <2>1, <2>5 DEF r, s
  <2> QED BY <1>2, <2>1, <2>4, <2>6 DEF BrokerTyped
<1>7. ASSUME NEW w \in Workers, Crash(w) PROVE Goal
  <2> DEFINE r == task[w].tries
  <2>1. /\ task[w].pc # "idle" /\ UNCHANGED <<queue, events, abandoned>>
        /\ lost' = [lost EXCEPT ![r] = @ + 1] /\ faults < MaxFaults /\ faults' = faults + 1
    BY <1>7, Zenon DEF Crash
  <2>2. r \in Retries
    BY DEF TaskTyped, Tasks
  <2>3. lost' \in [Retries -> Nat] /\ \A q \in Retries : lost'[q] > 0 => lost[q] > 0 \/ q = r
    <3> HIDE DEF r
    <3> QED BY <2>1, <2>2 DEF BrokerTyped
  <2>4. \A q \in Retries : InBroker(q)' => From(q)
    BY <2>1, <2>3 DEF InBroker
  <2>5. BrokerTyped' /\ faults <= faults'
    BY <1>n, <2>1, <2>3 DEF BrokerTyped
  <2> QED BY <2>4, <2>5
<1>8. ASSUME NEW w \in Workers, RowRefused(w) \/ UnexpectedException(w) PROVE Goal
  <2>1. UNCHANGED broker /\ abandoned' = TRUE /\ (faults' = faults \/ (faults < MaxFaults /\ faults' = faults + 1))
    BY <1>8 DEF RowRefused, UnexpectedException, TaskRaises
  <2>2. faults' \in 0..MaxFaults /\ faults <= faults'
    BY <1>n, <2>1 DEF BrokerTyped
  <2> QED BY <1>1, <2>1, <2>2
<1>9. CASE LeaseExpires
  <2>1. UNCHANGED <<broker, abandoned>> /\ (faults' = faults \/ (faults < MaxFaults /\ faults' = faults + 1))
    BY <1>9 DEF LeaseExpires
  <2>2. faults' \in 0..MaxFaults /\ faults <= faults'
    BY <1>n, <2>1 DEF BrokerTyped
  <2> QED BY <1>1, <2>1, <2>2 DEF BrokerTyped
<1>10. CASE UNCHANGED <<broker, abandoned, faults>>
  <2>1. faults' \in 0..MaxFaults /\ faults <= faults' /\ abandoned' \in BOOLEAN
    BY <1>n, <1>10 DEF BrokerTyped
  <2> QED BY <1>1, <1>10, <2>1
<1> HIDE DEF Goal
<1>11. ASSUME NEW w \in Workers,
              \/ Claim(w) \/ NotClaimed(w) \/ RejectRun(w) \/ LoadCases(w) \/ ReserveCase(w)
              \/ CheckLease(w) \/ WriteRows(w) \/ ReleaseRun(w) \/ CompleteRun(w) \/ CompletionRefused(w)
       PROVE  UNCHANGED <<broker, abandoned, faults>>
  <2>1. Claim(w) => UNCHANGED <<broker, abandoned, faults>>
    BY Zenon DEF Claim
  <2>2. CompleteRun(w) \/ ReserveCase(w) \/ WriteRows(w) => UNCHANGED <<broker, abandoned, faults>>
    BY Zenon DEF CompleteRun, ReserveCase, WriteRows
  <2>3. NotClaimed(w) \/ RejectRun(w) \/ LoadCases(w) \/ CheckLease(w) \/ ReleaseRun(w) \/ CompletionRefused(w)
          => UNCHANGED <<broker, abandoned, faults>>
    BY DEF NotClaimed, RejectRun, LoadCases, CheckLease, ReleaseRun, CompletionRefused
  <2> QED BY <1>11, <2>1, <2>2, <2>3, Zenon
<1>12. ASSUME NEW w \in Workers, NEW c \in Cases, CaseScored(w, c) \/ CaseFails(w, c)
       PROVE  UNCHANGED <<broker, abandoned, faults>>
  BY <1>12, Zenon DEF CaseScored, CaseFails, Collect
<1>13. CreateRun \/ UNCHANGED vars => UNCHANGED <<broker, abandoned, faults>>
  BY DEF CreateRun, vars
<1> DEFINE Quiet == UNCHANGED <<broker, abandoned, faults>>
<1>14. Quiet => Goal
  BY <1>10 DEF Quiet
<1>15. ASSUME NEW w \in Workers, Work(w) PROVE Goal \/ Quiet
  BY <1>4, <1>6, <1>8, <1>11, <1>12, <1>15, Zenon DEF Work, Quiet
<1>16. CASE CreateRun \/ UNCHANGED vars
  BY <1>13, <1>14, <1>16 DEF Quiet
<1> HIDE DEF Quiet
<1>17. Goal
  BY <1>3, <1>5, <1>7, <1>8, <1>9, <1>14, <1>15, <1>16 DEF Next
<1> QED BY <1>17

\* Attempts only grow, and only a claim makes a worker the owner.
LEMMA AttemptSteps ==
  ASSUME RunTyped, [Next]_vars
  PROVE  /\ run.attempts <= run'.attempts
         /\ \A w \in Workers : run'.status = "running" /\ run'.owner = w =>
              \/ Claim(w)
              \/ run.status = "running" /\ run.owner = w /\ run'.attempts = run.attempts
<1>1. run.attempts \in Nat
  BY EvaluationAssumption DEF RunTyped, Runs
<1>2. CASE SameRun \/ Starts \/ Expires
  BY <1>1, <1>2 DEF SameRun, Starts, Expires
<1>3. ASSUME NEW v \in Workers, Won(v)
      PROVE  /\ run.attempts <= run'.attempts
             /\ \A w \in Workers : run'.owner = w => Claim(w)
  BY <1>1, <1>3 DEF Won
<1>4. ASSUME NEW v \in Workers, NEW status \in {"failed", "pending"} \cup Ended, Left(v, status)
      PROVE  run.attempts <= run'.attempts /\ run'.status # "running"
  BY <1>1, <1>4 DEF Left, Ended
<1> QED BY <1>2, <1>3, <1>4, RunSteps

LEMMA HandledStep ==
  ASSUME RunTyped, TaskTyped, RequestTyped, BrokerTyped, HandInv, [Next]_vars, NEW w \in Workers
  PROVE  Handled(w)'
<1> DEFINE t == task[w]
           u == task'[w]
<1>t. t \in Tasks /\ UNCHANGED request /\ run.attempts \in Nat /\ run'.attempts \in Nat /\ t.tries \in Nat
  <2>1. RunTyped'
    BY RunStep
  <2>2. run.attempts \in Nat /\ run'.attempts \in Nat
    BY <2>1, EvaluationAssumption DEF RunTyped, Runs
  <2>3. t.tries \in Nat
    BY EvaluationAssumption DEF TaskTyped, Tasks, Retries
  <2> QED BY <2>2, <2>3, RequestStays DEF TaskTyped
<1>a. /\ run.attempts <= run'.attempts
      /\ run'.status = "running" /\ run'.owner = w =>
           \/ Claim(w)
           \/ run.status = "running" /\ run.owner = w /\ run'.attempts = run.attempts
  BY AttemptSteps
<1>h. Handled(w)
  BY DEF HandInv
<1>r. Claim(w) => t.pc = "received"
  BY Zenon DEF Claim
<1> DEFINE Goal == /\ u.pc # "idle" => u.tries <= run'.attempts
                   /\ u.pc \in Busy => u.tries < run'.attempts
                   /\ u.pc = "invalid" => ~request.project
                   /\ u.pc = "claimed" => request.project
                   /\ u.pc \in Loaded => request.project /\ request.cases
                   /\ run'.status = "running" /\ run'.owner = w /\ u.pc \in Busy => u.attempt = run'.attempts
<1> SUFFICES Goal
  BY <1>t DEF Handled
<1>1. CASE Kept(w)
  <2>1. u = t
    BY <1>1 DEF Kept
  <2> HIDE DEF t, u
  <2> QED BY <1>t, <1>a, <1>h, <1>r, <2>1 DEF Handled, Busy, Loaded, AtWork, t
<1>2. CASE Stops(w)
  <2>1. u.pc = "idle"
    BY <1>2 DEF Stops, Idle
  <2> HIDE DEF u
  <2> QED BY <2>1 DEF Busy, Loaded, AtWork
<1>3. CASE Receives(w)
  <2>1. PICK r \in Retries : Receive(w, r) /\ u = [Idle EXCEPT !.pc = "received", !.tries = r]
    BY <1>3 DEF Receives
  <2>2. u.pc = "received" /\ u.tries = r
    BY <2>1 DEF Idle
  <2>3. r <= run.attempts /\ r \in Nat
    <3>1. queue[r] > 0
      BY <2>1, Zenon DEF Receive
    <3>2. InBroker(r)
      BY <3>1 DEF InBroker
    <3> QED BY <3>2, EvaluationAssumption DEF HandInv, Retries
  <2> HIDE DEF u
  <2> QED BY <1>t, <1>a, <2>2, <2>3 DEF Busy, Loaded, AtWork
<1>4. CASE Claims(w)
  <2> DEFINE n == run.attempts + 1
  <2>1. PICK pc \in {"claimed", "invalid"} :
          (pc = "claimed" <=> request.project) /\ u = [t EXCEPT !.pc = pc, !.attempt = n]
    BY <1>4, Zenon DEF Claims
  <2>2. u.pc = pc /\ u.attempt = n /\ u.tries = t.tries
    <3> HIDE DEF n
    <3> QED BY <1>t, <2>1 DEF Tasks
  <2>3. run'.attempts = n
    BY <1>4, ClaimIs DEF Claims, Won
  <2>4. t.pc = "received"
    BY <1>4, <1>r DEF Claims
  <2>5. t.tries <= run.attempts
    BY <1>h, <2>4 DEF Handled
  <2> HIDE DEF u, t
  <2> QED BY <1>t, <2>1, <2>2, <2>3, <2>5 DEF Busy, Loaded, AtWork
<1>5. CASE Loads(w)
  <2>1. t.pc = "claimed" /\ request.cases
    BY <1>5 DEF Loads, LoadCases
  <2>2. u.pc = "reserving" /\ u.tries = t.tries /\ u.attempt = t.attempt
    BY <1>5, <1>t DEF Loads, Tasks
  <2>3. t.pc \in Busy
    BY <2>1 DEF Busy
  <2> HIDE DEF u, t
  <2> QED BY <1>t, <1>a, <1>h, <1>r, <2>1, <2>2, <2>3 DEF Handled, Loaded, AtWork, t
<1>6. CASE Moves(w)
  <2>1. /\ t.pc \in Loaded /\ u.pc \in Loaded /\ u.tries = t.tries /\ u.attempt = t.attempt
    BY <1>6 DEF Moves
  <2>2. t.pc # "received" /\ t.pc \in Busy /\ u.pc \notin {"idle", "invalid", "claimed"}
    BY <2>1 DEF Busy, Loaded, AtWork
  <2> HIDE DEF u, t
  <2> QED BY <1>t, <1>a, <1>h, <1>r, <2>1, <2>2 DEF Handled, t
<1> QED BY <1>1, <1>2, <1>3, <1>4, <1>5, <1>6, MoveSteps, TaskChanges

\* A worker that goes on with its task is not idle after its step.
LEMMA WorkingIs ==
  ASSUME TaskTyped, NEW w \in Workers, NEW c,
         \/ LoadCases(w) \/ ReserveCase(w) \/ CaseScored(w, c) \/ CaseFails(w, c) \/ CheckLease(w)
         \/ WriteRows(w) \/ ReleaseRun(w) \/ CompletionRefused(w) \/ \E r \in Retries : Receive(w, r)
  PROVE  task'[w].pc # "idle"
<1> DEFINE t == task[w]
<1>t. t \in Tasks /\ task \in [Workers -> Tasks]
  BY DEF TaskTyped
<1>1. ASSUME NEW u, task' = [task EXCEPT ![w] = u], u.pc # "idle" PROVE task'[w].pc # "idle"
  BY <1>t, <1>1
<1>2. ASSUME NEW pc, task' = [task EXCEPT ![w].pc = pc], pc # "idle" PROVE task'[w].pc # "idle"
  BY <1>t, <1>2 DEF Tasks
<1>3. LoadCases(w) => task'[w].pc # "idle"
  BY <1>t DEF LoadCases, Tasks
<1>4. ReserveCase(w) => task'[w].pc # "idle"
  <2> DEFINE d == Min(t.todo)
  <2>1. ReserveCase(w) => /\ t.pc = "reserving"
                          /\ \/ task' = [task EXCEPT ![w] = Submitted(t, d)]
                             \/ task' = [task EXCEPT ![w] = Refused(t, d)]
    BY DEF ReserveCase
  <2> HIDE DEF d
  <2>2. Submitted(t, d).pc = t.pc /\ Refused(t, d).pc = "saving"
    BY <1>t DEF Submitted, Refused, Tasks
  <2> QED BY <1>1, <2>1, <2>2
<1>5. CaseScored(w, c) \/ CaseFails(w, c) => task'[w].pc # "idle"
  <2>1. \A row, failed, retryable : Result(t, c, row, failed, retryable).pc = "saving"
    BY <1>t DEF Result, Tasks
  <2>2. ASSUME NEW row, NEW failed, NEW retryable, Collect(w, c, row, failed, retryable)
        PROVE  task'[w].pc # "idle"
    BY <1>1, <2>1, <2>2 DEF Collect
  <2> QED BY <2>2, Zenon DEF CaseScored, CaseFails
<1>6. CheckLease(w) => task'[w].pc # "idle"
  BY <1>2 DEF CheckLease
<1>7. WriteRows(w) => task'[w].pc # "idle"
  <2>1. WriteRows(w) => task' = [task EXCEPT ![w].pc = "reserving"]
    BY Zenon DEF WriteRows
  <2> QED BY <1>2, <2>1
<1>8. ReleaseRun(w) \/ CompletionRefused(w) => task'[w].pc # "idle"
  BY <1>2 DEF ReleaseRun, CompletionRefused
<1>9. ASSUME NEW r \in Retries, Receive(w, r) PROVE task'[w].pc # "idle"
  <2>1. task' = [task EXCEPT ![w] = [Idle EXCEPT !.pc = "received", !.tries = r]]
    BY <1>9, Zenon DEF Receive
  <2>2. [Idle EXCEPT !.pc = "received", !.tries = r].pc = "received"
    BY DEF Idle
  <2> QED BY <1>1, <2>1, <2>2
<1> QED BY <1>3, <1>4, <1>5, <1>6, <1>7, <1>8, <1>9

LEMMA PendingStep ==
  ASSUME RunTyped, TaskTyped, RequestTyped, BrokerTyped, HandInv, [Next]_vars, run'.status = "pending"
  PROVE  InFlight' \/ abandoned'
<1> DEFINE Goal == InFlight' \/ abandoned'
<1> SUFFICES Goal
  OBVIOUS
<1>1. ASSUME NEW w \in Workers, task'[w].pc # "idle" PROVE Goal
  BY <1>1 DEF InFlight
<1>2. ASSUME NEW r \in Retries, InBroker(r)' PROVE Goal
  <2>1. queue' \in [Retries -> Nat] /\ lost' \in [Retries -> Nat]
    BY BrokerSteps DEF BrokerTyped
  <2>2. queue'[r] + lost'[r] > 0
    BY <1>2, <2>1 DEF InBroker
  <2> QED BY <2>2 DEF InFlight
<1>n. /\ MaxRetries \in Nat /\ 0 \in Retries /\ Retries \subseteq Nat /\ run.attempts \in Nat
      /\ MaxAttempts <= MaxRetries /\ MaxAttempts \in Nat
  BY EvaluationAssumption DEF Retries, RunTyped, Runs
<1>3. CASE CreateRun
  <2>1. events' = 0
    BY <1>3 DEF CreateRun, broker, HandInv
  <2> QED BY <2>1 DEF InFlight
<1>4. CASE PublishEvent
  <2>1. queue' = [queue EXCEPT ![0] = @ + 1]
    BY <1>4 DEF PublishEvent
  <2>2. queue'[0] > 0
    BY <1>n, <2>1 DEF BrokerTyped
  <2> QED BY <1>2, <1>n, <2>2 DEF InBroker
<1>5. CASE LeaseExpires
  BY <1>5 DEF LeaseExpires, RunTyped, Runs
<1>6. ASSUME NEW r \in Retries, Redeliver(r) PROVE Goal
  <2>1. queue' = [queue EXCEPT ![r] = @ + 1]
    BY <1>6 DEF Redeliver
  <2>2. queue'[r] > 0
    BY <2>1 DEF BrokerTyped
  <2> QED BY <1>2, <2>2 DEF InBroker
<1>7. ASSUME NEW w \in Workers, NEW c,
             \/ LoadCases(w) \/ ReserveCase(w) \/ CaseScored(w, c) \/ CaseFails(w, c) \/ CheckLease(w)
             \/ WriteRows(w) \/ ReleaseRun(w) \/ CompletionRefused(w) \/ \E r \in Retries : Receive(w, r)
      PROVE  Goal
  BY <1>1, <1>7, WorkingIs
<1>8. ASSUME NEW w \in Workers PROVE ~Claim(w) /\ ~CompleteRun(w)
  <2>1. ~Claim(w)
    BY ClaimIs DEF Won
  <2>2. ~CompleteRun(w)
    BY DEF CompleteRun, RunTyped, Runs
  <2> QED BY <2>1, <2>2
<1>9. ASSUME NEW w \in Workers, NotClaimed(w) PROVE FALSE
  <2>1. UNCHANGED run /\ ~Claimable
    BY <1>9 DEF NotClaimed
  <2> QED BY <2>1 DEF Claimable, HandInv
<1>10. ASSUME NEW w \in Workers, RejectRun(w) PROVE FALSE
  <2>1. /\ task[w].pc = "invalid" \/ (task[w].pc = "claimed" /\ ~request.cases)
        /\ LeaveRun(w, "failed")
    BY <1>10 DEF RejectRun
  <2>2. run.status = "pending"
    BY <2>1 DEF LeaveRun, RunTyped, Runs
  <2>3. task[w].tries < run.attempts /\ ~(request.project /\ request.cases)
    BY <2>1 DEF HandInv, Handled, Busy
  <2>4. task[w].tries \in Nat
    BY <1>n DEF TaskTyped, Tasks
  <2> QED BY <2>2, <2>3, <2>4 DEF HandInv
<1>11. ASSUME NEW w \in Workers, RowRefused(w) \/ UnexpectedException(w) PROVE Goal
  BY <1>11 DEF RowRefused, UnexpectedException, TaskRaises
<1>12. ASSUME NEW w \in Workers, RetryTask(w) PROVE Goal
  <2> DEFINE r == task[w].tries
             s == r + 1
  <2>1. /\ task[w].pc = "retrying" /\ UNCHANGED run
        /\ queue' = IF r < MaxRetries THEN [queue EXCEPT ![s] = @ + 1] ELSE queue
    BY <1>12, Zenon DEF RetryTask
  <2>2. r \in Nat
    BY <1>n DEF TaskTyped, Tasks
  <2>3. r < run.attempts /\ run.attempts < MaxAttempts
    BY <2>1 DEF HandInv, Handled, Busy, Loaded
  <2>4. r < MaxRetries /\ s \in Retries
    BY <1>n, <2>2, <2>3 DEF Retries
  <2> HIDE DEF r, s
  <2>5. queue'[s] > 0
    BY <2>1, <2>4 DEF BrokerTyped
  <2> QED BY <1>2, <2>4, <2>5 DEF InBroker
<1>13. ASSUME NEW w \in Workers, Crash(w) PROVE Goal
  <2> DEFINE r == task[w].tries
  <2>1. lost' = [lost EXCEPT ![r] = @ + 1]
    BY <1>13, Zenon DEF Crash
  <2>2. r \in Retries
    BY DEF TaskTyped, Tasks
  <2> HIDE DEF r
  <2>3. lost'[r] > 0
    BY <2>1, <2>2 DEF BrokerTyped
  <2> QED BY <1>2, <2>2, <2>3 DEF InBroker
<1>14. CASE UNCHANGED vars
  <2>1. UNCHANGED <<run, events, queue, lost, task, abandoned>>
    BY <1>14 DEF vars, broker
  <2>2. InFlight \/ abandoned
    BY <2>1 DEF HandInv, PendingIsInHand
  <2> QED BY <2>1, <2>2 DEF InFlight
<1> HIDE DEF Goal
<1>15. ASSUME NEW w \in Workers, Work(w) PROVE Goal
  BY <1>7, <1>8, <1>9, <1>10, <1>11, <1>12, <1>15, Zenon DEF Work
<1> QED BY <1>3, <1>4, <1>5, <1>6, <1>11, <1>13, <1>14, <1>15 DEF Next

LEMMA EventSteps == [Next]_vars => PublishEvent \/ events' = events
<1>1. ASSUME NEW w \in Workers, Work(w) PROVE events' = events
  <2>1. Claim(w) => events' = events
    BY Zenon DEF Claim, broker
  <2>2. ReserveCase(w) \/ WriteRows(w) \/ CompleteRun(w) \/ RetryTask(w) => events' = events
    BY Zenon DEF ReserveCase, WriteRows, CompleteRun, RetryTask, broker
  <2> QED
    BY <1>1, <2>1, <2>2
    DEF Work, broker, Receive, NotClaimed, RejectRun, LoadCases, CaseScored, CaseFails, Collect, CheckLease,
        RowRefused, TaskRaises, ReleaseRun, CompletionRefused
<1> QED BY <1>1 DEF Next, vars, broker, CreateRun, LeaseExpires, Redeliver, UnexpectedException, TaskRaises, Crash

LEMMA HandStep ==
  ASSUME RunTyped, TaskTyped, RequestTyped, BrokerTyped, HandInv, [Next]_vars
  PROVE  HandInv'
<1>n. /\ run.attempts \in Nat /\ MaxAttempts \in Nat \ {0} /\ run.attempts <= run'.attempts
      /\ run'.attempts \in Nat /\ UNCHANGED request
  <2>1. RunTyped'
    BY RunStep
  <2> QED BY <2>1, EvaluationAssumption, AttemptSteps, RequestStays DEF RunTyped, Runs
<1>1. \A w \in Workers : Handled(w)'
  BY HandledStep
<1>2. ASSUME NEW r \in Retries, InBroker(r)' PROVE r <= run'.attempts
  <2>1. r \in Nat
    BY EvaluationAssumption DEF Retries
  <2>2. CASE InBroker(r) \/ r = 0
    BY <1>n, <2>1, <2>2 DEF HandInv
  <2>3. ASSUME NEW w \in Workers, task[w].pc # "idle", r = task[w].tries PROVE r <= run'.attempts
    BY <1>n, <2>1, <2>3 DEF HandInv, Handled
  <2>4. ASSUME NEW w \in Workers, task[w].pc = "retrying", r = task[w].tries + 1 PROVE r <= run'.attempts
    <3>1. task[w].tries < run.attempts /\ task[w].tries \in Nat
      BY <2>4, EvaluationAssumption DEF HandInv, Handled, Busy, Loaded, TaskTyped, Tasks, Retries
    <3> QED BY <1>n, <2>1, <2>4, <3>1
  <2> QED BY <1>2, <2>2, <2>3, <2>4, BrokerSteps
<1>3. run'.status = "none" => events' = 0 /\ run'.attempts = 0
  <2>1. SUFFICES ASSUME run'.status = "none" PROVE events' = 0 /\ run'.attempts = 0
    OBVIOUS
  <2>2. SameRun
    BY <2>1, RunSteps DEF Starts, Expires, Won, Left, Ended
  <2>3. run.status = "none" /\ events = 0 /\ run'.attempts = 0
    BY <2>1, <2>2 DEF SameRun, HandInv
  <2>4. events' = events
    <3>1. ~PublishEvent
      BY <2>3 DEF PublishEvent
    <3> QED BY <3>1, EventSteps
  <2> QED BY <2>3, <2>4
<1>4. run'.status = "pending" =>
        /\ run'.attempts < MaxAttempts
        /\ ~(request.project /\ request.cases) => run'.attempts = 0
  <2>1. SUFFICES ASSUME run'.status = "pending"
                 PROVE  /\ run'.attempts < MaxAttempts
                        /\ ~(request.project /\ request.cases) => run'.attempts = 0
    OBVIOUS
  <2>2. CASE SameRun
    BY <2>1, <2>2 DEF SameRun, HandInv
  <2>3. CASE Starts
    BY <1>n, <2>3 DEF Starts, HandInv
  <2>4. ASSUME NEW w \in Workers, ReleaseRun(w), Left(w, "pending")
        PROVE  /\ run'.attempts < MaxAttempts
               /\ ~(request.project /\ request.cases) => run'.attempts = 0
    <3>1. task[w].pc = "reserving" /\ task[w].attempt < MaxAttempts
      BY <2>4 DEF ReleaseRun, Collected
    <3>2. task[w].attempt = run.attempts /\ request.project /\ request.cases /\ run'.attempts = run.attempts
      BY <2>4, <3>1 DEF HandInv, Handled, Busy, Loaded, AtWork, Left
    <3> QED BY <3>1, <3>2
  <2> QED BY <2>1, <2>2, <2>3, <2>4, RunSteps DEF Expires, Won, Left, Ended
<1>5. PendingIsInHand'
  BY PendingStep DEF PendingIsInHand
<1> QED BY <1>n, <1>1, <1>2, <1>3, <1>4, <1>5 DEF HandInv

-----------------------------------------------------------------------------
(* Late saves.                                                             *)

\* Workers whose check of the lease has become void before their save commits.
Overtaken == {w \in Workers : task[w].pc = "writing" /\ ~HoldsLease(w)}
LateInv == IsFiniteSet(Overtaken) /\ Cardinality(late) + Cardinality(Overtaken) <= faults

\* A worker is overtaken when the lease of its owner expires under it.
LEMMA OvertakenSteps ==
  ASSUME RunTyped, TaskTyped, RequestTyped, [Next]_vars, NEW w \in Workers, w \in Overtaken'
  PROVE  \/ w \in Overtaken /\ Kept(w)
         \/ w = run.owner /\ LeaseExpires /\ faults' = faults + 1
<1> DEFINE t == task[w]
           u == task'[w]
<1>t. t \in Tasks /\ Step(w)
  BY TaskChanges DEF TaskTyped
<1>1. u.pc = "writing" /\ ~HoldsLease(w)'
  BY DEF Overtaken
<1>2. t.pc = "writing" /\ Kept(w)
  <2>1. ~Stops(w) /\ ~Receives(w)
    <3>1. Idle.pc = "idle" /\ \A r : [Idle EXCEPT !.pc = "received", !.tries = r].pc = "received"
      BY DEF Idle
    <3> QED BY <1>1, <3>1 DEF Stops, Receives
  <2>2. ~Claims(w)
    <3>1. ASSUME NEW pc \in {"claimed", "invalid"}, NEW n PROVE [t EXCEPT !.pc = pc, !.attempt = n].pc = pc
      BY <1>t DEF Tasks
    <3> QED BY <1>1, <3>1 DEF Claims
  <2>3. ~Loads(w) /\ ~Writes(w) /\ ~Retreats(w)
    BY <1>t, <1>1 DEF Loads, Writes, Retreats, Tasks
  <2>4. ~Reserves(w)
    <3>1. \A c : Submitted(t, c).pc = t.pc /\ Refused(t, c).pc = "saving"
      BY <1>t DEF Submitted, Refused, Tasks
    <3> HIDE DEF t, u
    <3> QED BY <1>1, <3>1 DEF Reserves, t, u
  <2>5. ~Collects(w)
    <3>1. \A c, row, failed, retryable : Result(t, c, row, failed, retryable).pc = "saving"
      BY <1>t DEF Result, Tasks
    <3>2. Collects(w) => \E c, row, failed, retryable : u = Result(t, c, row, failed, retryable)
      BY Zenon DEF Collects
    <3> HIDE DEF t, u
    <3> QED BY <1>1, <3>1, <3>2
  <2>6. ~Checks(w)
    <3>1. SUFFICES ASSUME Checks(w) PROVE FALSE
      OBVIOUS
    <3>2. PICK pc \in {"writing", "retrying"} : (pc = "writing" => HoldsLease(w)) /\ u = [t EXCEPT !.pc = pc]
      BY <3>1, Zenon DEF Checks
    <3>3. u.pc = pc
      BY <1>t, <3>2 DEF Tasks
    <3>4. UNCHANGED run
      BY <3>1, Zenon DEF Checks, CheckLease
    <3> HIDE DEF t, u
    <3> QED BY <1>1, <3>2, <3>3, <3>4 DEF HoldsLease
  <2>7. Kept(w)
    BY <1>t, <2>1, <2>2, <2>3, <2>4, <2>5, <2>6 DEF Step
  <2> QED BY <1>1, <2>7 DEF Kept
<1>3. CASE ~HoldsLease(w)
  BY <1>2, <1>3 DEF Overtaken
<1>4. CASE HoldsLease(w)
  <2>1. ~RejectRun(w) /\ ~ReleaseRun(w) /\ ~CompleteRun(w)
    BY <1>2 DEF RejectRun, ReleaseRun, CompleteRun, Collected
  <2>2. Expires
    BY <1>1, <1>4, <2>1, RunSteps DEF SameRun, Starts, Won, Claimable, Left, HoldsLease
  <2>3. w = run.owner
    BY <1>4 DEF HoldsLease
  <2>4. faults' = faults + 1
    BY <1>2, <2>2, <2>3 DEF Expires, LeaseExpires
  <2> QED BY <2>2, <2>3, <2>4 DEF Expires
<1> QED BY <1>3, <1>4

LEMMA LateStep ==
  ASSUME RunTyped, TaskTyped, RequestTyped, BrokerTyped, RowsTyped, AttemptsInv, LateInv, [Next]_vars
  PROVE  LateInv'
<1> DEFINE L == Cardinality(late)
           O == Cardinality(Overtaken)
           L1 == Cardinality(late')
           O1 == Cardinality(Overtaken')
<1>1. /\ IsFiniteSet(Overtaken) /\ IsFiniteSet(late) /\ L \in Nat /\ O \in Nat /\ L + O <= faults
      /\ faults \in Nat /\ faults' \in Nat /\ faults <= faults'
  <2>1. IsFiniteSet(late) /\ IsFiniteSet(Overtaken)
    BY CasesAre DEF LateInv, RowsTyped
  <2>2. faults \in Nat /\ faults' \in Nat /\ faults <= faults'
    BY BrokerSteps, EvaluationAssumption DEF BrokerTyped
  <2>3. L \in Nat /\ O \in Nat
    BY <2>1, FS_CardinalityType
  <2> QED BY <2>1, <2>2, <2>3 DEF LateInv
<1>2. ASSUME NEW S, S \subseteq Overtaken
      PROVE  IsFiniteSet(S) /\ Cardinality(S) \in Nat /\ Cardinality(S) <= O
  <2>1. IsFiniteSet(S) /\ Cardinality(S) <= O
    BY <1>1, <1>2, FS_Subset
  <2> QED BY <2>1, FS_CardinalityType
<1>3. SUFFICES IsFiniteSet(Overtaken') /\ L1 + O1 <= faults'
  BY DEF LateInv
<1>4. ASSUME late' = late, Overtaken' \subseteq Overtaken PROVE IsFiniteSet(Overtaken') /\ L1 + O1 <= faults'
  <2>1. IsFiniteSet(Overtaken') /\ O1 \in Nat /\ O1 <= O
    BY <1>2, <1>4
  <2>2. L1 = L
    BY <1>4
  <2> HIDE DEF L, O, L1, O1
  <2> QED BY <1>1, <2>1, <2>2
<1>5. ASSUME NEW w \in Workers, WriteRows(w) PROVE IsFiniteSet(Overtaken') /\ L1 + O1 <= faults'
  <2> DEFINE c == task[w].saving
  <2>1. /\ task[w].pc = "writing" /\ UNCHANGED <<run, faults>> /\ c \in Cases
        /\ late' = IF HoldsLease(w) THEN late ELSE late \cup {c}
    BY <1>5, WriteIs DEF AttemptsInv
  <2>2. w \notin Overtaken'
    <3>1. task' = [task EXCEPT ![w].pc = "reserving"]
      BY <1>5, Zenon DEF WriteRows
    <3>2. task'[w].pc = "reserving"
      BY <3>1 DEF TaskTyped, Tasks
    <3> QED BY <3>2 DEF Overtaken
  <2>3. faults' # faults + 1
    BY <1>1, <2>1
  <2>4. Overtaken' \subseteq Overtaken \ {w}
    <3>1. \A v \in Overtaken' : v \in Workers
      BY DEF Overtaken
    <3> QED BY <2>2, <2>3, <3>1, OvertakenSteps
  <2>5. CASE HoldsLease(w)
    BY <1>4, <2>1, <2>4, <2>5
  <2>6. CASE ~HoldsLease(w)
    <3>1. w \in Overtaken
      BY <2>1, <2>6 DEF Overtaken
    <3>2. IsFiniteSet(Overtaken \ {w}) /\ Cardinality(Overtaken \ {w}) = O - 1
      BY <1>1, <3>1, FS_RemoveElement
    <3>3. IsFiniteSet(Overtaken') /\ O1 <= O - 1
      BY <2>4, <3>2, FS_Subset
    <3>4. O1 \in Nat
      BY <3>3, FS_CardinalityType
    <3>5. L1 \in {L, L + 1}
      BY <1>1, <2>1, <2>6, FS_AddElement
    <3> HIDE DEF L, O, L1, O1
    <3> QED BY <1>1, <2>1, <3>3, <3>4, <3>5
  <2> QED BY <2>5, <2>6
<1>6. ASSUME UNCHANGED late, ~ (Overtaken' \subseteq Overtaken)
      PROVE  IsFiniteSet(Overtaken') /\ L1 + O1 <= faults'
  <2> DEFINE v == run.owner
  <2>1. \A w \in Overtaken' : w \in Workers
    BY DEF Overtaken
  <2>2. faults' = faults + 1 /\ Overtaken' \subseteq Overtaken \cup {v}
    BY <1>6, <2>1, OvertakenSteps
  <2> HIDE DEF v
  <2>3. IsFiniteSet(Overtaken \cup {v}) /\ Cardinality(Overtaken \cup {v}) \in {O, O + 1}
    BY <1>1, FS_AddElement
  <2>4. IsFiniteSet(Overtaken') /\ O1 <= Cardinality(Overtaken \cup {v})
    BY <2>2, <2>3, FS_Subset
  <2>5. O1 \in Nat /\ L1 = L
    BY <1>6, <2>4, FS_CardinalityType
  <2>6. O1 <= O + 1
    <3> DEFINE n == Cardinality(Overtaken \cup {v})
    <3>1. n \in {O, O + 1} /\ O1 <= n
      BY <2>3, <2>4
    <3> HIDE DEF n, O, O1
    <3> QED BY <1>1, <2>5, <3>1
  <2> HIDE DEF L, O, L1, O1
  <2> QED BY <1>1, <2>2, <2>4, <2>5, <2>6
<1> QED BY <1>4, <1>5, <1>6, RowSteps

-----------------------------------------------------------------------------
SummaryTyped ==
  summary \in [completed : Int, failed : 0..NumCases, complete : BOOLEAN, quality : BOOLEAN, regressed : BOOLEAN]

ResultsInv ==
  /\ RunTyped /\ TaskTyped /\ RequestTyped /\ RowsTyped /\ BrokerTyped /\ SummaryTyped
  /\ AttemptsInv /\ EndsInv /\ HandInv /\ LateInv

LEMMA SummaryStep ==
  ASSUME RunTyped, TaskTyped, RowsTyped, AttemptsInv, EndsInv, SummaryTyped, [Next]_vars
  PROVE  SummaryTyped'
<1>1. ASSUME NEW w \in Workers, CompleteRun(w) PROVE SummaryTyped'
  <2> DEFINE n == Cardinality(Failing(task[w]))
  <2>1. n \in 0..NumCases /\ summary' = Summary(n)
    BY <1>1, CompletionIs DEF EndsInv
  <2> HIDE DEF n
  <2> QED BY <2>1, SummaryIs DEF SummaryTyped
<1> QED BY <1>1, SummarySteps DEF SummaryTyped

LEMMA ResultsStart == Init => ResultsInv
<1> SUFFICES ASSUME Init PROVE ResultsInv
  OBVIOUS
<1>n. /\ MaxAttempts \in Nat \ {0} /\ MaxRetries \in Nat /\ MaxEvents \in Nat /\ MaxFaults \in Nat
      /\ Budget \in Nat /\ NumCases \in Nat /\ 0 \in Retries
  BY EvaluationAssumption DEF Retries
<1>1. RunTyped
  BY <1>n DEF Init, RunTyped, Runs, Statuses
<1>2. TaskTyped /\ RequestTyped /\ \A w \in Workers : task[w] = Idle
  BY IdleTyped DEF Init, TaskTyped, RequestTyped
<1>3. RowsTyped /\ Scored = {}
  BY DEF Init, RowsTyped, Scored, Unscored
<1>4. BrokerTyped
  <2>1. queue \in [Retries -> Nat] /\ lost \in [Retries -> Nat] /\ abandoned \in BOOLEAN
    BY DEF Init
  <2>2. events = 0 /\ faults = 0
    BY DEF Init
  <2> QED BY <1>n, <2>1, <2>2 DEF BrokerTyped
<1>5. SummaryTyped /\ summary = NoSummary /\ ~summary.quality
  BY <1>n DEF Init, SummaryTyped, NoSummary
<1>6. AttemptsInv
  BY <1>2 DEF AttemptsInv, Shape, Covering, Holding, Distinct, Failing, AtWork, Idle
<1>7. EndsInv
  BY <1>5 DEF Init, EndsInv, SucceededMeansScored, SummaryCountsRows, FailureExcludesScores, Ended
<1>8. HandInv
  <2>1. \A w \in Workers : Handled(w)
    BY <1>2 DEF Init, Handled, Busy, Loaded, AtWork, Idle
  <2>2. \A r \in Retries : ~InBroker(r)
    BY DEF Init, InBroker
  <2> QED BY <2>1, <2>2 DEF Init, HandInv, PendingIsInHand
<1>9. LateInv
  <2>1. Overtaken = {}
    BY <1>2 DEF Overtaken, Idle
  <2> QED BY <2>1, FS_EmptySet DEF Init, LateInv
<1> QED BY <1>1, <1>2, <1>3, <1>4, <1>5, <1>6, <1>7, <1>8, <1>9 DEF ResultsInv

\* Status, scores, failures and summary of a run agree, a waiting run is in
\* somebody's hand, and no more cases are saved late than leases were lost.
THEOREM ResultsAgree == Spec => []ResultsAddUp
<1>1. ResultsInv /\ [Next]_vars => ResultsInv'
  <2> SUFFICES ASSUME ResultsInv, [Next]_vars PROVE ResultsInv'
    OBVIOUS
  <2> USE DEF ResultsInv
  <2>1. RunTyped' /\ TaskTyped'
    BY RunStep, TaskStep
  <2>2. RequestTyped'
    BY RequestStays DEF RequestTyped
  <2>3. RowsTyped' /\ BrokerTyped' /\ SummaryTyped'
    BY RowsStep, BrokerSteps, SummaryStep DEF AttemptsInv
  <2>4. AttemptsInv'
    <3>1. ASSUME NEW w \in Workers PROVE Shape(task'[w]) /\ Covering(w)' /\ Holding(w)'
      BY ShapeStep, CoveringStep, HoldingStep, TaskChanges DEF AttemptsInv
    <3> QED BY <3>1 DEF AttemptsInv, Shape, Distinct, Failing
  <2>5. EndsInv' /\ HandInv' /\ LateInv'
    BY EndsStep, HandStep, LateStep
  <2> QED BY <2>1, <2>2, <2>3, <2>4, <2>5
<1>2. ResultsInv => ResultsAddUp
  <2> SUFFICES ASSUME ResultsInv PROVE ResultsAddUp
    OBVIOUS
  <2> USE DEF ResultsInv
  <2>1. TypeOK
    BY DEF TypeOK, RunTyped, Runs, Statuses, TaskTyped, Tasks, Attempts, CaseNumbers, Verdicts, RequestTyped,
           RowsTyped, BrokerTyped, SummaryTyped, Ended
  <2>2. LateSavesAreBounded
    <3>1. Cardinality(late) \in Nat /\ Cardinality(Overtaken) \in Nat
      BY CasesAre, FS_CardinalityType DEF RowsTyped, LateInv
    <3>2. faults \in Nat
      BY EvaluationAssumption DEF BrokerTyped
    <3> QED BY <3>1, <3>2 DEF LateInv, LateSavesAreBounded
  <2> QED BY <2>1, <2>2 DEF ResultsAddUp, EndsInv, HandInv
<1> QED BY <1>1, <1>2, ResultsStart, PTL DEF Spec

=============================================================================
