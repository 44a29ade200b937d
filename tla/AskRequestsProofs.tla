-------------------------- MODULE AskRequestsProofs --------------------------
(***************************************************************************)
(* Proofs about AskRequests, for any number of handlers, keys, requests,   *)
(* conversations and database errors, and any quota.                       *)
(***************************************************************************)
EXTENDS AskRequests, FiniteSetTheorems, TLAPS

(* Types.                                                                  *)

Counts == [covers : Nat, count : Nat]
Requests == [pc : PCs, op : Operations, key : Keys \cup {NoKey}, hash : Hashes,
             started : BOOLEAN, conv : Conversations \cup {NoConversation},
             seen : Nat, was : Counts, from : Nat, run : Runs \cup {0}]
Reserved == [state : {"pending"}, hash : Hashes]
Done == [state : {"succeeded"}, hash : Hashes, response : Runs]
Records == {None} \cup Reserved \cup Done

ReqTyped == req \in [Handlers -> Requests]
RecordsTyped == records \in [Keys -> Records]
CountersTyped ==
  /\ usage \in [Operations -> Nat]
  /\ failures \in [Keys -> Nat]
  /\ orphaned \subseteq Keys /\ active \in BOOLEAN
  /\ served \in 0..MaxRequests /\ errors \in 0..MaxErrors
ThreadsTyped ==
  /\ open \subseteq Conversations
  /\ messages \in [Conversations -> Nat]
  /\ summary \in [Conversations -> Counts]
RunsTyped == runs \subseteq [id : Runs, op : Operations] /\ madeBy \in [Runs -> Keys \cup {NoKey}]
Typed == ReqTyped /\ RecordsTyped /\ CountersTyped /\ ThreadsTyped /\ RunsTyped

\* Whoever compacts has messages to summarize.
HasOlder == \A r \in Handlers : req[r].pc = "compact" => req[r].was.count < CompactUntil(req[r].seen)

(* Before a run is recorded. *)
Making == {"prepare", "messages", "summary", "compact", "generate", "count", "commit", "record"}

\* Whoever completes has recorded its run.
Completing ==
  \A r \in Handlers : req[r].pc = "complete" =>
    /\ req[r].run \in Runs /\ madeBy[req[r].run] = req[r].key
    /\ [id |-> req[r].run, op |-> req[r].op] \in runs

\* A request with a key has started when it is past the conflict, and a request
\* that has started has a key, of its operation.
Working == Making \cup {"complete", "failed"}
Protocol ==
  \A r \in Handlers :
    /\ req[r].started => req[r].pc \in Working /\ req[r].key \in Keys
    /\ req[r].pc \in Working /\ req[r].key # NoKey => req[r].started
    /\ req[r].key \in Keys /\ req[r].pc # "idle" => OpOf[req[r].key] = req[r].op

\* The parts of the typing are TypeOK.
LEMMA TypesAgree == Typed <=> TypeOK
  BY DEF Typed, TypeOK, ReqTyped, RecordsTyped, CountersTyped, ThreadsTyped, RunsTyped, Requests,
         Counts, Records, Reserved, Done

\* An idle handler, which every request leaves behind.
LEMMA IdleTyped == Idle \in Requests
  BY AskAssumption DEF Idle, Requests, Counts, PCs, Operations, NoSummary

LEMMA IdleFields == /\ Idle.pc = "idle" /\ Idle.started = FALSE /\ Idle.key = NoKey
                    /\ Idle.was = NoSummary /\ Idle.from = 0 /\ Idle.conv = NoConversation
  BY DEF Idle

\* The recorded runs are numbered, and there is a number left for every
\* handler that may still record one.
Able == {r \in Handlers : req[r].pc \notin {"idle", "conflict", "complete", "failed"}}
Numbered ==
  /\ IsFiniteSet(runs) /\ \A run \in runs : run.id \in 1..Cardinality(runs)
  /\ IsFiniteSet(Able) /\ Cardinality(runs) + Cardinality(Able) <= served

-----------------------------------------------------------------------------
(* What a step does to the handlers: it is a step of one of them, which    *)
(* leaves, begins, goes on, records or ends its request, or of no one.     *)

\* A step between two others of the same request.
GoesOn(r) ==
  \/ Prepare(r) \/ ReadMessages(r) \/ ReadSummary(r) \/ Compact(r) \/ CompactFails(r) \/ Generate(r)
  \/ IncrementUsage(r) \/ EnsureForCommit(r) \/ RecordFails(r)

\* Only r's request changes, and it stays the same request.
Alone(r) == \A s \in Handlers \ {r} : req'[s] = req[s]
SameRequest(r) ==
  /\ Alone(r) /\ req'[r].key = req[r].key /\ req'[r].hash = req[r].hash
  /\ req'[r].op = req[r].op

\* Between its reservation and its run a request changes no record and no run.
LEMMA GoingOn ==
  ASSUME Typed, NEW r \in Handlers, GoesOn(r)
  PROVE  /\ SameRequest(r) /\ req'[r].started = req[r].started
         /\ req[r].pc \in Making /\ req'[r].pc \in Making \cup {"failed"}
         /\ UNCHANGED <<records, runs, madeBy, failures, orphaned, served>>
<1> USE DEF Typed, ReqTyped, Requests, SameRequest, Alone, Making, At, Goto, tables, ghosts
<1>1. CASE Prepare(r)
  BY <1>1 DEF Prepare
<1>2. CASE ReadMessages(r) \/ ReadSummary(r)
  BY <1>2 DEF ReadMessages, ReadSummary
<1>3. CASE Compact(r) \/ CompactFails(r)
  BY <1>3 DEF Compact, CompactFails
<1>4. CASE Generate(r) \/ RecordFails(r)
  BY <1>4 DEF Generate, RecordFails
<1>5. CASE IncrementUsage(r)
  BY <1>5 DEF IncrementUsage
<1>6. CASE EnsureForCommit(r)
  BY <1>6 DEF EnsureForCommit
<1> QED BY <1>1, <1>2, <1>3, <1>4, <1>5, <1>6 DEF GoesOn

\* Recording a run takes the next number for the request's key.
LEMMA Recording ==
  ASSUME Typed, NEW r \in Handlers, Record(r)
  PROVE  /\ SameRequest(r) /\ req'[r].started = req[r].started
         /\ req[r].pc = "record" /\ req'[r].pc = "complete" /\ req'[r].run = NextRun
         /\ runs' = runs \cup {[id |-> NextRun, op |-> req[r].op]}
         /\ madeBy' = [madeBy EXCEPT ![NextRun] = req[r].key]
         /\ UNCHANGED <<records, usage, open, summary, active, failures, orphaned, served, errors>>
  BY DEF Typed, ReqTyped, SameRequest, Alone, Record, RecordRun, RecordQuizRun, At, Requests, Operations

\* A request arrives at an idle handler and has reserved nothing.
LEMMA Receiving ==
  ASSUME Typed, NEW r \in Handlers, Receive(r)
  PROVE  /\ Alone(r) /\ req[r].pc = "idle" /\ req'[r].pc = "begin" /\ req'[r].started = FALSE
         /\ req'[r].key # NoKey => OpOf[req'[r].key] = req'[r].op
         /\ served' = served + 1 /\ UNCHANGED <<tables, active, ghosts, errors>>
  BY DEF Receive, Typed, ReqTyped, Alone, At, Idle

\* A request meets a record, needs none, or reserves one.
LEMMA Beginning ==
  ASSUME Typed, NEW r \in Handlers, Begin(r)
  PROVE  /\ SameRequest(r) /\ req[r].pc = "begin"
         /\ \/ /\ req'[r].pc = "conflict" /\ req'[r].started = req[r].started
               /\ UNCHANGED records
            \/ /\ ~Keyed(r) /\ req'[r].pc = "prepare" /\ req'[r].started = req[r].started
               /\ UNCHANGED records
            \/ /\ Keyed(r) /\ req'[r].pc = "prepare" /\ req'[r].started
               /\ Reserve(req[r].key, req[r].hash)
         /\ UNCHANGED <<usage, runs, open, messages, summary, active, ghosts, served, errors>>
<1> USE DEF Typed, ReqTyped, Requests, SameRequest, Alone, Goto
<1>1. CASE Goto(r, "prepare") \/ Goto(r, "conflict")
  BY <1>1 DEF Begin, At
<1>2. CASE req' = [req EXCEPT ![r].pc = "prepare", ![r].started = TRUE]
  BY ZenonT(40), <1>2 DEF Begin, At, Keyed
<1> QED BY <1>1, <1>2 DEF Begin

\* Whatever ends a request leaves its handler idle.
Ends(r) == AnswerConflict(r) \/ Complete(r) \/ Abandon(r) \/ Die(r)

\* The end of a request touches neither the runs nor the quota.
LEMMA Ending ==
  ASSUME Typed, NEW r \in Handlers, Ends(r)
  PROVE  /\ Alone(r) /\ req'[r] = Idle /\ req'[r].pc = "idle" /\ req'[r].started = FALSE
         /\ UNCHANGED <<usage, runs, open, messages, summary, active, madeBy, failures, served>>
  BY IdleFields DEF Typed, ReqTyped, Alone, Ends, AnswerConflict, Complete, Abandon, Die, Leave, tables, ghosts

\* A refused completion is counted for the key.
LEMMA FailingToComplete ==
  ASSUME Typed, NEW r \in Handlers, CompleteFails(r)
  PROVE  /\ SameRequest(r) /\ req'[r].started = req[r].started /\ req[r].started
         /\ req[r].pc = "complete" /\ req'[r].pc = "failed"
         /\ failures' = [failures EXCEPT ![req[r].key] = @ + 1]
         /\ UNCHANGED <<tables, active, madeBy, orphaned, served>>
  BY DEF Typed, ReqTyped, Requests, SameRequest, Alone, CompleteFails, At, Goto

\* A step is one of these.
LEMMA StepCases ==
  ASSUME [Next]_vars
  PROVE  \/ \E r \in Handlers : Receive(r) \/ Begin(r) \/ GoesOn(r) \/ Record(r) \/ CompleteFails(r) \/ Ends(r)
         \/ \E c \in Conversations : DeleteConversation(c)
         \/ DeleteProject
         \/ UNCHANGED vars
  BY DEF Next, Handle, GoesOn, Ends
-----------------------------------------------------------------------------
(* Types are kept.                                                         *)

\* Whoever records takes a number that is free.
LEMMA NumberLeft ==
  ASSUME Typed, Numbered, NEW r \in Handlers, req[r].pc = "record"
  PROVE  NextRun \in Runs /\ \A run \in runs : run.id # NextRun
<1>1. Cardinality(runs) \in Nat /\ Cardinality(Able) \in Nat
  BY FS_CardinalityType DEF Numbered
<1>2. Cardinality(Able) # 0
  BY FS_EmptySet DEF Numbered, Able
<1>3. served \in 0..MaxRequests /\ MaxRequests \in Nat
  BY AskAssumption DEF Typed, CountersTyped
<1> QED BY <1>1, <1>2, <1>3 DEF Numbered, NextRun, Runs

\* A request's number is a run's because one is left for it, and its counts are
\* natural because it compacts only what is older.
LEMMA ReqStep == Typed /\ Numbered /\ HasOlder /\ [Next]_vars => ReqTyped'
<1> SUFFICES ASSUME Typed, Numbered, HasOlder, [Next]_vars PROVE ReqTyped'
  OBVIOUS
<1> USE DEF Typed, ReqTyped, At, Goto, Leave
<1>1. ASSUME NEW r \in Handlers, Receive(r) PROVE ReqTyped'
  <2>1. PICK key \in Keys \cup {NoKey}, op \in Operations, hash \in Hashes,
             conv \in Conversations \cup {NoConversation} :
          req' = [req EXCEPT ![r] = [Idle EXCEPT !.pc = "begin", !.op = op, !.key = key,
                                                 !.hash = hash, !.conv = conv]]
    BY <1>1 DEF Receive
  <2>2. [Idle EXCEPT !.pc = "begin", !.op = op, !.key = key, !.hash = hash, !.conv = conv] \in Requests
    BY IdleTyped DEF Requests, PCs
  <2> QED BY <2>1, <2>2
<1>2. ASSUME NEW r \in Handlers, Begin(r) PROVE ReqTyped'
  BY <1>2 DEF Begin, Requests, PCs
<1>3. ASSUME NEW r \in Handlers, GoesOn(r) PROVE ReqTyped'
  <2>1. CASE Prepare(r) \/ CompactFails(r) \/ Generate(r) \/ RecordFails(r)
    BY <2>1 DEF Prepare, CompactFails, Generate, RecordFails, Requests, PCs
  <2>2. CASE ReadMessages(r)
    <3>1. MessagesOf(req[r].conv) \in Nat
      BY <2>2 DEF MessagesOf, Visible, ThreadsTyped
    <3>2. [req[r] EXCEPT !.pc = "summary", !.seen = MessagesOf(req[r].conv)] \in Requests
      BY <3>1 DEF Requests, PCs
    <3>3. req' = [req EXCEPT ![r] = [req[r] EXCEPT !.pc = "summary", !.seen = MessagesOf(req[r].conv)]]
      BY <2>2 DEF ReadMessages
    <3> QED BY <3>2, <3>3
  <2>3. CASE ReadSummary(r)
    <3>1. SummaryOf(req[r].conv) \in Counts
      BY <2>3 DEF SummaryOf, Visible, ThreadsTyped, Counts, NoSummary
    <3>2. ASSUME NEW pc \in PCs
          PROVE  [req[r] EXCEPT !.pc = pc, !.was = SummaryOf(req[r].conv),
                                !.from = SummaryOf(req[r].conv).count] \in Requests
      BY <3>1 DEF Requests, Counts
    <3>3. \E pc \in PCs : req' = [req EXCEPT ![r] =
             [req[r] EXCEPT !.pc = pc, !.was = SummaryOf(req[r].conv), !.from = SummaryOf(req[r].conv).count]]
      BY <2>3 DEF ReadSummary, PCs
    <3> QED BY <3>2, <3>3
  <2>4. CASE Compact(r)
    <3> DEFINE until == CompactUntil(req[r].seen)
               now == Summarize(req[r].was, until)
    <3>1. until \in Nat /\ req[r].was \in Counts /\ req[r].was.count < until
      BY <2>4, AskAssumption DEF Compact, HasOlder, CompactUntil, Requests
    <3>2. now \in Counts
      BY <3>1 DEF Summarize, Counts
    <3>3. req' = [req EXCEPT ![r] = [req[r] EXCEPT !.pc = "generate", !.from = until, !.was = now]]
      BY <2>4 DEF Compact
    <3> HIDE DEF until, now
    <3>4. [req[r] EXCEPT !.pc = "generate", !.from = until, !.was = now] \in Requests
      BY <3>1, <3>2 DEF Requests, PCs
    <3> QED BY <3>3, <3>4
  <2>5. CASE IncrementUsage(r)
    BY <2>5 DEF IncrementUsage, Requests, PCs
  <2>6. CASE EnsureForCommit(r)
    BY <2>6 DEF EnsureForCommit, EnsureConversation, Unused, Requests, PCs
  <2> QED BY <1>3, <2>1, <2>2, <2>3, <2>4, <2>5, <2>6 DEF GoesOn
<1>4. ASSUME NEW r \in Handlers, Record(r) PROVE ReqTyped'
  <2>1. NextRun \in Runs
    BY <1>4, NumberLeft DEF Record
  <2>2. [req[r] EXCEPT !.pc = "complete", !.run = NextRun] \in Requests
    BY <2>1 DEF Requests, PCs
  <2>3. req' = [req EXCEPT ![r] = [req[r] EXCEPT !.pc = "complete", !.run = NextRun]]
    BY <1>4 DEF Record
  <2> QED BY <2>2, <2>3
<1>5. ASSUME NEW r \in Handlers, Ends(r) PROVE ReqTyped'
  BY <1>5, IdleTyped DEF Ends, AnswerConflict, Complete, Abandon, Die
<1>6. ASSUME NEW r \in Handlers, CompleteFails(r) PROVE ReqTyped'
  BY <1>6 DEF CompleteFails, Requests, PCs
<1>7. CASE UNCHANGED req
  BY <1>7
<1> QED BY <1>1, <1>2, <1>3, <1>4, <1>5, <1>6, <1>7, StepCases DEF DeleteConversation, DeleteProject, vars
\* A saved response is a run that the request has recorded.
LEMMA RecordsStep == Typed /\ Completing /\ Protocol /\ [Next]_vars => RecordsTyped'
<1> SUFFICES ASSUME Typed, Completing, Protocol, [Next]_vars PROVE RecordsTyped'
  OBVIOUS
<1> USE DEF Typed, RecordsTyped
<1>1. ASSUME NEW r \in Handlers, Begin(r) PROVE RecordsTyped'
  <2>1. [state |-> "pending", hash |-> req[r].hash] \in Records
    BY DEF Records, Reserved, ReqTyped, Requests
  <2> QED BY <1>1, <2>1 DEF Begin, Reserve
<1>2. ASSUME NEW r \in Handlers, Complete(r) PROVE RecordsTyped'
  <2>1. CASE req[r].started
    <3> DEFINE k == req[r].key
               done == [state |-> "succeeded", hash |-> records[k].hash, response |-> req[r].run]
    <3>1. k \in Keys /\ records[k] \in Records /\ records[k].state = "pending" /\ req[r].run \in Runs
      BY <1>2, <2>1 DEF Complete, SaveResponse, Protocol, Completing, At
    <3>2. records[k].hash \in Hashes
      BY <3>1 DEF Records, Reserved, Done, None
    <3>3. done \in Records
      BY <3>1, <3>2 DEF Records, Done
    <3>4. records' = [records EXCEPT ![k] = done]
      BY <1>2, <2>1 DEF Complete, SaveResponse
    <3> HIDE DEF k, done
    <3> QED BY <3>3, <3>4
  <2> QED BY <1>2, <2>1 DEF Complete
<1>3. ASSUME NEW r \in Handlers, Abandon(r) PROVE RecordsTyped'
  <2>1. None \in Records
    BY DEF Records
  <2> QED BY <1>3, <2>1 DEF Abandon, Release
<1>4. ASSUME NEW r \in Handlers, Receive(r) \/ AnswerConflict(r) \/ CompleteFails(r) \/ Die(r)
      PROVE  RecordsTyped'
  BY <1>4 DEF Receive, AnswerConflict, CompleteFails, Die, tables
<1>5. ASSUME NEW r \in Handlers, GoesOn(r) \/ Record(r) PROVE RecordsTyped'
  BY <1>5, GoingOn, Recording
<1> QED BY <1>1, <1>2, <1>3, <1>4, <1>5, StepCases DEF Ends, DeleteConversation, DeleteProject, vars, tables

LEMMA CountersStep == Typed /\ Protocol /\ [Next]_vars => CountersTyped'
<1> SUFFICES ASSUME Typed, Protocol, [Next]_vars PROVE CountersTyped'
  OBVIOUS
<1> USE DEF Typed, CountersTyped
<1>1. ASSUME NEW r \in Handlers, Receive(r) PROVE CountersTyped'
  BY <1>1, AskAssumption DEF Receive, tables, ghosts
<1>2. ASSUME NEW r \in Handlers, Begin(r) \/ AnswerConflict(r) \/ Complete(r) \/ Abandon(r) \/ Record(r)
      PROVE  CountersTyped'
  BY <1>2 DEF Begin, AnswerConflict, Complete, Abandon, Record, tables, ghosts
<1>3. ASSUME NEW r \in Handlers, GoesOn(r) PROVE CountersTyped'
  <2>1. CASE IncrementUsage(r)
    BY <2>1 DEF IncrementUsage, ReqTyped, Requests, ghosts
  <2> QED BY <1>3, <2>1 DEF GoesOn, Prepare, ReadMessages, ReadSummary, Compact, CompactFails, Generate,
            EnsureForCommit, RecordFails, tables, ghosts
<1>4. ASSUME NEW r \in Handlers, CompleteFails(r) PROVE CountersTyped'
  BY <1>4, AskAssumption DEF CompleteFails, Protocol, tables
<1>5. ASSUME NEW r \in Handlers, Die(r) PROVE CountersTyped'
  BY <1>5, AskAssumption DEF Die, Protocol, tables
<1> QED BY <1>1, <1>2, <1>3, <1>4, <1>5, StepCases DEF Ends, DeleteConversation, DeleteProject, vars, tables, ghosts

LEMMA ThreadsStep == Typed /\ ReqTyped' /\ [Next]_vars => ThreadsTyped'
<1> SUFFICES ASSUME Typed, ReqTyped', [Next]_vars PROVE ThreadsTyped'
  OBVIOUS
<1> USE DEF Typed, ThreadsTyped
<1>1. ASSUME NEW r \in Handlers, GoesOn(r) PROVE ThreadsTyped'
  <2>1. CASE Compact(r)
    BY <2>1 DEF Compact, Visible, ReqTyped, Requests
  <2>2. CASE EnsureForCommit(r)
    BY <2>2 DEF EnsureForCommit, EnsureConversation, Unused
  <2> QED BY <1>1, <2>1, <2>2 DEF GoesOn, Prepare, ReadMessages, ReadSummary, CompactFails, Generate,
            IncrementUsage, RecordFails, tables
<1>2. ASSUME NEW r \in Handlers, Record(r) PROVE ThreadsTyped'
  BY <1>2 DEF Record, RecordRun, RecordQuizRun
<1>3. ASSUME NEW r \in Handlers, Receive(r) \/ Begin(r) \/ CompleteFails(r) \/ Ends(r)
      PROVE  ThreadsTyped'
  BY <1>3, Receiving, Beginning, FailingToComplete, Ending DEF tables
<1>4. ASSUME NEW c \in Conversations, DeleteConversation(c) PROVE ThreadsTyped'
  BY <1>4 DEF DeleteConversation
<1> QED BY <1>1, <1>2, <1>3, <1>4, StepCases DEF DeleteProject, vars, tables

\* The runs change when one is recorded.
LEMMA RunsChange ==
  ASSUME Typed, [Next]_vars
  PROVE  (\E r \in Handlers : Record(r)) \/ UNCHANGED <<runs, madeBy>>
<1>1. ASSUME NEW r \in Handlers, GoesOn(r) PROVE UNCHANGED <<runs, madeBy>>
  BY <1>1, GoingOn
<1>2. ASSUME NEW r \in Handlers, Receive(r) \/ Begin(r) \/ CompleteFails(r) \/ Ends(r)
      PROVE  UNCHANGED <<runs, madeBy>>
  BY <1>2, Receiving, Beginning, FailingToComplete, Ending DEF tables, ghosts
<1> QED BY <1>1, <1>2, StepCases DEF DeleteConversation, DeleteProject, vars, tables, ghosts

\* A recorded run takes a number of the instance.
LEMMA RunsStep == Typed /\ Numbered /\ [Next]_vars => RunsTyped'
<1> SUFFICES ASSUME Typed, Numbered, [Next]_vars PROVE RunsTyped'
  OBVIOUS
<1>1. ASSUME NEW r \in Handlers, Record(r) PROVE RunsTyped'
  <2>1. NextRun \in Runs
    BY <1>1, Recording, NumberLeft
  <2> QED BY <1>1, <2>1, Recording DEF Typed, RunsTyped, ReqTyped, Requests
<1> QED BY <1>1, RunsChange DEF Typed, RunsTyped
-----------------------------------------------------------------------------
(* Numbers and protocol are kept.                                          *)

\* Every number is spent by a request that has been served.
LEMMA NumberedStep == Typed /\ Numbered /\ [Next]_vars => Numbered'
<1> SUFFICES ASSUME Typed, Numbered, [Next]_vars PROVE Numbered'
  OBVIOUS
<1> USE DEF Numbered
<1>1. Cardinality(runs) \in Nat /\ Cardinality(Able) \in Nat /\ served \in Nat
  BY FS_CardinalityType DEF Typed, CountersTyped
<1>2. ASSUME Able' \subseteq Able, UNCHANGED <<runs, served>> PROVE Numbered'
  <2>1. IsFiniteSet(Able') /\ Cardinality(Able') <= Cardinality(Able) /\ Cardinality(Able') \in Nat
    BY <1>2, FS_Subset, FS_CardinalityType
  <2> QED BY <1>1, <1>2, <2>1
<1>3. ASSUME NEW r \in Handlers, Receive(r) PROVE Numbered'
  <2>1. Able' = Able \cup {r}
    BY <1>3, Receiving DEF Able, Alone
  <2>2. IsFiniteSet(Able \cup {r}) /\ Cardinality(Able \cup {r}) \in {Cardinality(Able), Cardinality(Able) + 1}
    BY FS_AddElement, Zenon
  <2>3. runs' = runs /\ served' = served + 1
    BY <1>3 DEF Receive, tables
  <2> QED BY <1>1, <2>1, <2>2, <2>3
<1>4. ASSUME NEW r \in Handlers, Record(r) PROVE Numbered'
  <2>1. r \in Able /\ Able' = Able \ {r}
    BY <1>4, Recording DEF SameRequest, Alone, Able
  <2>2. IsFiniteSet(Able') /\ Cardinality(Able') = Cardinality(Able) - 1
    BY <2>1, FS_RemoveElement
  <2> DEFINE new == [id |-> NextRun, op |-> req[r].op]
  <2>3. new \notin runs
    BY <1>4, Recording, NumberLeft
  <2>4. runs' = runs \cup {new} /\ served' = served
    BY <1>4, Recording
  <2>5. IsFiniteSet(runs') /\ Cardinality(runs') = Cardinality(runs) + 1
    BY <2>3, <2>4, FS_AddElement
  <2>6. \A run \in runs' : run.id \in 1..Cardinality(runs')
    BY <2>4, <2>5, <1>1 DEF NextRun
  <2>7. Cardinality(runs') + Cardinality(Able') <= served'
    BY <1>1, <2>2, <2>4, <2>5
  <2> QED BY <2>2, <2>5, <2>6, <2>7
<1>5. ASSUME NEW r \in Handlers, GoesOn(r) PROVE Numbered'
  <2>1. Able' \subseteq Able
    BY <1>5, GoingOn DEF SameRequest, Alone, Able, Making
  <2> QED BY <2>1, <1>2, <1>5, GoingOn
<1>6. ASSUME NEW r \in Handlers, Begin(r) \/ CompleteFails(r) \/ Ends(r) PROVE Numbered'
  <2>1. Able' \subseteq Able
    <3>1. CASE Begin(r)
      BY <3>1, Beginning DEF SameRequest, Alone, Able
    <3>2. CASE CompleteFails(r)
      BY <3>2, FailingToComplete DEF SameRequest, Alone, Able
    <3>3. CASE Ends(r)
      BY <3>3, Ending DEF Alone, Able
    <3> QED BY <1>6, <3>1, <3>2, <3>3
  <2>2. UNCHANGED <<runs, served>>
    BY <1>6, Beginning, FailingToComplete, Ending DEF tables
  <2> QED BY <1>2, <2>1, <2>2
<1>7. CASE UNCHANGED <<runs, req, served>>
  BY <1>7, <1>2 DEF Able
<1> QED BY <1>3, <1>4, <1>5, <1>6, <1>7, StepCases DEF DeleteConversation, DeleteProject, vars, tables

\* Whoever completes has recorded its run, and no later run takes its number.
LEMMA CompletingStep == Typed /\ Numbered /\ Completing /\ [Next]_vars => Completing'
<1> SUFFICES ASSUME Typed, Numbered, Completing, [Next]_vars PROVE Completing'
  OBVIOUS
<1>1. ASSUME NEW r \in Handlers, Record(r) PROVE Completing'
  <2>1. NextRun \in Runs /\ \A run \in runs : run.id # NextRun
    BY <1>1, Recording, NumberLeft
  <2>2. req'[r].pc = "complete" /\ req'[r].run = NextRun /\ madeBy'[NextRun] = req'[r].key
        /\ [id |-> req'[r].run, op |-> req'[r].op] \in runs'
    BY <1>1, <2>1, Recording DEF SameRequest, Typed, RunsTyped
  <2>3. ASSUME NEW s \in Handlers \ {r}, req'[s].pc = "complete"
        PROVE  /\ req'[s].run \in Runs /\ madeBy'[req'[s].run] = req'[s].key
               /\ [id |-> req'[s].run, op |-> req'[s].op] \in runs'
    <3>1. req'[s] = req[s] /\ runs \subseteq runs'
      BY <1>1, Recording DEF SameRequest, Alone
    <3>2. req[s].run \in Runs /\ madeBy[req[s].run] = req[s].key /\ [id |-> req[s].run, op |-> req[s].op] \in runs
      BY <2>3, <3>1 DEF Completing
    <3>3. req[s].run # NextRun
      BY <3>2, <2>1
    <3> QED BY <1>1, <3>1, <3>2, <3>3, Recording DEF Typed, RunsTyped
  <2> QED BY <2>1, <2>2, <2>3 DEF Completing
<1>2. ASSUME NEW r \in Handlers, Receive(r) \/ Begin(r) \/ CompleteFails(r) \/ Ends(r) PROVE Completing'
  <2>1. UNCHANGED <<runs, madeBy>>
    BY <1>2, Receiving, Beginning, FailingToComplete, Ending DEF tables, ghosts
  <2>2. \A s \in Handlers : req'[s] = req[s] \/ req'[s].pc # "complete"
    <3>1. CASE Receive(r)
      BY <3>1, Receiving DEF Alone
    <3>2. CASE Begin(r)
      BY <3>2, Beginning DEF SameRequest, Alone
    <3>3. CASE CompleteFails(r)
      BY <3>3, FailingToComplete DEF SameRequest, Alone
    <3>4. CASE Ends(r)
      BY <3>4, Ending DEF Alone
    <3> QED BY <1>2, <3>1, <3>2, <3>3, <3>4
  <2> QED BY <2>1, <2>2 DEF Completing
<1>3. ASSUME NEW r \in Handlers, GoesOn(r) PROVE Completing'
  BY <1>3, GoingOn DEF SameRequest, Alone, Making, Completing
<1>4. CASE UNCHANGED <<runs, madeBy, req>>
  BY <1>4 DEF Completing
<1> QED BY <1>1, <1>2, <1>3, <1>4, StepCases DEF DeleteConversation, DeleteProject, vars, tables, ghosts

\* Only a keyed request reserves, and it does before it does anything else.
LEMMA ProtocolStep == Typed /\ Protocol /\ [Next]_vars => Protocol'
<1> SUFFICES ASSUME Typed, Protocol, [Next]_vars PROVE Protocol'
  OBVIOUS
<1> USE DEF Protocol, Working, Making, SameRequest, Alone
<1>1. ASSUME NEW r \in Handlers, Receive(r) PROVE Protocol'
  <2>1. req'[r].pc = "begin" /\ req'[r].started = FALSE /\ Alone(r)
    BY <1>1, Receiving
  <2>2. req'[r].key \in Keys => OpOf[req'[r].key] = req'[r].op
    BY <1>1, Receiving, AskAssumption
  <2> QED BY <2>1, <2>2 DEF Protocol
<1>2. ASSUME NEW r \in Handlers, Begin(r) PROVE Protocol'
  <2>1. req[r].key \in Keys \cup {NoKey} /\ NoKey \notin Keys
    BY AskAssumption DEF Typed, ReqTyped, Requests
  <2> QED BY <1>2, <2>1, Beginning DEF Keyed
<1>3. ASSUME NEW r \in Handlers, Ends(r) PROVE Protocol'
  BY ZenonT(40), <1>3, Ending
<1>4. ASSUME NEW r \in Handlers, CompleteFails(r) PROVE Protocol'
  BY <1>4, FailingToComplete
<1>5. ASSUME NEW r \in Handlers, GoesOn(r) \/ Record(r) PROVE Protocol'
  BY <1>5, GoingOn, Recording
<1>6. CASE UNCHANGED req
  BY <1>6
<1> QED BY <1>1, <1>2, <1>3, <1>4, <1>5, <1>6, StepCases DEF DeleteConversation, DeleteProject, vars
-----------------------------------------------------------------------------
(* Keys: who executes them, and what they replay.                          *)

\* The record of a key that is being executed is pending.
LEMMA ExecutedIsPending ==
  ASSUME OneExecutorPerKey, NEW r \in Handlers, req[r].started
  PROVE  records[req[r].key].state = "pending"
<1>1. records[req[r].key] = [state |-> "pending", hash |-> req[r].hash]
  BY DEF OneExecutorPerKey, Executing
<1> QED BY <1>1

\* The end of a request changes no record but the one it reserved.
LEMMA EndingRecords ==
  ASSUME Typed, Protocol, OneExecutorPerKey, NEW r \in Handlers, Ends(r)
  PROVE  \/ UNCHANGED records /\ (req[r].started => req[r].key \in orphaned')
         \/ /\ req[r].started /\ req[r].pc = "complete" /\ records[req[r].key].state = "pending"
            /\ records' = [records EXCEPT ![req[r].key] =
                             [state |-> "succeeded", hash |-> records[req[r].key].hash,
                              response |-> req[r].run]]
         \/ /\ req[r].started /\ req[r].pc = "failed"
            /\ records' = [records EXCEPT ![req[r].key] = None]
<1>1. CASE AnswerConflict(r)
  BY <1>1 DEF AnswerConflict, tables, At, Protocol, Working, Making
<1>2. CASE Complete(r)
  BY <1>2 DEF Complete, SaveResponse, At
<1>3. CASE Abandon(r)
  BY <1>3 DEF Abandon, Release, At, OneExecutorPerKey, Executing
<1>4. CASE Die(r)
  BY <1>4 DEF Die, tables
<1> QED BY <1>1, <1>2, <1>3, <1>4 DEF Ends

\* The orphaned keys only grow.
LEMMA OrphansStay == ASSUME [Next]_vars PROVE orphaned \subseteq orphaned'
<1>1. ASSUME NEW r \in Handlers, GoesOn(r) PROVE UNCHANGED orphaned
  BY <1>1 DEF GoesOn, Prepare, ReadMessages, ReadSummary, Compact, CompactFails, Generate,
       IncrementUsage, EnsureForCommit, RecordFails, ghosts
<1>2. ASSUME NEW r \in Handlers, Receive(r) \/ Begin(r) \/ Record(r) \/ CompleteFails(r)
      PROVE  UNCHANGED orphaned
  BY <1>2 DEF Receive, Begin, Record, CompleteFails, ghosts
<1>3. ASSUME NEW r \in Handlers, Ends(r) PROVE orphaned \subseteq orphaned'
  BY <1>3 DEF Ends, AnswerConflict, Complete, Abandon, Die, ghosts
<1> QED BY <1>1, <1>2, <1>3, StepCases DEF DeleteConversation, DeleteProject, vars, ghosts

\* A key is reserved only while it has no record, so nobody executes it then.
LEMMA OneExecutorStep == Typed /\ Protocol /\ OneExecutorPerKey /\ [Next]_vars => OneExecutorPerKey'
<1> SUFFICES ASSUME Typed, Protocol, OneExecutorPerKey, [Next]_vars PROVE OneExecutorPerKey'
  OBVIOUS
<1> USE DEF OneExecutorPerKey, Executing
<1>1. ASSUME NEW r \in Handlers, Receive(r) PROVE OneExecutorPerKey'
  <2>1. Alone(r) /\ req'[r].started = FALSE /\ UNCHANGED records
    BY <1>1, Receiving DEF tables
  <2>2. \A s \in Handlers : req'[s].started => req'[s] = req[s]
    BY <2>1 DEF Alone
  <2> QED BY <2>1, <2>2
<1>2. ASSUME NEW r \in Handlers, Begin(r) PROVE OneExecutorPerKey'
  <2>1. CASE UNCHANGED records /\ req'[r].started = req[r].started
    BY <1>2, <2>1, Beginning DEF SameRequest, Alone
  <2>2. CASE Keyed(r) /\ Reserve(req[r].key, req[r].hash)
    <3>1. req[r].key \in Keys
      BY <2>2 DEF Keyed, Typed, ReqTyped, Requests
    <3>2. \A s \in Handlers : req[s].started => req[s].key # req[r].key
      <4>1. records[req[r].key].state = "none"
        BY <2>2 DEF Reserve, None
      <4>2. \A s \in Handlers : req[s].started => records[req[s].key].state = "pending"
        BY ExecutedIsPending
      <4> QED BY <4>1, <4>2
    <3> QED BY <1>2, <2>2, <3>1, <3>2, Beginning DEF SameRequest, Alone, Reserve, Typed, RecordsTyped
  <2> QED BY <1>2, <2>1, <2>2, Beginning
<1>3. ASSUME NEW r \in Handlers, GoesOn(r) \/ Record(r) \/ CompleteFails(r) PROVE OneExecutorPerKey'
  <2>1. SameRequest(r) /\ req'[r].started = req[r].started /\ UNCHANGED records
    BY <1>3, GoingOn, Recording, FailingToComplete DEF tables
  <2> QED BY <2>1 DEF SameRequest, Alone
<1>4. ASSUME NEW r \in Handlers, Ends(r) PROVE OneExecutorPerKey'
  <2>1. Alone(r) /\ req'[r].started = FALSE
    BY <1>4, Ending
  <2>2. ASSUME NEW s \in Handlers, req'[s].started
        PROVE  s # r /\ req'[s] = req[s] /\ records'[req[s].key] = records[req[s].key]
    <3>1. s # r /\ req'[s] = req[s]
      BY <2>1, <2>2 DEF Alone
    <3>2. req[r].started => req[s].key # req[r].key
      BY <2>2, <3>1
    <3>3. req[s].key \in Keys
      BY <2>2, <3>1 DEF Protocol
    <3>4. \/ UNCHANGED records
          \/ req[r].started /\ \E v : records' = [records EXCEPT ![req[r].key] = v]
      BY <1>4, EndingRecords
    <3>5. records'[req[s].key] = records[req[s].key]
      BY <3>2, <3>3, <3>4 DEF Typed, RecordsTyped
    <3> QED BY <3>1, <3>5
  <2> QED BY <2>2
<1>5. CASE UNCHANGED <<records, req>>
  BY <1>5
<1> QED BY <1>1, <1>2, <1>3, <1>4, <1>5, StepCases DEF DeleteConversation, DeleteProject, vars, tables

\* A record stops being pending with its executor, unless that one died.
LEMMA PendingStep ==
  Typed /\ Protocol /\ OneExecutorPerKey /\ PendingHasExecutor /\ [Next]_vars => PendingHasExecutor'
<1> SUFFICES ASSUME Typed, Protocol, OneExecutorPerKey, PendingHasExecutor, [Next]_vars,
                    NEW k \in Keys, records'[k].state = "pending", k \notin orphaned'
             PROVE  \E r \in Handlers : req'[r].started /\ req'[r].key = k
  BY DEF PendingHasExecutor, Executing
<1>0. k \notin orphaned
  BY OrphansStay
<1> USE DEF PendingHasExecutor, Executing
<1>1. ASSUME NEW r \in Handlers, Receive(r) PROVE \E s \in Handlers : req'[s].started /\ req'[s].key = k
  <2>1. ~req[r].started /\ Alone(r) /\ UNCHANGED records
    BY <1>1, Receiving DEF Protocol, Working, Making, tables
  <2> QED BY <1>0, <2>1 DEF Alone
<1>2. ASSUME NEW r \in Handlers, Begin(r) PROVE \E s \in Handlers : req'[s].started /\ req'[s].key = k
  <2>1. CASE UNCHANGED records /\ req'[r].started = req[r].started
    BY <1>0, <1>2, <2>1, Beginning DEF SameRequest, Alone
  <2>2. CASE Keyed(r) /\ req'[r].started /\ Reserve(req[r].key, req[r].hash)
    <3>1. req[r].key \in Keys /\ SameRequest(r) /\ ~req[r].started
      BY <1>2, <2>2, Beginning DEF Keyed, Typed, ReqTyped, Requests, Protocol, Working, Making
    <3>2. CASE k # req[r].key
      <4>1. records'[k] = records[k]
        BY <2>2, <3>2 DEF Reserve, Typed, RecordsTyped
      <4> QED BY <1>0, <3>1, <4>1 DEF SameRequest, Alone
    <3> QED BY <2>2, <3>1, <3>2 DEF SameRequest
  <2> QED BY <1>2, <2>1, <2>2, Beginning
<1>3. ASSUME NEW r \in Handlers, GoesOn(r) \/ Record(r) \/ CompleteFails(r)
      PROVE  \E s \in Handlers : req'[s].started /\ req'[s].key = k
  <2>1. SameRequest(r) /\ req'[r].started = req[r].started /\ UNCHANGED records
    BY <1>3, GoingOn, Recording, FailingToComplete DEF tables
  <2> QED BY <1>0, <2>1 DEF SameRequest, Alone
<1>4. ASSUME NEW r \in Handlers, Ends(r) PROVE \E s \in Handlers : req'[s].started /\ req'[s].key = k
  <2>1. Alone(r)
    BY <1>4, Ending
  <2>2. ~(req[r].started /\ req[r].key = k)
    <3>1. SUFFICES ASSUME req[r].started, req[r].key = k PROVE FALSE
      OBVIOUS
    <3>2. ASSUME NEW v, v.state # "pending", records' = [records EXCEPT ![k] = v] PROVE FALSE
      BY <3>2 DEF Typed, RecordsTyped
    <3>3. None.state # "pending"
      BY DEF None
    <3> QED BY <1>4, <1>0, <3>1, <3>2, <3>3, EndingRecords
  <2>3. records'[k] = records[k]
    BY <1>4, <2>2, EndingRecords DEF Typed, RecordsTyped
  <2> QED BY <1>0, <2>1, <2>2, <2>3 DEF Alone
<1>5. CASE UNCHANGED <<records, req>>
  BY <1>0, <1>5
<1> QED BY <1>1, <1>2, <1>3, <1>4, <1>5, StepCases DEF DeleteConversation, DeleteProject, vars, tables

\* A saved response keeps its run: a new run takes a number of its own.
LEMMA ReplayStep ==
  Typed /\ Numbered /\ Protocol /\ Completing /\ OneExecutorPerKey /\ ReplayIsRecorded /\ [Next]_vars
    => ReplayIsRecorded'
<1> SUFFICES ASSUME Typed, Numbered, Protocol, Completing, OneExecutorPerKey, ReplayIsRecorded, [Next]_vars
             PROVE  ReplayIsRecorded'
  OBVIOUS
<1> USE DEF ReplayIsRecorded
<1>1. ASSUME NEW r \in Handlers, Record(r) PROVE ReplayIsRecorded'
  <2>1. \A run \in runs : run.id # NextRun
    BY <1>1, Recording, NumberLeft
  <2>2. UNCHANGED records /\ runs \subseteq runs' /\ madeBy' = [madeBy EXCEPT ![NextRun] = req[r].key]
    BY <1>1, Recording
  <2>3. ASSUME NEW k \in Keys, records[k].state = "succeeded"
        PROVE  records[k].response \in Runs \ {NextRun}
    <3>1. [id |-> records[k].response, op |-> OpOf[k]] \in runs
      BY <2>3
    <3> QED BY <2>1, <3>1 DEF Typed, RunsTyped
  <2> QED BY <2>2, <2>3 DEF Typed, RunsTyped
<1>2. ASSUME NEW r \in Handlers, Begin(r) PROVE ReplayIsRecorded'
  <2>1. UNCHANGED <<runs, madeBy>>
    BY <1>2, Beginning DEF ghosts
  <2>2. CASE UNCHANGED records
    BY <2>1, <2>2
  <2>3. ASSUME NEW v, v.state = "pending", records' = [records EXCEPT ![req[r].key] = v]
        PROVE  ReplayIsRecorded'
    <3>1. \A k \in Keys : records'[k].state = "succeeded" => records'[k] = records[k]
      BY <2>3 DEF Typed, RecordsTyped
    <3> QED BY <2>1, <3>1
  <2>4. \/ UNCHANGED records
        \/ records' = [records EXCEPT ![req[r].key] = [state |-> "pending", hash |-> req[r].hash]]
    BY <1>2, Beginning DEF Reserve
  <2>5. CASE records' = [records EXCEPT ![req[r].key] = [state |-> "pending", hash |-> req[r].hash]]
    <3>1. [state |-> "pending", hash |-> req[r].hash].state = "pending"
      OBVIOUS
    <3> QED BY <2>3, <2>5, <3>1
  <2> QED BY <2>2, <2>4, <2>5
<1>3. ASSUME NEW r \in Handlers, Ends(r) PROVE ReplayIsRecorded'
  <2>1. UNCHANGED <<runs, madeBy>>
    BY <1>3, Ending
  <2>2. CASE UNCHANGED records
    BY <2>1, <2>2
  <2>3. CASE records' = [records EXCEPT ![req[r].key] = None]
    <3>1. \A k \in Keys : records'[k].state = "succeeded" => records'[k] = records[k]
      BY <2>3 DEF Typed, RecordsTyped, None
    <3> QED BY <2>1, <3>1
  <2>4. ASSUME req[r].started, req[r].pc = "complete",
               records' = [records EXCEPT ![req[r].key] =
                             [state |-> "succeeded", hash |-> records[req[r].key].hash,
                              response |-> req[r].run]]
        PROVE  ReplayIsRecorded'
    <3>1. req[r].key \in Keys /\ OpOf[req[r].key] = req[r].op
      BY <2>4 DEF Protocol
    <3>2. madeBy[req[r].run] = req[r].key /\ [id |-> req[r].run, op |-> req[r].op] \in runs
      BY <2>4 DEF Completing
    <3>3. records'[req[r].key].response = req[r].run
      BY <2>4, <3>1 DEF Typed, RecordsTyped
    <3>4. \A k \in Keys \ {req[r].key} : records'[k] = records[k]
      BY <2>4 DEF Typed, RecordsTyped
    <3> QED BY <2>1, <3>1, <3>2, <3>3, <3>4
  <2> QED BY <1>3, <2>2, <2>3, <2>4, EndingRecords
<1>4. ASSUME NEW r \in Handlers, Receive(r) \/ GoesOn(r) \/ CompleteFails(r) PROVE ReplayIsRecorded'
  BY <1>4, Receiving, GoingOn, FailingToComplete DEF tables, ghosts
<1>5. CASE UNCHANGED <<records, runs, madeBy>>
  BY <1>5
<1> QED BY <1>1, <1>2, <1>3, <1>4, <1>5, StepCases DEF DeleteConversation, DeleteProject, vars, tables, ghosts
-----------------------------------------------------------------------------
(* Reruns: a key's runs exceed the completions refused for it by one only  *)
(* once its run is recorded and its completion has not been refused.       *)

Made(k) == {run \in runs : madeBy[run.id] = k}
Reruns ==
  \A k \in Keys :
    /\ Cardinality(Made(k)) <= 1 + failures[k]
    /\ records[k] = None => Cardinality(Made(k)) <= failures[k]
    /\ \A r \in Handlers : req[r].started /\ req[r].key = k /\ req[r].pc # "complete"
         => Cardinality(Made(k)) <= failures[k]

LEMMA MadeFinite == Numbered => \A k : IsFiniteSet(Made(k)) /\ Cardinality(Made(k)) \in Nat
  BY FS_Subset, FS_CardinalityType DEF Numbered, Made

\* A key without a record has had every run of it refused a completion: a run
\* is made under a reservation, which a completed request never releases.
LEMMA RerunsStep ==
  Typed /\ Numbered /\ Protocol /\ OneExecutorPerKey /\ Reruns /\ [Next]_vars => Reruns'
<1> SUFFICES ASSUME Typed, Numbered, Protocol, OneExecutorPerKey, Reruns, [Next]_vars PROVE Reruns'
  OBVIOUS
<1>0. \A k \in Keys : Cardinality(Made(k)) \in Nat /\ failures[k] \in Nat
  BY MadeFinite DEF Typed, CountersTyped
\* A step that records nothing keeps what has been made for a key.
<1>1. ASSUME UNCHANGED <<runs, madeBy>> PROVE \A k : Made(k)' = Made(k)
  BY <1>1 DEF Made
<1>2. ASSUME NEW r \in Handlers, Receive(r) PROVE Reruns'
  <2>1. UNCHANGED <<records, runs, madeBy, failures>> /\ Alone(r) /\ req'[r].started = FALSE
    BY <1>2, Receiving DEF tables, ghosts
  <2>2. \A s \in Handlers : req'[s].started => req'[s] = req[s]
    BY <2>1 DEF Alone
  <2> QED BY <1>1, <2>1, <2>2 DEF Reruns
<1>3. ASSUME NEW r \in Handlers, Begin(r) PROVE Reruns'
  <2>1. UNCHANGED <<runs, madeBy, failures>> /\ SameRequest(r) /\ req'[r].pc # "complete"
    BY <1>3, Beginning DEF ghosts
  <2>2. CASE UNCHANGED records /\ req'[r].started = req[r].started
    <3>1. req[r].pc # "complete"
      BY <1>3, Beginning
    <3>2. \A s \in Handlers : req'[s].started => req[s].started /\ req'[s].key = req[s].key
                                                 /\ (req'[s].pc # "complete" => req[s].pc # "complete")
      BY <2>1, <2>2, <3>1 DEF SameRequest, Alone
    <3> QED BY <1>1, <2>1, <2>2, <3>2 DEF Reruns
  <2>3. CASE records[req[r].key] = None /\ req[r].key \in Keys
             /\ records' = [records EXCEPT ![req[r].key] = [state |-> "pending", hash |-> req[r].hash]]
    <3>1. Cardinality(Made(req[r].key)) <= failures[req[r].key]
      BY <2>3 DEF Reruns
    <3>2. \A s \in Handlers \ {r} : req'[s] = req[s]
      BY <2>1 DEF SameRequest, Alone
    <3>3. req'[r].key = req[r].key
      BY <2>1 DEF SameRequest
    <3>4. ASSUME NEW k \in Keys, records'[k] = None PROVE records[k] = None
      BY <2>3, <3>4 DEF Typed, RecordsTyped
    <3> QED BY <1>1, <2>1, <3>1, <3>2, <3>3, <3>4 DEF Reruns
  <2> QED BY <1>3, <2>2, <2>3, Beginning DEF Reserve, Keyed, Typed, ReqTyped, Requests
<1>4. ASSUME NEW r \in Handlers, GoesOn(r) PROVE Reruns'
  <2>1. UNCHANGED <<records, runs, madeBy, failures>> /\ SameRequest(r)
        /\ req'[r].started = req[r].started /\ req[r].pc # "complete"
    BY <1>4, GoingOn DEF Making
  <2>2. \A s \in Handlers : req'[s].started => req[s].started /\ req'[s].key = req[s].key
                                               /\ (req'[s].pc # "complete" => req[s].pc # "complete")
    BY <2>1 DEF SameRequest, Alone
  <2> QED BY <1>1, <2>1, <2>2 DEF Reruns
<1>5. ASSUME NEW r \in Handlers, Record(r) PROVE Reruns'
  <2> DEFINE new == [id |-> NextRun, op |-> req[r].op]
  <2>0. PICK k0 : k0 = req[r].key
    OBVIOUS
  <2>1. NextRun \in Runs /\ \A run \in runs : run.id # NextRun
    BY <1>5, Recording, NumberLeft
  <2>2. /\ UNCHANGED <<records, failures>> /\ SameRequest(r) /\ req'[r].started = req[r].started
        /\ req[r].pc = "record" /\ req'[r].pc = "complete"
        /\ runs' = runs \cup {new} /\ madeBy' = [madeBy EXCEPT ![NextRun] = k0]
    BY <1>5, <2>0, Recording
  <2>3. \A run \in runs : madeBy'[run.id] = madeBy[run.id]
    BY <2>1, <2>2 DEF Typed, RunsTyped
  <2>4. madeBy'[NextRun] = k0
    BY <2>1, <2>2 DEF Typed, RunsTyped
  <2>5. ASSUME NEW k \in Keys, k # k0 PROVE Made(k)' = Made(k)
    BY <2>2, <2>3, <2>4, <2>5 DEF Made
  <2>6. \A s \in Handlers \ {r} : req'[s] = req[s]
    BY <2>2 DEF SameRequest, Alone
  <2>7. ASSUME NEW k \in Keys, k # k0
        PROVE  /\ Cardinality(Made(k)') <= 1 + failures'[k]
               /\ records'[k] = None => Cardinality(Made(k)') <= failures'[k]
               /\ \A s \in Handlers : req'[s].started /\ req'[s].key = k /\ req'[s].pc # "complete"
                    => Cardinality(Made(k)') <= failures'[k]
    BY <2>2, <2>5, <2>6, <2>7 DEF Reruns
  <2>8. ASSUME k0 \in Keys
        PROVE  /\ Cardinality(Made(k0)') <= 1 + failures'[k0]
               /\ records'[k0] # None
               /\ \A s \in Handlers : req'[s].started /\ req'[s].key = k0 => req'[s].pc = "complete"
    <3>1. req[r].started
      BY <2>0, <2>2, <2>8, AskAssumption DEF Protocol, Working, Making
    <3>2. Cardinality(Made(k0)) <= failures[k0]
      BY <2>0, <2>2, <2>8, <3>1 DEF Reruns
    <3>3. Made(k0)' = Made(k0) \cup {new}
      <4>1. madeBy'[new.id] = k0
        BY <2>4
      <4> HIDE DEF new
      <4> QED BY <2>2, <2>3, <4>1 DEF Made
    <3>4. Cardinality(Made(k0)') \in {Cardinality(Made(k0)), Cardinality(Made(k0)) + 1}
      <4>1. IsFiniteSet(Made(k0))
        BY MadeFinite
      <4>2. Cardinality(Made(k0) \cup {new}) \in {Cardinality(Made(k0)), Cardinality(Made(k0)) + 1}
        BY <4>1, FS_AddElement, Zenon
      <4> QED BY <3>3, <4>2, Zenon
    <3>5. records[k0] # None
      BY <2>0, <3>1, ExecutedIsPending DEF None
    <3>6. \A s \in Handlers : req[s].started /\ req[s].key = k0 => s = r
      BY <2>0, <3>1 DEF OneExecutorPerKey, Executing
    <3>7. \A s \in Handlers : req'[s].started /\ req'[s].key = k0 => s = r
      BY <2>6, <3>6
    <3> HIDE DEF new
    <3> QED BY <1>0, <2>2, <2>8, <3>2, <3>4, <3>5, <3>7
  <2>9. ASSUME NEW k \in Keys
        PROVE  /\ Cardinality(Made(k)') <= 1 + failures'[k]
               /\ records'[k] = None => Cardinality(Made(k)') <= failures'[k]
               /\ \A s \in Handlers : req'[s].started /\ req'[s].key = k /\ req'[s].pc # "complete"
                    => Cardinality(Made(k)') <= failures'[k]
    <3>1. CASE k # k0
      BY <2>7, <3>1
    <3>2. CASE k = k0
      <4>1. k0 \in Keys
        BY <3>2
      <4> QED BY <2>8, <3>2, <4>1
    <3> QED BY <3>1, <3>2
  <2> QED BY <2>9 DEF Reruns
<1>6. ASSUME NEW r \in Handlers, CompleteFails(r) PROVE Reruns'
  <2>1. /\ UNCHANGED <<records, runs, madeBy>> /\ SameRequest(r) /\ req[r].started
        /\ failures' = [failures EXCEPT ![req[r].key] = @ + 1] /\ req[r].key \in Keys
    BY <1>6, FailingToComplete DEF tables, Protocol
  <2>2. failures'[req[r].key] = failures[req[r].key] + 1
        /\ \A k \in Keys : failures'[k] \in Nat /\ failures'[k] >= failures[k]
    BY <2>1 DEF Typed, CountersTyped
  <2>3. Cardinality(Made(req[r].key)) <= failures'[req[r].key]
    BY <1>0, <2>1, <2>2 DEF Reruns
  <2>4. \A s \in Handlers \ {r} : req'[s] = req[s]
    BY <2>1 DEF SameRequest, Alone
  <2>5. req'[r].key = req[r].key
    BY <2>1 DEF SameRequest
  <2> QED BY <1>0, <1>1, <2>1, <2>2, <2>3, <2>4, <2>5 DEF Reruns
<1>7. ASSUME NEW r \in Handlers, Ends(r) PROVE Reruns'
  <2>1. UNCHANGED <<runs, madeBy, failures>> /\ Alone(r) /\ req'[r].started = FALSE
    BY <1>7, Ending
  <2>2. \A s \in Handlers : req'[s].started => req'[s] = req[s]
    BY <2>1 DEF Alone
  <2>3. ASSUME NEW k \in Keys, records'[k] = None
        PROVE  records[k] = None \/ (req[r].started /\ req[r].key = k /\ req[r].pc # "complete")
    <3>1. CASE UNCHANGED records
      BY <2>3, <3>1
    <3>2. ASSUME NEW v, v.state = "succeeded", records' = [records EXCEPT ![req[r].key] = v]
          PROVE  records[k] = None
      BY <2>3, <3>2 DEF Typed, RecordsTyped, None
    <3>3. CASE req[r].started /\ req[r].pc = "failed" /\ records' = [records EXCEPT ![req[r].key] = None]
      BY <2>3, <3>3 DEF Typed, RecordsTyped
    <3> DEFINE done == [state |-> "succeeded", hash |-> records[req[r].key].hash, response |-> req[r].run]
    <3>4. done.state = "succeeded"
      OBVIOUS
    <3>5. UNCHANGED records \/ records' = [records EXCEPT ![req[r].key] = done]
          \/ (req[r].started /\ req[r].pc = "failed" /\ records' = [records EXCEPT ![req[r].key] = None])
      BY <1>7, EndingRecords
    <3> HIDE DEF done
    <3> QED BY <3>1, <3>2, <3>3, <3>4, <3>5
  <2> QED BY <1>1, <2>1, <2>2, <2>3 DEF Reruns
<1>8. CASE UNCHANGED <<records, runs, madeBy, failures, req>>
  BY <1>1, <1>8 DEF Reruns
<1> QED BY <1>2, <1>3, <1>4, <1>5, <1>6, <1>7, <1>8, StepCases DEF DeleteConversation, DeleteProject, vars, tables, ghosts

LEMMA RerunsBound == Typed /\ Reruns => RerunOnlyAfterRefusal
  BY DEF Reruns, RerunOnlyAfterRefusal, Made
-----------------------------------------------------------------------------
(* The quota: a run is recorded by a handler that has counted it.          *)

\* Handlers that have counted a run and not yet recorded it.
Owing(op) == {r \in Handlers : req[r].pc \in {"commit", "record"} /\ req[r].op = op}
Recorded(op) == {run \in runs : run.op = op}
Paid ==
  \A op \in Operations : /\ Cardinality(Recorded(op)) + Cardinality(Owing(op)) <= usage[op]
                         /\ usage[op] <= Limit[op]

LEMMA PaidFinite ==
  ASSUME Numbered, NEW op
  PROVE  /\ IsFiniteSet(Recorded(op)) /\ Cardinality(Recorded(op)) \in Nat
         /\ IsFiniteSet(Owing(op)) /\ Cardinality(Owing(op)) \in Nat
<1>1. Recorded(op) \subseteq runs /\ Owing(op) \subseteq Able
  BY DEF Recorded, Owing, Able
<1> QED BY <1>1, FS_Subset, FS_CardinalityType DEF Numbered

\* Owing less and recording nothing keeps the account.
LEMMA OwingLess ==
  ASSUME Typed, Numbered, Paid, UNCHANGED <<usage, runs>>,
         \A op \in Operations : Owing(op)' \subseteq Owing(op)
  PROVE  Paid'
<1> SUFFICES ASSUME NEW op \in Operations
             PROVE  Cardinality(Recorded(op)') + Cardinality(Owing(op)') <= usage'[op] /\ usage'[op] <= Limit[op]
  BY DEF Paid
<1>1. Recorded(op)' = Recorded(op)
  BY DEF Recorded
<1>2. Cardinality(Owing(op)') <= Cardinality(Owing(op)) /\ Cardinality(Owing(op)') \in Nat
  BY PaidFinite, FS_Subset, FS_CardinalityType
<1>3. Cardinality(Recorded(op)) \in Nat /\ Cardinality(Owing(op)) \in Nat
  BY PaidFinite
<1>4. usage[op] \in Nat /\ Limit[op] \in Nat
  BY AskAssumption DEF Typed, CountersTyped
<1> QED BY <1>1, <1>2, <1>3, <1>4 DEF Paid

\* A run is recorded by a handler that owes it, and owing is counted first.
LEMMA PaidStep == Typed /\ Numbered /\ Paid /\ [Next]_vars => Paid'
<1> SUFFICES ASSUME Typed, Numbered, Paid, [Next]_vars PROVE Paid'
  OBVIOUS
<1>0. \A op \in Operations : /\ usage[op] \in Nat /\ Limit[op] \in Nat
                             /\ Cardinality(Recorded(op)) \in Nat /\ Cardinality(Owing(op)) \in Nat
  BY PaidFinite, AskAssumption DEF Typed, CountersTyped
<1>1. ASSUME NEW r \in Handlers, GoesOn(r) PROVE Paid'
  <2>1. CASE IncrementUsage(r) /\ usage' # usage
    <3>1. PICK op0 \in Operations : op0 = req[r].op
      BY DEF Typed, ReqTyped, Requests
    <3>2. usage[op0] < Limit[op0] /\ usage' = [usage EXCEPT ![op0] = @ + 1] /\ UNCHANGED runs
      BY <2>1, <3>1 DEF IncrementUsage
    <3>3. \A s \in Handlers : s # r => req'[s] = req[s]
      BY <1>1, GoingOn DEF SameRequest, Alone
    <3>4. req'[r].op = req[r].op
      BY <1>1, GoingOn DEF SameRequest
    <3>5. ASSUME NEW op \in Operations PROVE Recorded(op)' = Recorded(op)
      BY <3>2 DEF Recorded
    <3>6. ASSUME NEW op \in Operations, op # op0
          PROVE  Cardinality(Recorded(op)') + Cardinality(Owing(op)') <= usage'[op] /\ usage'[op] <= Limit[op]
      <4>1. Owing(op)' = Owing(op)
        BY <3>1, <3>3, <3>4, <3>6 DEF Owing
      <4>2. usage'[op] = usage[op]
        BY <3>2, <3>6 DEF Typed, CountersTyped
      <4> QED BY <3>5, <4>1, <4>2 DEF Paid
    <3>7. Cardinality(Recorded(op0)') + Cardinality(Owing(op0)') <= usage'[op0] /\ usage'[op0] <= Limit[op0]
      <4>1. Owing(op0)' \subseteq Owing(op0) \cup {r}
        BY <3>3 DEF Owing
      <4>2. IsFiniteSet(Owing(op0) \cup {r})
            /\ Cardinality(Owing(op0) \cup {r}) \in {Cardinality(Owing(op0)), Cardinality(Owing(op0)) + 1}
        BY PaidFinite, FS_AddElement, Zenon
      <4>3. Cardinality(Owing(op0)') <= Cardinality(Owing(op0) \cup {r}) /\ Cardinality(Owing(op0)') \in Nat
        BY <4>1, <4>2, FS_Subset, FS_CardinalityType
      <4>4. usage'[op0] = usage[op0] + 1
        BY <3>2 DEF Typed, CountersTyped
      <4>5. Cardinality(Recorded(op0)) + Cardinality(Owing(op0)) <= usage[op0]
        BY DEF Paid
      <4>6. Recorded(op0)' = Recorded(op0)
        BY <3>5
      <4>7. Cardinality(Owing(op0)') <= Cardinality(Owing(op0)) + 1
        BY <1>0, <4>2, <4>3
      <4>8. Cardinality(Recorded(op0)') + Cardinality(Owing(op0)') <= usage'[op0]
        BY <1>0, <4>3, <4>4, <4>5, <4>6, <4>7
      <4> QED BY <1>0, <3>2, <4>4, <4>8
    <3> QED BY <3>6, <3>7 DEF Paid
  <2>2. CASE ~(IncrementUsage(r) /\ usage' # usage)
    <3>1. UNCHANGED <<usage, runs>>
      BY <1>1, <2>2 DEF GoesOn, Prepare, ReadMessages, ReadSummary, Compact, CompactFails, Generate,
         IncrementUsage, EnsureForCommit, RecordFails, tables
    <3>2. req'[r].pc \in {"commit", "record"} => req[r].pc \in {"commit", "record"}
      <4>1. CASE IncrementUsage(r)
        <5>1. ~(usage' = [usage EXCEPT ![req[r].op] = @ + 1])
          BY <3>1 DEF Typed, CountersTyped, ReqTyped, Requests
        <5> QED BY <4>1, <5>1 DEF IncrementUsage, Goto, Typed, ReqTyped, Requests
      <4>2. CASE EnsureForCommit(r)
        BY <4>2 DEF EnsureForCommit, At
      <4>3. CASE ~IncrementUsage(r) /\ ~EnsureForCommit(r)
        BY <1>1, <4>3 DEF GoesOn, Prepare, ReadMessages, ReadSummary, Compact, CompactFails, Generate,
           RecordFails, Goto, Typed, ReqTyped, Requests
      <4> QED BY <4>1, <4>2, <4>3
    <3>3. \A op \in Operations : Owing(op)' \subseteq Owing(op)
      BY <1>1, <3>2, GoingOn DEF SameRequest, Alone, Owing
    <3> QED BY <3>1, <3>3, OwingLess
  <2> QED BY <2>1, <2>2
<1>2. ASSUME NEW r \in Handlers, Record(r) PROVE Paid'
  <2> DEFINE new == [id |-> NextRun, op |-> req[r].op]
  <2>1. PICK op0 \in Operations : op0 = req[r].op
    BY DEF Typed, ReqTyped, Requests
  <2>2. PICK added : added = new
    OBVIOUS
  <2>3. /\ Alone(r) /\ req[r].pc = "record" /\ req'[r].pc = "complete" /\ UNCHANGED usage
        /\ runs' = runs \cup {added} /\ added.op = op0
    BY <1>2, <2>1, <2>2, Recording DEF SameRequest
  <2>4. ASSUME NEW op \in Operations, op # op0
        PROVE  Cardinality(Recorded(op)') + Cardinality(Owing(op)') <= usage'[op] /\ usage'[op] <= Limit[op]
    <3>1. Owing(op)' = Owing(op)
      BY <2>1, <2>3, <2>4 DEF Owing, Alone
    <3>2. Recorded(op)' = Recorded(op)
      BY <2>3, <2>4 DEF Recorded
    <3> QED BY <2>3, <3>1, <3>2 DEF Paid
  <2>5. Cardinality(Recorded(op0)') + Cardinality(Owing(op0)') <= usage'[op0] /\ usage'[op0] <= Limit[op0]
    <3>1. r \in Owing(op0) /\ Owing(op0)' = Owing(op0) \ {r}
      BY <2>1, <2>3 DEF Owing, Alone
    <3>2. Cardinality(Owing(op0)') = Cardinality(Owing(op0)) - 1
      BY <3>1, PaidFinite, FS_RemoveElement
    <3>3. Recorded(op0)' = Recorded(op0) \cup {added}
      BY <2>3 DEF Recorded
    <3>4. Cardinality(Recorded(op0) \cup {added}) \in {Cardinality(Recorded(op0)), Cardinality(Recorded(op0)) + 1}
      BY PaidFinite, FS_AddElement, Zenon
    <3>5. Cardinality(Recorded(op0)) + Cardinality(Owing(op0)) <= usage[op0] /\ usage[op0] <= Limit[op0]
      BY DEF Paid
    <3>6. Cardinality(Recorded(op0)') \in {Cardinality(Recorded(op0)), Cardinality(Recorded(op0)) + 1}
      BY <3>3, <3>4, Zenon
    <3> QED BY <1>0, <2>3, <3>2, <3>5, <3>6
  <2> QED BY <2>4, <2>5 DEF Paid
<1>3. ASSUME NEW r \in Handlers, Receive(r) \/ Begin(r) \/ CompleteFails(r) \/ Ends(r) PROVE Paid'
  <2>1. UNCHANGED <<usage, runs>>
    BY <1>3, Receiving, Beginning, FailingToComplete, Ending DEF tables
  <2>2. Alone(r) /\ req'[r].pc \notin {"commit", "record"}
    BY <1>3, Receiving, Beginning, FailingToComplete, Ending DEF SameRequest
  <2>3. \A op \in Operations : Owing(op)' \subseteq Owing(op)
    BY <2>2 DEF Alone, Owing
  <2> QED BY <2>1, <2>3, OwingLess
<1>4. CASE UNCHANGED <<usage, runs, req>>
  BY <1>4, OwingLess DEF Owing
<1> QED BY <1>1, <1>2, <1>3, <1>4, StepCases DEF DeleteConversation, DeleteProject, vars, tables

LEMMA PaidBound == Typed /\ Numbered /\ Paid => RunsAreCounted
<1> SUFFICES ASSUME Typed, Numbered, Paid, NEW op \in Operations
             PROVE  Count(op) <= usage[op] /\ usage[op] <= Limit[op]
  BY DEF RunsAreCounted
<1>1. Cardinality(Recorded(op)) \in Nat /\ Cardinality(Owing(op)) \in Nat
  BY PaidFinite
<1>2. usage[op] \in Nat
  BY DEF Typed, CountersTyped
<1>3. Count(op) = Cardinality(Recorded(op))
  BY DEF Count, Recorded
<1> QED BY <1>1, <1>2, <1>3 DEF Paid
-----------------------------------------------------------------------------
(* Contexts: what a handler has read fits together whatever happened to    *)
(* the conversation since, because messages are only ever added.           *)

Contexts ==
  \A r \in Handlers :
    /\ req[r].was.covers = req[r].was.count /\ req[r].from <= req[r].was.covers
    /\ req[r].pc \in {"messages", "summary", "compact"} => req[r].conv \in Conversations
    /\ req[r].pc \in {"summary", "compact"} => req[r].seen <= messages[req[r].conv]

\* What a handler knows and where it is.
Reading(r) == /\ req[r].was.covers = req[r].was.count /\ req[r].from <= req[r].was.covers
              /\ req[r].pc \in {"messages", "summary", "compact"} => req[r].conv \in Conversations
              /\ req[r].pc \in {"summary", "compact"} => req[r].seen <= messages[req[r].conv]
              /\ req[r].pc = "compact" => req[r].was.count < CompactUntil(req[r].seen)

LEMMA UntilGrows ==
  ASSUME NEW m \in Nat, NEW n \in Nat, m <= n
  PROVE  CompactUntil(m) \in Nat /\ CompactUntil(m) <= CompactUntil(n)
  BY AskAssumption DEF CompactUntil

\* No step takes a message out of a conversation's count.
LEMMA MessagesGrow ==
  ASSUME Typed, [Next]_vars
  PROVE  \A c \in Conversations : messages[c] <= messages'[c]
<1>1. ASSUME NEW r \in Handlers, Record(r) PROVE \A c \in Conversations : messages[c] <= messages'[c]
  BY <1>1 DEF Record, RecordRun, RecordQuizRun, Typed, ThreadsTyped
<1>2. ASSUME NEW r \in Handlers, GoesOn(r) PROVE UNCHANGED messages
  BY <1>2 DEF GoesOn, Prepare, ReadMessages, ReadSummary, Compact, CompactFails, Generate,
     IncrementUsage, EnsureForCommit, RecordFails, tables
<1>3. ASSUME NEW r \in Handlers, Receive(r) \/ Begin(r) \/ CompleteFails(r) \/ Ends(r) PROVE UNCHANGED messages
  BY <1>3, Receiving, Beginning, FailingToComplete, Ending DEF tables
<1>4. CASE UNCHANGED messages
  BY <1>4 DEF Typed, ThreadsTyped
<1> QED BY <1>1, <1>2, <1>3, <1>4, StepCases DEF DeleteConversation, DeleteProject, vars, tables

\* What a compaction makes.
LEMMA Compacted ==
  ASSUME Typed, Contexts, HasOlder, NEW r \in Handlers, req[r].pc = "compact"
  PROVE  LET until == CompactUntil(req[r].seen) IN
         /\ until \in Nat /\ until <= CompactUntil(messages[req[r].conv])
         /\ Summarize(req[r].was, until) = [covers |-> until, count |-> until]
<1>1. /\ req[r].seen \in Nat /\ req[r].was \in Counts /\ req[r].was.covers = req[r].was.count
      /\ req[r].conv \in Conversations /\ req[r].seen <= messages[req[r].conv]
  BY DEF Typed, ReqTyped, Requests, Contexts
<1>2. messages[req[r].conv] \in Nat
  BY <1>1 DEF Typed, ThreadsTyped
<1>3. CompactUntil(req[r].seen) \in Nat /\ CompactUntil(req[r].seen) <= CompactUntil(messages[req[r].conv])
  BY <1>1, <1>2, UntilGrows
<1>4. req[r].was.covers + (CompactUntil(req[r].seen) - req[r].was.count) = CompactUntil(req[r].seen)
  BY <1>1, <1>3 DEF Counts
<1> QED BY <1>3, <1>4 DEF Summarize

\* Whichever handler overwrites the summary, it covers what it counts and stays
\* behind the newest messages: they have only grown since it read them.
LEMMA SummaryStep ==
  Typed /\ ReqTyped' /\ Contexts /\ HasOlder /\ SummaryIsPrefix /\ [Next]_vars => SummaryIsPrefix'
<1> SUFFICES ASSUME Typed, ReqTyped', Contexts, HasOlder, SummaryIsPrefix, [Next]_vars, NEW c \in Conversations
             PROVE  summary'[c].covers = summary'[c].count /\ summary'[c].count <= CompactUntil(messages'[c])
  BY DEF SummaryIsPrefix
<1>1. /\ messages[c] \in Nat /\ messages'[c] \in Nat /\ messages[c] <= messages'[c]
      /\ CompactUntil(messages[c]) <= CompactUntil(messages'[c])
      /\ CompactUntil(messages[c]) \in Nat /\ CompactUntil(messages'[c]) \in Nat
  <2>1. messages' \in [Conversations -> Nat]
    BY ThreadsStep DEF ThreadsTyped
  <2> QED BY <2>1, MessagesGrow, UntilGrows DEF Typed, ThreadsTyped
<1>2. CASE summary'[c] = summary[c]
  <2>1. summary[c].count \in Nat /\ summary[c].count <= CompactUntil(messages[c])
    BY DEF SummaryIsPrefix, Typed, ThreadsTyped, Counts
  <2>2. summary[c].covers = summary[c].count
    BY DEF SummaryIsPrefix
  <2> QED BY <1>1, <1>2, <2>1, <2>2
<1>3. ASSUME NEW r \in Handlers, Compact(r), summary'[c] # summary[c]
      PROVE  summary'[c].covers = summary'[c].count /\ summary'[c].count <= CompactUntil(messages'[c])
  <2> DEFINE until == CompactUntil(req[r].seen)
  <2>1. req[r].pc = "compact" /\ summary'[c] = req'[r].was /\ c = req[r].conv
    BY <1>3 DEF Compact, At, Typed, ThreadsTyped
  <2>2. req'[r].was = Summarize(req[r].was, until)
    BY <1>3 DEF Compact, Typed, ReqTyped, Requests
  <2>3. /\ until \in Nat /\ until <= CompactUntil(messages[c])
        /\ Summarize(req[r].was, until) = [covers |-> until, count |-> until]
    BY <2>1, Compacted
  <2> HIDE DEF until
  <2> QED BY <1>1, <2>1, <2>2, <2>3
<1>4. ASSUME NEW r \in Handlers, GoesOn(r), ~Compact(r) PROVE UNCHANGED summary
  BY <1>4 DEF GoesOn, Prepare, ReadMessages, ReadSummary, CompactFails, Generate,
     IncrementUsage, EnsureForCommit, RecordFails, tables
<1>5. ASSUME NEW r \in Handlers, Receive(r) \/ Begin(r) \/ Record(r) \/ CompleteFails(r) \/ Ends(r)
      PROVE  UNCHANGED summary
  BY <1>5, Receiving, Beginning, Recording, FailingToComplete, Ending DEF tables
<1> QED BY <1>2, <1>3, <1>4, <1>5, StepCases DEF DeleteConversation, DeleteProject, vars, tables

\* What a handler has read stays behind what there is.
LEMMA ContextsStep ==
  Typed /\ ReqTyped' /\ Contexts /\ HasOlder /\ SummaryIsPrefix /\ [Next]_vars => Contexts' /\ HasOlder'
<1> SUFFICES ASSUME Typed, ReqTyped', Contexts, HasOlder, SummaryIsPrefix, [Next]_vars, NEW r \in Handlers
             PROVE  Reading(r)'
  BY DEF Contexts, HasOlder, Reading
<1>0. Reading(r)
  BY DEF Contexts, HasOlder, Reading
<1>1. \A c \in Conversations : messages[c] \in Nat /\ messages'[c] \in Nat /\ messages[c] <= messages'[c]
  BY MessagesGrow, ThreadsStep DEF Typed, ThreadsTyped
<1>2. ASSUME req'[r] = req[r] PROVE Reading(r)'
  <2>2. req[r].seen \in Nat
    BY DEF Typed, ReqTyped, Requests
  <2>3. ASSUME req[r].pc \in {"summary", "compact"} PROVE req[r].seen <= messages'[req[r].conv]
    <3>1. req[r].conv \in Conversations /\ req[r].seen <= messages[req[r].conv]
      BY <1>0, <2>3 DEF Reading
    <3>2. messages'[req[r].conv] \in Nat
      BY <1>1, <3>1
    <3> QED BY <1>1, <2>2, <3>1, <3>2
  <2> QED BY <1>0, <1>2, <2>3 DEF Reading
<1>3. ASSUME NEW s \in Handlers, s # r, Receive(s) \/ Begin(s) \/ GoesOn(s) \/ Record(s) \/ CompleteFails(s) \/ Ends(s)
      PROVE  req'[r] = req[r]
  BY <1>3, Receiving, Beginning, GoingOn, Recording, FailingToComplete, Ending, ZenonT(60) DEF SameRequest, Alone
<1>4. ASSUME Receive(r) PROVE Reading(r)'
  <2>1. req'[r].was = NoSummary /\ req'[r].from = 0 /\ req'[r].pc = "begin"
    <3>1. PICK key, op, hash, conv :
            req' = [req EXCEPT ![r] = [Idle EXCEPT !.pc = "begin", !.op = op, !.key = key,
                                                   !.hash = hash, !.conv = conv]]
      BY <1>4 DEF Receive
    <3>2. req'[r] = [Idle EXCEPT !.pc = "begin", !.op = op, !.key = key, !.hash = hash, !.conv = conv]
      BY <3>1 DEF Typed, ReqTyped
    <3>3. Idle \in Requests
      BY IdleTyped
    <3> QED BY <3>2, <3>3, IdleFields DEF Requests
  <2> QED BY <2>1 DEF Reading, NoSummary
<1>5. ASSUME Ends(r) PROVE Reading(r)'
  <2>1. req'[r] = Idle
    BY <1>5, Ending
  <2>2. req'[r].was = NoSummary /\ req'[r].from = 0 /\ req'[r].pc = "idle"
    BY <2>1, IdleFields
  <2> QED BY <2>2 DEF Reading, NoSummary
\* A step that reads nothing and moves on.
<1>6. ASSUME req'[r].was = req[r].was, req'[r].from = req[r].from,
             req'[r].pc \notin {"messages", "summary", "compact"}
      PROVE  Reading(r)'
  BY <1>0, <1>6 DEF Reading
<1>7. ASSUME Begin(r) \/ Record(r) \/ CompleteFails(r) PROVE Reading(r)'
  <2>1. req'[r].was = req[r].was /\ req'[r].from = req[r].from
    <3>1. CASE Begin(r)
      BY <3>1 DEF Begin, Goto, Typed, ReqTyped, Requests
    <3>2. CASE Record(r)
      BY <3>2 DEF Record, Typed, ReqTyped, Requests
    <3>3. CASE CompleteFails(r)
      BY <3>3 DEF CompleteFails, Goto, Typed, ReqTyped, Requests
    <3> QED BY <1>7, <3>1, <3>2, <3>3
  <2>2. req'[r].pc \notin {"messages", "summary", "compact"}
    BY <1>7, Beginning, Recording, FailingToComplete
  <2> QED BY <1>6, <2>1, <2>2
<1>8. ASSUME GoesOn(r) PROVE Reading(r)'
  <2> USE DEF Typed, ReqTyped, Requests
  <2>1. CASE Prepare(r)
    <3>1. req'[r].was = req[r].was /\ req'[r].from = req[r].from /\ req'[r].conv = req[r].conv
      BY <2>1 DEF Prepare, Goto
    <3>2. req'[r].pc \in {"failed", "generate"} \/ (req'[r].pc = "messages" /\ req[r].conv \in Conversations)
      BY <2>1 DEF Prepare, Goto
    <3> QED BY <1>0, <3>1, <3>2 DEF Reading
  <2>2. CASE ReadMessages(r)
    <3>1. /\ req'[r].was = req[r].was /\ req'[r].from = req[r].from /\ req'[r].conv = req[r].conv
          /\ req'[r].pc = "summary" /\ req'[r].seen = MessagesOf(req[r].conv) /\ UNCHANGED messages
          /\ req[r].pc = "messages"
      BY <2>2 DEF ReadMessages, At, tables
    <3>2. req[r].conv \in Conversations
      BY <1>0, <3>1 DEF Reading
    <3>3. messages[req[r].conv] \in Nat
      BY <1>1, <3>2
    <3>4. MessagesOf(req[r].conv) <= messages[req[r].conv]
      BY <3>3 DEF MessagesOf
    <3> QED BY <1>0, <3>1, <3>2, <3>4 DEF Reading
  <2>3. CASE ReadSummary(r)
    <3> DEFINE was == SummaryOf(req[r].conv)
    <3>1. /\ req'[r].was = was /\ req'[r].from = was.count /\ req'[r].conv = req[r].conv
          /\ req'[r].seen = req[r].seen /\ UNCHANGED messages /\ req[r].pc = "summary"
          /\ req'[r].pc = "generate" \/ (req'[r].pc = "compact" /\ was.count < CompactUntil(req[r].seen))
      BY <2>3 DEF ReadSummary, At, tables
    <3>2. was.covers = was.count /\ was.count \in Nat
      BY DEF SummaryOf, Visible, NoSummary, SummaryIsPrefix, ThreadsTyped, Counts
    <3>3. req[r].conv \in Conversations /\ req[r].seen <= messages[req[r].conv]
      BY <1>0, <3>1 DEF Reading
    <3> HIDE DEF was
    <3> QED BY <3>1, <3>2, <3>3 DEF Reading
  <2>4. CASE Compact(r)
    <3> DEFINE until == CompactUntil(req[r].seen)
    <3>1. /\ req'[r].was = Summarize(req[r].was, until) /\ req'[r].from = until
          /\ req'[r].pc = "generate" /\ req[r].pc = "compact"
      BY <2>4 DEF Compact, At
    <3>2. until \in Nat /\ Summarize(req[r].was, until) = [covers |-> until, count |-> until]
      BY <3>1, Compacted
    <3> HIDE DEF until
    <3> QED BY <3>1, <3>2 DEF Reading
  <2>5. CASE CompactFails(r) \/ Generate(r) \/ IncrementUsage(r) \/ EnsureForCommit(r) \/ RecordFails(r)
    <3>1. /\ req'[r].was = req[r].was /\ req'[r].from = req[r].from
          /\ req'[r].pc \notin {"messages", "summary", "compact"}
      BY <2>5 DEF CompactFails, Generate, IncrementUsage, EnsureForCommit, RecordFails, Goto
    <3> QED BY <1>6, <3>1
  <2> QED BY <1>8, <2>1, <2>2, <2>3, <2>4, <2>5 DEF GoesOn
<1> QED
  <2>1. CASE UNCHANGED req
    BY <1>2, <2>1
  <2>2. CASE \E s \in Handlers : Receive(s) \/ Begin(s) \/ GoesOn(s) \/ Record(s) \/ CompleteFails(s) \/ Ends(s)
    BY <1>2, <1>3, <1>4, <1>5, <1>7, <1>8, <2>2
  <2> QED BY <2>1, <2>2, StepCases DEF DeleteConversation, DeleteProject, vars
-----------------------------------------------------------------------------
(* The inductive invariant and the theorems.                               *)

IInv ==
  /\ Typed /\ Numbered /\ HasOlder /\ Completing /\ Protocol
  /\ OneExecutorPerKey /\ PendingHasExecutor /\ ReplayIsRecorded /\ Reruns
  /\ Paid /\ Contexts /\ SummaryIsPrefix

LEMMA IInvInit == Init => IInv
<1> SUFFICES ASSUME Init PROVE IInv
  OBVIOUS
<1> USE DEF Init
<1>1. Typed
  BY IdleTyped, AskAssumption DEF Typed, ReqTyped, RecordsTyped, CountersTyped, ThreadsTyped, RunsTyped,
     Records, Counts, NoSummary
<1>2. \A r \in Handlers : /\ req[r].pc = "idle" /\ ~req[r].started
                          /\ req[r].was = NoSummary /\ req[r].from = 0
  BY IdleFields
<1>3. Cardinality({}) = 0 /\ IsFiniteSet({})
  BY FS_EmptySet
<1>4. Numbered
  <2>1. Able = {}
    BY <1>2 DEF Able
  <2> QED BY <1>3, <2>1 DEF Numbered
<1>5. HasOlder /\ Completing /\ Protocol /\ OneExecutorPerKey
  BY <1>2 DEF HasOlder, Completing, Protocol, Working, Making, OneExecutorPerKey, Executing
<1>6. PendingHasExecutor /\ ReplayIsRecorded
  BY DEF PendingHasExecutor, ReplayIsRecorded, None
<1>7. Reruns
  <2>1. \A k : Made(k) = {}
    BY DEF Made
  <2> QED BY <1>3, <2>1 DEF Reruns
<1>8. Paid
  <2>1. \A op : Recorded(op) = {} /\ Owing(op) = {}
    BY <1>2 DEF Recorded, Owing
  <2>2. \A op \in Operations : Limit[op] \in Nat
    BY AskAssumption
  <2> QED BY <1>3, <2>1, <2>2 DEF Paid
<1>9. Contexts
  BY <1>2 DEF Contexts, NoSummary
<1>10. SummaryIsPrefix
  <2>1. CompactUntil(0) = 0
    BY AskAssumption DEF CompactUntil
  <2> QED BY <2>1 DEF SummaryIsPrefix, NoSummary
<1> QED BY <1>1, <1>4, <1>5, <1>6, <1>7, <1>8, <1>9, <1>10 DEF IInv

LEMMA IInvNext == IInv /\ [Next]_vars => IInv'
<1> SUFFICES ASSUME IInv, [Next]_vars PROVE IInv'
  OBVIOUS
<1> USE DEF IInv
<1>1. ReqTyped' /\ RecordsTyped' /\ CountersTyped' /\ RunsTyped'
  BY ReqStep, RecordsStep, CountersStep, RunsStep
<1>2. ThreadsTyped'
  BY <1>1, ThreadsStep
<1>3. Typed'
  BY <1>1, <1>2 DEF Typed
<1>4. Numbered' /\ Completing' /\ Protocol'
  BY NumberedStep, CompletingStep, ProtocolStep
<1>5. OneExecutorPerKey' /\ PendingHasExecutor' /\ ReplayIsRecorded' /\ Reruns'
  BY OneExecutorStep, PendingStep, ReplayStep, RerunsStep
<1>6. Paid'
  BY PaidStep
<1>7. Contexts' /\ HasOlder' /\ SummaryIsPrefix'
  BY <1>1, ContextsStep, SummaryStep
<1> QED BY <1>3, <1>4, <1>5, <1>6, <1>7

LEMMA Invariant == Spec => []IInv
  BY IInvInit, IInvNext, PTL DEF Spec

\* Whatever handlers do at the same time, die or are refused: a key has one
\* executor, its pending record has a living one unless it died, what it
\* replays was recorded for it, it is executed again only when a completion
\* was refused, and no run escapes the quota (idempotency.py, api_usage).
THEOREM RequestsAccounted == Spec => []RequestsAreAccounted
<1>1. IInv => RequestsAreAccounted
  BY TypesAgree, RerunsBound, PaidBound DEF IInv, RequestsAreAccounted
<1> QED BY <1>1, Invariant, PTL

\* The saved summary covers the messages its count says and none of the newest,
\* and a context has no gap between it and the verbatim messages, though
\* the two are read in separate transactions (conversation_context.py).
THEOREM ContextWhole == Spec => []ContextIsWhole
<1>1. IInv => ContextIsWhole
  BY DEF IInv, ContextIsWhole, ContextHasNoGap, Contexts
<1> QED BY <1>1, Invariant, PTL
-----------------------------------------------------------------------------
(* The transactions of a request are the calls of the local store.         *)

\* What one step of a request does to the tables is one call, or nothing.
LEMMA PromiseStep == IInv /\ [Next]_vars => [Promise!Next]_(Promise!store)
<1> SUFFICES ASSUME IInv, [Next]_vars, ~(UNCHANGED Promise!store) PROVE Promise!Next
  OBVIOUS
<1> USE DEF IInv
<1>0. ~UNCHANGED tables
  BY DEF tables, Promise!store
<1>1. ASSUME NEW r \in Handlers, Begin(r) PROVE Promise!Next
  <2>1. req[r].key \in Keys \cup {NoKey} /\ req[r].hash \in Hashes
    BY DEF Typed, ReqTyped, Requests
  <2>2. Keyed(r) /\ Reserve(req[r].key, req[r].hash)
    BY <1>0, <1>1 DEF Begin, tables
  <2>3. Promise!BeginOperation(req[r].key, req[r].hash)
    BY <1>1, <2>2 DEF Begin, Reserve, None, Promise!BeginOperation, Promise!None, Promise!Pending
  <2> QED BY <2>1, <2>2, <2>3 DEF Keyed, Promise!Next
<1>2. ASSUME NEW r \in Handlers, GoesOn(r) PROVE Promise!Next
  <2>1. CASE IncrementUsage(r)
    <3>1. req[r].op \in Operations
      BY DEF Typed, ReqTyped, Requests
    <3>2. Promise!IncrementUsage(req[r].op)
      BY <1>0, <2>1 DEF IncrementUsage, Promise!IncrementUsage, tables
    <3> QED BY <3>1, <3>2 DEF Promise!Next
  <2>2. CASE Compact(r)
    <3> DEFINE until == CompactUntil(req[r].seen)
    <3>0. PICK c : c = req[r].conv
      OBVIOUS
    <3>1. req[r].pc = "compact" /\ c \in open /\ summary' = [summary EXCEPT ![c] = req'[r].was]
          /\ UNCHANGED <<records, usage, runs, open, messages>>
      BY <1>0, <2>2, <3>0 DEF Compact, At, Visible, tables
    <3>2. req'[r].was = Summarize(req[r].was, until)
      BY <2>2 DEF Compact, Typed, ReqTyped, Requests
    <3>3. /\ until \in Nat /\ until <= CompactUntil(messages[c])
          /\ Summarize(req[r].was, until) = [covers |-> until, count |-> until]
      BY <3>0, <3>1, Compacted
    <3>4. c \in Conversations /\ messages[c] \in Nat
      BY <3>1 DEF Typed, ThreadsTyped
    <3>5. CompactUntil(messages[c]) <= messages[c] /\ CompactUntil(messages[c]) \in Nat
      BY <3>4, AskAssumption DEF CompactUntil
    <3> HIDE DEF until
    <3>6. until \in 0..messages[c]
      BY <3>3, <3>4, <3>5
    <3>7. Promise!UpdateSummary(c, until, until)
      BY <3>1, <3>2, <3>3 DEF Promise!UpdateSummary
    <3> QED BY <3>4, <3>6, <3>7 DEF Promise!Next
  <2>3. CASE EnsureForCommit(r)
    <3>1. PICK c \in Unused : open' = open \cup {c}
      BY <1>0, <2>3 DEF EnsureForCommit, EnsureConversation, tables
    <3>2. c \in Conversations /\ Promise!CreateConversation(c)
      BY <2>3, <3>1 DEF EnsureForCommit, Unused, Promise!CreateConversation
    <3> QED BY <3>2 DEF Promise!Next
  <2> QED BY <1>0, <1>2, <2>1, <2>2, <2>3 DEF GoesOn, Prepare, ReadMessages, ReadSummary, CompactFails,
            Generate, RecordFails
<1>3. ASSUME NEW r \in Handlers, Record(r) PROVE Promise!Next
  <2>1. NextRun \in Runs /\ \A run \in runs : run.id # NextRun
    BY <1>3, Recording, NumberLeft
  <2>2. CASE req[r].op = "ask"
    <3>1. req[r].conv \in Conversations
      BY <1>3, <2>2 DEF Record, RecordRun, Typed, ThreadsTyped
    <3>2. Promise!RecordRun(NextRun, req[r].conv)
      BY <1>3, <2>1, <2>2 DEF Record, RecordRun, Promise!RecordRun
    <3> QED BY <2>1, <3>1, <3>2 DEF Promise!Next
  <2>3. CASE req[r].op # "ask"
    <3>1. Promise!RecordQuizRun(NextRun)
      BY <1>3, <2>1, <2>3 DEF Record, RecordQuizRun, Promise!RecordQuizRun
    <3> QED BY <2>1, <3>1 DEF Promise!Next
  <2> QED BY <2>2, <2>3
<1>4. ASSUME NEW r \in Handlers, Ends(r) PROVE Promise!Next
  <2>1. CASE Complete(r)
    <3>1. req[r].started /\ SaveResponse(req[r].key, req[r].run)
          /\ UNCHANGED <<usage, runs, open, messages, summary>> /\ req[r].pc = "complete"
      BY <1>0, <2>1 DEF Complete, tables, At
    <3>2. req[r].key \in Keys /\ req[r].run \in Runs
      BY <3>1 DEF Protocol, Completing
    <3>3. Promise!CompleteOperation(req[r].key, req[r].run)
      BY <3>1 DEF SaveResponse, Promise!CompleteOperation, Promise!Succeeded
    <3> QED BY <3>2, <3>3 DEF Promise!Next
  <2>2. CASE Abandon(r)
    <3>1. req[r].started /\ records[req[r].key] = [state |-> "pending", hash |-> req[r].hash]
          /\ records' = [records EXCEPT ![req[r].key] = None]
          /\ UNCHANGED <<usage, runs, open, messages, summary>>
      BY <1>0, <2>2 DEF Abandon, Release, tables
    <3>2. req[r].key \in Keys /\ req[r].hash \in Hashes
      BY <3>1 DEF Protocol, Typed, ReqTyped, Requests
    <3>3. Promise!AbandonOperation(req[r].key, req[r].hash)
      BY <3>1 DEF None, Promise!AbandonOperation, Promise!None, Promise!Pending
    <3> QED BY <3>2, <3>3 DEF Promise!Next
  <2> QED BY <1>0, <1>4, <2>1, <2>2 DEF Ends, AnswerConflict, Die
<1>5. ASSUME NEW c \in Conversations, DeleteConversation(c) PROVE Promise!Next
  <2>1. Promise!DeleteConversation(c)
    BY <1>5 DEF DeleteConversation, Visible, Promise!DeleteConversation
  <2> QED BY <2>1 DEF Promise!Next
<1>6. ASSUME NEW r \in Handlers, Receive(r) \/ CompleteFails(r) PROVE FALSE
  BY <1>0, <1>6 DEF Receive, CompleteFails
<1> QED BY <1>0, <1>1, <1>2, <1>3, <1>4, <1>5, <1>6, StepCases DEF DeleteProject, vars

LEMMA PromiseInit == Init => Promise!Init
  BY DEF Init, Promise!Init, None, NoSummary, Promise!None, Promise!NoSummary

\* However the requests interleave, fail and die, the Postgres repository
\* behaves as the in-memory store whose every method holds the lock
\* (repository.py): each transaction is one of its calls.
THEOREM AskDelivers == Spec => ImplementsLocalStore
<1>1. Spec => Promise!Init
  BY PromiseInit, PTL DEF Spec
<1>2. Spec => [][Promise!Next]_(Promise!store)
  BY Invariant, PromiseStep, PTL DEF Spec
<1> QED BY <1>1, <1>2, PTL DEF ImplementsLocalStore, Promise!Spec
=============================================================================
