---------------------------- MODULE AskRequests ------------------------------
(***************************************************************************)
(* POST /ask and POST /quiz against the Postgres repository: the           *)
(* idempotency key, the conversation and its rolling summary, the daily    *)
(* quota and the recorded run.  Handlers run in threads of the API; each   *)
(* call of the repository is a transaction of its own, and anything may    *)
(* happen between two of them.  Retrieval and the language model are the   *)
(* step "generate", which succeeds or fails (see Answering).           *)
(***************************************************************************)
EXTENDS Naturals, FiniteSets

CONSTANTS Handlers,       \* request handlers running at the same time
          Keys,           \* Idempotency-Key values, of both operations
          OpOf,           \* OpOf[k]: the operation a key is sent to
          Hashes,         \* request bodies
          Limit,          \* Limit[op]: 200 for "ask", 100 for "quiz"
          Conversations,
          Keep,           \* newest messages that are never summarized (8)
          MaxRequests,    \* bound: requests served
          MaxErrors,      \* bound: database errors and process deaths
          NoKey, NoConversation

Operations == {"ask", "quiz"}
Runs == 1..MaxRequests

ASSUME AskAssumption ==
  /\ MaxRequests \in Nat \ {0} /\ MaxErrors \in Nat /\ Keep \in Nat
  /\ Limit \in [Operations -> Nat] /\ OpOf \in [Keys -> Operations]
  /\ Hashes # {} /\ NoKey \notin Keys /\ NoConversation \notin Conversations

VARIABLES records, usage, runs, open, messages, summary,  \* the tables, as in LocalStore
          active,     \* the project is active
          req,        \* what each handler is doing
          madeBy,     \* madeBy[run]: the key of the request that recorded it
          failures,   \* per key, completions the database refused
          orphaned,   \* keys whose handler died or could not release them
          served, errors

tables == <<records, usage, runs, open, messages, summary>>
ghosts == <<madeBy, failures, orphaned>>
vars == <<tables, active, req, ghosts, served, errors>>

None == [state |-> "none"]
NoSummary == [covers |-> 0, count |-> 0]
Idle == [pc |-> "idle", op |-> "ask", key |-> NoKey, hash |-> CHOOSE h \in Hashes : TRUE,
         started |-> FALSE, conv |-> NoConversation, seen |-> 0,
         was |-> NoSummary, from |-> 0, run |-> 0]

PCs == {"idle", "begin", "conflict", "prepare", "messages", "summary", "compact", "generate",
        "count", "commit", "record", "complete", "failed"}
TypeOK ==
  /\ records \in [Keys -> {None} \cup [state : {"pending"}, hash : Hashes]
                          \cup [state : {"succeeded"}, hash : Hashes, response : Runs]]
  /\ usage \in [Operations -> Nat]
  /\ runs \subseteq [id : Runs, op : Operations]
  /\ open \subseteq Conversations
  /\ messages \in [Conversations -> Nat]
  /\ summary \in [Conversations -> [covers : Nat, count : Nat]]
  /\ active \in BOOLEAN
  /\ req \in [Handlers -> [pc : PCs, op : Operations, key : Keys \cup {NoKey}, hash : Hashes,
                           started : BOOLEAN, conv : Conversations \cup {NoConversation},
                           seen : Nat, was : [covers : Nat, count : Nat], from : Nat,
                           run : Runs \cup {0}]]
  /\ madeBy \in [Runs -> Keys \cup {NoKey}]
  /\ failures \in [Keys -> Nat]
  /\ orphaned \subseteq Keys
  /\ served \in 0..MaxRequests /\ errors \in 0..MaxErrors

Init ==
  /\ records = [k \in Keys |-> None]
  /\ usage = [op \in Operations |-> 0]
  /\ runs = {}
  /\ open \in SUBSET Conversations
  /\ messages = [c \in Conversations |-> 0]
  /\ summary = [c \in Conversations |-> NoSummary]
  /\ active = TRUE
  /\ req = [r \in Handlers |-> Idle]
  /\ madeBy = [run \in Runs |-> NoKey]
  /\ failures = [k \in Keys |-> 0] /\ orphaned = {}
  /\ served = 0 /\ errors = 0

-----------------------------------------------------------------------------
(* Helpers.                                                                *)

At(r, pc) == req[r].pc = pc
Goto(r, pc) == req' = [req EXCEPT ![r].pc = pc]
Leave(r) == req' = [req EXCEPT ![r] = Idle]
Keyed(r) == req[r].key # NoKey
Count(op) == Cardinality({run \in runs : run.op = op})
NextRun == Cardinality(runs) + 1
Visible(c) == active /\ c \in open
\* conversation_messages: none of a conversation that is no longer visible.
MessagesOf(c) == IF Visible(c) THEN messages[c] ELSE 0
\* conversation_summary: none then either.
SummaryOf(c) == IF Visible(c) THEN summary[c] ELSE NoSummary
\* _summarize: the provider adds the messages [was.count, until) to the text.
Summarize(was, until) == [covers |-> was.covers + (until - was.count), count |-> until]
\* Messages older than the newest eight.
CompactUntil(seen) == IF seen > Keep THEN seen - Keep ELSE 0

-----------------------------------------------------------------------------
(* The idempotency protocol of IdempotencyCoordinator.                     *)

\* Identifiers left for new conversations, a bound of the instance.
Unused == {c \in Conversations \ open : messages[c] = 0 /\ \A s \in Handlers : req[s].conv # c}
Creators == {s \in Handlers : ~At(s, "idle") /\ req[s].op = "ask" /\ req[s].conv = NoConversation}

Receive(r) ==
  /\ At(r, "idle") /\ served < MaxRequests
  /\ served' = served + 1
  /\ \E key \in Keys \cup {NoKey}, op \in Operations, hash \in Hashes,
        conv \in Conversations \cup {NoConversation} :
       /\ conv # NoConversation => conv \notin Unused \/ Creators = {}
       /\ key # NoKey => OpOf[key] = op
       /\ op = "quiz" => conv = NoConversation
       /\ op = "ask" /\ conv = NoConversation => Cardinality(Unused) > Cardinality(Creators)
       /\ req' = [req EXCEPT ![r] = [Idle EXCEPT !.pc = "begin", !.op = op, !.key = key,
                                                 !.hash = hash, !.conv = conv]]
  /\ UNCHANGED <<tables, active, ghosts, errors>>

\* A bug variant: the insert overwrites the row it conflicts with.
BeginAnew(r) ==
  LET k == req[r].key IN
  /\ At(r, "begin")
  /\ records' = IF Keyed(r) THEN [records EXCEPT ![k] = [state |-> "pending", hash |-> req[r].hash]]
                ELSE records
  /\ req' = [req EXCEPT ![r].pc = "prepare", ![r].started = Keyed(r)]
  /\ UNCHANGED <<usage, runs, open, messages, summary, active, ghosts, served, errors>>

\* begin_idempotent_operation inserts the pending row of a new key.
Reserve(k, hash) ==
  records[k] = None /\ records' = [records EXCEPT ![k] = [state |-> "pending", hash |-> hash]]
\* A request without a key executes; one with a new key reserves it.
Begin(r) ==
  LET k == req[r].key IN
  /\ At(r, "begin")
  /\ \/ ~Keyed(r) /\ Goto(r, "prepare") /\ UNCHANGED records
     \/ /\ Keyed(r) /\ Reserve(k, req[r].hash)
        /\ req' = [req EXCEPT ![r].pc = "prepare", ![r].started = TRUE]
     \/ Keyed(r) /\ records[k] # None /\ Goto(r, "conflict") /\ UNCHANGED records
  /\ UNCHANGED <<usage, runs, open, messages, summary, active, ghosts, served, errors>>

\* The conflicting row is replayed, or answered with 409: another body, or
\* still in progress.  When it has been abandoned since the insert, the
\* select finds no row and the request fails with 500.
AnswerConflict(r) ==
  /\ At(r, "conflict")
  /\ Leave(r)
  /\ UNCHANGED <<tables, active, ghosts, served, errors>>

\* complete_idempotent_operation saves the response on a pending row only.
SaveResponse(k, run) ==
  /\ records[k].state = "pending"
  /\ records' = [records EXCEPT ![k] = [state |-> "succeeded", hash |-> @.hash, response |-> run]]
Complete(r) ==
  /\ At(r, "complete")
  /\ IF req[r].started THEN SaveResponse(req[r].key, req[r].run) ELSE UNCHANGED records
  /\ Leave(r)
  /\ UNCHANGED <<usage, runs, open, messages, summary, active, ghosts, served, errors>>

\* The database refuses the completion of a request that has been recorded.
CompleteFails(r) ==
  LET k == req[r].key IN
  /\ At(r, "complete") /\ req[r].started
  /\ records[k].state # "pending" \/ errors < MaxErrors
  /\ errors' = IF records[k].state = "pending" THEN errors + 1 ELSE errors
  /\ failures' = [failures EXCEPT ![k] = @ + 1]
  /\ Goto(r, "failed")
  /\ UNCHANGED <<tables, active, madeBy, orphaned, served>>

\* A bug variant: a failed request keeps its reservation.
KeepReservation(r) ==
  /\ At(r, "failed")
  /\ Leave(r)
  /\ UNCHANGED <<tables, active, ghosts, served, errors>>

\* abandon_idempotent_operation deletes the pending row of this body.
Release(k, hash) ==
  records' = IF records[k] = [state |-> "pending", hash |-> hash]
             THEN [records EXCEPT ![k] = None] ELSE records
\* Every failure after begin releases the reservation.
Abandon(r) ==
  /\ At(r, "failed")
  /\ IF req[r].started THEN Release(req[r].key, req[r].hash) ELSE UNCHANGED records
  /\ Leave(r)
  /\ UNCHANGED <<usage, runs, open, messages, summary, active, ghosts, served, errors>>

\* The process dies, or the database refuses the release.
Die(r) ==
  /\ ~At(r, "idle") /\ errors < MaxErrors
  /\ errors' = errors + 1
  /\ orphaned' = IF req[r].started THEN orphaned \cup {req[r].key} ELSE orphaned
  /\ Leave(r)
  /\ UNCHANGED <<tables, active, madeBy, failures, served>>

-----------------------------------------------------------------------------
(* GroundedQueryService.execute and QuizService.create.                    *)

\* ensure_conversation, in the lock of an active project: the conversation
\* that was named, if it is visible, else a new one.
EnsureConversation(c) ==
  IF ~active THEN {} ELSE IF c = NoConversation THEN Unused ELSE {c} \cap open

\* The project is read, then the conversation.
Prepare(r) ==
  LET c == req[r].conv IN
  /\ At(r, "prepare")
  /\ \/ ~active /\ Goto(r, "failed")
     \/ active /\ c = NoConversation /\ Goto(r, "generate")
     \/ active /\ c # NoConversation /\ EnsureConversation(c) = {} /\ Goto(r, "failed")
     \/ active /\ c # NoConversation /\ EnsureConversation(c) # {} /\ Goto(r, "messages")
  /\ UNCHANGED <<tables, active, ghosts, served, errors>>

\* _build_context hands the messages to the context builder.
ReadMessages(r) ==
  /\ At(r, "messages")
  /\ req' = [req EXCEPT ![r].pc = "summary", ![r].seen = MessagesOf(req[r].conv)]
  /\ UNCHANGED <<tables, active, ghosts, served, errors>>

\* ConversationContextBuilder.build reads the summary after the messages.
\* Long enough older messages are summarized; how long is the data's choice.
ReadSummary(r) ==
  LET was == SummaryOf(req[r].conv) IN
  /\ At(r, "summary")
  /\ \/ req' = [req EXCEPT ![r].pc = "generate", ![r].was = was, ![r].from = was.count]
     \/ /\ was.count < CompactUntil(req[r].seen)
        /\ req' = [req EXCEPT ![r].pc = "compact", ![r].was = was, ![r].from = was.count]
  /\ UNCHANGED <<tables, active, ghosts, served, errors>>

\* A bug variant: the saved count takes in the newest messages.
CompactAll(r) ==
  LET c == req[r].conv  was == req[r].was  until == CompactUntil(req[r].seen) IN
  /\ At(r, "compact")
  /\ req' = [req EXCEPT ![r].pc = "generate", ![r].from = req[r].seen,
                        ![r].was = [covers |-> was.covers + (until - was.count), count |-> req[r].seen]]
  /\ summary' = IF Visible(c) THEN [summary EXCEPT ![c] = req'[r].was] ELSE summary
  /\ UNCHANGED <<records, usage, runs, open, messages, active, ghosts, served, errors>>

\* The update names the conversation only, not the summary it started from.
Compact(r) ==
  LET c == req[r].conv  until == CompactUntil(req[r].seen) IN
  /\ At(r, "compact")
  /\ req' = [req EXCEPT ![r].pc = "generate", ![r].from = until,
                        ![r].was = Summarize(req[r].was, until)]
  /\ summary' = IF Visible(c) THEN [summary EXCEPT ![c] = req'[r].was] ELSE summary
  /\ UNCHANGED <<records, usage, runs, open, messages, active, ghosts, served, errors>>

\* ProviderRequestError: the context is degraded, not the request.
CompactFails(r) ==
  /\ At(r, "compact")
  /\ Goto(r, "generate")
  /\ UNCHANGED <<tables, active, ghosts, served, errors>>

Generate(r) ==
  /\ At(r, "generate")
  /\ Goto(r, "count") \/ Goto(r, "failed")
  /\ UNCHANGED <<tables, active, ghosts, served, errors>>

\* Quota counts successful generation only.
IncrementUsage(r) ==
  LET op == req[r].op IN
  /\ At(r, "count")
  /\ \/ usage[op] < Limit[op] /\ usage' = [usage EXCEPT ![op] = @ + 1] /\ Goto(r, "commit")
     \/ usage[op] >= Limit[op] /\ Goto(r, "failed") /\ UNCHANGED usage
  /\ UNCHANGED <<records, runs, open, messages, summary, active, ghosts, served, errors>>

\* ensure_for_commit creates the conversation that the request did not name.
EnsureForCommit(r) ==
  /\ At(r, "commit")
  /\ IF req[r].op = "quiz" \/ req[r].conv # NoConversation
     THEN Goto(r, "record") /\ UNCHANGED open
     ELSE \/ EnsureConversation(NoConversation) = {} /\ Goto(r, "failed") /\ UNCHANGED open
          \/ \E c \in EnsureConversation(NoConversation) :
               /\ open' = open \cup {c}
               /\ req' = [req EXCEPT ![r].pc = "record", ![r].conv = c]
  /\ UNCHANGED <<records, usage, runs, messages, summary, active, ghosts, served, errors>>

\* A bug variant: record_run does not look at the conversation again.
RecordBlindly(r) ==
  LET c == req[r].conv  id == NextRun IN
  /\ At(r, "record")
  /\ runs' = runs \cup {[id |-> id, op |-> req[r].op]}
  /\ messages' = IF c = NoConversation THEN messages ELSE [messages EXCEPT ![c] = @ + 2]
  /\ madeBy' = [madeBy EXCEPT ![id] = req[r].key]
  /\ req' = [req EXCEPT ![r].pc = "complete", ![r].run = id]
  /\ UNCHANGED <<records, usage, open, summary, active, failures, orphaned, served, errors>>

\* record_run: the run, the question and its answer in one transaction.
RecordRun(id, c) ==
  /\ c \in open
  /\ runs' = runs \cup {[id |-> id, op |-> "ask"]}
  /\ messages' = [messages EXCEPT ![c] = @ + 2]
\* record_quiz_run: the run and its quiz set in one transaction.
RecordQuizRun(id) ==
  runs' = runs \cup {[id |-> id, op |-> "quiz"]} /\ UNCHANGED messages
Record(r) ==
  LET id == NextRun IN
  /\ At(r, "record") /\ active
  /\ IF req[r].op = "ask" THEN RecordRun(id, req[r].conv) ELSE RecordQuizRun(id)
  /\ madeBy' = [madeBy EXCEPT ![id] = req[r].key]
  /\ req' = [req EXCEPT ![r].pc = "complete", ![r].run = id]
  /\ UNCHANGED <<records, usage, open, summary, active, failures, orphaned, served, errors>>

\* The project or the conversation is gone, or a cited chunk has been
\* replaced since it was retrieved (citations.chunk_id is a foreign key).
RecordFails(r) ==
  /\ At(r, "record")
  /\ Goto(r, "failed")
  /\ UNCHANGED <<tables, active, ghosts, served, errors>>

DeleteConversation(c) ==
  /\ Visible(c)
  /\ open' = open \ {c}
  /\ UNCHANGED <<records, usage, runs, messages, summary, active, req, ghosts, served, errors>>

DeleteProject ==
  /\ active
  /\ active' = FALSE
  /\ UNCHANGED <<tables, req, ghosts, served, errors>>

-----------------------------------------------------------------------------
Handle(r) == \/ Begin(r) \/ AnswerConflict(r) \/ Prepare(r) \/ ReadMessages(r) \/ ReadSummary(r)
             \/ Compact(r) \/ CompactFails(r) \/ Generate(r) \/ IncrementUsage(r)
             \/ EnsureForCommit(r) \/ Record(r) \/ RecordFails(r)
             \/ Complete(r) \/ CompleteFails(r) \/ Abandon(r)
Next == \/ \E r \in Handlers : Receive(r) \/ Handle(r) \/ Die(r)
        \/ \E c \in Conversations : DeleteConversation(c)
        \/ DeleteProject

Spec == Init /\ [][Next]_vars
FairSpec == Spec /\ \A r \in Handlers : WF_vars(Handle(r))

-----------------------------------------------------------------------------
(* Properties.                                                             *)

Executing(r) == req[r].started

\* A key is executed by one handler at a time, and while it is, its record
\* is pending for that handler's body (idempotency.py:71, "the sole executor").
OneExecutorPerKey ==
  /\ \A r, s \in Handlers : Executing(r) /\ Executing(s) /\ req[r].key = req[s].key => r = s
  /\ \A r \in Handlers : Executing(r) => records[req[r].key] = [state |-> "pending", hash |-> req[r].hash]

\* A key's run is recorded once, and once more for each completion that the
\* database refused: nothing else makes a client's retry execute again.
RerunOnlyAfterRefusal ==
  \A k \in Keys : Cardinality({run \in runs : madeBy[run.id] = k}) <= 1 + failures[k]

\* What a key replays is a run that was recorded for it, of its operation.
ReplayIsRecorded ==
  \A k \in Keys : records[k].state = "succeeded" =>
    madeBy[records[k].response] = k /\ [id |-> records[k].response, op |-> OpOf[k]] \in runs

\* A pending record has a handler that will complete or release it, unless
\* that handler died.
PendingHasExecutor ==
  \A k \in Keys : records[k].state = "pending" =>
    k \in orphaned \/ \E r \in Handlers : Executing(r) /\ req[r].key = k

\* Every recorded run has been counted, and the count respects the quota,
\* however many handlers race for the last place.
RunsAreCounted == \A op \in Operations : Count(op) <= usage[op] /\ usage[op] <= Limit[op]

\* Keys, records, runs and usage account for each other.
RequestsAreAccounted ==
  /\ TypeOK /\ OneExecutorPerKey /\ RerunOnlyAfterRefusal
  /\ ReplayIsRecorded /\ PendingHasExecutor /\ RunsAreCounted

\* The summary of a conversation covers exactly the messages its count
\* says, and never one of the newest, whichever handlers overwrite it.
SummaryIsPrefix ==
  \A c \in Conversations : summary[c].covers = summary[c].count
                           /\ summary[c].count <= CompactUntil(messages[c])

\* Between the summary and the verbatim messages of a context no message of
\* the conversation is missing, though they were read at different times.
ContextHasNoGap ==
  \A r \in Handlers : req[r].pc \in {"generate", "count"} => req[r].from <= req[r].was.covers

\* The summary and the messages a context is made of fit together.
ContextIsWhole == SummaryIsPrefix /\ ContextHasNoGap

\* Each transaction is one call of the store's promise, and what happens
\* between transactions is invisible to it: among others, a saved response is
\* never replaced, and a deleted conversation never gets another message
\* although the handler saw it before it asked the model.
Promise == INSTANCE LocalStore
ImplementsLocalStore == Promise!Spec

\* A reservation is completed or released, if its handler lives.
KeysAreFreed == \A k \in Keys : records[k].state = "pending" ~> (records[k].state # "pending" \/ k \in orphaned)
=============================================================================
