----------------------------- MODULE LocalStore ------------------------------
(***************************************************************************)
(* The in-memory repository: what one call of the store does to the        *)
(* idempotency records, the daily usage, the recorded runs and the         *)
(* conversations.  Every method holds the store's lock, so every method is *)
(* one step.  It is the promise that the Postgres repository keeps towards *)
(* the services, which cannot tell the two apart.                          *)
(***************************************************************************)
EXTENDS Naturals

CONSTANTS Keys,            \* (operation, idempotency key) pairs
          Hashes,          \* hashes of request bodies
          Operations,      \* {"ask", "quiz"}
          Limit,           \* Limit[op]: the daily quota
          Conversations,
          Runs             \* identifiers of recorded runs

VARIABLES records,   \* idempotency_records
          usage,     \* api_usage of today
          runs,      \* the recorded runs, with their operation
          open,      \* conversations the user can see
          messages,  \* number of messages of a conversation
          summary    \* [covers, count]: messages the text covers, and the saved count

store == <<records, usage, runs, open, messages, summary>>

None == [state |-> "none"]
Pending(h) == [state |-> "pending", hash |-> h]
Succeeded(h, run) == [state |-> "succeeded", hash |-> h, response |-> run]
NoSummary == [covers |-> 0, count |-> 0]

Init ==
  /\ records = [k \in Keys |-> None]
  /\ usage = [op \in Operations |-> 0]
  /\ runs = {}
  /\ open \in SUBSET Conversations
  /\ messages = [c \in Conversations |-> 0]
  /\ summary = [c \in Conversations |-> NoSummary]

BeginOperation(k, h) ==
  /\ records[k] = None
  /\ records' = [records EXCEPT ![k] = Pending(h)]
  /\ UNCHANGED <<usage, runs, open, messages, summary>>

CompleteOperation(k, run) ==
  /\ records[k].state = "pending"
  /\ records' = [records EXCEPT ![k] = Succeeded(@.hash, run)]
  /\ UNCHANGED <<usage, runs, open, messages, summary>>

AbandonOperation(k, h) ==
  /\ records[k] = Pending(h)
  /\ records' = [records EXCEPT ![k] = None]
  /\ UNCHANGED <<usage, runs, open, messages, summary>>

IncrementUsage(op) ==
  /\ usage[op] < Limit[op]
  /\ usage' = [usage EXCEPT ![op] = @ + 1]
  /\ UNCHANGED <<records, runs, open, messages, summary>>

\* A conversation is made without messages and without a summary.
CreateConversation(c) ==
  /\ c \notin open /\ messages[c] = 0
  /\ open' = open \cup {c}
  /\ UNCHANGED <<records, usage, runs, messages, summary>>

\* The question and its answer enter the conversation with the run.
RecordRun(run, c) ==
  /\ c \in open
  /\ \A r \in runs : r.id # run
  /\ runs' = runs \cup {[id |-> run, op |-> "ask"]}
  /\ messages' = [messages EXCEPT ![c] = @ + 2]
  /\ UNCHANGED <<records, usage, open, summary>>

RecordQuizRun(run) ==
  /\ \A r \in runs : r.id # run
  /\ runs' = runs \cup {[id |-> run, op |-> "quiz"]}
  /\ UNCHANGED <<records, usage, open, messages, summary>>

UpdateSummary(c, covers, count) ==
  /\ c \in open
  /\ summary' = [summary EXCEPT ![c] = [covers |-> covers, count |-> count]]
  /\ UNCHANGED <<records, usage, runs, open, messages>>

\* The conversation leaves the store with its messages; they are kept here
\* because nothing reads them any more.
DeleteConversation(c) ==
  /\ c \in open
  /\ open' = open \ {c}
  /\ UNCHANGED <<records, usage, runs, messages, summary>>

Next ==
  \/ \E k \in Keys, h \in Hashes : BeginOperation(k, h) \/ AbandonOperation(k, h)
  \/ \E k \in Keys, run \in Runs : CompleteOperation(k, run)
  \/ \E op \in Operations : IncrementUsage(op)
  \/ \E c \in Conversations, run \in Runs : RecordRun(run, c)
  \/ \E run \in Runs : RecordQuizRun(run)
  \/ \E c \in Conversations : CreateConversation(c) \/ DeleteConversation(c)
  \/ \E c \in Conversations : \E covers, count \in 0..messages[c] : UpdateSummary(c, covers, count)

Spec == Init /\ [][Next]_store
=============================================================================
