--------------------------- MODULE ChatWorkspace ---------------------------
(***************************************************************************)
(* The chat of the web client: the hook useChatWorkspace in one browser     *)
(* tab, with the part of the API it talks to.                               *)
(*                                                                         *)
(* The tab shows one thread of messages.  The route names a conversation,   *)
(* asks for a new one, or leaves the choice to the latest conversation;     *)
(* every change of the route starts a load of the history.  A question is   *)
(* shown before it is answered and taken back when the request fails.  The  *)
(* user may navigate, upload and ask while requests are under way, the      *)
(* responses come in any order, and a connection may break before or after  *)
(* the server has acted.                                                    *)
(*                                                                         *)
(* Chosen files are uploaded one by one to a conversation, which is created *)
(* for them if none is shown: the personal chat; the files of a project go  *)
(* to no conversation.  The list of attachments and its polling, quizzes,   *)
(* ratings, notices and the demo mode are left out.  A prompt stands for    *)
(* the trimmed text with the web switch; the user has any in the composer   *)
(* at a submit, so the draft a failure puts back is not a variable.         *)
(***************************************************************************)
EXTENDS Naturals, Sequences, FiniteSets, SequencesExt, Filtering

CONSTANTS Conversations,   \* conversations the server has or may create
          NoConversation,  \* null
          Prompts,         \* what the user may type
          MaxAsks,         \* bound: questions submitted
          MaxMoves,        \* bound: links followed and new chats started
          NumFiles         \* bound: files chosen together, once

ASSUME Values == /\ NoConversation \notin Conversations
                 /\ MaxAsks \in Nat /\ MaxMoves \in Nat /\ NumFiles \in Nat

Keys == 1 .. MaxAsks
Old == 0                   \* the exchange a conversation starts with
Routes == Conversations \cup {"latest", "new"}

VARIABLES
  project,       \* "starting", "known" or "failed": the result of the bootstrap
  route,         \* the conversation of the URL, "new" or "latest"
  wanted,        \* the navigation under way, or "none"
  generation,    \* loadGeneration
  loads,         \* history requests of all generations that have not returned
  conversation,  \* conversationId
  thread,        \* messages
  loading,       \* historyLoading
  ask,           \* the request of submitQuestion under way, or NoAsk
  intent,        \* askIntent, or NoIntent
  upload,        \* the call of uploadFiles under way, or what it came to
  recent,        \* the server's conversations, the latest first
  stored,        \* the server's exchanges of each conversation
  runs,          \* the conversation that holds the server's answer to each key
  attached,      \* the conversation of each file the server has, in their order
  submits,       \* history: every submit, with its key and how it ended
  moves          \* links followed and new chats started so far

tabVars == <<project, route, wanted, generation, loads, conversation, thread,
             loading, ask, intent, upload, submits, moves>>
serverVars == <<recent, stored, runs, attached>>
chatVars == <<tabVars, serverVars>>

NoAsk == [key |-> 0]
NoIntent == [key |-> 0]
NoUpload == [step |-> "none", chosen |-> NoConversation, conv |-> NoConversation]
Existing == ToSet(recent)

Message(c, role, key, temporary) ==
  [conv |-> c, role |-> role, ask |-> key, temporary |-> temporary]

\* The messages of conversation c as the server returns them.
History(c) ==
  [i \in 1 .. 2 * Len(stored[c]) |->
     Message(c, IF i % 2 = 1 THEN "user" ELSE "assistant", stored[c][(i + 1) \div 2], FALSE)]

\* A request for the history of route r, or for the latest conversation first.
NewLoad(g, r) ==
  [generation |-> g, asked |-> r, served |-> FALSE, reply |-> << >>,
   selected |-> IF r \in Conversations THEN r ELSE NoConversation]

ChatInit ==
  /\ project \in {"starting", "known"}
  /\ route = "latest" /\ wanted = "none"
  /\ generation = IF project = "known" THEN 1 ELSE 0
  /\ loads = IF project = "known" THEN {NewLoad(1, "latest")} ELSE {}
  /\ conversation = NoConversation
  /\ thread = << >>
  /\ loading = TRUE
  /\ ask = NoAsk /\ intent = NoIntent /\ upload = NoUpload
  /\ recent \in {<< >>} \cup {<<c>> : c \in Conversations}
  /\ stored = [c \in Conversations |-> IF c \in ToSet(recent) THEN <<Old>> ELSE << >>]
  /\ runs = [k \in Keys |-> NoConversation]
  /\ attached = << >>
  /\ submits = << >>
  /\ moves = 0

-----------------------------------------------------------------------------
(* Loading the history of the route.                                        *)

\* The effect of a new route r: the cleanup makes every earlier load stale
\* (the two increments of the generation count as one), the thread is emptied,
\* and a load starts.  A named conversation is selected at once, a new chat
\* needs no request, otherwise the list of conversations is asked for first.
StartLoad(r) ==
  /\ generation' = generation + 1
  /\ thread' = << >>
  /\ loading' = (r # "new")
  /\ conversation' = CASE r \in Conversations -> r
                       [] r = "new" -> NoConversation
                       [] OTHER -> conversation
  /\ loads' = IF r = "new" THEN loads ELSE loads \cup {NewLoad(generation + 1, r)}

\* The bootstrap finds the personal project; a supplied project is known at once.
Bootstrap ==
  /\ project = "starting"
  /\ project' = "known"
  /\ StartLoad(route)
  /\ UNCHANGED <<route, wanted, ask, intent, upload, submits, moves, serverVars>>

BootstrapFails ==
  /\ project = "starting"
  /\ project' = "failed" /\ loading' = FALSE
  /\ UNCHANGED <<route, wanted, generation, loads, conversation, thread, ask, intent,
                 upload, submits, moves, serverVars>>

\* The server answers the request a load waits for: the latest conversation, or
\* the messages of the one it selected.
ServeLoad(l) ==
  /\ ~l.served
  /\ l.selected \in Existing \cup {NoConversation}
  /\ loads' = (loads \ {l}) \cup
       {[l EXCEPT !.served = TRUE,
                  !.reply = IF l.selected # NoConversation THEN History(l.selected) ELSE recent]}
  /\ UNCHANGED <<project, route, wanted, generation, conversation, thread, loading, ask,
                 intent, upload, submits, moves, serverVars>>

\* A bug variant: the response of an earlier route is applied as well.
AlwaysCurrent(l) == TRUE

IsCurrent(l) == l.generation = generation

\* The list of conversations returns: the load goes on to the messages of the
\* first one, or ends if there is none.
ListReturns(l) ==
  /\ l.selected = NoConversation /\ l.served
  /\ IF ~IsCurrent(l)
     THEN loads' = loads \ {l} /\ UNCHANGED <<conversation, loading>>
     ELSE /\ conversation' = IF l.reply = << >> THEN NoConversation ELSE Head(l.reply)
          /\ loading' = (l.reply # << >>)
          /\ loads' = (loads \ {l}) \cup
               {[l EXCEPT !.selected = l.reply[i], !.served = FALSE, !.reply = << >>] :
                  i \in DOMAIN l.reply \cap {1}}
  /\ UNCHANGED <<project, route, wanted, generation, thread, ask, intent, upload, submits, moves,
                 serverVars>>

\* The messages return: they replace the thread, and the route names their
\* conversation from now on.
HistoryReturns(l) ==
  /\ l.selected # NoConversation /\ l.served
  /\ loads' = loads \ {l}
  /\ IF ~IsCurrent(l)
     THEN UNCHANGED <<thread, loading, wanted>>
     ELSE /\ thread' = l.reply
          /\ loading' = FALSE
          /\ wanted' = IF l.asked = "latest" THEN l.selected ELSE wanted
  /\ UNCHANGED <<project, route, generation, conversation, ask, intent, upload, submits, moves,
                 serverVars>>

\* A bug variant: the end of a load that failed is not recorded.
LoadFailsSilently(l) ==
  /\ loads' = loads \ {l}
  /\ UNCHANGED <<project, route, wanted, generation, conversation, thread, loading, ask,
                 intent, upload, submits, moves, serverVars>>

\* The request fails, or its conversation does not exist.
LoadFails(l) ==
  /\ loads' = loads \ {l}
  /\ loading' = (loading /\ ~IsCurrent(l))
  /\ UNCHANGED <<project, route, wanted, generation, conversation, thread, ask, intent,
                 upload, submits, moves, serverVars>>

-----------------------------------------------------------------------------
(* Navigation.  The router changes the URL some time after it is told to;   *)
(* the last request wins, and the URL it already shows changes nothing.     *)

\* The user follows a link to conversation r, to a new chat or to the chat.
Navigate(r) ==
  /\ moves < MaxMoves
  /\ moves' = moves + 1
  /\ r # route \/ wanted # "none"
  /\ r \in Existing \cup {"new", "latest"}
  /\ wanted' = r
  /\ UNCHANGED <<project, route, generation, loads, conversation, thread, loading, ask,
                 intent, upload, submits, serverVars>>

RouteChanges ==
  /\ wanted # "none"
  /\ wanted' = "none"
  /\ route' = wanted
  /\ IF wanted = route \/ project # "known"
     THEN UNCHANGED <<generation, loads, conversation, thread, loading>>
     ELSE StartLoad(wanted)
  /\ UNCHANGED <<project, ask, intent, upload, submits, moves, serverVars>>

\* startNewProjectChat: the state is reset at once, the route follows.
StartNewProjectChat ==
  /\ moves < MaxMoves
  /\ moves' = moves + 1
  /\ conversation' = NoConversation /\ thread' = << >>
  /\ wanted' = "new"
  /\ UNCHANGED <<project, route, generation, loads, loading, ask, intent, upload, submits,
                 serverVars>>

-----------------------------------------------------------------------------
(* Asking.                                                                   *)

Fingerprint(p) == [conv |-> conversation, prompt |-> p]

\* A bug variant: every submit takes a fresh key.
FreshIntent(fingerprint) == [fingerprint |-> fingerprint, key |-> Len(submits) + 1]

\* The key of an unchanged intent that has not succeeded, or a fresh one.
ResolveIntentKey(fingerprint) ==
  IF intent # NoIntent /\ intent.fingerprint = fingerprint THEN intent
  ELSE [fingerprint |-> fingerprint, key |-> Len(submits) + 1]

\* submitQuestion up to its request: the question is shown before it is answered.
SubmitQuestion(p) ==
  /\ project = "known" /\ ask = NoAsk /\ ~loading
  /\ Len(submits) < MaxAsks
  /\ LET resolved == ResolveIntentKey(Fingerprint(p)) IN
     /\ intent' = resolved
     /\ ask' = [key |-> resolved.key]
     /\ thread' = Append(thread, Message(conversation, "user", resolved.key, TRUE))
     /\ submits' = Append(submits, [fingerprint |-> Fingerprint(p), key |-> resolved.key,
                                    end |-> "open"])
  /\ UNCHANGED <<project, route, wanted, generation, loads, conversation, loading, upload, moves,
                 serverVars>>

\* The server has run key k, once for all requests with that key, and the exchange
\* is stored, in a conversation of its own if none was named.  A run may end after
\* the client has given up; what the API answers meanwhile, and a run that fails,
\* are failures of the request.
Run(k) ==
  /\ runs[k] = NoConversation
  /\ \E i \in DOMAIN submits :
       /\ submits[i].key = k
       /\ \E c \in IF submits[i].fingerprint.conv # NoConversation
                   THEN {submits[i].fingerprint.conv} ELSE Conversations \ Existing :
            /\ recent' = <<c>> \o Keep(recent, Existing \ {c})
            /\ stored' = [stored EXCEPT ![c] = Append(@, k)]
            /\ runs' = [runs EXCEPT ![k] = c]
  /\ UNCHANGED <<tabVars, attached>>

IsQuestion(m, key) == m.temporary /\ m.role = "user" /\ m.ask = key

Closed(end) == [submits EXCEPT ![Len(submits)].end = end]

ClearCompletedIntent(key) == IF intent.key = key THEN NoIntent ELSE intent

\* The question gets its conversation and the answer is added.
ThreadWithAnswer(c) ==
  Append([i \in DOMAIN thread |->
            IF IsQuestion(thread[i], ask.key) THEN [thread[i] EXCEPT !.conv = c] ELSE thread[i]],
         Message(c, "assistant", ask.key, TRUE))

\* submitQuestion gets its answer, whatever conversation is shown by now.
AnswerArrives ==
  /\ ask # NoAsk /\ runs[ask.key] # NoConversation
  /\ conversation' = runs[ask.key]
  /\ intent' = ClearCompletedIntent(ask.key)
  /\ thread' = ThreadWithAnswer(runs[ask.key])
  /\ submits' = Closed("answered")
  /\ wanted' = runs[ask.key]
  /\ ask' = NoAsk
  /\ UNCHANGED <<project, route, generation, loads, loading, upload, moves, serverVars>>

\* The thread without the question of the request that failed.
ThreadTakenBack == Keep(thread, {m \in ToSet(thread) : ~IsQuestion(m, ask.key)})

\* submitQuestion fails: an error response, or a connection that broke at any
\* moment.  The question is taken back.
AskFails ==
  /\ ask # NoAsk
  /\ thread' = ThreadTakenBack
  /\ submits' = Closed("failed")
  /\ ask' = NoAsk
  /\ UNCHANGED <<project, route, wanted, generation, loads, conversation, loading, intent, upload,
                 moves, serverVars>>

-----------------------------------------------------------------------------
(* Uploading.                                                                *)

\* uploadFiles starts: the files go to the conversation shown now, and one is
\* created for them if there is none.
ChooseFiles ==
  /\ upload = NoUpload /\ NumFiles > 0 /\ project = "known"
  /\ upload' = [step |-> IF conversation = NoConversation THEN "creating" ELSE "sending",
                chosen |-> conversation, conv |-> conversation]
  /\ UNCHANGED <<project, route, wanted, generation, loads, conversation, thread, loading,
                 ask, intent, submits, moves, serverVars>>

\* ensureConversation: the server creates a conversation and the tab moves to it.
EnsureConversation ==
  /\ upload.step = "creating"
  /\ \E c \in Conversations \ Existing :
       /\ recent' = <<c>> \o recent
       /\ conversation' = c /\ wanted' = c
       /\ upload' = [upload EXCEPT !.step = "sending", !.conv = c]
  /\ UNCHANGED <<project, route, generation, loads, thread, loading, ask, intent, submits,
                 moves, stored, runs, attached>>

\* activeConversationId, read once before the first file.
ActiveConversation == upload.conv

\* One file is reserved, uploaded and completed; the last one ends the call.
UploadFile ==
  /\ upload.step = "sending"
  /\ attached' = Append(attached, ActiveConversation)
  /\ upload' = IF Len(attached') = NumFiles THEN [upload EXCEPT !.step = "ended"] ELSE upload
  /\ UNCHANGED <<project, route, wanted, generation, loads, conversation, thread, loading,
                 ask, intent, submits, moves, recent, stored, runs>>

\* A request fails, and the files that are left are not sent.  If only the
\* response of ensureConversation is lost, its conversation exists.
UploadFails ==
  /\ upload.step \in {"creating", "sending"}
  /\ upload' = [upload EXCEPT !.step = "ended"]
  /\ recent' \in {recent} \cup {<<c>> \o recent : c \in IF upload.step = "creating"
                                                       THEN Conversations \ Existing ELSE {}}
  /\ UNCHANGED <<project, route, wanted, generation, loads, conversation, thread, loading,
                 ask, intent, submits, moves, stored, runs, attached>>

-----------------------------------------------------------------------------
Returns(l) == ServeLoad(l) \/ ListReturns(l) \/ HistoryReturns(l) \/ LoadFails(l)

ChatNext ==
  \/ Bootstrap \/ BootstrapFails
  \/ \E l \in loads : Returns(l)
  \/ \E r \in Routes : Navigate(r)
  \/ RouteChanges \/ StartNewProjectChat
  \/ \E p \in Prompts : SubmitQuestion(p)
  \/ AnswerArrives \/ AskFails
  \/ \E k \in Keys : Run(k)
  \/ ChooseFiles \/ EnsureConversation \/ UploadFile \/ UploadFails

\* The requests of the bootstrap and of the history end, in a response or an error.
\* The user, the router and the server owe nothing.
ChatFairness ==
  /\ WF_chatVars(Bootstrap \/ BootstrapFails)
  /\ WF_chatVars(\E l \in loads : Returns(l))

ChatSpec == ChatInit /\ [][ChatNext]_chatVars /\ ChatFairness

-----------------------------------------------------------------------------
(* Properties.                                                               *)

\* The route, the thread and the requests have the shapes the client gives them.
ChatTypeOK ==
  /\ project \in {"starting", "known", "failed"}
  /\ route \in Routes /\ wanted \in Routes \cup {"none"}
  /\ conversation \in Conversations \cup {NoConversation}
  /\ loading \in BOOLEAN
  /\ \A i \in DOMAIN thread :
       thread[i] \in [conv : Conversations \cup {NoConversation}, role : {"user", "assistant"},
                      ask : Keys \cup {Old}, temporary : BOOLEAN]
  /\ \A l \in loads : l.generation <= generation
  /\ Existing \subseteq Conversations

\* Stale route requests never win: the messages of a history response are shown
\* only under the route that asked for them, however responses overtake each other.
LoadedThreadIsOfTheRoute ==
  \A i \in DOMAIN thread :
    ~thread[i].temporary => route \in {thread[i].conv, "latest"}

\* The server runs a question once and never answers one with another's answer: a
\* submit takes the key of the one before it exactly when it repeats that one, text
\* and conversation alike, and that one failed.
RetriesReuseTheKey ==
  \A i \in 2 .. Len(submits) :
    submits[i].key = submits[i - 1].key <=>
      submits[i].fingerprint = submits[i - 1].fingerprint /\ submits[i - 1].end = "failed"

\* A question shown before it was stored is the one being asked, the last of the
\* thread, or its answer follows it: none is left behind by a request that failed.
ShownQuestionsAreAskedOrAnswered ==
  \A i \in DOMAIN thread :
    thread[i].temporary /\ thread[i].role = "user" =>
      IF i = Len(thread) THEN ask # NoAsk /\ ask.key = thread[i].ask
      ELSE thread[i + 1].role = "assistant" /\ thread[i + 1].ask = thread[i].ask

\* Files chosen together stay together: all belong to the conversation that was
\* shown when they were chosen or that was created for them, wherever the user
\* has gone meanwhile.
FilesStayTogether ==
  \A i \in DOMAIN attached :
    /\ attached[i] = upload.conv
    /\ upload.chosen \in {NoConversation, attached[i]}

\* The route, the thread shown under it and the files belong together.
ThreadsAreConsistent ==
  ChatTypeOK /\ LoadedThreadIsOfTheRoute /\ ShownQuestionsAreAskedOrAnswered /\ FilesStayTogether

\* A history load ends for the user, even if its request fails or the route
\* changes under it: the composer is not blocked for ever.
LoadingEnds == loading ~> ~loading
=============================================================================
