--------------------------- MODULE EvidenceReview ---------------------------
(***************************************************************************)
(* The evidence workflow's data, for all the runs of one project: reviews  *)
(* and report refreshes are requested (persistence/evidence_runs.py and    *)
(* evidence_reports.py), each retrieves chunks and extracts claims,        *)
(* relates them, may have them reviewed by a person, has a report written  *)
(* from them (workflow_execution.py, evidence_generation.py) and commits   *)
(* claims, evidence, relations and report in one transaction               *)
(* (workflow_commit.py), while other runs do the same and documents are    *)
(* removed.                                                                *)
(*                                                                         *)
(* Deliveries, leases, retries and checkpoints are WorkflowRun's subject:  *)
(* here a run is executed by one worker, which may crash in the commit     *)
(* node.  A document is one chunk.  The low confidence of a claim is a     *)
(* function of its text, and each question yields one claim.               *)
(***************************************************************************)
EXTENDS Naturals, Sequences, FiniteSets, FiniteSetsExt

CONSTANTS
    Runs,         \* the workflow_runs of the project
    First,        \* the one whose report is there from the start
    Docs,         \* ready documents of the project
    Removable,    \* bound: those that may be deleted
    Suspicious,   \* those whose text looks like an instruction
    Texts,        \* what a claim may say
    Low,          \* texts a model gives a confidence below 0.75
    Scopes,       \* bound: documents a request may name
    Answers,      \* bound: text and sources a model may extract, in each run
    Links,        \* bound: the relation a model may find, by positions, in
                  \* each run
    FirstClaims,  \* the claims of the first report
    Sections,     \* section keys
    FirstReport,  \* the claim each section of the first report cites
    Outlines,     \* bound: the sections a review may write
    Questions,    \* bound: how many questions a plan may have
    NoRun, NoClaim

ASSUME ReviewAssumption ==
    /\ First \in Runs /\ NoRun \notin Runs /\ IsFiniteSet(Runs)
    /\ IsFiniteSet(Sections) /\ Sections # {}
    /\ Removable \subseteq Docs /\ Suspicious \subseteq Docs /\ Low \subseteq Texts
    /\ Answers \in [Runs -> SUBSET [text : Texts, sources : (SUBSET Docs) \ {{}}]]
    /\ \A r \in Runs : NoClaim \notin Answers[r]
    /\ Scopes \subseteq SUBSET Docs
    /\ \A r \in Runs : Links[r] \subseteq {l \in (Nat \ {0}) \X (Nat \ {0}) : l[1] # l[2]}
    /\ Outlines \subseteq (SUBSET Sections) \ {{}}
    /\ Questions \subseteq Nat \ {0}
    /\ FirstReport \in [Sections -> DOMAIN FirstClaims]
    /\ FirstClaims \in Seq(Answers[First])

VARIABLES
    docs,       \* documents: their status, "gone" when the chunks are deleted
    runs,       \* the workflow_runs rows
    work,       \* the graph state of each run, as its worker has it
    claims,     \* the claims rows, with their claim_evidence
    relations,  \* the claim_relations rows
    reports,    \* the report of each run, with its sections
    lock        \* the transaction that holds the project's advisory lock

vars == <<docs, runs, work, claims, relations, reports, lock>>

ClaimIds == Runs \X (Nat \ {0})
Ended == {"succeeded", "failed"}

Unrequested == [kind |-> "none", base |-> NoRun, impacted |-> {}, scope |-> {},
                policy |-> "strict", status |-> "none", error |-> "none"]

\* batches[q] is the claim extracted for question q.  seen is what a commit
\* has read of the project: the next revision, and version of each text.
NoWork == [pc |-> "idle", batches |-> <<>>, retrieved |-> {}, claims |-> <<>>,
           links |-> {}, decision |-> "none", sections |-> <<>>,
           seen |-> [revision |-> 0, version |-> [t \in Texts |-> 0]]]

NoReport == [status |-> "none", base |-> NoRun, revision |-> 0, sections |-> <<>>]

\* A review of the project has been published.
Init ==
  /\ docs = [d \in Docs |-> "ready"]
  /\ runs = [r \in Runs |->
       IF r = First THEN [Unrequested EXCEPT !.kind = "evidence_review", !.status = "succeeded"]
                    ELSE Unrequested]
  /\ work = [r \in Runs |-> IF r = First THEN [NoWork EXCEPT !.pc = "end"] ELSE NoWork]
  /\ claims = {[id |-> <<First, i>>, text |-> FirstClaims[i].text,
                evidence |-> FirstClaims[i].sources, question |-> i, version |-> 1] : i \in DOMAIN FirstClaims}
  /\ relations = {}
  /\ reports = [r \in Runs |->
       IF r = First
       THEN [status |-> "published", base |-> NoRun, revision |-> 1,
             sections |-> [s \in Sections |-> {<<First, FirstReport[s]>>}]]
       ELSE NoReport]
  /\ lock = NoRun

-----------------------------------------------------------------------------
(* The API.                                                                *)

\* create_research_run: the chosen documents are ready; with none chosen, one
\* of the project is.
RequestReview(r) ==
  \E scope \in Scopes, policy \in {"strict", "balanced"} :
    /\ runs[r].kind = "none"
    /\ \A d \in scope : docs[d] = "ready"
    /\ scope = {} => \E d \in Docs : docs[d] = "ready"
    /\ runs' = [runs EXCEPT ![r] = [Unrequested EXCEPT !.kind = "evidence_review",
                  !.scope = scope, !.policy = policy, !.status = "pending"]]
    /\ UNCHANGED <<docs, work, claims, relations, reports, lock>>

EvidenceOf(ids) == UNION {c.evidence : c \in {c \in claims : c.id \in ids}}

\* The sections that cite evidence of the changed documents, or all of them.
Affected(b, changed) ==
  LET direct == {s \in DOMAIN reports[b].sections :
                   EvidenceOf(reports[b].sections[s]) \cap changed # {}}
  IN  IF direct = {} THEN DOMAIN reports[b].sections ELSE direct

BeingRefreshed(b) ==
  \E r \in Runs : /\ runs[r].kind = "report_refresh" /\ runs[r].base = b
                  /\ runs[r].status \in {"pending", "running", "waiting_human"}

\* refresh_report: forced sections, or those the changed documents affect.  An
\* invalidated report may be refreshed like a published one.  A refresh always
\* has the strict policy, the default of its input.
RequestRefresh(r, b) ==
  \E forced \in SUBSET DOMAIN reports[b].sections, changed \in Scopes :
    /\ runs[r].kind = "none" /\ reports[b].status # "none"
    /\ ~BeingRefreshed(b)
    /\ forced = {} => changed # {} /\ \A d \in changed : docs[d] = "ready"
    /\ runs' = [runs EXCEPT ![r] = [Unrequested EXCEPT !.kind = "report_refresh",
                  !.base = b, !.scope = changed, !.status = "pending",
                  !.impacted = IF forced = {} THEN Affected(b, changed) ELSE forced]]
    /\ UNCHANGED <<docs, work, claims, relations, reports, lock>>

\* create_decision and resume_value: a person answers the request for review.
Decide(r) ==
  /\ runs[r].status = "waiting_human" /\ work[r].pc = "interrupted"
  /\ \E decision \in {"approve", "reject", "edit"} :
       work' = [work EXCEPT ![r].decision = decision, ![r].pc = "apply"]
  /\ runs' = [runs EXCEPT ![r].status = "pending"]
  /\ UNCHANGED <<docs, claims, relations, reports, lock>>

-----------------------------------------------------------------------------
(* Documents are deleted: first the request, later the chunks.             *)

RequestRemoval(d) ==
  /\ d \in Removable /\ docs[d] = "ready"
  /\ docs' = [docs EXCEPT ![d] = "deleting"]
  /\ UNCHANGED <<runs, work, claims, relations, reports, lock>>

\* mark_ready of the document's deletion: a citation of the chunk loses it, and
\* keeps its document and its quote.
RemoveChunks(d) ==
  /\ docs[d] = "deleting"
  /\ docs' = [docs EXCEPT ![d] = "gone"]
  /\ UNCHANGED <<runs, work, claims, relations, reports, lock>>

-----------------------------------------------------------------------------
(* The graph of one run.                                                   *)

MoveTo(r, pc) == work' = [work EXCEPT ![r].pc = pc]

\* plan: a refresh has one question for each section, a review those of
\* build_research_plan.
QuestionCounts(r) ==
  IF runs[r].kind = "report_refresh" THEN {Cardinality(runs[r].impacted)} ELSE Questions

\* initial_state and plan.
Start(r) ==
  /\ runs[r].status = "pending" /\ work[r].pc = "idle"
  /\ runs' = [runs EXCEPT ![r].status = "running"]
  /\ \E n \in QuestionCounts(r) :
       work' = [work EXCEPT ![r].pc = "retrieve",
                            ![r].batches = [q \in 1..n |-> NoClaim]]
  /\ UNCHANGED <<docs, claims, relations, reports, lock>>

\* The documents a search is limited to; an empty filter is no filter.
Filter(r) == runs[r].scope

\* The chunks a search returns, as _load_chunks still finds them: whatever the
\* document's status.
Found(r) ==
  {d \in IF Filter(r) = {} THEN Docs ELSE Filter(r) : docs[d] # "gone"}

\* extract_claims: a claim cites evidence of the allowlist, what was found.
Extractable(r) == {c \in Answers[r] : c.sources \subseteq Found(r)}

\* retrieve_and_extract, for the questions in any order.
Retrieve(r, q) ==
  /\ work[r].pc = "retrieve"
  /\ q \in DOMAIN work[r].batches /\ work[r].batches[q] = NoClaim
  /\ \E c \in Extractable(r) :
       work' = [work EXCEPT
            ![r].batches[q] = c,
            ![r].retrieved = @ \cup Found(r),
            ![r].pc = IF \E p \in DOMAIN work[r].batches \ {q} : work[r].batches[p] = NoClaim
                      THEN "retrieve" ELSE "reconcile"]
  /\ UNCHANGED <<docs, runs, claims, relations, reports, lock>>

\* reconcile_claims: relations (at most one, as a bound) among the claims given,
\* by their positions.
LinkSets(r) ==
  {{}} \cup {{l} : l \in {l \in Links[r] : {l[1], l[2]} \subseteq DOMAIN work[r].batches}}

\* reconcile: the claims in the order of their questions, and their relations.
Reconcile(r) ==
  /\ work[r].pc = "reconcile"
  /\ \E links \in LinkSets(r) :
       work' = [work EXCEPT
            ![r].claims = [q \in DOMAIN work[r].batches |->
               [text |-> work[r].batches[q].text, evidence |-> work[r].batches[q].sources,
                question |-> q]],
            ![r].links = links, ![r].batches = <<>>, ![r].pc = "human_review"]
  /\ UNCHANGED <<docs, runs, claims, relations, reports, lock>>

Flagged(r) == {i \in DOMAIN work[r].claims : work[r].claims[i].text \in Low}
SuspiciousChunks(r) == work[r].retrieved \cap Suspicious

NeedsReview(r) ==
  \/ SuspiciousChunks(r) # {}
  \/ runs[r].policy = "strict" /\ Flagged(r) # {}

\* review: without a reason to ask, the claims are approved.
PassReview(r) ==
  /\ work[r].pc = "human_review" /\ ~NeedsReview(r)
  /\ MoveTo(r, "synthesize")
  /\ UNCHANGED <<docs, runs, claims, relations, reports, lock>>

AskHuman(r) ==
  /\ work[r].pc = "human_review" /\ NeedsReview(r)
  /\ MoveTo(r, "interrupted")
  /\ runs' = [runs EXCEPT ![r].status = "waiting_human"]
  /\ UNCHANGED <<docs, claims, relations, reports, lock>>

\* The positions a rejection takes out.
Rejected(r) ==
  {i \in DOMAIN work[r].claims :
     i \in Flagged(r) \/ work[r].claims[i].evidence \cap SuspiciousChunks(r) # {}}

\* The claims at the given positions, renumbered in their order.
KeepAt(list, kept) ==
  [n \in 1..Cardinality(kept) |->
     list[CHOOSE i \in kept : Cardinality({j \in kept : j <= i}) = n]]

\* apply_decision.  An edit gives one (as a bound) of all claims a new text; a rejection
\* leaves the relations as they are.  Only a rejection is remembered.
ApplyDecision(r) ==
  /\ work[r].pc = "apply"
  /\ LET kept == DOMAIN work[r].claims \ Rejected(r)
     IN  \/ /\ work[r].decision = "approve"
            /\ work' = [work EXCEPT ![r].pc = "synthesize", ![r].decision = "none"]
         \/ /\ work[r].decision = "reject" /\ kept # {}
            /\ work' = [work EXCEPT ![r].claims = KeepAt(@, kept), ![r].pc = "synthesize"]
         \/ /\ work[r].decision = "edit"
            /\ \E i \in DOMAIN work[r].claims, t \in Texts :
                 /\ t # work[r].claims[i].text
                 /\ work' = [work EXCEPT ![r].claims[i].text = t, ![r].pc = "synthesize",
                                        ![r].decision = "none"]
  /\ runs' = [runs EXCEPT ![r].status = "running"]
  /\ UNCHANGED <<docs, claims, relations, reports, lock>>

\* synthesize_report: sections that cite claims by their positions (one each, as
\* a bound); those of a refresh are the impacted ones.
Writable(r) ==
  UNION {[keys -> DOMAIN work[r].claims] :
           keys \in IF runs[r].kind = "report_refresh" THEN {runs[r].impacted} ELSE Outlines}

Synthesize(r) ==
  /\ work[r].pc = "synthesize"
  /\ \E sections \in Writable(r) :
       work' = [work EXCEPT ![r].sections = sections, ![r].pc = "commit"]
  /\ UNCHANGED <<docs, runs, claims, relations, reports, lock>>

\* A run stops with an error and becomes failed, whatever its transaction did.
Stop(r, error) ==
  /\ runs' = [runs EXCEPT ![r].status = "failed", ![r].error = error]
  /\ work' = [work EXCEPT ![r] = [NoWork EXCEPT !.pc = "end"]]

\* A provider fails, answers outside the schema or the allowlist, nothing is
\* found, or a rejection leaves no claim.
FailNode(r) ==
  /\ \/ work[r].pc \in {"retrieve", "reconcile", "synthesize"}
     \/ work[r].pc = "apply" /\ work[r].decision = "reject"
                             /\ Rejected(r) = DOMAIN work[r].claims
  /\ Stop(r, "node")
  /\ UNCHANGED <<docs, claims, relations, reports, lock>>

-----------------------------------------------------------------------------
(* _commit.  The transaction takes the project's lock and reads what it    *)
(* numbers its rows after; then it writes, or is rolled back.              *)

\* A bug variant: commits of a project are not serialized.
Unlocked == TRUE
LockIsFree == lock = NoRun

\* A bug variant: a run that has ended is committed again.
EndedButFailed(r) == runs[r].status = "failed"
HasEnded(r) == runs[r].status \in Ended

\* A commit first deletes what an earlier one of its run has stored.
OthersClaims(r) == {c \in claims : c.id[1] # r}
OthersRelations(r) == {l \in relations : l.run # r}

NextRevision(r) == 1 + Max({0} \cup {reports[p].revision : p \in Runs \ {r}})
NextVersion(r, t) ==
  1 + Max({0} \cup {c.version : c \in {c \in OthersClaims(r) : c.text = t}})

BeginCommit(r) ==
  /\ work[r].pc = "commit" /\ ~HasEnded(r) /\ LockIsFree
  /\ lock' = r
  /\ work' = [work EXCEPT ![r].pc = "writing",
       ![r].seen = [revision |-> NextRevision(r),
                    version |-> [t \in Texts |-> NextVersion(r, t)]]]
  /\ UNCHANGED <<docs, runs, claims, relations, reports>>

\* The rows of claim i: its version counts the run's earlier claims of its text.
ClaimRow(r, i) ==
  LET c == work[r].claims[i]
  IN  [id |-> <<r, i>>, text |-> c.text, evidence |-> c.evidence, question |-> c.question,
       version |-> work[r].seen.version[c.text]
                   + Cardinality({j \in 1..(i - 1) : work[r].claims[j].text = c.text})]

ClaimRows(r) == {ClaimRow(r, i) : i \in DOMAIN work[r].claims}

LinkRows(r) == {[run |-> r, source |-> l[1], target |-> l[2]] : l \in work[r].links}

\* A bug variant: a refresh stores the sections it generated.
GeneratedSections(r) == [s \in DOMAIN work[r].sections |-> {<<r, work[r].sections[s]>>}]

\* The sections of the report: a refresh takes from its base those it has not
\* generated.
SectionRows(r) ==
  IF runs[r].kind = "report_refresh"
  THEN [s \in DOMAIN reports[runs[r].base].sections |->
          IF s \in DOMAIN work[r].sections THEN {<<r, work[r].sections[s]>>}
                                           ELSE reports[runs[r].base].sections[s]]
  ELSE [s \in DOMAIN work[r].sections |-> {<<r, work[r].sections[s]>>}]

\* What makes the transaction fail: a retrieved chunk that is gone (the foreign
\* key of its citation), a relation to a claim there is not, a revision or a
\* version another run has taken meanwhile (the unique constraints).
Obstacles(r) ==
  {e \in {"evidence", "relation", "unique"} :
     \/ e = "evidence" /\ \E d \in work[r].retrieved : docs[d] = "gone"
     \/ e = "relation" /\ \E l \in work[r].links :
          {l[1], l[2]} \ DOMAIN work[r].claims # {}
     \/ e = "unique" /\ \/ \E p \in Runs \ {r} : reports[p].revision = work[r].seen.revision
                        \/ \E row \in ClaimRows(r), c \in OthersClaims(r) :
                             row.text = c.text /\ row.version = c.version}

WithReport(r) ==
  [p \in Runs |->
     IF p = r THEN [status |-> "published", base |-> runs[r].base,
                    revision |-> work[r].seen.revision, sections |-> SectionRows(r)]
     ELSE IF p = runs[r].base THEN [reports[p] EXCEPT !.status = "invalidated"]
     ELSE reports[p]]

Release(r) == lock' = IF lock = r THEN NoRun ELSE lock

WriteReport(r) ==
  /\ work[r].pc = "writing" /\ Obstacles(r) = {}
  /\ claims' = OthersClaims(r) \cup ClaimRows(r)
  /\ relations' = OthersRelations(r) \cup LinkRows(r)
  /\ reports' = WithReport(r)
  /\ runs' = [runs EXCEPT ![r].status = "succeeded"]
  /\ work' = [work EXCEPT ![r].pc = "commit", ![r].seen = NoWork.seen]
  /\ Release(r)
  /\ UNCHANGED docs

\* A bug variant: the base report is invalidated although nothing replaces it.
InvalidateAndRollBack(r, error) ==
  /\ work[r].pc = "writing" /\ error \in Obstacles(r)
  /\ reports' = [p \in Runs |-> IF p = runs[r].base
                                THEN [reports[p] EXCEPT !.status = "invalidated"] ELSE reports[p]]
  /\ Stop(r, error) /\ Release(r)
  /\ UNCHANGED <<docs, claims, relations>>

RollBack(r, error) ==
  /\ work[r].pc = "writing" /\ error \in Obstacles(r)
  /\ Stop(r, error) /\ Release(r)
  /\ UNCHANGED <<docs, claims, relations, reports>>

\* The worker dies in the transaction; the next delivery executes the node again.
CrashInCommit(r) ==
  /\ work[r].pc = "writing"
  /\ work' = [work EXCEPT ![r].pc = "commit", ![r].seen = NoWork.seen]
  /\ Release(r)
  /\ UNCHANGED <<docs, runs, claims, relations, reports>>

\* The node of a committed run ends.  Until then a crash may have it executed
\* again, when it finds the run ended and ends too.
Leave(r) ==
  /\ work[r].pc = "commit" /\ HasEnded(r)
  /\ work' = [work EXCEPT ![r].pc = "end", ![r].claims = <<>>, ![r].retrieved = {},
                          ![r].sections = <<>>]
  /\ UNCHANGED <<docs, runs, claims, relations, reports, lock>>

-----------------------------------------------------------------------------
Commit(r) ==
  \/ BeginCommit(r) \/ WriteReport(r) \/ CrashInCommit(r) \/ Leave(r)
  \/ \E error \in {"evidence", "relation", "unique"} : RollBack(r, error)

Next ==
  \/ \E r \in Runs :
       \/ RequestReview(r) \/ Decide(r)
       \/ \E b \in Runs : RequestRefresh(r, b)
       \/ Start(r) \/ \E q \in 1..Cardinality(Sections) + Max(Questions) : Retrieve(r, q)
       \/ Reconcile(r) \/ PassReview(r) \/ AskHuman(r) \/ ApplyDecision(r)
       \/ Synthesize(r) \/ FailNode(r) \/ Commit(r)
  \/ \E d \in Docs : RequestRemoval(d) \/ RemoveChunks(d)

Spec == Init /\ [][Next]_vars

-----------------------------------------------------------------------------
(* Properties.                                                             *)

Numbers == Nat \ {0}

\* The rows and the graph states have the values of their columns and fields;
\* the lock is held by a run that writes.
TypeOK ==
  /\ docs \in [Docs -> {"ready", "deleting", "gone"}]
  /\ \A r \in Runs :
       /\ runs[r] \in [kind : {"none", "evidence_review", "report_refresh"},
                       base : Runs \cup {NoRun}, impacted : SUBSET Sections,
                       scope : SUBSET Docs, policy : {"strict", "balanced"},
                       status : {"none", "pending", "running", "waiting_human"} \cup Ended,
                       error : {"none", "node", "evidence", "relation", "unique"}]
       /\ runs[r].kind = "report_refresh" => runs[r].impacted # {} /\ runs[r].base # NoRun
       /\ \A q \in DOMAIN work[r].batches : work[r].batches[q] \in Answers[r] \cup {NoClaim}
       /\ work[r].links \subseteq Numbers \X Numbers
       /\ DOMAIN work[r].sections \subseteq Sections
       /\ \A s \in DOMAIN work[r].sections : work[r].sections[s] \in DOMAIN work[r].claims
       /\ \A s \in DOMAIN reports[r].sections : reports[r].sections[s] \subseteq Runs \X Numbers
  /\ lock # NoRun => work[lock].pc = "writing"

\* "Serialize project commits so claim versions and report revisions stay
\* unique": no run is lost to another's commit, since none takes a revision or
\* a claim version that another run has taken (the unique constraints would
\* make the whole run fail).
CommitsNeverCollide == \A r \in Runs : runs[r].error # "unique"

\* Every section of every report, whichever revisions it was carried through,
\* cites claims that are stored, and they have evidence.
SectionsCiteStoredClaims ==
  \A r \in Runs : \A s \in DOMAIN reports[r].sections :
    /\ reports[r].sections[s] # {}
    /\ \A id \in reports[r].sections[s] :
         \E c \in claims : c.id = id /\ c.evidence # {}

\* A refresh replaces the sections it was asked to and keeps all others of the
\* report it refreshes as they were.
RefreshKeepsOtherSections ==
  \A r \in Runs : reports[r].base # NoRun =>
    LET old == reports[reports[r].base].sections
        new == reports[r].sections
    IN  /\ DOMAIN new = DOMAIN old
        /\ \A s \in DOMAIN old :
             IF s \in runs[r].impacted THEN \A id \in new[s] : id[1] = r ELSE new[s] = old[s]

\* "Failed refresh is designed to leave the published revision unchanged": a
\* report is invalidated only by one that is stored in its place.
InvalidatedHasSuccessor ==
  \A b \in Runs : reports[b].status = "invalidated" =>
    \E r \in Runs : reports[r].base = b /\ reports[r].revision > reports[b].revision

\* What a person rejects is not stored, neither the claims of low confidence
\* nor those that rest on an untrusted source.
RejectedClaimsAreNotStored ==
  \A c \in claims : work[c.id[1]].decision = "reject" =>
    c.text \notin Low /\ c.evidence \cap Suspicious = {}

\* The claims of a run rest on the documents it was to use only: those chosen
\* for a review, the changed ones for a refresh.
EvidenceIsInScope ==
  \A c \in claims : runs[c.id[1]].scope # {} => c.evidence \subseteq runs[c.id[1]].scope

\* A stored relation joins the two claims that reconcile has compared, in
\* that order.  Only without a rejection: the claims are renumbered by
\* it and the relations are not.
RelationsJoinReconciledClaims ==
  \A l \in relations : work[l.run].decision # "reject" =>
    \E c, d \in claims :
      /\ c.id = <<l.run, l.source>> /\ d.id = <<l.run, l.target>>
      /\ <<c.question, d.question>> \in work[l.run].links

\* Reports, claims and relations fit what was asked, decided and retrieved.
ReportsAreSound ==
  /\ TypeOK /\ SectionsCiteStoredClaims /\ InvalidatedHasSuccessor
  /\ RejectedClaimsAreNotStored /\ EvidenceIsInScope /\ RelationsJoinReconciledClaims

\* A report, once committed, changes no more: a node that is executed again
\* after a crash gives it no other revision, content or claims.  Only a
\* refresh changes its status.
ReportsAreImmutable ==
  [][\A r \in Runs : reports[r].status # "none" =>
       /\ reports'[r] \in {reports[r], [reports[r] EXCEPT !.status = "invalidated"]}
       /\ {c \in claims' : c.id[1] = r} = {c \in claims : c.id[1] = r}]_vars
=============================================================================
