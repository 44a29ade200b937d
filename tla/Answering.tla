----------------------------- MODULE Answering -----------------------------
(***************************************************************************)
(* One Ask request, from loading its authorized corpus to recording its    *)
(* run: the Research Graph (graph/graph.py and graph/routing.py), the      *)
(* older linear pipeline it replaced (services/grounded_query.py), local   *)
(* and Web retrieval, reranking, evidence packing, generation and the      *)
(* commit, while documents become ready or are deleted underneath it.      *)
(*                                                                         *)
(* Text, scores and prompts are abstracted.  A chunk has a document, a     *)
(* size in tokens and a kind: raw with a vector, raw without one           *)
(* (lightweight), a Wiki page, or a Web page.  Which chunks a search finds *)
(* and in which order a reranker puts them is any choice, so evidence is a *)
(* set; what model providers answer is any value that passes their         *)
(* validation, or a failure.                                               *)
(***************************************************************************)
EXTENDS Naturals, FiniteSets, FiniteSetsExt

CONSTANTS
    Docs,             \* the documents of the project
    ConversationDocs, \* those attached to the conversation of a personal Ask
    Ingesting,        \* bound: those that may still be ingesting when it starts
    Raw,              \* raw chunks
    Light,            \* raw chunks without a vector (has_vector = False)
    Wiki,             \* Wiki pages stored as chunks
    Web,              \* pages the Web search may return
    DocOf,            \* the document of each raw chunk
    Tokens,           \* the estimated tokens of each chunk
    Provenance,       \* the raw chunks a Wiki page names
    EvidenceBudget,   \* settings.retrieval_evidence_token_budget
    FullContextLimit, \* settings.full_context_token_limit
    GateLimit,        \* settings.wiki_gate_candidate_limit
    RoundLimit,       \* settings.retrieval_round_candidate_limit
    CandidateLimit,   \* settings.rerank_candidate_limit
    TopN,             \* settings.rerank_top_n
    MaxRounds,        \* settings.max_retrieval_rounds
    MaxChanges        \* bound: document and Wiki changes during the request

Chunks == Raw \cup Wiki \cup Web

ASSUME AnsweringAssumption ==
    /\ ConversationDocs \subseteq Docs /\ Ingesting \subseteq Docs /\ Light \subseteq Raw
    /\ IsFiniteSet(Chunks)
    /\ Raw \cap Wiki = {} /\ Raw \cap Web = {} /\ Wiki \cap Web = {}
    /\ DocOf \in [Raw -> Docs] /\ Tokens \in [Chunks -> Nat \ {0}]
    /\ Provenance \in [Wiki -> SUBSET Raw]
    /\ {EvidenceBudget, FullContextLimit, GateLimit, RoundLimit, CandidateLimit, TopN, MaxRounds}
         \subseteq Nat \ {0}
    /\ MaxChanges \in Nat

VARIABLES
    docs,     \* documents.status: "ingesting", "ready", "deleting" or "gone"
    pages,    \* the Wiki pages now stored
    changes,  \* how many times documents and Wiki changed
    ask,      \* the request: [graph, web, personal, raw, fresh, provider]
    pc,       \* the node or the step the request is at
    corpus,   \* the chunks loaded by prepare
    plan,     \* self.plan: [scope, web], or NoPlan before the first plan
    round,    \* retrieval_round
    merged,   \* merged_candidates, until they are ranked
    seen,     \* seen_candidate_ids
    fresh,    \* new_evidence_found
    evidence, \* reranked_evidence and final_evidence
    sources,  \* wiki_source_evidence
    light,    \* [has, used]: has_lightweight_evidence, lightweight_fallback_used
    verdict,  \* the judge's last assessment
    strategy, \* source_strategy: the sources the evidence is said to come from
    answer,   \* [kind, cites, charged]: the generation and its usage count
    run       \* the ask_runs row, or NoRun

request == <<plan, round, merged, seen, fresh, evidence, sources, light, verdict, strategy, answer>>
world == <<docs, pages, changes, ask, corpus, run>>
vars == <<docs, pages, changes, ask, pc, corpus, plan, round, merged, seen, fresh, evidence,
          sources, light, verdict, strategy, answer, run>>
-----------------------------------------------------------------------------
NoPlan == [scope |-> {}, web |-> FALSE, made |-> FALSE]
NoRun == [strategy |-> "none", schema |-> "none", passed |-> FALSE]
(* The strategies ExecutionPlan and the ask_runs row admit. *)
ContextStrategy == {"chat", "full_context", "hybrid_retrieval", "web", "hybrid_retrieval_web"}
Facets == {"none", "local", "web"} \* missing_facets: empty, or what the facets prefer
Fallback == [sufficient |-> FALSE, confident |-> FALSE, raw |-> FALSE, facets |-> "local", degraded |-> TRUE]

(* estimate_tokens over a set of chunks. *)
Size(S) == MapThenSumSet(LAMBDA c : Tokens[c], S)

(* pack_chunks takes whole chunks in rank order while they fit: over every
   order, the subsets within the budget that no other chunk fits into. *)
Packed(S, budget) ==
    {E \in SUBSET S : /\ Size(E) <= budget
                      /\ \A c \in S \ E : Size(E) + Tokens[c] > budget}

DocsOf(S) == {DocOf[c] : c \in S}
Dense(S) == (S \cap Raw) \ Light

(* limit_rerank_candidates: Web pages first, then one chunk per document
   before any second one. *)
Limited(S, limit) ==
    LET web == S \cap Web
        local == S \ Web
        room == limit - Min({Cardinality(web), limit})
    IN  {L \cup V : L \in {T \in SUBSET local :
                       /\ Cardinality(T) = Min({room, Cardinality(local)})
                       /\ Cardinality(DocsOf(T)) = Min({room, Cardinality(DocsOf(local))})},
                    V \in {T \in SUBSET web : Cardinality(T) = Min({limit, Cardinality(web)})}}

(* The remote rerankers return some of their candidates; Qdrant, which knows
   no Web page, is left out when there is one; the deterministic ranking
   that backs them returns as many as it may. *)
NvidiaRanked(S) == {T \in SUBSET S : T # {} /\ Cardinality(T) <= TopN}
RerankQuery(S) == {T \in SUBSET S : T # {} /\ Cardinality(T) <= TopN}
QdrantRanked(S) == IF S \cap Web = {} THEN RerankQuery(S) ELSE {}
DeterministicRanked(S) == {T \in SUBSET S : Cardinality(T) = Min({TopN, Cardinality(S)})}
Reranked(S) == IF S = {} THEN {{}} ELSE NvidiaRanked(S) \cup QdrantRanked(S) \cup DeterministicRanked(S)

(* EvidenceSufficiencyService.assess: nothing to judge is insufficient with
   no facet; an absent, failing or invalid judge is the degraded fallback; a
   question with an exactness requirement always asks for raw evidence. *)
Assess(S) ==
    IF S = {} THEN {[sufficient |-> FALSE, confident |-> FALSE, raw |-> ask.raw, facets |-> "none",
                     degraded |-> FALSE]}
    ELSE {[Fallback EXCEPT !.raw = ask.raw]}
         \cup (IF ~ask.provider THEN {}
               ELSE {[v EXCEPT !.raw = @ \/ ask.raw] :
                       v \in [sufficient : BOOLEAN, confident : BOOLEAN, raw : BOOLEAN, facets : Facets,
                              degraded : {FALSE}]})

IsReady(c) == docs[DocOf[c]] = "ready"
(* The documents whose chunks the caller may read. *)
Readable == IF ask.personal THEN ConversationDocs ELSE Docs

(* _scoped_raw_chunks: the plan's scope only narrows the authorized corpus. *)
Scoped(p) ==
    LET raw == corpus \cap Raw
        selected == DocsOf(raw) \cap p.scope
    IN  IF selected = {} THEN raw ELSE {c \in raw : DocOf[c] \in selected}

\* A bug variant: the payload of a match is trusted without reading the row.
HydratedUnchecked(M) == M
(* _hydrate_matches keeps the rows of ready documents of the project. *)
Hydrated(M) == {c \in M : IsReady(c)}
(* execute_hybrid_query: every channel and their fusion pass one filter. *)
InFilter(filter) == {c \in Dense(Raw) : DocOf[c] \in filter}
(* QdrantHybridStore.query: any points of the documents in its filter, also
   of documents that are still ingesting or already removed. *)
IndexMatches(filter) == SUBSET InFilter(filter)
(* bm25_candidates: any of the chunks it is given. *)
Lexical(S) == SUBSET S
(* fuse_candidates: both rankings, each chunk once. *)
Fused(lexical, semantic) == {B \cup M : B \in lexical, M \in semantic}

(* _hybrid_candidates: the native hybrid store, the older dense channel fused
   with BM25, or BM25 alone when the store is absent or fails. *)
HybridResults(dense, filter) ==
    LET semantic == {Hydrated(M) : M \in IndexMatches(filter)}
        lexical == Lexical(dense)
    IN  semantic \cup lexical \cup Fused(lexical, semantic)
(* _lightweight_candidates: chunks without a vector are only searched by BM25. *)
LightResults(S) == Lexical(S)
(* LocalEvidenceRetriever.retrieve: the index is asked only when some raw
   chunk of the scope has a vector. *)
LocalResults(scoped, filter) ==
    LET hybrid == IF Dense(scoped) = {} THEN {{}} ELSE HybridResults(Dense(scoped), filter)
    IN  {h \cup l : h \in hybrid, l \in LightResults(scoped \cap Light)}

(* TavilyWebSearchProvider.search: some pages, or none. *)
PagesFound == SUBSET Web
(* retrieve_web: an absent or failing provider and an empty result are the
   same error, and its callers go on without pages. *)
WebEvidenceError == {}
WebResults == {w \in PagesFound : w # {}} \cup {WebEvidenceError}
-----------------------------------------------------------------------------
(* The requests; freshness and exactness are only ever consulted by the graph
   in a workspace without the Web. *)
Asks == {q \in [graph : BOOLEAN, web : BOOLEAN, personal : BOOLEAN, raw : BOOLEAN, fresh : BOOLEAN,
                 provider : BOOLEAN] :
            q.raw \/ q.fresh => q.graph /\ ~q.web /\ ~q.personal}

Init ==
    /\ docs \in {f \in [Docs -> {"ingesting", "ready"}] : \A d \in Docs \ Ingesting : f[d] = "ready"}
    /\ pages = Wiki /\ changes = 0
    /\ ask \in Asks
    /\ pc = "load" /\ corpus = {} /\ plan = NoPlan /\ round = 0
    /\ merged = {} /\ seen = {} /\ fresh = TRUE /\ evidence = {} /\ sources = {}
    /\ light = [has |-> FALSE, used |-> FALSE]
    /\ verdict = [Fallback EXCEPT !.facets = "none", !.degraded = FALSE]
    /\ strategy = "chat" /\ run = NoRun
    /\ answer = [kind |-> "none", cites |-> {}, charged |-> FALSE]

(* The environment: an ingestion ends; a document is deleted, first its
   status, later its rows, and the request may see either; the project's
   Wiki is compiled anew. *)
DocumentBecomesReady(d) ==
    /\ docs[d] = "ingesting"
    /\ docs' = [docs EXCEPT ![d] = "ready"]
    /\ changes < MaxChanges /\ changes' = changes + 1
    /\ UNCHANGED <<pages, ask, pc, corpus, run, request>>
DocumentIsDeleted(d) ==
    /\ docs[d] \in {"ready", "deleting"}
    /\ \E s \in {"deleting", "gone"} \ {docs[d]} : docs' = [docs EXCEPT ![d] = s]
    /\ changes < MaxChanges /\ changes' = changes + 1
    /\ UNCHANGED <<pages, ask, pc, corpus, run, request>>
WikiIsRebuilt ==
    /\ pages # {} /\ pages' = {}
    /\ changes < MaxChanges /\ changes' = changes + 1
    /\ UNCHANGED <<docs, ask, pc, corpus, run, request>>

(* project_chunks: the raw chunks of ready documents and the Wiki pages. *)
ProjectChunks == {c \in Raw : IsReady(c)} \cup pages
(* conversation_chunks: those of ready documents of the conversation. *)
ConversationChunks == {c \in Raw : DocOf[c] \in ConversationDocs /\ IsReady(c)}
(* _reject_processing_documents: nothing to read yet, but soon. *)
StillProcessing(loaded) == loaded = {} /\ \E d \in Readable : docs[d] = "ingesting"
(* QueryConversationCoordinator.prepare, and the pipeline GroundedQueryService
   then starts; without chunks the linear one goes to the Web or just chats. *)
LoadCorpus ==
    /\ pc = "load"
    /\ corpus' = IF ask.personal THEN ConversationChunks ELSE ProjectChunks
    /\ strategy' = IF ask.graph \/ ~ask.web \/ corpus' # {} THEN strategy ELSE "web"
    /\ pc' = IF StillProcessing(corpus') THEN "failed"
             ELSE IF ask.graph THEN "prepare_context"
             ELSE IF corpus' # {} THEN "retrieve_local"
             ELSE IF ask.web THEN "retrieve_web" ELSE "build_plan"
    /\ UNCHANGED <<docs, pages, changes, ask, run, plan, round, merged, seen, fresh, evidence, sources,
                   light, verdict, answer>>

(* _wiki_is_fresh: pages and raw chunks were loaded with one generation each,
   and it is the same (ask.fresh). *)
WikiIsFresh == ask.fresh /\ corpus \cap Wiki # {} /\ corpus \cap Raw # {}

(* prepare_context and after_prepare. *)
PrepareContext ==
    /\ pc = "prepare_context"
    /\ pc' = IF ask.web THEN "plan_evidence"
             ELSE IF corpus \cap Raw = {} THEN "build_plan"
             ELSE IF WikiIsFresh THEN "judge_wiki" ELSE "plan_evidence"
    /\ UNCHANGED <<world, request>>

\* A bug variant: the exactness requirement of the question is not consulted.
AfterWikiInexact(v, srcs) ==
    IF v.sufficient /\ v.confident THEN "build_plan"
    ELSE IF srcs # {} THEN "expand_wiki_sources" ELSE "plan_evidence"
(* after_wiki on a fresh Wiki. *)
AfterWiki(v, srcs) ==
    IF v.sufficient /\ v.confident /\ ~v.raw THEN "build_plan"
    ELSE IF srcs # {} THEN "expand_wiki_sources" ELSE "plan_evidence"

(* select_wiki takes the best pages, judge_wiki judges them as the evidence
   and resolves their provenance among the authorized raw chunks. *)
JudgeWiki ==
    /\ pc = "judge_wiki"
    /\ \E S \in SUBSET (corpus \cap Wiki) :
         /\ Cardinality(S) <= GateLimit \* select_wiki
         /\ \E v \in Assess(S) :
              /\ evidence' = S /\ verdict' = v
              /\ sources' = (UNION {Provenance[w] : w \in S}) \cap Scoped(plan)
              /\ pc' = AfterWiki(v, sources')
    /\ strategy' = "wiki"
    /\ UNCHANGED <<world, plan, round, merged, seen, fresh, light, answer>>

ExpandWikiSources ==
    /\ pc = "expand_wiki_sources"
    /\ \E E \in Packed(sources, EvidenceBudget) :
         /\ evidence' = E
         /\ light' = [light EXCEPT !.has = E \cap Light # {}]
         /\ fresh' = (E # {})
    /\ pc' = "judge_evidence" /\ strategy' = "wiki_provenance"
    /\ UNCHANGED <<world, plan, round, merged, seen, sources, verdict, answer>>

(* The adaptive planner: a provider may name any documents as the scope, the
   deterministic fallback names none; both use the Web exactly when the
   request allows it. *)
Planned == {[scope |-> s, web |-> ask.web, made |-> TRUE] :
              s \in IF ask.provider THEN {{}} \cup {{d} : d \in Docs} ELSE {{}}}
(* plan_evidence. *)
PlanEvidence ==
    /\ pc = "plan_evidence"
    /\ round' = round + 1
    /\ plan' \in Planned
    /\ light' = [light EXCEPT !.has = Scoped(plan') \cap Light # {}]
    /\ pc' = "search_sources"
    /\ UNCHANGED <<world, merged, seen, fresh, evidence, sources, verdict, strategy, answer>>

\* A bug variant: the index filter is dropped, as for a workspace.
IndexFilterOff == Docs
(* _document_ids: the documents of the scoped chunks. *)
IndexFilter == DocsOf(Scoped(plan))
(* _search_local. *)
FoundLocally == LocalResults(Scoped(plan), IndexFilter)
(* _search_web, called only when the plan uses the Web. *)
FoundOnWeb == IF plan.web THEN WebResults ELSE {{}}
(* search_sources and merge_evidence. *)
SearchSources ==
    /\ pc = "search_sources"
    /\ \E r \in FoundLocally, w \in FoundOnWeb : merged' = r \cup w
    /\ pc' = "rerank_evidence"
    /\ UNCHANGED <<world, plan, round, seen, fresh, evidence, sources, light, verdict, strategy, answer>>

\* A bug variant: the strategy of the first round is kept.
StrategyOfFirstRound(found) ==
    LET web == found \cap Web # {}
        local == found \ Web # {}
    IN  IF round > 1 THEN strategy
        ELSE IF local /\ web THEN "hybrid_retrieval_web"
        ELSE IF web THEN "web"
        ELSE IF corpus = {} THEN "chat" ELSE "hybrid_retrieval"
(* _strategy: what this round found. *)
Strategy(found) ==
    LET web == found \cap Web # {}
        local == found \ Web # {}
    IN  IF local /\ web THEN "hybrid_retrieval_web"
        ELSE IF web THEN "web"
        ELSE IF corpus = {} THEN "chat" ELSE "hybrid_retrieval"

(* Candidates are new when no earlier round ranked them. *)
IsNew(C) == C \ seen # {}
(* rerank_evidence: reranked chunks first, lightweight ones in what is left. *)
RerankEvidence ==
    /\ pc = "rerank_evidence"
    /\ \E C \in Limited(merged, RoundLimit) :
         /\ merged' = {} /\ seen' = seen \cup C /\ fresh' = IsNew(C)
         /\ \E R \in Reranked(C \ Light) : \E E \in Packed(R, EvidenceBudget) :
              \E L \in Packed(C \cap Light, EvidenceBudget - Size(E)) : evidence' = E \cup L
    /\ pc' = "judge_evidence" /\ strategy' = Strategy(merged)
    /\ UNCHANGED <<world, plan, round, sources, light, verdict, answer>>

(* after_evidence, in the order of its returns. *)
AfterEvidence(v) ==
    IF v.sufficient THEN "build_plan"
    ELSE IF light.has /\ ~light.used THEN "expand_lightweight_context"
    ELSE IF v.degraded \/ ~fresh THEN "build_plan"
    ELSE IF v.facets = "none" THEN "build_plan"
    ELSE IF round >= MaxRounds THEN "build_plan" ELSE "refine_query"
JudgeEvidence ==
    /\ pc = "judge_evidence"
    /\ \E v \in Assess(evidence) :
         /\ pc' = AfterEvidence(v)
         /\ verdict' = [v EXCEPT !.confident = FALSE, !.raw = FALSE] \* no longer consulted
    /\ UNCHANGED <<world, plan, round, merged, seen, fresh, evidence, sources,
                   light, strategy, answer>>

\* A bug variant: the fallback is not marked as used.
ExpandRepeatedly ==
    /\ pc = "expand_lightweight_context"
    /\ \E P \in Packed(evidence, FullContextLimit) :
         \E L \in Packed((Scoped(plan) \cap Light) \ evidence, FullContextLimit - Size(P)) :
           evidence' = P \cup L
    /\ pc' = "judge_evidence" /\ strategy' = "full_context"
    /\ UNCHANGED <<world, plan, round, merged, seen, fresh, sources, light, verdict, answer>>
(* expand_lightweight_context: the prior evidence first, then every scoped
   lightweight chunk that fits the larger limit. *)
ExpandLightweightContext ==
    /\ pc = "expand_lightweight_context"
    /\ \E P \in Packed(evidence, FullContextLimit) :
         \E L \in Packed((Scoped(plan) \cap Light) \ evidence, FullContextLimit - Size(P)) :
           evidence' = P \cup L
    /\ light' = [light EXCEPT !.used = TRUE]
    /\ pc' = "judge_evidence" /\ strategy' = "full_context"
    /\ UNCHANGED <<world, plan, round, merged, seen, fresh, sources, verdict, answer>>

(* refine keeps the scope; a facet that prefers the Web may only add it. *)
Refined(p) == [p EXCEPT !.web = @ \/ (ask.web /\ verdict.facets = "web")]
(* refine_query asserts that a plan exists: without one the request fails. *)
RefineQuery ==
    /\ pc = "refine_query"
    /\ IF plan.made
       THEN plan' = Refined(plan) /\ pc' = "plan_evidence"
       ELSE pc' = "failed" /\ UNCHANGED plan
    /\ UNCHANGED <<world, round, merged, seen, fresh, evidence, sources, light,
                   verdict, strategy, answer>>
-----------------------------------------------------------------------------
(* The linear pipeline, with langgraph_research_enabled = False. *)
RetrieveLocal ==
    /\ pc = "retrieve_local"
    /\ merged' \in LocalResults(corpus \cap Raw, Readable)
    /\ strategy' = "hybrid_retrieval"
    /\ pc' = IF ask.web THEN "retrieve_web" ELSE "route_and_rerank"
    /\ UNCHANGED <<world, plan, round, seen, fresh, evidence, sources, light, verdict, answer>>

(* _retrieve_web_degraded: pages change the strategy, as does their absence
   when nothing was loaded. *)
RetrieveWeb ==
    /\ pc = "retrieve_web"
    /\ \E w \in WebResults :
         /\ merged' = merged \cup w
         /\ strategy' = IF w # {} THEN (IF corpus = {} THEN "web" ELSE "hybrid_retrieval_web")
                        ELSE IF corpus = {} THEN "chat" ELSE strategy
    /\ pc' = "route_and_rerank"
    /\ UNCHANGED <<world, plan, round, seen, fresh, evidence, sources, light, verdict, answer>>

\* A bug variant: the lightweight half is rounded up as well.
LightBudgetUp == (EvidenceBudget + 1) \div 2
(* _route_and_rerank: half of the budget for lightweight chunks, the rest,
   rounded up, for reranked ones; all of it when there is only one kind of
   ranked chunk, half when there are only lightweight ones. *)
LightBudget == EvidenceBudget \div 2
RouteAndRerank ==
    /\ pc = "route_and_rerank"
    /\ \E C \in IF Cardinality(merged) > CandidateLimit THEN Limited(merged, CandidateLimit) ELSE {merged} :
         \E L \in Packed(C \cap Light, LightBudget), R \in Reranked(C \ Light) :
           \E E \in Packed(R, IF L = {} THEN EvidenceBudget ELSE EvidenceBudget - EvidenceBudget \div 2) :
             merged' = {} /\ evidence' = E \cup L
    /\ pc' = "build_plan"
    /\ UNCHANGED <<world, plan, round, seen, fresh, sources, light, verdict, strategy, answer>>
-----------------------------------------------------------------------------
(* build_execution_plan, after either pipeline: ExecutionPlan rejects a
   strategy it does not admit, and the request fails before the generation. *)
BuildExecutionPlan ==
    /\ pc = "build_plan"
    /\ pc' = IF strategy \in ContextStrategy THEN "generate" ELSE "failed"
    /\ UNCHANGED <<world, request>>
(* The schema that plan promises. *)
OutputSchema == IF strategy = "chat" THEN "ChatAnswer" ELSE "GroundedAnswer"

(* build_llm_grounded_answer cites at least one of its evidence entries, or
   fails after one repair; the deterministic answer cites them all. *)
Citations == IF ask.provider THEN (SUBSET evidence) \ {{}} ELSE {evidence}

GroundedAnswer ==
    /\ evidence # {}
    /\ \E cs \in Citations : answer' = [answer EXCEPT !.kind = "grounded", !.cites = cs]
(* build_llm_chat_answer, or the deterministic chat answer. *)
ChatAnswer == answer' = [answer EXCEPT !.kind = "chat"]
(* generate_answer: from the evidence; abstaining, without any provider
   call, when there are documents and no evidence and no Web; else chat. *)
Generate ==
    /\ pc = "generate"
    /\ \/ GroundedAnswer
       \/ evidence = {} /\ corpus # {} /\ ~ask.web /\ answer' = [answer EXCEPT !.kind = "abstains"]
       \/ evidence = {} /\ (corpus = {} \/ ask.web) /\ ChatAnswer
    /\ pc' = "charge"
    /\ UNCHANGED <<world, plan, round, merged, seen, fresh, evidence, sources,
                   light, verdict, strategy>>

(* The provider is unreachable, or its answer is invalid after the repair. *)
GenerationFails ==
    /\ pc = "generate" /\ ask.provider
    /\ evidence # {} \/ corpus = {} \/ ask.web
    /\ pc' = "failed"
    /\ UNCHANGED <<world, request>>

(* increment_usage after the generation; over the quota the request ends. *)
ChargeUsage ==
    /\ pc = "charge"
    /\ \/ answer' = [answer EXCEPT !.charged = TRUE] /\ pc' = "record"
       \/ UNCHANGED answer /\ pc' = "failed"
    /\ UNCHANGED <<world, plan, round, merged, seen, fresh, evidence, sources,
                   light, verdict, strategy>>

(* The rows the citations' foreign keys name. *)
Stored(c) == CASE c \in Raw -> docs[DocOf[c]] # "gone"
               [] c \in Wiki -> c \in pages
               [] OTHER -> TRUE
(* _build_validation_result: evidence asks for citations. *)
Passed == answer.kind # "none" /\ (evidence = {} \/ answer.cites # {})
(* _persist_run: what the row says of the answer. *)
RunRow == [strategy |-> strategy, schema |-> OutputSchema, passed |-> Passed]
(* record_run: one transaction; a citation of a removed row undoes it. *)
RecordRun ==
    /\ pc = "record"
    /\ IF \A c \in answer.cites : Stored(c)
       THEN run' = RunRow /\ pc' = "answered"
       ELSE pc' = "failed" /\ UNCHANGED run
    /\ UNCHANGED <<docs, pages, changes, ask, corpus, request>>

Terminated == pc \in {"answered", "failed"} /\ UNCHANGED vars

(* The nodes of the Research Graph; the linear pipeline; and what execute does
   before and after either. *)
GraphStep ==
    \/ PrepareContext \/ JudgeWiki \/ ExpandWikiSources \/ PlanEvidence \/ SearchSources
    \/ RerankEvidence \/ JudgeEvidence \/ ExpandLightweightContext \/ RefineQuery
LinearStep == RetrieveLocal \/ RetrieveWeb \/ RouteAndRerank
RequestStep ==
    \/ LoadCorpus \/ GraphStep \/ LinearStep
    \/ BuildExecutionPlan \/ Generate \/ GenerationFails \/ ChargeUsage \/ RecordRun
Environment ==
    /\ pc \notin {"answered", "failed"}
    /\ \/ \E d \in Docs : DocumentBecomesReady(d) \/ DocumentIsDeleted(d)
       \/ WikiIsRebuilt
Next == RequestStep \/ Environment \/ Terminated

Spec == Init /\ [][Next]_vars
(* The request runs on its own thread until it returns. *)
FairSpec == Spec /\ WF_vars(RequestStep)
-----------------------------------------------------------------------------
(* The state has its shape; evidence, candidates and citations are chunks. *)
TypeOK ==
    /\ docs \in [Docs -> {"ingesting", "ready", "deleting", "gone"}] /\ pages \subseteq Wiki
    /\ corpus \subseteq Raw \cup Wiki /\ round \in Nat /\ plan.scope \subseteq Docs
    /\ merged \cup seen \subseteq Raw \cup Web /\ evidence \subseteq Chunks /\ sources \subseteq Raw
    /\ verdict.facets \in Facets /\ answer.kind \in {"none", "grounded", "abstains", "chat"}
    /\ answer.cites \subseteq evidence
    /\ strategy \in ContextStrategy \cup {"wiki", "wiki_provenance"}
    /\ run.schema \in {"none", "ChatAnswer", "GroundedAnswer"}

(* Whatever the planner asks for and the index returns, evidence comes from
   documents the caller may read: in a personal project those of this
   conversation, although the index and get_chunks_by_ids span the project;
   the Web only when the request allows it. *)
EvidenceIsAuthorized ==
    /\ \A c \in evidence \cap Raw : DocOf[c] \in Readable
    /\ evidence \cap Wiki = {} \/ ~ask.personal
    /\ evidence \cap Web = {} \/ ask.web

(* The answer rests on Wiki pages only by the short circuit: a fresh Wiki, a
   working judge that found it sufficient with confidence, and a question
   that does not ask for exact evidence; never mixed with other evidence. *)
WikiAnswersAreEarned ==
    pc \in {"build_plan", "generate", "charge", "record", "answered"} /\ evidence \cap Wiki # {} =>
        /\ WikiIsFresh /\ ask.provider /\ ~ask.raw /\ ~ask.web /\ evidence \subseteq Wiki
        /\ verdict.sufficient /\ verdict.confident /\ ~verdict.degraded

(* Evidence is what the caller may read, and what the Wiki may answer. *)
EvidenceIsEarned == EvidenceIsAuthorized /\ WikiAnswersAreEarned

(* Raw and Web evidence fits the evidence budget, also when it is packed in
   two halves, and the larger limit only after the one lightweight fallback. *)
EvidenceFitsItsBudget ==
    evidence \cap Wiki = {} => Size(evidence) <= IF light.used THEN Max({EvidenceBudget, FullContextLimit})
                                                 ELSE EvidenceBudget

(* No request searches more often than its limit, however the judge, the
   planner and the documents behave. *)
RoundsAreBounded == round <= MaxRounds

(* An answer over documents is grounded or abstains: the model chats without
   evidence only when there was nothing to read or the Web was allowed. *)
SilentDocumentsAbstain ==
    answer.kind = "chat" => evidence = {} /\ (corpus = {} \/ ask.web)

(* A recorded answer passed its validation: with evidence it is grounded and
   cites some of it, whatever the model returned. *)
RecordedAnswersAreCited ==
    pc = "answered" => run.passed /\ (evidence # {} => answer.kind = "grounded")

(* The strategy a run is recorded with names the sources its answer cites: a
   promised chat cites nothing, a Web run only pages, and a page is cited only
   by a run that used the Web or read every lightweight chunk on top. *)
StrategyNamesTheSources ==
    pc = "answered" =>
        /\ run.schema = "ChatAnswer" => answer.cites = {}
        /\ run.strategy = "web" => answer.cites \subseteq Web
        /\ answer.cites \cap Web # {} => run.strategy \in {"web", "hybrid_retrieval_web", "full_context"}

(* What is said of the answer, of its sources and of the search for them holds
   together. *)
AnswersAreSupported ==
    /\ TypeOK /\ RoundsAreBounded /\ SilentDocumentsAbstain
    /\ RecordedAnswersAreCited /\ StrategyNamesTheSources

(* An answer that cites a row which is gone is never recorded, although its
   use was counted. *)
OnlyStoredRowsAreCited ==
    [][pc' = "answered" /\ pc # "answered" => 
        \A c \in answer.cites : /\ c \in Wiki => c \in pages
                                /\ c \in Raw => docs[DocOf[c]] # "gone"]_vars

(* A search adds only chunks that were loaded at the start or belong to a
   document that is ready at that moment: points of documents still being
   ingested or already deleted stay out. *)
OnlyReadableChunksAreFound ==
    [][\A c \in (merged' \ merged) \cap Raw : c \in corpus \/ IsReady(c)]_vars

(* Documents that change under a request lend it nothing they no longer have. *)
SourcesAreCurrent == OnlyStoredRowsAreCited /\ OnlyReadableChunksAreFound

(* Every request ends. *)
RequestEnds == <>(pc \in {"answered", "failed"})
=============================================================================
