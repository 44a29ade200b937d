--------------------------- MODULE AnsweringProofs ---------------------------
(***************************************************************************)
(* Proofs about Answering, for any documents, chunks, budgets and rounds.  *)
(*                                                                         *)
(* What a search finds and what a reranker, a packer or a judge makes of   *)
(* it enters through a few lemmas; the invariant then says, for each place *)
(* the request can be at, what its candidates, its evidence, its strategy  *)
(* and its answer have to do with one another.                             *)
(***************************************************************************)
EXTENDS Answering, FiniteSetTheorems, TLAPS

-----------------------------------------------------------------------------
(* Selecting candidates.                                                   *)

\* Limiting, reranking and packing only ever leave something out.
LEMMA PackedIsPart == \A S, budget : \A E \in Packed(S, budget) : E \subseteq S
BY DEF Packed

LEMMA RerankedIsPart == \A S : \A R \in Reranked(S) : R \subseteq S
BY DEF Reranked, NvidiaRanked, QdrantRanked, RerankQuery, DeterministicRanked

LEMMA LimitedIsPart ==
  ASSUME NEW S, NEW limit, NEW C \in Limited(S, limit)
  PROVE  C \subseteq S
<1> DEFINE web == S \cap Web
           local == S \ Web
           room == limit - Min({Cardinality(web), limit})
           Ls == {T \in SUBSET local : /\ Cardinality(T) = Min({room, Cardinality(local)})
                                       /\ Cardinality(DocsOf(T)) = Min({room, Cardinality(DocsOf(local))})}
           Vs == {T \in SUBSET web : Cardinality(T) = Min({limit, Cardinality(web)})}
<1>1. Limited(S, limit) = {L \cup V : L \in Ls, V \in Vs}
  BY DEF Limited
<1>2. PICK L \in Ls, V \in Vs : C = L \cup V
  <2> HIDE DEF Ls, Vs
  <2> QED BY <1>1
<1>3. L \subseteq local /\ V \subseteq web
  BY <1>2
<1> QED BY <1>2, <1>3

\* Both rankings choose the evidence among the candidates.
LEMMA EvidenceIsRanked == RerankEvidence \/ RouteAndRerank => evidence' \subseteq merged
<1>1. ASSUME RerankEvidence PROVE evidence' \subseteq merged
  BY <1>1, LimitedIsPart, PackedIsPart, RerankedIsPart DEF RerankEvidence
<1>2. ASSUME RouteAndRerank PROVE evidence' \subseteq merged
  BY <1>2, LimitedIsPart, PackedIsPart, RerankedIsPart DEF RouteAndRerank
<1> QED BY <1>1, <1>2

\* The scope of a plan only narrows the corpus.
LEMMA ScopedIsLoaded == \A p : Scoped(p) \subseteq corpus \cap Raw
BY DEF Scoped

\* What a local search finds among the chunks of a scope is in the scope, or
\* is a raw chunk of a document that passes the filter and is ready.
LEMMA LocalFinds ==
  ASSUME AnsweringAssumption, NEW scoped \in SUBSET Raw, NEW filter,
         NEW found \in LocalResults(scoped, filter)
  PROVE  /\ found \subseteq Raw
         /\ \A c \in found : c \in scoped \/ (IsReady(c) /\ DocOf[c] \in filter)
<1> DEFINE hybrid == IF Dense(scoped) = {} THEN {{}} ELSE HybridResults(Dense(scoped), filter)
           Good(h) == /\ h \subseteq Raw
                      /\ \A c \in h : c \in scoped \/ (IsReady(c) /\ DocOf[c] \in filter)
           lights == LightResults(scoped \cap Light)
<1>0. LocalResults(scoped, filter) = {h \cup l : h \in hybrid, l \in lights}
  BY DEF LocalResults
<1>1. PICK h \in hybrid, l \in lights : found = h \cup l
  <2> HIDE DEF hybrid, lights
  <2> QED BY <1>0
<1>2. \A s \in Lexical(Dense(scoped)) : Good(s)
  BY DEF Lexical, Dense
<1>3. \A M \in IndexMatches(filter) : Good(Hydrated(M))
  BY DEF IndexMatches, InFilter, Hydrated, Dense
<1>4. Good(h)
  <2>1. CASE h = {}
    BY <2>1
  <2>2. CASE h \in HybridResults(Dense(scoped), filter)
    <3> DEFINE semantic == {Hydrated(M) : M \in IndexMatches(filter)}
               lexical == Lexical(Dense(scoped))
    <3>1. h \in semantic \cup lexical \cup Fused(lexical, semantic)
      BY <2>2 DEF HybridResults
    <3>2. CASE h \in semantic
      BY <3>2, <1>3
    <3>3. CASE h \in lexical
      BY <3>3, <1>2
    <3>4. CASE h \in Fused(lexical, semantic)
      <4>1. PICK B \in lexical, M \in semantic : h = B \cup M
        BY <3>4 DEF Fused
      <4>2. Good(B) /\ Good(M)
        BY <1>2, <1>3
      <4> QED BY <4>1, <4>2
    <3> QED BY <3>1, <3>2, <3>3, <3>4
  <2> QED BY <1>1, <2>1, <2>2
<1>5. l \subseteq scoped \cap Light
  BY <1>1 DEF LightResults, Lexical
<1> QED BY <1>1, <1>4, <1>5

LEMMA WebFinds == \A found \in WebResults : found \subseteq Web
BY DEF WebResults, PagesFound, WebEvidenceError

-----------------------------------------------------------------------------
(* What the judge says.                                                    *)

Verdicts == [sufficient : BOOLEAN, confident : BOOLEAN, raw : BOOLEAN, facets : Facets,
             degraded : BOOLEAN]

\* A verdict is favourable only when a judge was asked about some evidence and
\* gave a valid answer, and an exactness requirement is never lost.
LEMMA Assessed ==
  ASSUME ask \in Asks, NEW S, NEW v \in Assess(S)
  PROVE  /\ v \in Verdicts
         /\ v.sufficient => ask.provider /\ ~v.degraded
         /\ ask.raw => v.raw
<1>a. ask.raw \in BOOLEAN /\ ask.provider \in BOOLEAN
  BY DEF Asks
<1>1. CASE v = [sufficient |-> FALSE, confident |-> FALSE, raw |-> ask.raw, facets |-> "none",
                degraded |-> FALSE]
  BY <1>1, <1>a DEF Verdicts, Facets
<1>2. CASE v = [Fallback EXCEPT !.raw = ask.raw]
  <2>1. v = [sufficient |-> FALSE, confident |-> FALSE, raw |-> ask.raw, facets |-> "local",
             degraded |-> TRUE]
    BY <1>2 DEF Fallback
  <2> QED BY <2>1, <1>a DEF Verdicts, Facets
<1>3. ASSUME ask.provider,
             NEW u \in [sufficient : BOOLEAN, confident : BOOLEAN, raw : BOOLEAN, facets : Facets,
                        degraded : {FALSE}],
             v = [u EXCEPT !.raw = @ \/ ask.raw]
      PROVE  /\ v \in Verdicts
             /\ v.sufficient => ask.provider /\ ~v.degraded
             /\ ask.raw => v.raw
  <2> DEFINE b == u.raw \/ ask.raw
  <2>1. b \in BOOLEAN /\ v = [u EXCEPT !.raw = b]
    BY <1>3
  <2> HIDE DEF b
  <2>2. v \in Verdicts /\ v.raw = b /\ v.degraded = FALSE
    BY <1>3, <2>1 DEF Verdicts
  <2>3. ask.raw => b
    BY DEF b
  <2> QED BY <1>3, <2>2, <2>3
<1> QED BY <1>1, <1>2, <1>3 DEF Assess

-----------------------------------------------------------------------------
(* The invariant.                                                          *)

Strategies == ContextStrategy \cup {"wiki", "wiki_provenance"}
Plans == [scope : SUBSET Docs, web : BOOLEAN, made : BOOLEAN]
Answers == [kind : {"none", "grounded", "abstains", "chat"}, cites : SUBSET Chunks, charged : BOOLEAN]
Places == {"load", "prepare_context", "judge_wiki", "expand_wiki_sources", "plan_evidence",
           "search_sources", "rerank_evidence", "judge_evidence", "expand_lightweight_context",
           "refine_query", "retrieve_local", "retrieve_web", "route_and_rerank", "build_plan",
           "generate", "charge", "record", "answered", "failed"}

\* Before any evidence; while Wiki pages may still be the evidence; while there
\* is an answer.
Early == {"load", "prepare_context", "judge_wiki", "retrieve_local", "retrieve_web",
          "route_and_rerank"}
WikiPlaces == {"expand_wiki_sources", "plan_evidence", "search_sources", "rerank_evidence",
               "build_plan", "generate", "charge", "record", "answered", "failed"}
AnswerPlaces == {"charge", "record", "answered"}

Shape ==
  /\ docs \in [Docs -> {"ingesting", "ready", "deleting", "gone"}] /\ pages \subseteq Wiki
  /\ ask \in Asks /\ pc \in Places /\ corpus \subseteq Raw \cup Wiki
  /\ plan \in Plans /\ round \in Nat
  /\ merged \subseteq Raw \cup Web /\ seen \subseteq Raw \cup Web
  /\ evidence \subseteq Chunks /\ sources \subseteq Raw
  /\ verdict \in Verdicts /\ strategy \in Strategies
  /\ answer \in Answers /\ answer.cites \subseteq evidence
  /\ run.schema \in {"none", "ChatAnswer", "GroundedAnswer"}

\* Corpus, candidates, evidence and sources hold no chunk the caller may not
\* read, and no page unless the request allows the Web.
ReadableOnly(S) == \A c \in S \cap Raw : DocOf[c] \in Readable
Authorized ==
  /\ ReadableOnly(corpus) /\ ReadableOnly(merged) /\ ReadableOnly(evidence) /\ ReadableOnly(sources)
  /\ corpus \cap Wiki = {} \/ ~ask.personal
  /\ merged \cap Web = {} \/ ask.web
  /\ evidence \cap Web = {} \/ ask.web
  /\ plan.web \/ pc = "retrieve_web" => ask.web

\* Where a search may follow, there is a round left.
Rounds ==
  /\ round <= MaxRounds
  /\ pc \in {"load", "prepare_context", "judge_wiki"} => round = 0
  /\ pc \in {"plan_evidence", "refine_query"} => round < MaxRounds

\* Pages of the Wiki are evidence only on a fresh Wiki and alone; they are
\* answered from only when that was earned.
WikiEvidence ==
  /\ pc = "judge_wiki" => WikiIsFresh
  /\ evidence \cap Wiki # {} => WikiIsFresh /\ evidence \subseteq Wiki /\ pc \in WikiPlaces
  /\ WikiAnswersAreEarned

\* The answer, once there is one, goes with the evidence.
Supported ==
  /\ pc \in Early => evidence = {}
  /\ pc \notin AnswerPlaces \cup {"failed"} => answer.kind = "none" /\ answer.cites = {}
  /\ pc \in AnswerPlaces => /\ answer.kind # "none"
                            /\ evidence # {} => answer.kind = "grounded" /\ answer.cites # {}
  /\ SilentDocumentsAbstain
  /\ pc = "answered" => run = RunRow

\* The strategy names the sources of the evidence, and in the linear pipeline
\* of the candidates already.
Names(S) ==
  /\ strategy = "chat" => S = {}
  /\ strategy = "web" => S \subseteq Web
  /\ S \cap Web # {} => strategy \in {"web", "hybrid_retrieval_web", "full_context"}
StrategyFits ==
  /\ Names(evidence)
  /\ pc = "load" => merged = {}
  /\ pc = "retrieve_local" => corpus # {}
  /\ pc = "retrieve_web" => /\ merged \cap Web = {}
                            /\ IF corpus = {} THEN merged = {} ELSE strategy = "hybrid_retrieval"
  /\ pc = "route_and_rerank" => Names(merged)
  /\ pc = "rerank_evidence" /\ corpus = {} => merged \subseteq Web

Inv == Shape /\ Authorized /\ Rounds /\ WikiEvidence /\ Supported /\ StrategyFits

-----------------------------------------------------------------------------
(* Types.                                                                  *)

LEMMA PlansTyped ==
  ASSUME Shape
  PROVE  /\ \A p \in Planned : p \in Plans /\ p.web = ask.web
         /\ Refined(plan) \in Plans
         /\ Refined(plan).web => plan.web \/ ask.web
<1>a. ask.web \in BOOLEAN /\ plan \in Plans
  BY DEF Shape, Asks
<1>1. ASSUME NEW p \in Planned PROVE p \in Plans /\ p.web = ask.web
  <2>1. PICK s \in IF ask.provider THEN {{}} \cup {{d} : d \in Docs} ELSE {{}} :
          p = [scope |-> s, web |-> ask.web, made |-> TRUE]
    BY DEF Planned
  <2>2. s \subseteq Docs
    BY <2>1
  <2> QED BY <1>a, <2>1, <2>2 DEF Plans
<1>2. Refined(plan) \in Plans /\ (Refined(plan).web => plan.web \/ ask.web)
  <2> DEFINE b == plan.web \/ (ask.web /\ verdict.facets = "web")
  <2>1. b \in BOOLEAN /\ Refined(plan) = [plan EXCEPT !.web = b]
    BY DEF Refined
  <2>2. b => plan.web \/ ask.web
    OBVIOUS
  <2> HIDE DEF b
  <2>3. [plan EXCEPT !.web = b] \in Plans /\ [plan EXCEPT !.web = b].web = b
    BY <1>a, <2>1 DEF Plans
  <2> QED BY <2>1, <2>2, <2>3
<1> QED BY <1>1, <1>2

\* The answer a generation or the count of its use makes.
LEMMA AnswersTyped ==
  ASSUME Shape
  PROVE  /\ \A cs \in SUBSET Chunks :
              /\ [answer EXCEPT !.kind = "grounded", !.cites = cs] \in Answers
              /\ [answer EXCEPT !.kind = "grounded", !.cites = cs].kind = "grounded"
              /\ [answer EXCEPT !.kind = "grounded", !.cites = cs].cites = cs
         /\ \A k \in {"abstains", "chat"} :
              /\ [answer EXCEPT !.kind = k] \in Answers
              /\ [answer EXCEPT !.kind = k].kind = k
              /\ [answer EXCEPT !.kind = k].cites = answer.cites
         /\ /\ [answer EXCEPT !.charged = TRUE] \in Answers
            /\ [answer EXCEPT !.charged = TRUE].kind = answer.kind
            /\ [answer EXCEPT !.charged = TRUE].cites = answer.cites
<1>1. answer \in Answers
  BY DEF Shape
<1>2. ASSUME NEW cs \in SUBSET Chunks
      PROVE  /\ [answer EXCEPT !.kind = "grounded", !.cites = cs] \in Answers
             /\ [answer EXCEPT !.kind = "grounded", !.cites = cs].kind = "grounded"
             /\ [answer EXCEPT !.kind = "grounded", !.cites = cs].cites = cs
  BY <1>1 DEF Answers
<1>3. ASSUME NEW k \in {"abstains", "chat"}
      PROVE  /\ [answer EXCEPT !.kind = k] \in Answers
             /\ [answer EXCEPT !.kind = k].kind = k
             /\ [answer EXCEPT !.kind = k].cites = answer.cites
  BY <1>1 DEF Answers
<1>4. /\ [answer EXCEPT !.charged = TRUE] \in Answers
      /\ [answer EXCEPT !.charged = TRUE].kind = answer.kind
      /\ [answer EXCEPT !.charged = TRUE].cites = answer.cites
  BY <1>1 DEF Answers
<1> QED BY <1>2, <1>3, <1>4

\* What a generation does: the three outcomes.
LEMMA Generates ==
  ASSUME Shape, Generate
  PROVE  /\ answer' \in Answers /\ answer'.kind # "none"
         /\ evidence # {} => answer'.kind = "grounded" /\ answer'.cites # {} /\ answer'.cites \subseteq evidence
         /\ evidence = {} => answer'.cites = answer.cites
         /\ answer'.kind = "chat" => evidence = {} /\ (corpus = {} \/ ask.web)
<1>1. CASE GroundedAnswer
  <2>1. PICK cs \in Citations : answer' = [answer EXCEPT !.kind = "grounded", !.cites = cs]
    BY <1>1 DEF GroundedAnswer
  <2>2. cs # {} /\ cs \subseteq evidence /\ evidence # {}
    BY <1>1 DEF Citations, GroundedAnswer
  <2>3. cs \in SUBSET Chunks
    BY <2>2 DEF Shape
  <2> QED BY <2>1, <2>2, <2>3, AnswersTyped
<1>2. CASE evidence = {} /\ corpus # {} /\ ~ask.web /\ answer' = [answer EXCEPT !.kind = "abstains"]
  BY <1>2, AnswersTyped
<1>3. CASE evidence = {} /\ (corpus = {} \/ ask.web) /\ ChatAnswer
  BY <1>3, AnswersTyped DEF ChatAnswer
<1> QED BY <1>1, <1>2, <1>3 DEF Generate

LEMMA ShapeStep ==
  ASSUME AnsweringAssumption, Shape, Supported, Next
  PROVE  Shape'
<1> USE DEF request, world
<1>a. answer \in Answers /\ answer.cites \subseteq evidence
  BY DEF Shape
<1>0. CASE Terminated
  BY <1>0 DEF Terminated, vars, Shape
<1>1. CASE Environment
  BY <1>1 DEF Environment, DocumentBecomesReady, DocumentIsDeleted, WikiIsRebuilt, Shape
<1>2. CASE LoadCorpus
  <2>1. corpus' \subseteq Raw \cup Wiki
    BY <1>2 DEF LoadCorpus, ConversationChunks, ProjectChunks, Shape
  <2>2. strategy' \in Strategies /\ pc' \in Places
    BY <1>2 DEF LoadCorpus, Strategies, ContextStrategy, Places, Shape
  <2> QED BY <1>2, <2>1, <2>2 DEF LoadCorpus, Shape
<1>3. CASE PrepareContext
  BY <1>3 DEF PrepareContext, Shape, Places
<1>4. CASE JudgeWiki
  <2>0. PICK S \in SUBSET (corpus \cap Wiki) : \E v \in Assess(S) :
          /\ evidence' = S /\ verdict' = v
          /\ sources' = (UNION {Provenance[w] : w \in S}) \cap Scoped(plan)
          /\ pc' = AfterWiki(v, sources')
    BY <1>4 DEF JudgeWiki
  <2>1. PICK v \in Assess(S) :
          /\ evidence' = S /\ verdict' = v
          /\ sources' = (UNION {Provenance[w] : w \in S}) \cap Scoped(plan)
          /\ pc' = AfterWiki(v, sources')
    BY <2>0
  <2>2. verdict' \in Verdicts
    BY <2>1, Assessed DEF Shape
  <2>3. evidence' \subseteq Chunks /\ sources' \subseteq Raw
    BY <2>1, ScopedIsLoaded DEF Chunks
  <2>4. pc' \in Places
    BY <2>1 DEF AfterWiki, Places
  <2>5. answer.cites = {}
    BY <1>4 DEF JudgeWiki, Supported, AnswerPlaces
  <2> QED BY <1>4, <2>2, <2>3, <2>4, <2>5 DEF JudgeWiki, Shape, Strategies
<1>5. CASE ExpandWikiSources
  <2>1. evidence' \subseteq sources
    BY <1>5, PackedIsPart DEF ExpandWikiSources
  <2>2. answer.cites = {}
    BY <1>5 DEF ExpandWikiSources, Supported, AnswerPlaces
  <2> QED BY <1>5, <2>1, <2>2 DEF ExpandWikiSources, Shape, Strategies, Places, Chunks
<1>6. CASE PlanEvidence
  BY <1>6, PlansTyped DEF PlanEvidence, Shape, Places
<1>7. CASE SearchSources
  <2>1. PICK r \in FoundLocally, w \in FoundOnWeb : merged' = r \cup w
    BY <1>7 DEF SearchSources
  <2>2. r \subseteq Raw
    BY <2>1, LocalFinds, ScopedIsLoaded DEF FoundLocally
  <2>3. w \subseteq Web
    BY <2>1, WebFinds DEF FoundOnWeb
  <2> QED BY <1>7, <2>1, <2>2, <2>3 DEF SearchSources, Shape, Places
<1>8. CASE RerankEvidence
  <2>1. PICK C \in Limited(merged, RoundLimit) :
          /\ merged' = {} /\ seen' = seen \cup C
          /\ \E R \in Reranked(C \ Light) : \E E \in Packed(R, EvidenceBudget) :
               \E L \in Packed(C \cap Light, EvidenceBudget - Size(E)) : evidence' = E \cup L
    BY <1>8 DEF RerankEvidence
  <2>2. C \subseteq merged
    BY <2>1, LimitedIsPart
  <2>3. evidence' \subseteq C
    BY <2>1, PackedIsPart, RerankedIsPart
  <2>4. answer.cites = {}
    BY <1>8 DEF RerankEvidence, Supported, AnswerPlaces
  <2>5. strategy' \in Strategies
    BY <1>8 DEF RerankEvidence, Strategy, Strategies, ContextStrategy
  <2> QED BY <1>8, <2>1, <2>2, <2>3, <2>4, <2>5 DEF RerankEvidence, Shape, Places, Chunks
<1>9. CASE JudgeEvidence
  <2>1. PICK v \in Assess(evidence) :
          pc' = AfterEvidence(v) /\ verdict' = [v EXCEPT !.confident = FALSE, !.raw = FALSE]
    BY <1>9 DEF JudgeEvidence
  <2>2. v \in Verdicts
    BY <2>1, Assessed DEF Shape
  <2>3. verdict' \in Verdicts
    BY <2>1, <2>2 DEF Verdicts
  <2>4. pc' \in Places
    BY <2>1 DEF AfterEvidence, Places
  <2> QED BY <1>9, <2>3, <2>4 DEF JudgeEvidence, Shape
<1>10. CASE ExpandLightweightContext
  <2>1. evidence' \subseteq evidence \cup Scoped(plan)
    BY <1>10, PackedIsPart DEF ExpandLightweightContext
  <2>2. answer.cites = {}
    BY <1>10 DEF ExpandLightweightContext, Supported, AnswerPlaces
  <2> QED BY <1>10, <2>1, <2>2, ScopedIsLoaded
          DEF ExpandLightweightContext, Shape, Strategies, ContextStrategy, Places, Chunks
<1>11. CASE RefineQuery
  BY <1>11, PlansTyped DEF RefineQuery, Shape, Places
<1>12. CASE RetrieveLocal
  <2>1. merged' \subseteq Raw
    BY <1>12, LocalFinds DEF RetrieveLocal
  <2> QED BY <1>12, <2>1 DEF RetrieveLocal, Shape, Strategies, ContextStrategy, Places
<1>13. CASE RetrieveWeb
  <2>1. merged' \subseteq merged \cup Web
    BY <1>13, WebFinds DEF RetrieveWeb
  <2>2. strategy' \in Strategies
    BY <1>13 DEF RetrieveWeb, Strategies, ContextStrategy, Shape
  <2> QED BY <1>13, <2>1, <2>2 DEF RetrieveWeb, Shape, Places
<1>14. CASE RouteAndRerank
  <2>1. merged' = {} /\ evidence' \subseteq merged
    BY <1>14, EvidenceIsRanked DEF RouteAndRerank
  <2>2. answer.cites = {}
    BY <1>14 DEF RouteAndRerank, Supported, AnswerPlaces
  <2> QED BY <1>14, <2>1, <2>2 DEF RouteAndRerank, Shape, Places, Chunks
<1>15. CASE BuildExecutionPlan \/ GenerationFails
  BY <1>15 DEF BuildExecutionPlan, GenerationFails, Shape, Places
<1>16. CASE Generate
  <2>1. answer' \in Answers /\ answer'.cites \subseteq evidence
    BY <1>16, <1>a, Generates
  <2> QED BY <1>16, <2>1 DEF Generate, Shape, Places
<1>17. CASE ChargeUsage
  BY <1>17, <1>a, AnswersTyped DEF ChargeUsage, Shape, Places
<1>18. CASE RecordRun
  BY <1>18 DEF RecordRun, RunRow, OutputSchema, Shape, Places
<1> QED
  BY <1>0, <1>1, <1>2, <1>3, <1>4, <1>5, <1>6, <1>7, <1>8, <1>9, <1>10, <1>11, <1>12, <1>13,
     <1>14, <1>15, <1>16, <1>17, <1>18
     DEF Next, RequestStep, GraphStep, LinearStep

-----------------------------------------------------------------------------
(* What the caller may read.                                               *)

\* Taking chunks away, or adding readable ones, keeps a set readable.
LEMMA ReadableParts ==
  /\ \A S, T : ReadableOnly(S) /\ T \subseteq S => ReadableOnly(T)
  /\ \A S, T : ReadableOnly(S) /\ ReadableOnly(T) => ReadableOnly(S \cup T)
BY DEF ReadableOnly

\* Both searches, over a scope and an index filter that are readable, find
\* readable chunks only.
LEMMA ReadableFound ==
  ASSUME AnsweringAssumption, Shape, ReadableOnly(corpus)
  PROVE  /\ \A found \in FoundLocally : found \subseteq Raw /\ ReadableOnly(found)
         /\ \A found \in LocalResults(corpus \cap Raw, Readable) :
              found \subseteq Raw /\ ReadableOnly(found)
<1>1. ASSUME NEW found \in FoundLocally PROVE found \subseteq Raw /\ ReadableOnly(found)
  <2>1. \A c \in Scoped(plan) : c \in Raw /\ DocOf[c] \in Readable
    BY ScopedIsLoaded DEF ReadableOnly
  <2>2. \A d \in IndexFilter : d \in Readable
    BY <2>1 DEF IndexFilter, DocsOf
  <2>3. Scoped(plan) \in SUBSET Raw /\ found \in LocalResults(Scoped(plan), IndexFilter)
    BY <1>1, <2>1 DEF FoundLocally
  <2>4. /\ found \subseteq Raw
        /\ \A c \in found : c \in Scoped(plan) \/ (IsReady(c) /\ DocOf[c] \in IndexFilter)
    BY <2>3, LocalFinds
  <2> QED BY <2>1, <2>2, <2>4 DEF ReadableOnly
<1>r. corpus \cap Raw \in SUBSET Raw
  OBVIOUS
<1>2. ASSUME NEW found \in LocalResults(corpus \cap Raw, Readable)
      PROVE  found \subseteq Raw /\ ReadableOnly(found)
  <2>1. /\ found \subseteq Raw
        /\ \A c \in found : c \in corpus \cap Raw \/ (IsReady(c) /\ DocOf[c] \in Readable)
    BY <1>2, <1>r, LocalFinds
  <2> QED BY <2>1 DEF ReadableOnly
<1> QED BY <1>1, <1>2

\* What is loaded is readable: a personal Ask loads the chunks of its
\* conversation and no page of the project's Wiki.
LEMMA ReadableLoaded ==
  ASSUME AnsweringAssumption, Shape, LoadCorpus
  PROVE  ReadableOnly(corpus') /\ (corpus' \cap Wiki = {} \/ ~ask.personal)
<1>1. CASE ask.personal
  <2>1. corpus' = ConversationChunks
    BY <1>1 DEF LoadCorpus
  <2>2. ReadableOnly(ConversationChunks) /\ ConversationChunks \subseteq Raw
    BY <1>1 DEF ConversationChunks, ReadableOnly, Readable
  <2> QED BY <2>1, <2>2 DEF AnsweringAssumption
<1>2. CASE ~ask.personal
  <2>1. Readable = Docs
    BY <1>2 DEF Readable
  <2> QED BY <1>2, <2>1 DEF AnsweringAssumption, ReadableOnly
<1> QED BY <1>1, <1>2

LEMMA AuthorizedStep ==
  ASSUME AnsweringAssumption, Shape, Authorized, Next
  PROVE  Authorized'
<1> USE DEF request, world
\* The request does not change, and so neither does what may be read.
<1>ask. ASSUME ask' = ask PROVE \A S : ReadableOnly(S)' <=> ReadableOnly(S)
  BY <1>ask DEF ReadableOnly, Readable
<1>a. /\ ReadableOnly(corpus) /\ ReadableOnly(merged)
      /\ ReadableOnly(evidence) /\ ReadableOnly(sources)
  BY DEF Authorized
<1>0. CASE Terminated
  BY <1>0 DEF Terminated, vars, Authorized, ReadableOnly, Readable
<1>1. CASE Environment
  BY <1>1 DEF Environment, DocumentBecomesReady, DocumentIsDeleted, WikiIsRebuilt, Authorized,
              ReadableOnly, Readable
<1>2. CASE LoadCorpus
  <2>1. ReadableOnly(corpus') /\ (corpus' \cap Wiki = {} \/ ~ask.personal)
    BY <1>2, ReadableLoaded
  <2>2. pc' = "retrieve_web" => ask.web
    BY <1>2 DEF LoadCorpus
  <2> QED BY <1>2, <1>a, <2>1, <2>2 DEF LoadCorpus, Authorized, ReadableOnly, Readable
<1>3. CASE PrepareContext
  BY <1>3 DEF PrepareContext, Authorized, ReadableOnly, Readable
<1>4. CASE JudgeWiki
  <2>1. evidence' \subseteq corpus \cap Wiki /\ sources' \subseteq corpus
    BY <1>4, ScopedIsLoaded DEF JudgeWiki
  <2>2. ReadableOnly(evidence') /\ ReadableOnly(sources')
    BY <1>a, <2>1, ReadableParts
  <2>3. evidence' \cap Web = {} /\ pc' # "retrieve_web"
    BY <1>4, <2>1 DEF JudgeWiki, AfterWiki, AnsweringAssumption
  <2> QED BY <1>4, <2>2, <2>3 DEF JudgeWiki, Authorized, ReadableOnly, Readable
<1>5. CASE ExpandWikiSources
  <2>1. evidence' \subseteq sources
    BY <1>5, PackedIsPart DEF ExpandWikiSources
  <2>2. ReadableOnly(evidence') /\ evidence' \cap Web = {}
    BY <1>a, <2>1, ReadableParts DEF Shape, AnsweringAssumption
  <2> QED BY <1>5, <2>2 DEF ExpandWikiSources, Authorized, ReadableOnly, Readable
<1>6. CASE PlanEvidence
  BY <1>6, PlansTyped DEF PlanEvidence, Authorized, ReadableOnly, Readable
<1>7. CASE SearchSources
  <2>1. PICK r \in FoundLocally, w \in FoundOnWeb : merged' = r \cup w
    BY <1>7 DEF SearchSources
  <2>2. r \subseteq Raw /\ ReadableOnly(r)
    BY <1>a, <2>1, ReadableFound
  <2>3. w \subseteq Web /\ (w # {} => ask.web)
    BY <2>1, WebFinds DEF FoundOnWeb, Authorized
  <2>4. ReadableOnly(merged') /\ (merged' \cap Web # {} => ask.web)
    BY <2>1, <2>2, <2>3 DEF ReadableOnly, AnsweringAssumption
  <2> QED BY <1>7, <2>4 DEF SearchSources, Authorized, ReadableOnly, Readable
<1>8. CASE RerankEvidence
  <2>1. merged' = {} /\ evidence' \subseteq merged
    BY <1>8, EvidenceIsRanked DEF RerankEvidence
  <2>2. ReadableOnly(evidence') /\ (evidence' \cap Web = {} \/ ask.web)
    BY <1>a, <2>1, ReadableParts DEF Authorized
  <2> QED BY <1>8, <2>1, <2>2 DEF RerankEvidence, Authorized, ReadableOnly, Readable
<1>9. CASE JudgeEvidence
  BY <1>9 DEF JudgeEvidence, AfterEvidence, Authorized, ReadableOnly, Readable
<1>10. CASE ExpandLightweightContext
  <2>1. PICK P \in Packed(evidence, FullContextLimit) :
          \E L \in Packed((Scoped(plan) \cap Light) \ evidence, FullContextLimit - Size(P)) :
            evidence' = P \cup L
    BY <1>10 DEF ExpandLightweightContext
  <2>2. PICK L \in Packed((Scoped(plan) \cap Light) \ evidence, FullContextLimit - Size(P)) :
          evidence' = P \cup L
    BY <2>1
  <2>3. P \subseteq evidence /\ L \subseteq corpus /\ L \subseteq Raw
    BY <2>1, <2>2, PackedIsPart, ScopedIsLoaded
  <2>4. ReadableOnly(evidence') /\ (evidence' \cap Web = {} \/ ask.web)
    BY <1>a, <2>2, <2>3 DEF ReadableOnly, Authorized, AnsweringAssumption
  <2> QED BY <1>10, <2>4 DEF ExpandLightweightContext, Authorized, ReadableOnly, Readable
<1>11. CASE RefineQuery
  BY <1>11, PlansTyped DEF RefineQuery, Authorized, ReadableOnly, Readable
<1>12. CASE RetrieveLocal
  <2>1. merged' \subseteq Raw /\ ReadableOnly(merged')
    BY <1>12, <1>a, ReadableFound DEF RetrieveLocal
  <2>2. merged' \cap Web = {} /\ (pc' = "retrieve_web" => ask.web)
    BY <1>12, <2>1 DEF RetrieveLocal, AnsweringAssumption
  <2> QED BY <1>12, <2>1, <2>2 DEF RetrieveLocal, Authorized, ReadableOnly, Readable
<1>13. CASE RetrieveWeb
  <2>1. ask.web
    BY <1>13 DEF RetrieveWeb, Authorized
  <2>2. \A c \in merged' : c \in merged \/ c \in Web
    BY <1>13, WebFinds DEF RetrieveWeb
  <2>3. ReadableOnly(merged')
    BY <1>a, <2>2 DEF ReadableOnly, AnsweringAssumption
  <2> QED BY <1>13, <2>1, <2>3 DEF RetrieveWeb, Authorized, ReadableOnly, Readable
<1>14. CASE RouteAndRerank
  <2>1. merged' = {} /\ evidence' \subseteq merged
    BY <1>14, EvidenceIsRanked DEF RouteAndRerank
  <2>2. ReadableOnly(evidence') /\ (evidence' \cap Web = {} \/ ask.web)
    BY <1>a, <2>1, ReadableParts DEF Authorized
  <2> QED BY <1>14, <2>1, <2>2 DEF RouteAndRerank, Authorized, ReadableOnly, Readable
<1>15. CASE BuildExecutionPlan \/ GenerationFails \/ Generate \/ ChargeUsage \/ RecordRun
  BY <1>15 DEF BuildExecutionPlan, GenerationFails, Generate, ChargeUsage, RecordRun,
               Authorized, ReadableOnly, Readable
<1> QED
  BY <1>0, <1>1, <1>2, <1>3, <1>4, <1>5, <1>6, <1>7, <1>8, <1>9, <1>10, <1>11, <1>12, <1>13,
     <1>14, <1>15
     DEF Next, RequestStep, GraphStep, LinearStep

-----------------------------------------------------------------------------
(* Rounds.                                                                 *)

\* A round begins in plan_evidence only, and a step leads there only while one
\* is left.
LEMMA RoundsStep ==
  ASSUME AnsweringAssumption, Shape, Rounds, Next
  PROVE  Rounds'
<1> USE DEF request, world
<1>a. MaxRounds \in Nat \ {0} /\ round \in Nat
  BY DEF AnsweringAssumption, Shape
<1>0. CASE Terminated \/ Environment
  BY <1>0 DEF Terminated, vars, Environment, DocumentBecomesReady, DocumentIsDeleted,
              WikiIsRebuilt, Rounds
<1>1. CASE LoadCorpus \/ PrepareContext \/ JudgeWiki \/ ExpandWikiSources
  BY <1>1, <1>a DEF LoadCorpus, PrepareContext, JudgeWiki, AfterWiki, ExpandWikiSources, Rounds
<1>2. CASE PlanEvidence
  BY <1>2, <1>a DEF PlanEvidence, Rounds
<1>3. CASE SearchSources \/ RerankEvidence \/ ExpandLightweightContext \/ RefineQuery
  BY <1>3 DEF SearchSources, RerankEvidence, ExpandLightweightContext, RefineQuery, Rounds
<1>4. CASE JudgeEvidence
  <2>1. PICK v \in Assess(evidence) : pc' = AfterEvidence(v)
    BY <1>4 DEF JudgeEvidence
  <2>2. /\ pc' \in {"build_plan", "expand_lightweight_context", "refine_query"}
        /\ pc' = "refine_query" => ~(round >= MaxRounds)
    BY <2>1 DEF AfterEvidence
  <2> QED BY <1>4, <1>a, <2>2 DEF JudgeEvidence, Rounds
<1>5. CASE LinearStep
  BY <1>5 DEF LinearStep, RetrieveLocal, RetrieveWeb, RouteAndRerank, Rounds
<1>6. CASE BuildExecutionPlan \/ Generate \/ GenerationFails \/ ChargeUsage \/ RecordRun
  BY <1>6 DEF BuildExecutionPlan, Generate, GenerationFails, ChargeUsage, RecordRun, Rounds
<1> QED
  BY <1>0, <1>1, <1>2, <1>3, <1>4, <1>5, <1>6 DEF Next, RequestStep, GraphStep

-----------------------------------------------------------------------------
(* Evidence from the Wiki.                                                 *)

\* With evidence that holds no page of the Wiki there is nothing to earn.
NoWiki == evidence \cap Wiki = {}

LEMMA WikiEvidenceStep ==
  ASSUME AnsweringAssumption, Shape, Supported, WikiEvidence, Next
  PROVE  WikiEvidence'
<1> USE DEF request, world
<1>disjoint. Raw \cap Wiki = {} /\ Web \cap Wiki = {} /\ ask \in Asks
  BY DEF AnsweringAssumption, Shape
\* Two ways to keep it: no page becomes evidence, or the evidence, the verdict
\* and the request stay, and the place was and is one for pages.
<1>none. ASSUME NoWiki', pc' # "judge_wiki" PROVE WikiEvidence'
  BY <1>none DEF NoWiki, WikiEvidence, WikiAnswersAreEarned
<1>kept. ASSUME UNCHANGED <<ask, corpus, evidence, verdict>>, pc' # "judge_wiki",
                pc \in WikiPlaces => pc' \in WikiPlaces,
                pc' \in {"build_plan", "generate", "charge", "record", "answered"} =>
                  pc \in {"build_plan", "generate", "charge", "record", "answered"} \/ NoWiki
         PROVE  WikiEvidence'
  BY <1>kept DEF NoWiki, WikiEvidence, WikiAnswersAreEarned, WikiIsFresh
<1>0. CASE Terminated \/ Environment
  BY <1>0 DEF Terminated, vars, Environment, DocumentBecomesReady, DocumentIsDeleted,
              WikiIsRebuilt, WikiEvidence, WikiAnswersAreEarned, WikiIsFresh
<1>1. CASE LoadCorpus
  <2>1. NoWiki' /\ pc' # "judge_wiki"
    BY <1>1 DEF LoadCorpus, NoWiki, Supported, Early
  <2> QED BY <2>1, <1>none
<1>2. CASE PrepareContext
  <2>1. NoWiki /\ NoWiki'
    BY <1>2 DEF PrepareContext, NoWiki, Supported, Early
  <2>2. pc' = "judge_wiki" => WikiIsFresh'
    BY <1>2 DEF PrepareContext, WikiIsFresh
  <2> QED BY <2>1, <2>2 DEF NoWiki, WikiEvidence, WikiAnswersAreEarned
<1>3. CASE JudgeWiki
  <2>0. PICK S \in SUBSET (corpus \cap Wiki) : \E v \in Assess(S) :
          /\ evidence' = S /\ verdict' = v
          /\ sources' = (UNION {Provenance[w] : w \in S}) \cap Scoped(plan)
          /\ pc' = AfterWiki(v, sources')
    BY <1>3 DEF JudgeWiki
  <2>1. PICK v \in Assess(S) :
          /\ evidence' = S /\ verdict' = v
          /\ pc' = AfterWiki(v, sources')
    BY <2>0
  <2>2. pc' \in {"build_plan", "expand_wiki_sources", "plan_evidence"}
    BY <2>1 DEF AfterWiki
  <2>3. WikiIsFresh' /\ WikiIsFresh
    BY <1>3 DEF JudgeWiki, WikiEvidence, WikiIsFresh
  <2>4. ~ask.web
    BY <2>3, <1>disjoint DEF WikiIsFresh, Asks
  <2>5. pc' = "build_plan" => v.sufficient /\ v.confident /\ ~v.raw
    BY <2>1 DEF AfterWiki
  <2>6. pc' = "build_plan" => ask.provider /\ ~ask.raw /\ ~v.degraded
    BY <2>1, <2>5, <1>disjoint, Assessed
  <2>7. ask' = ask
    BY <1>3 DEF JudgeWiki
  <2> QED BY <2>1, <2>2, <2>3, <2>4, <2>5, <2>6, <2>7
          DEF WikiEvidence, WikiAnswersAreEarned, WikiPlaces
<1>4. CASE ExpandWikiSources
  <2>1. evidence' \subseteq sources
    BY <1>4, PackedIsPart DEF ExpandWikiSources
  <2> QED BY <1>4, <1>none, <1>disjoint, <2>1 DEF ExpandWikiSources, NoWiki, Shape
<1>5. CASE PlanEvidence \/ SearchSources
  BY <1>5, <1>kept DEF PlanEvidence, SearchSources, WikiPlaces
<1>6. CASE RerankEvidence \/ RouteAndRerank
  <2>1. evidence' \subseteq merged
    BY <1>6, EvidenceIsRanked
  <2> QED BY <1>6, <1>none, <1>disjoint, <2>1 DEF RerankEvidence, RouteAndRerank, NoWiki, Shape
<1>7. CASE JudgeEvidence
  <2>1. NoWiki /\ NoWiki'
    BY <1>7 DEF JudgeEvidence, WikiEvidence, WikiPlaces, NoWiki
  <2> QED BY <1>7, <1>none, <2>1 DEF JudgeEvidence, AfterEvidence
<1>8. CASE ExpandLightweightContext
  <2>1. NoWiki
    BY <1>8 DEF ExpandLightweightContext, WikiEvidence, WikiPlaces, NoWiki
  <2>2. evidence' \subseteq evidence \cup Raw
    BY <1>8, PackedIsPart, ScopedIsLoaded DEF ExpandLightweightContext
  <2> QED BY <1>8, <1>none, <1>disjoint, <2>1, <2>2 DEF ExpandLightweightContext, NoWiki
<1>9. CASE RefineQuery
  <2>1. NoWiki /\ NoWiki'
    BY <1>9 DEF RefineQuery, WikiEvidence, WikiPlaces, NoWiki
  <2> QED BY <1>9, <1>none, <2>1 DEF RefineQuery
<1>10. CASE RetrieveLocal \/ RetrieveWeb
  <2>1. NoWiki /\ NoWiki'
    BY <1>10 DEF RetrieveLocal, RetrieveWeb, WikiEvidence, WikiPlaces, NoWiki
  <2> QED BY <1>10, <1>none, <2>1 DEF RetrieveLocal, RetrieveWeb
<1>11. CASE BuildExecutionPlan \/ Generate \/ GenerationFails \/ ChargeUsage \/ RecordRun
  BY <1>11, <1>kept
     DEF BuildExecutionPlan, Generate, GenerationFails, ChargeUsage, RecordRun, WikiPlaces
<1> QED
  BY <1>0, <1>1, <1>2, <1>3, <1>4, <1>5, <1>6, <1>7, <1>8, <1>9, <1>10, <1>11
     DEF Next, RequestStep, GraphStep, LinearStep

-----------------------------------------------------------------------------
(* The answer and its sources.                                             *)

\* Until an answer is made there is none; then evidence and answer stay.
LEMMA SupportedStep ==
  ASSUME AnsweringAssumption, Shape, Supported, Next
  PROVE  Supported'
<1> USE DEF request, world
<1>0. CASE Terminated \/ Environment
  BY <1>0 DEF Terminated, vars, Environment, DocumentBecomesReady, DocumentIsDeleted,
              WikiIsRebuilt, Supported, SilentDocumentsAbstain, RunRow, OutputSchema, Passed
\* Where there is no answer before the step and none after it.
<1>none. ASSUME pc \notin AnswerPlaces \cup {"failed"}, pc' \notin AnswerPlaces,
                UNCHANGED answer, pc' \in Early => evidence' = {}
         PROVE  Supported'
  BY <1>none DEF Supported, SilentDocumentsAbstain, AnswerPlaces
<1>1. CASE LoadCorpus
  BY <1>1, <1>none DEF LoadCorpus, Supported, Early, AnswerPlaces
<1>2. CASE PrepareContext
  BY <1>2, <1>none DEF PrepareContext, Supported, Early, AnswerPlaces
<1>3. CASE JudgeWiki
  BY <1>3, <1>none DEF JudgeWiki, AfterWiki, Early, AnswerPlaces
<1>4. CASE ExpandWikiSources \/ PlanEvidence \/ SearchSources \/ RerankEvidence
  BY <1>4, <1>none
     DEF ExpandWikiSources, PlanEvidence, SearchSources, RerankEvidence, Early, AnswerPlaces
<1>5. CASE JudgeEvidence
  BY <1>5, <1>none DEF JudgeEvidence, AfterEvidence, Early, AnswerPlaces
<1>6. CASE ExpandLightweightContext \/ RefineQuery
  BY <1>6, <1>none DEF ExpandLightweightContext, RefineQuery, Early, AnswerPlaces
<1>7. CASE LinearStep
  BY <1>7, <1>none
     DEF LinearStep, RetrieveLocal, RetrieveWeb, RouteAndRerank, Supported, Early, AnswerPlaces
<1>8. CASE BuildExecutionPlan \/ GenerationFails
  BY <1>8, <1>none DEF BuildExecutionPlan, GenerationFails, Early, AnswerPlaces
<1>9. CASE Generate
  <2>1. /\ answer'.kind # "none"
        /\ evidence # {} => answer'.kind = "grounded" /\ answer'.cites # {}
        /\ answer'.kind = "chat" => evidence = {} /\ (corpus = {} \/ ask.web)
    BY <1>9, Generates
  <2> QED BY <1>9, <2>1 DEF Generate, Supported, SilentDocumentsAbstain, Early, AnswerPlaces
<1>10. CASE ChargeUsage
  <2>1. answer'.kind = answer.kind /\ answer'.cites = answer.cites
    BY <1>10, AnswersTyped DEF ChargeUsage
  <2> QED BY <1>10, <2>1 DEF ChargeUsage, Supported, SilentDocumentsAbstain, Early, AnswerPlaces
<1>11. CASE RecordRun
  BY <1>11 DEF RecordRun, Supported, SilentDocumentsAbstain, Early, AnswerPlaces, RunRow,
               OutputSchema, Passed
<1> QED
  BY <1>0, <1>1, <1>2, <1>3, <1>4, <1>5, <1>6, <1>7, <1>8, <1>9, <1>10, <1>11
     DEF Next, RequestStep, GraphStep

\* A set named by the strategy stays so when chunks are taken away.
LEMMA NamedParts == \A S, T : Names(S) /\ T \subseteq S => Names(T)
BY DEF Names

\* The strategy of a round names what the round found.
LEMMA StrategyNames ==
  \A S : /\ Strategy(S) = "chat" => corpus = {} /\ S \cap Web = {}
         /\ Strategy(S) = "web" => S \subseteq Web
         /\ S \cap Web # {} => Strategy(S) \in {"web", "hybrid_retrieval_web", "full_context"}
<1> TAKE S
<1>1. CASE S \cap Web # {} /\ S \ Web # {}
  <2>1. Strategy(S) = "hybrid_retrieval_web"
    BY <1>1 DEF Strategy
  <2> QED BY <2>1
<1>2. CASE S \cap Web # {} /\ S \ Web = {}
  <2>1. Strategy(S) = "web"
    BY <1>2 DEF Strategy
  <2> QED BY <1>2, <2>1
<1>3. CASE S \cap Web = {}
  <2>1. Strategy(S) = IF corpus = {} THEN "chat" ELSE "hybrid_retrieval"
    BY <1>3 DEF Strategy
  <2> QED BY <1>3, <2>1
<1> QED BY <1>1, <1>2, <1>3

LEMMA StrategyStep ==
  ASSUME AnsweringAssumption, Shape, Supported, WikiEvidence, StrategyFits, Next
  PROVE  StrategyFits'
<1> USE DEF request, world
<1> DEFINE Held == {"load", "retrieve_local", "retrieve_web", "route_and_rerank", "rerank_evidence"}
<1>disjoint. Raw \cap Web = {} /\ Wiki \cap Web = {}
  BY DEF AnsweringAssumption
<1>0. CASE Terminated \/ Environment
  BY <1>0 DEF Terminated, vars, Environment, DocumentBecomesReady, DocumentIsDeleted,
              WikiIsRebuilt, StrategyFits, Names
<1>kept. ASSUME UNCHANGED <<strategy, evidence>>,
                pc' \notin Held
         PROVE  StrategyFits'
  BY <1>kept DEF StrategyFits, Names
<1>new. ASSUME Names(evidence)',
               pc' \notin Held
        PROVE  StrategyFits'
  BY <1>new DEF StrategyFits
<1>1. CASE LoadCorpus
  <2>1. evidence' = {} /\ merged' = {}
    BY <1>1 DEF LoadCorpus, Supported, Early, StrategyFits
  <2>2. pc' = "retrieve_local" => corpus' # {}
    BY <1>1 DEF LoadCorpus
  <2>3. pc' \notin {"load", "route_and_rerank", "rerank_evidence"}
    BY <1>1 DEF LoadCorpus
  <2>4. pc' = "retrieve_web" => corpus' = {}
    BY <1>1 DEF LoadCorpus
  <2> QED BY <2>1, <2>2, <2>3, <2>4 DEF StrategyFits, Names
<1>2. CASE PrepareContext
  BY <1>2, <1>kept DEF PrepareContext
<1>3. CASE JudgeWiki
  <2>1. evidence' \subseteq Wiki /\ strategy' = "wiki"
    BY <1>3 DEF JudgeWiki
  <2>2. pc' \in {"build_plan", "expand_wiki_sources", "plan_evidence"}
    BY <1>3 DEF JudgeWiki, AfterWiki
  <2> QED BY <1>new, <1>disjoint, <2>1, <2>2 DEF Names
<1>4. CASE ExpandWikiSources
  <2>1. evidence' \subseteq Raw /\ strategy' = "wiki_provenance"
    BY <1>4, PackedIsPart DEF ExpandWikiSources, Shape
  <2> QED BY <1>4, <1>new, <1>disjoint, <2>1 DEF ExpandWikiSources, Names
<1>5. CASE PlanEvidence \/ SearchSources
  <2>1. CASE PlanEvidence
    BY <2>1, <1>kept DEF PlanEvidence
  <2>2. CASE SearchSources
    <3>1. PICK r \in FoundLocally, w \in FoundOnWeb : merged' = r \cup w
      BY <2>2 DEF SearchSources
    <3>2. w \subseteq Web
      BY WebFinds DEF FoundOnWeb
    <3>3. ASSUME corpus = {} PROVE r = {}
      <4>1. Scoped(plan) = {} /\ IndexFilter = {}
        BY <3>3, ScopedIsLoaded DEF IndexFilter, DocsOf
      <4> QED BY <4>1, LocalFinds DEF FoundLocally
    <3>4. pc' = "rerank_evidence" /\ UNCHANGED <<evidence, strategy, corpus>>
      BY <2>2 DEF SearchSources
    <3>5. corpus = {} => merged' \subseteq Web
      BY <3>1, <3>2, <3>3
    <3> QED BY <3>4, <3>5 DEF StrategyFits, Names
  <2> QED BY <1>5, <2>1, <2>2
<1>6. CASE RerankEvidence
  <2>1. evidence' \subseteq merged /\ strategy' = Strategy(merged)
    BY <1>6, EvidenceIsRanked DEF RerankEvidence
  <2>0. corpus = {} => merged \subseteq Web
    BY <1>6 DEF RerankEvidence, StrategyFits
  <2>2. /\ Strategy(merged) = "chat" => merged = {}
        /\ Strategy(merged) = "web" => merged \subseteq Web
        /\ merged \cap Web # {} => Strategy(merged) \in {"web", "hybrid_retrieval_web", "full_context"}
    BY <2>0, StrategyNames
  <2> QED BY <1>6, <1>new, <2>1, <2>2 DEF RerankEvidence, Names
<1>7. CASE JudgeEvidence
  BY <1>7, <1>kept DEF JudgeEvidence, AfterEvidence
<1>8. CASE ExpandLightweightContext
  BY <1>8, <1>new DEF ExpandLightweightContext, Names
<1>9. CASE RefineQuery
  BY <1>9, <1>kept DEF RefineQuery
<1>10. CASE RetrieveLocal
  <2>1. merged' \subseteq Raw
    BY <1>10, LocalFinds DEF RetrieveLocal
  <2>2. merged' \cap Web = {} /\ evidence' = {} /\ corpus' # {}
    BY <1>10, <1>disjoint, <2>1 DEF RetrieveLocal, StrategyFits, Supported, Early
  <2> QED BY <1>10, <2>2 DEF RetrieveLocal, StrategyFits, Names
<1>11. CASE RetrieveWeb
  <2>1. PICK w \in WebResults :
          /\ merged' = merged \cup w
          /\ strategy' = IF w # {} THEN (IF corpus = {} THEN "web" ELSE "hybrid_retrieval_web")
                         ELSE IF corpus = {} THEN "chat" ELSE strategy
    BY <1>11 DEF RetrieveWeb
  <2>2. w \subseteq Web /\ evidence' = {} /\ pc' = "route_and_rerank"
    BY <1>11, <2>1, WebFinds DEF RetrieveWeb, Supported, Early
  <2>3. merged \cap Web = {} /\ IF corpus = {} THEN merged = {} ELSE strategy = "hybrid_retrieval"
    BY <1>11 DEF RetrieveWeb, StrategyFits
  <2>4. Names(merged)'
    BY <2>1, <2>2, <2>3 DEF Names
  <2> QED BY <2>2, <2>4 DEF StrategyFits, Names
<1>12. CASE RouteAndRerank
  <2>1. evidence' \subseteq merged /\ Names(merged)
    BY <1>12, EvidenceIsRanked DEF RouteAndRerank, StrategyFits
  <2>2. Names(evidence)'
    BY <1>12, <2>1 DEF RouteAndRerank, Names
  <2> QED BY <1>12, <1>new, <2>2 DEF RouteAndRerank
<1>13. CASE BuildExecutionPlan \/ Generate \/ GenerationFails \/ ChargeUsage \/ RecordRun
  BY <1>13, <1>kept DEF BuildExecutionPlan, Generate, GenerationFails, ChargeUsage, RecordRun
<1> QED
  BY <1>0, <1>1, <1>2, <1>3, <1>4, <1>5, <1>6, <1>7, <1>8, <1>9, <1>10, <1>11, <1>12, <1>13
     DEF Next, RequestStep, GraphStep, LinearStep

-----------------------------------------------------------------------------
(* The theorems.                                                           *)

LEMMA InvInit == Init => Inv
<1> SUFFICES ASSUME Init PROVE Inv
  OBVIOUS
<1>v. verdict = [sufficient |-> FALSE, confident |-> FALSE, raw |-> FALSE, facets |-> "none",
                 degraded |-> FALSE]
  BY DEF Init, Fallback
<1>1. verdict \in Verdicts
  BY <1>v DEF Verdicts, Facets
<1>2. plan \in Plans /\ answer \in Answers /\ run.schema = "none"
  BY DEF Init, NoPlan, Plans, Answers, NoRun
<1>3. Shape
  BY <1>1, <1>2 DEF Init, Shape, Places, Strategies, ContextStrategy
<1>4. plan.web = FALSE
  BY DEF Init, NoPlan
<1>5. Authorized
  BY <1>4 DEF Init, Authorized, ReadableOnly
<1>6. Rounds
  BY AnsweringAssumption DEF Init, Rounds
<1>7. WikiEvidence /\ Supported /\ StrategyFits
  BY DEF Init, WikiEvidence, WikiAnswersAreEarned, Supported, AnswerPlaces, Early,
         SilentDocumentsAbstain, StrategyFits, Names
<1> QED BY <1>3, <1>5, <1>6, <1>7 DEF Inv

LEMMA InvStep == Inv /\ [Next]_vars => Inv'
<1> SUFFICES ASSUME Inv, [Next]_vars PROVE Inv'
  OBVIOUS
<1>1. CASE Next
  <2>1. Shape' /\ Authorized' /\ Rounds'
    BY <1>1, AnsweringAssumption, ShapeStep, AuthorizedStep, RoundsStep DEF Inv
  <2>2. WikiEvidence' /\ Supported' /\ StrategyFits'
    BY <1>1, AnsweringAssumption, WikiEvidenceStep, SupportedStep, StrategyStep DEF Inv
  <2> QED BY <2>1, <2>2 DEF Inv
<1>2. CASE UNCHANGED vars
  BY <1>2 DEF vars, Inv, Shape, Authorized, ReadableOnly, Readable, Rounds, WikiEvidence,
              WikiAnswersAreEarned, WikiIsFresh, Supported, SilentDocumentsAbstain, RunRow,
              OutputSchema, Passed, StrategyFits, Names
<1> QED BY <1>1, <1>2

LEMMA Invariance == Spec => []Inv
  BY InvInit, InvStep, PTL DEF Spec

\* For any documents, index, planner, reranker and judge, the evidence is what
\* the caller may read, and pages of the Wiki are answered from only on a fresh
\* Wiki that a working judge found sufficient for a question that allows it.
THEOREM EvidenceEarned == Spec => []EvidenceIsEarned
<1>1. Inv => EvidenceIsEarned
  <2> SUFFICES ASSUME Inv PROVE EvidenceIsEarned
    OBVIOUS
  <2>1. ask.fresh => ~ask.personal
    BY DEF Inv, Shape, Asks
  <2>2. evidence \cap Wiki = {} \/ ~ask.personal
    BY <2>1 DEF Inv, WikiEvidence, WikiIsFresh
  <2> QED BY <2>2 DEF Inv, EvidenceIsEarned, EvidenceIsAuthorized, Authorized, ReadableOnly,
                      WikiEvidence
<1> QED BY <1>1, Invariance, PTL

\* However often the graph searches and whatever the models return: the rounds
\* end, an answer over documents is grounded or abstains, a recorded answer
\* with evidence cites some of it, and its strategy names what it cites.
THEOREM AnswersSupported == Spec => []AnswersAreSupported
<1>1. Inv => AnswersAreSupported
  <2> SUFFICES ASSUME Inv PROVE AnswersAreSupported
    OBVIOUS
  <2>1. TypeOK
    <3>1. plan.scope \subseteq Docs /\ verdict.facets \in Facets
      BY DEF Inv, Shape, Verdicts, Plans
    <3>2. answer.kind \in {"none", "grounded", "abstains", "chat"}
      BY DEF Inv, Shape, Answers
    <3> QED BY <3>1, <3>2 DEF Inv, Shape, TypeOK, Strategies
  <2>2. RoundsAreBounded /\ SilentDocumentsAbstain
    BY DEF Inv, Rounds, RoundsAreBounded, Supported
  <2>3. RecordedAnswersAreCited
    <3> SUFFICES ASSUME pc = "answered"
                 PROVE  run.passed /\ (evidence # {} => answer.kind = "grounded")
      BY DEF RecordedAnswersAreCited
    <3>1. answer.kind # "none" /\ (evidence # {} => answer.kind = "grounded" /\ answer.cites # {})
      BY DEF Inv, Supported, AnswerPlaces
    <3>2. Passed
      BY <3>1 DEF Passed
    <3>3. run.passed = Passed
      BY DEF Inv, Supported, RunRow
    <3> QED BY <3>1, <3>2, <3>3
  <2>4. StrategyNamesTheSources
    <3> SUFFICES ASSUME pc = "answered"
                 PROVE  /\ run.schema = "ChatAnswer" => answer.cites = {}
                        /\ run.strategy = "web" => answer.cites \subseteq Web
                        /\ answer.cites \cap Web # {} =>
                             run.strategy \in {"web", "hybrid_retrieval_web", "full_context"}
      BY DEF StrategyNamesTheSources
    <3>1. /\ run.strategy = strategy
          /\ run.schema = IF strategy = "chat" THEN "ChatAnswer" ELSE "GroundedAnswer"
      BY DEF Inv, Supported, RunRow, OutputSchema
    <3>2. Names(evidence) /\ answer.cites \subseteq evidence
      BY DEF Inv, StrategyFits, Shape
    <3> QED BY <3>1, <3>2 DEF Names
  <2> QED BY <2>1, <2>2, <2>3, <2>4 DEF AnswersAreSupported
<1> QED BY <1>1, Invariance, PTL

\* A chunk that is not of the corpus enters the candidates only while its
\* document is ready, and an answer is recorded only while what it cites is
\* stored, however documents and Wiki change under the request.
THEOREM SourcesCurrent == Spec => SourcesAreCurrent
<1>1. Inv /\ [Next]_vars =>
        [pc' = "answered" /\ pc # "answered" =>
           \A c \in answer.cites : /\ c \in Wiki => c \in pages
                                   /\ c \in Raw => docs[DocOf[c]] # "gone"]_vars
  <2> SUFFICES ASSUME Inv, Next, pc' = "answered", pc # "answered", NEW c \in answer.cites
               PROVE  /\ c \in Wiki => c \in pages
                      /\ c \in Raw => docs[DocOf[c]] # "gone"
    OBVIOUS
  <2> USE DEF request, world
  <2>1. RecordRun
    <3>1. ~Environment /\ ~Terminated
      BY DEF Environment, DocumentBecomesReady, DocumentIsDeleted, WikiIsRebuilt, Terminated, vars
    <3>2. ~GraphStep
      BY DEF GraphStep, PrepareContext, JudgeWiki, AfterWiki, ExpandWikiSources, PlanEvidence,
             SearchSources, RerankEvidence, JudgeEvidence, AfterEvidence,
             ExpandLightweightContext, RefineQuery
    <3>3. ~LinearStep /\ ~LoadCorpus
      BY DEF LinearStep, RetrieveLocal, RetrieveWeb, RouteAndRerank, LoadCorpus
    <3>4. ~BuildExecutionPlan /\ ~Generate /\ ~GenerationFails /\ ~ChargeUsage
      BY DEF BuildExecutionPlan, Generate, GenerationFails, ChargeUsage
    <3> QED BY <3>1, <3>2, <3>3, <3>4 DEF Next, RequestStep
  <2>2. Stored(c)
    BY <2>1 DEF RecordRun
  <2>3. ~(c \in Raw /\ c \in Wiki)
    BY AnsweringAssumption
  <2>4. CASE c \in Raw
    BY <2>2, <2>3, <2>4 DEF Stored
  <2>5. CASE c \in Wiki
    BY <2>2, <2>3, <2>5 DEF Stored
  <2> QED BY <2>3, <2>4, <2>5
<1>2. Inv /\ [Next]_vars =>
        [\A c \in (merged' \ merged) \cap Raw : c \in corpus \/ IsReady(c)]_vars
  <2> SUFFICES ASSUME Inv, Next, NEW c \in (merged' \ merged) \cap Raw
               PROVE  c \in corpus \/ IsReady(c)
    OBVIOUS
  <2> USE DEF request, world
  <2>1. CASE SearchSources
    <3>1. PICK r \in FoundLocally, w \in FoundOnWeb : merged' = r \cup w
      BY <2>1 DEF SearchSources
    <3>2. w \subseteq Web
      BY <3>1, WebFinds DEF FoundOnWeb
    <3>3. c \in r
      BY <3>1, <3>2, AnsweringAssumption DEF AnsweringAssumption
    <3>4. Scoped(plan) \in SUBSET Raw
      BY ScopedIsLoaded
    <3>5. c \in Scoped(plan) \/ IsReady(c)
      BY <3>1, <3>3, <3>4, LocalFinds, AnsweringAssumption DEF FoundLocally
    <3> QED BY <3>5, ScopedIsLoaded
  <2>2. CASE RetrieveLocal
    <3>1. merged' \in LocalResults(corpus \cap Raw, Readable) /\ corpus \cap Raw \in SUBSET Raw
      BY <2>2 DEF RetrieveLocal
    <3>2. PICK found, loaded : found = merged' /\ loaded = corpus \cap Raw
      OBVIOUS
    <3>3. found \in LocalResults(loaded, Readable) /\ loaded \in SUBSET Raw
      BY <3>1, <3>2
    <3>4. \A x \in found : x \in loaded \/ (IsReady(x) /\ DocOf[x] \in Readable)
      BY <3>3, LocalFinds, AnsweringAssumption
    <3> QED BY <3>2, <3>4
  <2>3. CASE RetrieveWeb
    <3>1. PICK w \in WebResults : merged' = merged \cup w
      BY <2>3 DEF RetrieveWeb
    <3> QED BY <3>1, WebFinds, AnsweringAssumption DEF AnsweringAssumption
  <2>4. CASE merged' = merged \/ merged' = {}
    BY <2>4
  <2>5. ~SearchSources /\ ~RetrieveLocal /\ ~RetrieveWeb => merged' = merged \/ merged' = {}
    BY DEF Next, RequestStep, GraphStep, LinearStep, Environment, DocumentBecomesReady,
           DocumentIsDeleted, WikiIsRebuilt, Terminated, vars, LoadCorpus, PrepareContext,
           JudgeWiki, ExpandWikiSources, PlanEvidence, RerankEvidence, JudgeEvidence,
           ExpandLightweightContext, RefineQuery, RouteAndRerank, BuildExecutionPlan, Generate,
           GenerationFails, ChargeUsage, RecordRun
  <2> QED BY <2>1, <2>2, <2>3, <2>4, <2>5
<1> QED
  BY <1>1, <1>2, Invariance, PTL
     DEF Spec, SourcesAreCurrent, OnlyStoredRowsAreCited, OnlyReadableChunksAreFound
-----------------------------------------------------------------------------
(***************************************************************************)
(* The size of a finite set of chunks, as the sum of their tokens.  Size   *)
(* is a fold: its recursive function exists because every finite set has a *)
(* cardinality, and what it computes does not depend on the order of the   *)
(* chunks, by minimal counterexamples.                                     *)
(***************************************************************************)

Choice(s) == CHOOSE x \in s : TRUE
Sum(f, S) == [s \in SUBSET S |-> IF s = {} THEN 0 ELSE Tokens[Choice(s)] + f[s \ {Choice(s)}]]

LEMMA SizeIsAFold == \A S : Size(S) = (CHOOSE f : f = Sum(f, S))[S]
  BY DEF Size, MapThenSumSet, MapThenFoldSet, Sum, Choice

LEMMA SmallestSet ==
  ASSUME NEW T, T # {}, \A U \in T : IsFiniteSet(U)
  PROVE  \E U \in T : \A V \in T : V \subseteq U => V = U
<1> DEFINE S == UNION T
<1>1. T \subseteq FiniteSubsetsOf(S)
  BY DEF FiniteSubsetsOf
<1>2. \E U \in T : \A V \in T : ~ (<<V, U>> \in StrictSubsetOrdering(S))
  BY <1>1, FS_StrictSubsetOrderingWellFounded, WFMin
<1> QED
  BY <1>2 DEF StrictSubsetOrdering

(* A function that adds the tokens of the sets with up to n chunks. *)
SumsTo(f, n) ==
  \A s \in SUBSET Chunks : Cardinality(s) <= n =>
    f[s] = IF s = {} THEN 0 ELSE Tokens[Choice(s)] + f[s \ {Choice(s)}]

LEMMA ChunksFinite ==
  /\ IsFiniteSet(Chunks) /\ Cardinality(Chunks) \in Nat
  /\ \A s \in SUBSET Chunks :
       /\ IsFiniteSet(s) /\ Cardinality(s) \in Nat /\ Cardinality(s) <= Cardinality(Chunks)
       /\ s # {} => /\ Choice(s) \in s /\ Tokens[Choice(s)] \in Nat
                    /\ Cardinality(s \ {Choice(s)}) = Cardinality(s) - 1
                    /\ Cardinality(s) > 0
<1>1. IsFiniteSet(Chunks)
  BY AnsweringAssumption
<1>2. \A s \in SUBSET Chunks : IsFiniteSet(s) /\ Cardinality(s) \in Nat
                               /\ Cardinality(s) <= Cardinality(Chunks)
  BY <1>1, FS_Subset, FS_CardinalityType
<1>3. ASSUME NEW s \in SUBSET Chunks, s # {}
      PROVE  /\ Choice(s) \in s /\ Tokens[Choice(s)] \in Nat
             /\ Cardinality(s \ {Choice(s)}) = Cardinality(s) - 1 /\ Cardinality(s) > 0
  <2>1. Choice(s) \in s
    BY <1>3 DEF Choice
  <2>2. Tokens[Choice(s)] \in Nat
    BY <2>1, AnsweringAssumption
  <2>3. Cardinality(s \ {Choice(s)}) = Cardinality(s) - 1
    BY <1>2, <2>1, FS_RemoveElement
  <2>4. Cardinality(s) # 0
    BY <1>2, <1>3, FS_EmptySet
  <2> QED
    BY <1>2, <2>1, <2>2, <2>3, <2>4
<1> QED
  BY <1>1, <1>2, <1>3, FS_CardinalityType

LEMMA SumExtends ==
  ASSUME NEW n \in Nat, NEW f \in [SUBSET Chunks -> Nat], SumsTo(f, n)
  PROVE  \E g \in [SUBSET Chunks -> Nat] : SumsTo(g, n + 1)
<1> DEFINE g == [s \in SUBSET Chunks |->
                   IF Cardinality(s) <= n THEN f[s]
                   ELSE Tokens[Choice(s)] + f[s \ {Choice(s)}]]
<1>1. \A s \in SUBSET Chunks : Cardinality(s) > n => s # {}
  BY ChunksFinite, FS_EmptySet
<1>2. \A s \in SUBSET Chunks : s \ {Choice(s)} \in SUBSET Chunks
  OBVIOUS
<1>3. g \in [SUBSET Chunks -> Nat]
  <2>1. ASSUME NEW s \in SUBSET Chunks, Cardinality(s) > n
        PROVE  Tokens[Choice(s)] + f[s \ {Choice(s)}] \in Nat
    <3>1. Tokens[Choice(s)] \in Nat
      BY <1>1, <2>1, ChunksFinite
    <3>2. f[s \ {Choice(s)}] \in Nat
      BY <1>2
    <3> QED
      BY <3>1, <3>2
  <2>2. \A s \in SUBSET Chunks : Cardinality(s) <= n \/ Cardinality(s) > n
    <3>1. \A k \in Nat : k <= n \/ k > n
      OBVIOUS
    <3> QED
      BY <3>1, ChunksFinite, Zenon
  <2> QED
    BY <2>1, <2>2
<1>4. ASSUME NEW s \in SUBSET Chunks, Cardinality(s) <= n + 1
      PROVE  g[s] = IF s = {} THEN 0 ELSE Tokens[Choice(s)] + g[s \ {Choice(s)}]
  <2>1. CASE s = {}
    <3>1. Cardinality(s) = 0
      BY <2>1, FS_EmptySet
    <3>2. g[s] = f[s]
      BY <3>1
    <3> QED
      BY <2>1, <3>1, <3>2 DEF SumsTo
  <2>2. CASE s # {}
    <3>1. s \ {Choice(s)} \in SUBSET Chunks /\ Cardinality(s \ {Choice(s)}) <= n
      BY <1>4, <2>2, ChunksFinite
    <3>2. g[s \ {Choice(s)}] = f[s \ {Choice(s)}]
      BY <3>1
    <3>3. g[s] = Tokens[Choice(s)] + f[s \ {Choice(s)}]
      <4>1. CASE Cardinality(s) <= n
        <5>1. g[s] = f[s]
          BY <4>1
        <5> QED
          BY <2>2, <4>1, <5>1 DEF SumsTo
      <4>2. CASE ~(Cardinality(s) <= n)
        BY <4>2
      <4> QED
        BY <4>1, <4>2
    <3> HIDE DEF g
    <3> QED
      BY <2>2, <3>2, <3>3
  <2> QED
    BY <2>1, <2>2
<1>5. SumsTo(g, n + 1)
  <2> HIDE DEF g
  <2> QED
    BY <1>4 DEF SumsTo
<1> HIDE DEF g
<1> QED
  BY <1>3, <1>5

(* The numbers up to n, as sets, are ordered as the numbers are. *)
LEMMA LeastNumber ==
  ASSUME NEW T \in SUBSET Nat, T # {}
  PROVE  \E n \in T : \A m \in T : n <= m
<1> DEFINE Initial(n) == 1..n
           Intervals == {Initial(n) : n \in T}
<1>1. /\ \A n \in T : Initial(n) \in Intervals
      /\ \A U \in Intervals : \E n \in T : U = Initial(n)
      /\ Intervals # {}
  OBVIOUS
<1>2. \A n \in T : IsFiniteSet(Initial(n))
  BY FS_Interval
<1>3. \A m, n \in T : m < n => Initial(m) \subseteq Initial(n) /\ Initial(m) # Initial(n)
  <2>1. SUFFICES ASSUME NEW m \in T, NEW n \in T, m < n
                 PROVE  Initial(m) \subseteq Initial(n) /\ Initial(m) # Initial(n)
    OBVIOUS
  <2>2. n \in Initial(n) /\ n \notin Initial(m)
    BY <2>1
  <2> QED
    BY <2>1, <2>2
<1> HIDE DEF Initial, Intervals
<1>4. PICK U \in Intervals : \A V \in Intervals : V \subseteq U => V = U
  <2>1. \A U \in Intervals : IsFiniteSet(U)
    BY <1>1, <1>2
  <2> QED
    BY <1>1, <2>1, SmallestSet
<1>5. PICK n \in T : U = Initial(n)
  BY <1>1
<1>6. \A m \in T : ~ (m < n)
  BY <1>1, <1>3, <1>4, <1>5
<1> QED
  BY <1>6

LEMMA SumExists == \E f \in [SUBSET Chunks -> Nat] : SumsTo(f, Cardinality(Chunks))
<1> DEFINE Bad == {n \in Nat : ~ \E f \in [SUBSET Chunks -> Nat] : SumsTo(f, n)}
<1>1. Bad = {}
  <2>1. SUFFICES ASSUME Bad # {} PROVE FALSE
    OBVIOUS
  <2>2. PICK n \in Bad : \A m \in Bad : n <= m
    BY <2>1, LeastNumber
  <2>3. n # 0
    <3> DEFINE f == [s \in SUBSET Chunks |-> 0]
    <3>1. f \in [SUBSET Chunks -> Nat]
      OBVIOUS
    <3>2. \A s \in SUBSET Chunks : Cardinality(s) <= 0 => s = {}
      <4>1. \A s \in SUBSET Chunks : s # {} => Cardinality(s) \in Nat /\ Cardinality(s) > 0
        BY ChunksFinite, Zenon
      <4>2. \A n1 \in Nat : n1 > 0 => ~(n1 <= 0)
        OBVIOUS
      <4> QED
        BY <4>1, <4>2, Zenon
    <3>3. SumsTo(f, 0)
      BY <3>2 DEF SumsTo
    <3> QED
      BY <3>1, <3>3
  <2>4. n - 1 \in Nat /\ n - 1 \notin Bad
    <3> HIDE DEF Bad
    <3>1. n \in Nat
      BY DEF Bad
    <3> QED
      BY <2>2, <2>3, <3>1
  <2>5. PICK f \in [SUBSET Chunks -> Nat] : SumsTo(f, n - 1)
    BY <2>4
  <2>6. \E g \in [SUBSET Chunks -> Nat] : SumsTo(g, (n - 1) + 1)
    BY <2>4, <2>5, SumExtends
  <2>7. (n - 1) + 1 = n
    BY <2>4
  <2> QED
    BY <2>6, <2>7
<1> QED
  BY <1>1, ChunksFinite

(* What Size computes, for the chunk it takes first. *)
LEMMA SizeStep ==
  \A S \in SUBSET Chunks :
    /\ Size(S) \in Nat
    /\ S = {} => Size(S) = 0
    /\ S # {} => Size(S) = Tokens[Choice(S)] + Size(S \ {Choice(S)})
<1>1. PICK F \in [SUBSET Chunks -> Nat] : SumsTo(F, Cardinality(Chunks))
  BY SumExists
<1>2. \A s \in SUBSET Chunks : F[s] = IF s = {} THEN 0 ELSE Tokens[Choice(s)] + F[s \ {Choice(s)}]
  BY <1>1, ChunksFinite DEF SumsTo
<1>3. ASSUME NEW S \in SUBSET Chunks PROVE Size(S) = F[S]
  <2> DEFINE f == CHOOSE h : h = Sum(h, S)
             G == [s \in SUBSET S |-> F[s]]
  <2>1. G = Sum(G, S)
    <3>1. \A s \in SUBSET S : s \in SUBSET Chunks /\ s \ {Choice(s)} \in SUBSET S
      OBVIOUS
    <3>2. \A s \in SUBSET S : G[s] = IF s = {} THEN 0 ELSE Tokens[Choice(s)] + G[s \ {Choice(s)}]
      BY <1>2, <3>1
    <3> QED
      BY <3>2 DEF Sum
  <2>2. f = Sum(f, S)
    <3> HIDE DEF G
    <3> QED
      BY <2>1
  <2> HIDE DEF f, G
  <2>3. \A s \in SUBSET S : f[s] = IF s = {} THEN 0 ELSE Tokens[Choice(s)] + f[s \ {Choice(s)}]
    <3>1. \A s \in SUBSET S :
            Sum(f, S)[s] = IF s = {} THEN 0 ELSE Tokens[Choice(s)] + f[s \ {Choice(s)}]
      BY DEF Sum
    <3> QED
      BY <2>2, <3>1
  <2>4. \A s \in SUBSET S : f[s] = F[s]
    <3> DEFINE Bad == {s \in SUBSET S : f[s] # F[s]}
    <3>1. SUFFICES ASSUME Bad # {} PROVE FALSE
      OBVIOUS
    <3>2. \A U \in Bad : IsFiniteSet(U)
      BY ChunksFinite
    <3>3. PICK U \in Bad : \A V \in Bad : V \subseteq U => V = U
      <4> HIDE DEF Bad
      <4> QED
        BY <3>1, <3>2, SmallestSet
    <3>4. U \in SUBSET S /\ U \in SUBSET Chunks /\ U # {}
      BY <1>2, <2>3
    <3>5. U \ {Choice(U)} \in SUBSET S /\ U \ {Choice(U)} # U
      BY <3>4, ChunksFinite
    <3>6. f[U \ {Choice(U)}] = F[U \ {Choice(U)}]
      BY <3>3, <3>5
    <3> QED
      BY <1>2, <2>3, <3>4, <3>6
  <2>5. Size(S) = f[S]
    BY SizeIsAFold DEF f
  <2> QED
    BY <2>4, <2>5
<1>4. \A S \in SUBSET Chunks : S \ {Choice(S)} \in SUBSET Chunks
  OBVIOUS
<1> QED
  BY <1>2, <1>3, <1>4

LEMMA SizeEmpty == Size({}) = 0
  BY SizeStep

(* The order does not matter: any chunk may be taken first. *)
LEMMA SizeRemove ==
  \A S \in SUBSET Chunks : \A x \in S : Size(S) = Tokens[x] + Size(S \ {x})
<1> DEFINE Bad == {S \in SUBSET Chunks : \E x \in S : Size(S) # Tokens[x] + Size(S \ {x})}
<1>1. SUFFICES ASSUME Bad # {} PROVE FALSE
  OBVIOUS
<1>2. \A U \in Bad : IsFiniteSet(U)
  BY ChunksFinite
<1>3. PICK U \in Bad : \A V \in Bad : V \subseteq U => V = U
  <2> HIDE DEF Bad
  <2> QED
    BY <1>1, <1>2, SmallestSet
<1>4. PICK x \in U : Size(U) # Tokens[x] + Size(U \ {x})
  OBVIOUS
<1> DEFINE y == Choice(U)
<1>5. U \in SUBSET Chunks /\ U # {} /\ y \in U
  BY <1>4, ChunksFinite
<1>6. Size(U) = Tokens[y] + Size(U \ {y})
  BY <1>5, SizeStep
<1> HIDE DEF y
<1>7. x # y
  BY <1>4, <1>6
<1>8. U \ {x} \in SUBSET Chunks /\ U \ {y} \in SUBSET Chunks /\ (U \ {x}) \ {y} \in SUBSET Chunks
  BY <1>5
<1>9. U \ {x} \notin Bad /\ U \ {y} \notin Bad
  BY <1>3, <1>4, <1>5
<1>10. /\ Size(U \ {x}) = Tokens[y] + Size((U \ {x}) \ {y})
       /\ Size(U \ {y}) = Tokens[x] + Size((U \ {y}) \ {x})
  BY <1>4, <1>5, <1>7, <1>8, <1>9
<1>11. (U \ {y}) \ {x} = (U \ {x}) \ {y}
  OBVIOUS
<1>12. Tokens[x] \in Nat /\ Tokens[y] \in Nat /\ Size((U \ {x}) \ {y}) \in Nat
  BY <1>4, <1>5, <1>8, SizeStep, AnsweringAssumption
<1>13. \A a, b, c \in Nat : a + (b + c) = b + (a + c)
  OBVIOUS
<1>14. Size(U) = Tokens[y] + (Tokens[x] + Size((U \ {x}) \ {y}))
  BY <1>6, <1>10, <1>11, Zenon
<1>15. Size(U) = Tokens[x] + (Tokens[y] + Size((U \ {x}) \ {y}))
  BY <1>12, <1>13, <1>14, Zenon
<1> QED
  BY <1>4, <1>10, <1>15, Zenon

(* The size of a union of two parts is the sum of their sizes. *)
LEMMA SizeOfUnion ==
  ASSUME NEW A \in SUBSET Chunks, NEW B \in SUBSET Chunks, A \cap B = {}
  PROVE  Size(A \cup B) = Size(A) + Size(B)
<1> DEFINE Bad == {T \in SUBSET B : Size(A \cup T) # Size(A) + Size(T)}
<1>1. SUFFICES ASSUME Bad # {} PROVE FALSE
  OBVIOUS
<1>2. \A U \in Bad : IsFiniteSet(U)
  BY ChunksFinite
<1>3. PICK U \in Bad : \A V \in Bad : V \subseteq U => V = U
  <2> HIDE DEF Bad
  <2> QED
    BY <1>1, <1>2, SmallestSet
<1>4. U \in SUBSET Chunks /\ A \cup U \in SUBSET Chunks
  OBVIOUS
<1>5. U # {}
  <2>1. Size(A) + 0 = Size(A)
    <3>1. Size(A) \in Nat
      BY SizeStep
    <3> QED
      BY <3>1
  <2>2. A \cup {} = A
    OBVIOUS
  <2> QED
    BY <2>1, <2>2, SizeEmpty
<1>6. PICK x \in U : TRUE
  BY <1>5
<1>7. U \ {x} \in SUBSET B /\ U \ {x} \notin Bad
  BY <1>3, <1>6
<1>8. Size(A \cup (U \ {x})) = Size(A) + Size(U \ {x})
  BY <1>7
<1>9. (A \cup U) \ {x} = A \cup (U \ {x})
  BY <1>6
<1>10. Size(A \cup U) = Tokens[x] + Size((A \cup U) \ {x}) /\ Size(U) = Tokens[x] + Size(U \ {x})
  BY <1>4, <1>6, SizeRemove
<1>11. Size(A) \in Nat /\ Size(U \ {x}) \in Nat /\ Tokens[x] \in Nat
  BY <1>4, <1>6, SizeStep, AnsweringAssumption
<1> QED
  BY <1>8, <1>9, <1>10, <1>11

-----------------------------------------------------------------------------
(* The budget of the evidence.                                             *)

LEMMA PackedFits ==
  ASSUME NEW S \in SUBSET Chunks, NEW budget \in Int, NEW E \in Packed(S, budget)
  PROVE  E \in SUBSET S /\ Size(E) \in Nat /\ Size(E) <= budget
<1>1. E \in SUBSET S /\ Size(E) <= budget
  BY DEF Packed
<1> QED
  BY <1>1, SizeStep

\* What is packed after another part, in the room it left, fits with it.
LEMMA PackedTogether ==
  ASSUME NEW S \in SUBSET Chunks, NEW T \in SUBSET Chunks, S \cap T = {},
         NEW first \in Nat, NEW second \in Int, NEW budget \in Int,
         NEW E \in Packed(S, first), NEW L \in Packed(T, second), Size(E) + second <= budget
  PROVE  Size(E \cup L) <= budget
<1>1. /\ E \in SUBSET S /\ Size(E) \in Nat
      /\ L \in SUBSET T /\ Size(L) \in Nat /\ Size(L) <= second
  BY PackedFits
<1>2. Size(E \cup L) = Size(E) + Size(L)
  <2>1. E \in SUBSET Chunks /\ L \in SUBSET Chunks /\ E \cap L = {}
    BY <1>1
  <2> QED
    BY <2>1, SizeOfUnion
<1> QED
  BY <1>1, <1>2

LEMMA LargerBudget ==
  /\ EvidenceBudget \in Nat /\ FullContextLimit \in Nat
  /\ Max({EvidenceBudget, FullContextLimit}) \in Nat
  /\ EvidenceBudget <= Max({EvidenceBudget, FullContextLimit})
  /\ FullContextLimit <= Max({EvidenceBudget, FullContextLimit})
<1> DEFINE a == EvidenceBudget
           b == FullContextLimit
<1>1. a \in Nat /\ b \in Nat
  BY AnsweringAssumption
<1> HIDE DEF a, b
<1>2. \E x \in {a, b} : \A y \in {a, b} : x >= y
  BY <1>1
<1>3. Max({a, b}) \in {a, b} /\ \A y \in {a, b} : Max({a, b}) >= y
  BY <1>2, Zenon DEF Max
<1>4. Max({a, b}) \in Nat /\ a <= Max({a, b}) /\ b <= Max({a, b})
  BY <1>1, <1>3
<1> QED
  BY <1>1, <1>4 DEF a, b

\* Which limit holds is known: the fallback is marked and stays so.
Marks == [has : BOOLEAN, used : BOOLEAN]
Budgeted == light \in Marks /\ EvidenceFitsItsBudget

\* A step that keeps the evidence keeps the budget, and so does one that packs
\* anew what fits the evidence budget.
LEMMA BudgetKept ==
  ASSUME Shape, Budgeted, light' \in Marks, light'.used = light.used, evidence' = evidence
  PROVE  Budgeted'
  BY DEF Budgeted, EvidenceFitsItsBudget

LEMMA BudgetMet ==
  ASSUME light' \in Marks, evidence' \in SUBSET Chunks, Size(evidence') <= EvidenceBudget
  PROVE  Budgeted'
<1>1. Size(evidence') \in Nat
  BY SizeStep
<1>2. Size(evidence') <= Max({EvidenceBudget, FullContextLimit})
  BY <1>1, LargerBudget
<1> QED
  BY <1>2 DEF Budgeted, EvidenceFitsItsBudget

LEMMA BudgetStep ==
  ASSUME AnsweringAssumption, Shape, Budgeted, Next
  PROVE  Budgeted'
<1> USE DEF request, world
<1>m. /\ light \in Marks /\ [light EXCEPT !.used = TRUE] \in Marks
      /\ \A b \in BOOLEAN : /\ [light EXCEPT !.has = b] \in Marks
                            /\ [light EXCEPT !.has = b].used = light.used
      /\ [light EXCEPT !.used = TRUE].used = TRUE
  BY DEF Budgeted, Marks
<1>0. CASE Terminated \/ Environment \/ LoadCorpus \/ PrepareContext \/ SearchSources
  <2>1. UNCHANGED <<light, evidence>>
    BY <1>0 DEF Terminated, vars, Environment, DocumentBecomesReady, DocumentIsDeleted,
                WikiIsRebuilt, LoadCorpus, PrepareContext, SearchSources
  <2> QED
    BY <1>m, <2>1, BudgetKept
<1>1. CASE \/ JudgeEvidence \/ RefineQuery \/ RetrieveLocal \/ RetrieveWeb \/ BuildExecutionPlan
           \/ Generate \/ GenerationFails \/ ChargeUsage \/ RecordRun
  <2>1. UNCHANGED <<light, evidence>>
    BY <1>1 DEF JudgeEvidence, RefineQuery, RetrieveLocal, RetrieveWeb, BuildExecutionPlan,
                Generate, GenerationFails, ChargeUsage, RecordRun
  <2> QED
    BY <1>m, <2>1, BudgetKept
<1>2. CASE PlanEvidence
  <2>1. evidence' = evidence /\ light' = [light EXCEPT !.has = Scoped(plan') \cap Light # {}]
    BY <1>2 DEF PlanEvidence
  <2> QED
    BY <1>m, <2>1, BudgetKept
\* Pages alone are bound by their number.
<1>3. CASE JudgeWiki
  <2>1. evidence' \in SUBSET Wiki /\ light' = light
    BY <1>3 DEF JudgeWiki
  <2>2. CASE evidence' = {}
    BY <1>m, <2>1, <2>2, BudgetMet, SizeEmpty, LargerBudget
  <2>3. CASE evidence' # {}
    BY <1>m, <2>1, <2>3 DEF Budgeted, EvidenceFitsItsBudget
  <2> QED
    BY <2>2, <2>3
<1>4. CASE ExpandWikiSources
  <2>1. PICK E \in Packed(sources, EvidenceBudget) :
           evidence' = E /\ light' = [light EXCEPT !.has = E \cap Light # {}]
    BY <1>4 DEF ExpandWikiSources
  <2>2. sources \in SUBSET Chunks
    BY DEF Shape, Chunks
  <2>3. E \in SUBSET Chunks /\ Size(E) <= EvidenceBudget
    BY <2>2, LargerBudget, PackedFits
  <2> QED
    BY <1>m, <2>1, <2>3, BudgetMet
<1>5. CASE RerankEvidence
  <2>a. PICK C \in Limited(merged, RoundLimit) :
           /\ light' = light
           /\ \E R \in Reranked(C \ Light) : \E E \in Packed(R, EvidenceBudget) :
                \E L \in Packed(C \cap Light, EvidenceBudget - Size(E)) : evidence' = E \cup L
    BY <1>5 DEF RerankEvidence
  <2>b. PICK R \in Reranked(C \ Light) : \E E \in Packed(R, EvidenceBudget) :
           \E L \in Packed(C \cap Light, EvidenceBudget - Size(E)) : evidence' = E \cup L
    BY <2>a
  <2>c. PICK E \in Packed(R, EvidenceBudget) :
           \E L \in Packed(C \cap Light, EvidenceBudget - Size(E)) : evidence' = E \cup L
    BY <2>b
  <2>1. PICK L \in Packed(C \cap Light, EvidenceBudget - Size(E)) : evidence' = E \cup L
    BY <2>c
  <2>2. /\ C \in SUBSET Chunks /\ R \in SUBSET Chunks /\ C \cap Light \in SUBSET Chunks
        /\ R \cap (C \cap Light) = {}
    <3>1. C \subseteq merged /\ R \subseteq C \ Light
      BY LimitedIsPart, RerankedIsPart
    <3> QED
      BY <3>1 DEF Shape, Chunks
  <2>3. Size(E) \in Nat /\ E \in SUBSET R
    BY <2>2, LargerBudget, PackedFits
  <2>4. EvidenceBudget - Size(E) \in Int /\ Size(E) + (EvidenceBudget - Size(E)) <= EvidenceBudget
    BY <2>3, LargerBudget
  <2>5. L \in SUBSET (C \cap Light)
    BY DEF Packed
  <2>6. Size(E \cup L) <= EvidenceBudget
    BY <2>2, <2>4, LargerBudget, PackedTogether
  <2> QED
    BY <1>m, <2>a, <2>1, <2>2, <2>3, <2>5, <2>6, BudgetMet
<1>6. CASE ExpandLightweightContext
  <2>a. PICK P \in Packed(evidence, FullContextLimit) :
           \E L \in Packed((Scoped(plan) \cap Light) \ evidence, FullContextLimit - Size(P)) :
             evidence' = P \cup L
    BY <1>6 DEF ExpandLightweightContext
  <2>1. PICK L \in Packed((Scoped(plan) \cap Light) \ evidence, FullContextLimit - Size(P)) :
           evidence' = P \cup L
    BY <2>a
  <2>m. light' = [light EXCEPT !.used = TRUE]
    BY <1>6 DEF ExpandLightweightContext
  <2>2. /\ evidence \in SUBSET Chunks /\ (Scoped(plan) \cap Light) \ evidence \in SUBSET Chunks
        /\ evidence \cap ((Scoped(plan) \cap Light) \ evidence) = {}
    BY ScopedIsLoaded DEF Shape, Chunks
  <2>3. Size(P) \in Nat
    BY <2>2, LargerBudget, PackedFits
  <2>4. FullContextLimit - Size(P) \in Int /\ Size(P) + (FullContextLimit - Size(P)) <= FullContextLimit
    BY <2>3, LargerBudget
  <2>5. Size(P \cup L) <= FullContextLimit
    BY <2>2, <2>4, LargerBudget, PackedTogether
  <2>6. P \cup L \in SUBSET Chunks
    BY <2>2 DEF Packed
  <2>7. Size(P \cup L) <= Max({EvidenceBudget, FullContextLimit})
    <3>1. Size(P \cup L) \in Nat
      BY <2>6, SizeStep
    <3> QED
      BY <2>5, <3>1, LargerBudget
  <2> QED
    BY <1>m, <2>1, <2>m, <2>7 DEF Budgeted, EvidenceFitsItsBudget
\* The two halves of the linear pipeline.
<1>7. CASE RouteAndRerank
  <2>m. light' = light
    BY <1>7 DEF RouteAndRerank
  <2>a. PICK C \in IF Cardinality(merged) > CandidateLimit THEN Limited(merged, CandidateLimit) ELSE {merged} :
           \E L \in Packed(C \cap Light, LightBudget), R \in Reranked(C \ Light) :
             \E E \in Packed(R, IF L = {} THEN EvidenceBudget ELSE EvidenceBudget - EvidenceBudget \div 2) :
               evidence' = E \cup L
    BY <1>7 DEF RouteAndRerank
  <2>b. PICK L \in Packed(C \cap Light, LightBudget), R \in Reranked(C \ Light) :
           \E E \in Packed(R, IF L = {} THEN EvidenceBudget ELSE EvidenceBudget - EvidenceBudget \div 2) :
             evidence' = E \cup L
    BY <2>a
  <2>1. PICK E \in Packed(R, IF L = {} THEN EvidenceBudget ELSE EvidenceBudget - EvidenceBudget \div 2) :
           evidence' = E \cup L
    BY <2>b
  <2>2. /\ C \in SUBSET Chunks /\ R \in SUBSET Chunks /\ C \cap Light \in SUBSET Chunks
        /\ R \cap (C \cap Light) = {}
    <3>1. C \subseteq merged /\ R \subseteq C \ Light
      BY LimitedIsPart, RerankedIsPart
    <3> QED
      BY <3>1 DEF Shape, Chunks
  <2>3. /\ LightBudget \in Nat /\ EvidenceBudget - EvidenceBudget \div 2 \in Nat
        /\ (EvidenceBudget - EvidenceBudget \div 2) + LightBudget = EvidenceBudget
    BY LargerBudget DEF LightBudget
  <2>4. E \in SUBSET R /\ L \in SUBSET (C \cap Light)
    BY DEF Packed
  <2>5. CASE L = {}
    <3>1. Size(E) <= EvidenceBudget
      BY <2>2, <2>5, LargerBudget, PackedFits
    <3> QED
      BY <1>m, <2>m, <2>1, <2>2, <2>4, <2>5, <3>1, BudgetMet
  <2>6. CASE L # {}
    <3>1. E \in Packed(R, EvidenceBudget - EvidenceBudget \div 2)
      BY <2>6
    <3>2. Size(E) \in Nat /\ Size(E) <= EvidenceBudget - EvidenceBudget \div 2
      BY <2>2, <2>3, <3>1, PackedFits
    <3>3. Size(E) + LightBudget <= EvidenceBudget
      BY <2>3, <3>2, LargerBudget
    <3>4. Size(E \cup L) <= EvidenceBudget
      BY <2>2, <2>3, <3>1, <3>3, LargerBudget, PackedTogether
    <3> QED
      BY <1>m, <2>m, <2>1, <2>2, <2>4, <3>4, BudgetMet
  <2> QED
    BY <2>5, <2>6
<1> QED
  BY <1>0, <1>1, <1>2, <1>3, <1>4, <1>5, <1>6, <1>7 DEF Next, RequestStep, GraphStep, LinearStep

\* Raw and Web evidence fits the evidence budget whatever is found, ranked and
\* packed, in one part or in two, and after the one fallback the larger limit.
THEOREM EvidenceFits == Spec => []EvidenceFitsItsBudget
<1>1. Init => Budgeted
  <2> SUFFICES ASSUME Init PROVE Budgeted
    OBVIOUS
  <2>1. light \in Marks /\ light.used = FALSE /\ evidence = {}
    BY DEF Init, Marks
  <2> QED
    BY <2>1, SizeEmpty, LargerBudget DEF Budgeted, EvidenceFitsItsBudget
<1>2. Inv /\ Budgeted /\ [Next]_vars => Budgeted'
  <2>1. CASE UNCHANGED vars
    BY <2>1 DEF vars, Budgeted, EvidenceFitsItsBudget
  <2> QED
    BY <2>1, AnsweringAssumption, BudgetStep DEF Inv
<1>3. Budgeted => EvidenceFitsItsBudget
  BY DEF Budgeted
<1> QED
  BY <1>1, <1>2, <1>3, Invariance, PTL DEF Spec
=============================================================================
