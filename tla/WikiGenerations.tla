-------------------------- MODULE WikiGenerations --------------------------
(***************************************************************************)
(* The Wiki of one project: what a document's text says is extracted,      *)
(* reduced and merged into canonical pages (services/wiki_compiler.py and  *)
(* wiki_merge.py) by the worker that ingests the document, outside any     *)
(* transaction, and stored with the document's chunks under the project's  *)
(* knowledge and Wiki generations (ingestion_store.py), while other        *)
(* workers ingest other documents and documents are deleted.               *)
(*                                                                         *)
(* Names are normalized, as every comparison of the code is.  A claim is   *)
(* a subject and an object, for one predicate and no qualifiers; its       *)
(* sources are documents, since the chunk identifiers of a document are    *)
(* the same on every ingestion.  Summaries, page text and links are        *)
(* rendering and left out.                                                 *)
(***************************************************************************)
EXTENDS Naturals, Sequences, FiniteSets, FiniteSetsExt, SequencesExt, Filtering

CONSTANTS
    Docs,          \* the documents of the project
    Workers,       \* ingestion workers
    Names,         \* titles, entity names and aliases
    Objects,       \* what a claim may say of its subject
    Fragments,     \* what a model may extract from each document: fragments
    Similar,       \* pairs of names whose tokens overlap enough to be one page
    Deletable,     \* bound: the documents that may be deleted
    MaxStores,     \* bound: how many times content is stored
    NoDoc, NoPage, NoCompile

Entities == [title : Names, aliases : SUBSET Names]
Statements == [subject : Names, object : Objects]

\* The texts of a project are finite: so are the names and the objects in them.
ASSUME WikiAssumption ==
    /\ IsFiniteSet(Docs) /\ IsFiniteSet(Names) /\ IsFiniteSet(Objects)
    /\ \A d \in Docs : Fragments[d] \subseteq
         Seq([cites : SUBSET Nat, entities : Seq(Entities), claims : SUBSET Statements,
              relations : SUBSET (Names \X Names)])
    /\ Similar \subseteq Names \X Names
    /\ MaxStores \in Nat /\ Deletable \subseteq Docs
    /\ NoDoc \notin Docs /\ NoPage \notin Docs \X Nat \X Names

VARIABLES
    knowledge,  \* projects.knowledge_generation
    wiki,       \* projects.wiki_generation
    pages,      \* the canonical pages, in order of creation
    overview,   \* the generation of each document's overview page, or 0
    docStatus,  \* documents.status
    raw,        \* the knowledge generation of the document's chunks, or 0
    owner,      \* the worker whose live lease the document's job is under
    worker      \* each worker's local state

wikiVars == <<knowledge, wiki, pages, overview, docStatus, raw, owner, worker>>

Idle == [pc |-> "idle", doc |-> NoDoc]

WikiInit ==
  /\ knowledge = 0 /\ wiki = 0 /\ pages = <<>>
  /\ overview = [d \in Docs |-> 0]
  /\ docStatus = [d \in Docs |-> "uploaded"]
  /\ raw = [d \in Docs |-> 0]
  /\ owner = [d \in Docs |-> NoDoc]
  /\ worker = [w \in Workers |-> Idle]

----------------------------------------------------------------------------
(* From fragments to the knowledge of one document. *)

NamesOf(p) == {p.title} \cup p.aliases

\* _resolve_fragment: a fragment must cite a chunk of its group.  Every group
\* here has one chunk, of index 0.
Grounded(f) == 0 \in f.cites

\* extract_fragments drops the others.
Resolved(answer) == Keep(answer, {f \in ToSet(answer) : Grounded(f)})

\* _reduce_entities: an entity joins the first one it shares a name with.
JoinEntity(reduced, e) ==
  LET hits == {i \in DOMAIN reduced : NamesOf(reduced[i]) \cap NamesOf(e) # {}} IN
  IF hits = {} THEN Append(reduced, e)
  ELSE [reduced EXCEPT ![Min(hits)].aliases =
          (@ \cup NamesOf(e)) \ {reduced[Min(hits)].title}]

ReduceEntities(entities) == FoldLeft(JoinEntity, <<>>, entities)

\* canonical_names: the last entity that has the name gives its title.
Canonical(entities, name) ==
  LET hits == {i \in DOMAIN entities : name \in NamesOf(entities[i])} IN
  IF hits = {} THEN name ELSE entities[Max(hits)].title

\* _reduce_claims and _reduce_relations: each statement once, under the titles
\* of its entities.
ReduceClaims(claims, canonical) ==
  {[subject |-> canonical[c.subject], object |-> c.object] : c \in claims}

ReduceRelations(relations, canonical) ==
  {<<canonical[r[1]], canonical[r[2]]>> : r \in relations}

\* _entities_with_claim_subjects: a subject that no entity names is one.
WithSubjects(entities, claims) ==
  LET known == UNION {NamesOf(entities[i]) : i \in DOMAIN entities}
      unknown == SetToSeq({c.subject : c \in claims} \ known) IN
  entities \o [i \in DOMAIN unknown |-> [title |-> unknown[i], aliases |-> {}]]

\* reduce_document_knowledge
Reduce(fragments) ==
  LET entities == ReduceEntities(FlattenSeq([i \in DOMAIN fragments |-> fragments[i].entities]))
      canonical == [n \in Names |-> Canonical(entities, n)]
      claims == ReduceClaims(UNION {fragments[i].claims : i \in DOMAIN fragments}, canonical)
      relations == UNION {fragments[i].relations : i \in DOMAIN fragments} IN
  [entities |-> WithSubjects(entities, claims), claims |-> claims,
   relations |-> ReduceRelations(relations, canonical)]

----------------------------------------------------------------------------
(* From the knowledge of one document to pages. *)

\* A bug variant: a statement keeps only the sources of its last document.
LastSource(old, new) ==
  LET objects == {c.object : c \in old \cup new} IN
  {[object |-> o,
    sources |-> IF \E c \in new : c.object = o
                THEN UNION {c.sources : c \in {x \in new : x.object = o}}
                ELSE UNION {c.sources : c \in {x \in old : x.object = o}},
    conflicting |-> \/ Cardinality(objects) > 1
                    \/ \E c \in old \cup new : c.object = o /\ c.conflicting] : o \in objects}

\* _merge_claims: one claim per object, with the sources of all; the claims
\* of a subject that has several objects are in conflict.
MergeClaims(old, new) ==
  LET objects == {c.object : c \in old \cup new} IN
  {[object |-> o,
    sources |-> UNION {c.sources : c \in {x \in old \cup new : x.object = o}},
    conflicting |-> \/ Cardinality(objects) > 1
                    \/ \E c \in old \cup new : c.object = o /\ c.conflicting] : o \in objects}

\* _merge_relations
MergeRelations(old, new) ==
  {[between |-> b, sources |-> UNION {r.sources : r \in {x \in old \cup new : x.between = b}}]
     : b \in {r.between : r \in old \cup new}}

\* _exact_matches: the pages that have one of the names, in order.
Matches(names, ps) == Keep(ps, {p \in ToSet(ps) : NamesOf(p) \cap names # {}})

\* AMBIGUOUS_CANONICAL_ALIASES
Ambiguous(matches) ==
  \E i \in 2..Len(matches) : matches[i].title \notin NamesOf(matches[1])

\* _candidate_page: pages whose names overlap with the entity's.
Candidates(names, ps) == {p \in ToSet(ps) : \E n \in names, m \in NamesOf(p) : <<n, m>> \in Similar}

\* Whether plan_wiki_mutations fails closed on an entity.
Unclear(e, ps) ==
  LET matches == Matches(NamesOf(e), ps) IN
  \/ Ambiguous(matches)
  \/ matches = <<>> /\ Cardinality(Candidates(NamesOf(e), ps)) > 1

\* plan_wiki_mutations, for one entity of a document.
Mutation(e, delta, doc, ps) ==
  LET names == NamesOf(e)
      matches == Matches(names, ps)
      found == IF matches # <<>> THEN {matches[1]} ELSE Candidates(names, ps)
      title == IF found = {} THEN e.title ELSE (CHOOSE p \in found : TRUE).title
      facts == {r \in delta.relations : {r[1], r[2]} \cap names # {}} IN
  [target |-> IF found = {} THEN NoPage ELSE (CHOOSE p \in found : TRUE).id,
   removes |-> {matches[i].id : i \in 2..Len(matches)},
   title |-> title,
   aliases |-> names \ {title},
   claims |-> MergeClaims({}, {[object |-> c.object, sources |-> {doc}, conflicting |-> FALSE]
                                 : c \in {x \in delta.claims : x.subject \in names}}),
   relations |-> {[between |-> r, sources |-> {doc}] : r \in facts}]

PageOf(id, ps) == ps[CHOOSE i \in DOMAIN ps : ps[i].id = id]

\* The entity says nothing its page does not hold: no mutation.
Redundant(m, doc, ps) ==
  /\ m.target # NoPage /\ m.removes = {}
  /\ LET page == PageOf(m.target, ps) IN
     /\ m.aliases \subseteq page.aliases /\ doc \in page.sources
     /\ \A c \in m.claims : \E b \in page.claims : b.object = c.object /\ doc \in b.sources
     /\ MergeRelations(page.relations, m.relations) = page.relations

\* _coalesce_mutations: one mutation per page.
SamePage(a, b) == a.target = b.target /\ (a.target # NoPage \/ a.title = b.title)

JoinMutation(grouped, m) ==
  LET hits == {i \in DOMAIN grouped : SamePage(grouped[i], m)} IN
  IF hits = {} THEN Append(grouped, m)
  ELSE LET i == Min(hits) IN
       [grouped EXCEPT
          ![i].removes = @ \cup m.removes, ![i].aliases = @ \cup m.aliases,
          ![i].claims = MergeClaims(@, m.claims),
          ![i].relations = MergeRelations(@, m.relations)]

Coalesce(mutations) == FoldLeft(JoinMutation, <<>>, mutations)

\* A bug variant: the sources of the duplicates are not taken over.
FoldStatements(m, ps) ==
  LET kept == PageOf(m.target, ps)
      all == {kept} \cup {p \in ToSet(ps) : p.id \in m.removes} IN
  [kept EXCEPT !.aliases = (UNION {NamesOf(p) : p \in all}) \ {kept.title},
               !.claims = MergeClaims({}, UNION {p.claims : p \in all}),
               !.relations = MergeRelations({}, UNION {p.relations : p \in all})]

\* _merge_existing_pages: the duplicates of a page are folded into it.
Folded(m, ps) ==
  LET kept == PageOf(m.target, ps)
      all == {kept} \cup {p \in ToSet(ps) : p.id \in m.removes} IN
  [kept EXCEPT !.aliases = (UNION {NamesOf(p) : p \in all}) \ {kept.title},
               !.claims = MergeClaims({}, UNION {p.claims : p \in all}),
               !.relations = MergeRelations({}, UNION {p.relations : p \in all}),
               !.sources = UNION {p.sources : p \in all}]

\* apply_wiki_mutations: the page a mutation creates or updates.  uuid4 gives
\* a new page an identifier nothing else has.
Applied(m, doc, ps, generation) ==
  LET base == IF m.target = NoPage
              THEN [id |-> <<doc, generation, m.title>>, title |-> m.title, aliases |-> {},
                    claims |-> {}, relations |-> {}, sources |-> {}]
              ELSE Folded(m, ps) IN
  [id |-> base.id, title |-> base.title,
   aliases |-> base.aliases \cup m.aliases,
   claims |-> MergeClaims(base.claims, m.claims),
   relations |-> MergeRelations(base.relations, m.relations),
   sources |-> base.sources \cup {doc},
   removes |-> {}]

\* WorkerWikiCompiler: a page as a chunk, with the pages folded into it ...
Projected(page, m) == [page EXCEPT !.removes = m.removes]

\* ... which the next compile does not load back: wiki_chunks_to_pages.
Reloaded(p) == [p EXCEPT !.removes = {}]

\* compile_incremental: whether one document can be compiled onto the pages ...
Compiles(answer, ps) ==
  /\ Resolved(answer) # <<>>
  /\ \A i \in DOMAIN Reduce(Resolved(answer)).entities :
       ~Unclear(Reduce(Resolved(answer)).entities[i], ps)

\* ... and the affected pages that it gives.
CompiledPages(answer, doc, ps, generation) ==
  LET delta == Reduce(Resolved(answer))
      all == [i \in DOMAIN delta.entities |-> Mutation(delta.entities[i], delta, doc, ps)]
      kept == Coalesce(Keep(all, {m \in ToSet(all) : ~Redundant(m, doc, ps)})) IN
  [i \in DOMAIN kept |-> Projected(Applied(kept[i], doc, ps, generation), kept[i])]

----------------------------------------------------------------------------
(* One ingestion: the latest document and those the Wiki still misses. *)

Without(ps, ids) == Keep(ps, {p \in ToSet(ps) : p.id \notin ids})

Upsert(ps, p) ==
  IF \E i \in DOMAIN ps : ps[i].id = p.id
  THEN [i \in DOMAIN ps |-> IF ps[i].id = p.id THEN p ELSE ps[i]]
  ELSE Append(ps, p)

\* _merge_compiled_chunks: a page carries the removals of its earlier versions,
\* and what it removes is no longer affected.
MergeCompiled(c, page) ==
  LET prior == {p \in ToSet(c.affected) : p.id = page.id}
      removes == page.removes \cup UNION {p.removes : p \in prior}
      carried == [page EXCEPT !.removes = removes] IN
  [existing |-> Upsert(Without(c.existing, removes), carried),
   affected |-> Upsert(Without(c.affected, removes), carried)]

\* _compile_wiki_index: the documents in turn, each onto the pages of those
\* before it; one failure discards all.
CompileNext(c, answer, d, generation) ==
  IF c = NoCompile \/ ~Compiles(answer, c.existing) THEN NoCompile
  ELSE FoldLeft(MergeCompiled, c, CompiledPages(answer, d, c.existing, generation))

CompileAll(said, docs, ps, generation) ==
  LET end == FoldLeft(LAMBDA c, d : CompileNext(c, said[d], d, generation),
                      [existing |-> ps, affected |-> <<>>], docs) IN
  IF end = NoCompile THEN NoCompile ELSE [affected |-> end.affected, covers |-> ToSet(docs)]

\* load_wiki_state: the other documents whose chunks are newer than the Wiki.
Pending(d) == {e \in Docs \ {d} : raw[e] > wiki /\ docStatus[e] # "deleted"}

\* ... in the order in which their chunks were stored.
Oldest(S) == {s \in SetToSeqs(S) : \A i, j \in DOMAIN s : i < j => raw[s[i]] < raw[s[j]]}

Runnable(d) == docStatus[d] \in {"uploaded", "parsing", "indexing"}

\* A worker claims the job of a document, and loads the Wiki.
Load(w, d) ==
  /\ worker[w] = Idle /\ Runnable(d) /\ owner[d] = NoDoc /\ knowledge < MaxStores
  /\ owner' = [owner EXCEPT ![d] = w] /\ docStatus' = [docStatus EXCEPT ![d] = "parsing"]
  /\ \E pending \in Oldest(Pending(d)) :
       worker' = [worker EXCEPT ![w] =
         [pc |-> "compiling", doc |-> d, base |-> knowledge, wiki |-> wiki, pages |-> pages,
          docs |-> Append(pending, d)]]
  /\ UNCHANGED <<knowledge, wiki, pages, overview, raw>>

Compiled(w, result) ==
  /\ worker' = [worker EXCEPT ![w] =
       [pc |-> "compiled", doc |-> worker[w].doc, base |-> worker[w].base,
        wiki |-> worker[w].wiki, result |-> result]]
  /\ UNCHANGED <<knowledge, wiki, pages, overview, docStatus, raw, owner>>

\* The model answers for every document.
Compile(w) ==
  /\ worker[w].pc = "compiling"
  /\ \E said \in [ToSet(worker[w].docs) -> UNION {Fragments[d] : d \in Docs}] :
       /\ \A d \in ToSet(worker[w].docs) : said[d] \in Fragments[d]
       /\ Compiled(w, CompileAll(said, worker[w].docs, worker[w].pages, worker[w].base + 1))

\* A provider fails, answers no JSON, or cannot narrate: ingestion goes on.
CompileFails(w) == worker[w].pc = "compiling" /\ Compiled(w, NoCompile)

\* A bug variant: what is compared is the Wiki's own generation only.
AppliesOnWiki(w) == worker[w].result # NoCompile /\ wiki = worker[w].wiki

\* apply_wiki: nothing was stored since the pages were loaded.
Applies(w) ==
  /\ worker[w].result # NoCompile
  /\ knowledge = worker[w].base
  /\ wiki = knowledge \/ wiki = worker[w].wiki

\* The rows after a commit: what it inserts has one creation time, so its
\* order is the order of random identifiers.
Write(ps, p) == Upsert(Without(ps, p.removes), Reloaded(p))

StoredPages(affected) ==
  LET result == FoldLeft(Write, pages, affected)
      removed == UNION {p.removes : p \in ToSet(affected)}
      old == {p.id : p \in ToSet(pages)} \ removed
      kept == Keep(result, {p \in ToSet(result) : p.id \in old})
      new == {p \in ToSet(result) : p.id \notin old} IN
  {kept \o order : order \in SetToSeqs(new)}

\* replace_content under the lease: one transaction.
Store(w) ==
  LET d == worker[w].doc IN
  /\ worker[w].pc = "compiled" /\ owner[d] = w /\ Runnable(d) /\ knowledge < MaxStores
  /\ knowledge' = knowledge + 1
  /\ raw' = [raw EXCEPT ![d] = knowledge + 1]
  /\ docStatus' = [docStatus EXCEPT ![d] = "indexing"]
  /\ IF Applies(w)
     THEN /\ wiki' = knowledge + 1
          /\ pages' \in StoredPages(worker[w].result.affected)
          /\ overview' = [e \in Docs |-> IF e \in worker[w].result.covers
                                         THEN knowledge + 1 ELSE overview[e]]
     ELSE UNCHANGED <<wiki, pages, overview>>
  /\ worker' = [worker EXCEPT ![w] = [pc |-> "stored", doc |-> d]]
  /\ UNCHANGED owner

\* DOCUMENT_NOT_RUNNABLE
StoreRefused(w) ==
  /\ worker[w].pc = "compiled"
  /\ owner[worker[w].doc] # w \/ ~Runnable(worker[w].doc)
  /\ worker' = [worker EXCEPT ![w] = Idle]
  /\ UNCHANGED <<knowledge, wiki, pages, overview, docStatus, raw, owner>>

\* mark_ready, or its refusal.
Finish(w) ==
  LET d == worker[w].doc IN
  /\ worker[w].pc = "stored"
  /\ IF owner[d] = w /\ Runnable(d)
     THEN docStatus' = [docStatus EXCEPT ![d] = "ready"] /\ owner' = [owner EXCEPT ![d] = NoDoc]
     ELSE UNCHANGED <<docStatus, owner>>
  /\ worker' = [worker EXCEPT ![w] = Idle]
  /\ UNCHANGED <<knowledge, wiki, pages, overview, raw>>

\* The lease of a dead or a slow worker ends, and the job can be claimed.  A
\* dead worker is one that does nothing more than find its lease gone.
LeaseExpires(d) ==
  /\ owner[d] # NoDoc
  /\ owner' = [owner EXCEPT ![d] = NoDoc]
  /\ UNCHANGED <<knowledge, wiki, pages, overview, docStatus, raw, worker>>

\* A document is deleted: at once for every reader ...
DeleteDocument(d) ==
  /\ docStatus[d] # "deleted" /\ d \in Deletable
  /\ docStatus' = [docStatus EXCEPT ![d] = "deleted"]
  /\ UNCHANGED <<knowledge, wiki, pages, overview, raw, owner, worker>>

\* ... and later its chunks, and no page and no generation.
DeleteChunks(d) ==
  /\ docStatus[d] = "deleted" /\ raw[d] > 0
  /\ raw' = [raw EXCEPT ![d] = 0]
  /\ UNCHANGED <<knowledge, wiki, pages, overview, docStatus, owner, worker>>

WikiNext ==
  \/ \E w \in Workers :
       \/ \E d \in Docs : Load(w, d)
       \/ Compile(w) \/ CompileFails(w)
       \/ Store(w) \/ StoreRefused(w) \/ Finish(w)
  \/ \E d \in Docs : LeaseExpires(d) \/ DeleteDocument(d) \/ DeleteChunks(d)

WikiSpec == WikiInit /\ [][WikiNext]_wikiVars

----------------------------------------------------------------------------
(* Properties *)

\* Every variable has its type, and the Wiki is never ahead of the text (the
\* check constraint projects_wiki_generation_not_ahead).
WikiTypeOK ==
  /\ knowledge \in 0..MaxStores /\ wiki \in 0..knowledge
  /\ \A i \in DOMAIN pages :
       /\ DOMAIN pages[i] = {"id", "title", "aliases", "claims", "relations", "sources", "removes"}
       /\ pages[i].title \in Names /\ pages[i].aliases \subseteq Names \ {pages[i].title}
       /\ pages[i].claims \subseteq [object : Objects, sources : SUBSET Docs, conflicting : BOOLEAN]
       /\ pages[i].sources \subseteq Docs /\ pages[i].removes = {}
  /\ overview \in [Docs -> 0..MaxStores] /\ raw \in [Docs -> 0..MaxStores]
  /\ docStatus \in [Docs -> {"uploaded", "parsing", "indexing", "ready", "deleted"}]
  /\ owner \in [Docs -> Workers \cup {NoDoc}]
  /\ \A w \in Workers : worker[w].pc \in {"idle", "compiling", "compiled", "stored"}

\* Whatever interleaves, fails or is retried, every document whose chunks are
\* no newer than wiki_generation was compiled into the Wiki after it was stored:
\* with equal generations the Wiki covers all of the text a reader may ask.
FreshWikiCoversEveryDocument ==
  \A d \in Docs : 0 < raw[d] /\ raw[d] <= wiki /\ docStatus[d] # "deleted" => overview[d] >= raw[d]

\* A claim is marked as conflicting exactly when its page says two things.
ConflictsAreExact ==
  \A i \in DOMAIN pages : \A c \in pages[i].claims :
    c.conflicting <=> \E b \in pages[i].claims : b.object # c.object

\* Every source of a claim or a relation is a source of its page, where an
\* exact question looks for the text behind it, and is a stored document.
ClaimsAreCited ==
  \A i \in DOMAIN pages :
    /\ \A c \in pages[i].claims : c.sources # {} /\ c.sources \subseteq pages[i].sources
    /\ \A r \in pages[i].relations : r.sources # {} /\ r.sources \subseteq pages[i].sources
    /\ \A d \in pages[i].sources : overview[d] > 0 /\ (raw[d] > 0 \/ docStatus[d] = "deleted")

\* The stored pages are well typed and cite documents that the Wiki covers for
\* all they say, and exactly their contradictions are marked, whatever was
\* merged or folded into them (services/wiki_merge.py).
PagesAreSound == WikiTypeOK /\ ClaimsAreCited /\ ConflictsAreExact

\* Whether a page still says all of an earlier one, under each of its names.
Continues(q, p) ==
  /\ NamesOf(p) \subseteq NamesOf(q)
  /\ \A c \in p.claims : \E b \in q.claims : b.object = c.object /\ c.sources \subseteq b.sources
  /\ \A r \in p.relations : \E s \in q.relations :
       s.between = r.between /\ r.sources \subseteq s.sources

\* No step loses what a stored page says: pages are only extended, or folded
\* into one that continues them, however ingestions overlap.
StoredKnowledgeIsKept ==
  [][\A i \in DOMAIN pages : \E j \in DOMAIN pages' : Continues(pages'[j], pages[i])]_wikiVars
=============================================================================
