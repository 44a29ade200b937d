------------------------ MODULE EvidenceReviewProofs ------------------------
(***************************************************************************)
(* Proofs about EvidenceReview, for any number of runs, documents, claims, *)
(* sections, questions and refreshes, and any answers of the models.       *)
(***************************************************************************)
EXTENDS EvidenceReview, FiniteSetTheorems, TLAPS

(* The maximum of a finite set of numbers, and the positions that a        *)
(* rejection keeps, by minimality.                                         *)

LEMMA MinimalSubset ==
  ASSUME NEW T, T # {}, \A U \in T : IsFiniteSet(U)
  PROVE  \E U \in T : \A V \in T : V \subseteq U => V = U
<1> DEFINE S == UNION T
<1>1. T \subseteq FiniteSubsetsOf(S)
  BY DEF FiniteSubsetsOf
<1>2. \E U \in T : \A V \in T : ~ (<<V, U>> \in StrictSubsetOrdering(S))
  BY <1>1, FS_StrictSubsetOrderingWellFounded, WFMin
<1> QED
  BY <1>2 DEF StrictSubsetOrdering

LEMMA LeastNatural ==
  ASSUME NEW T \in SUBSET Nat, T # {}
  PROVE  \E n \in T : \A m \in T : n <= m
<1> DEFINE Initial(n) == 1..n
           Intervals == {Initial(n) : n \in T}
<1>1. /\ \A n \in T : Initial(n) \in Intervals
      /\ \A U \in Intervals : \E n \in T : U = Initial(n)
      /\ Intervals # {}
  OBVIOUS
<1>2. \A n \in T : IsFiniteSet(Initial(n))
  BY FS_Interval
<1>3. \A m, n \in T : m < n => Initial(m) \subseteq Initial(n) /\ Initial(m) # Initial(n)
  <2>1. SUFFICES ASSUME NEW m \in T, NEW n \in T, m < n
                 PROVE  Initial(m) \subseteq Initial(n) /\ Initial(m) # Initial(n)
    OBVIOUS
  <2>2. n \in Initial(n) /\ n \notin Initial(m)
    BY <2>1
  <2> QED
    BY <2>1, <2>2
<1> HIDE DEF Initial, Intervals
<1>4. PICK U \in Intervals : \A V \in Intervals : V \subseteq U => V = U
  <2>1. \A U \in Intervals : IsFiniteSet(U)
    BY <1>1, <1>2
  <2> QED
    BY <1>1, <2>1, MinimalSubset
<1>5. PICK n \in T : U = Initial(n)
  BY <1>1
<1>6. \A m \in T : ~ (m < n)
  BY <1>1, <1>3, <1>4, <1>5
<1> QED
  BY <1>6

LEMMA MaxIs ==
  ASSUME NEW S \in SUBSET Nat, IsFiniteSet(S), S # {}
  PROVE  Max(S) \in S /\ \A x \in S : x <= Max(S)
<1> DEFINE HasMax(U) == \E x \in U : \A y \in U : y <= x
           Bad == {U \in SUBSET S : U # {} /\ ~HasMax(U)}
<1>1. Bad = {}
  <2>1. SUFFICES ASSUME Bad # {} PROVE FALSE
    OBVIOUS
  <2>2. \A U \in Bad : IsFiniteSet(U)
    BY FS_Subset
  <2>3. PICK U \in Bad : \A V \in Bad : V \subseteq U => V = U
    <3> HIDE DEF Bad
    <3> QED
      BY <2>1, <2>2, MinimalSubset
  <2>4. PICK x \in U : TRUE
    BY <2>3
  <2> DEFINE V == U \ {x}
  <2>5. V = {} \/ HasMax(V)
    <3>1. V \in SUBSET S /\ V \subseteq U /\ V # U
      BY <2>3, <2>4
    <3> HIDE DEF HasMax, V
    <3>2. V \notin Bad
      <4> HIDE DEF Bad
      <4> QED
        BY <2>3, <3>1
    <3> QED
      BY <3>1, <3>2
  <2>6. HasMax(U)
    <3>1. CASE V = {}
      BY <2>3, <2>4, <3>1
    <3>2. CASE HasMax(V)
      <4>1. PICK y \in V : \A z \in V : z <= y
        BY <3>2
      <4>2. x \in Nat /\ y \in Nat /\ V \subseteq Nat /\ U = V \cup {x} /\ y \in U
        BY <2>3, <2>4, <4>1
      <4>3. CASE x <= y
        BY <4>1, <4>2, <4>3
      <4>4. CASE y < x
        <5>1. \A z \in U : z <= x
          BY <4>1, <4>2, <4>4
        <5> QED
          BY <5>1, <2>4
      <4> QED
        BY <4>2, <4>3, <4>4
    <3> QED
      BY <2>5, <3>1, <3>2
  <2> QED
    BY <2>3, <2>6
<1>2. HasMax(S)
  BY <1>1
<1>3. \E x \in S : \A y \in S : x >= y
  BY <1>2
<1>4. Max(S) \in S /\ \A y \in S : Max(S) >= y
  BY <1>3 DEF Max
<1> QED
  BY <1>4

\* What a rejection keeps has a first, a second, ... and a last position.
LEMMA PositionOf ==
  ASSUME NEW m \in Nat, NEW kept \in SUBSET (1..m), NEW n \in 1..Cardinality(kept)
  PROVE  \E i \in kept : Cardinality({j \in kept : j <= i}) = n
<1> DEFINE UpTo(i) == {j \in kept : j <= i}
           Enough == {i \in Nat : Cardinality(UpTo(i)) >= n}
<1>1. IsFiniteSet(kept) /\ Cardinality(kept) \in Nat
  <2>1. IsFiniteSet(1..m)
    BY FS_Interval
  <2> QED
    BY <2>1, FS_Subset, FS_CardinalityType
<1>2. \A i : IsFiniteSet(UpTo(i)) /\ Cardinality(UpTo(i)) \in Nat
  BY <1>1, FS_Subset, FS_CardinalityType
<1>3. UpTo(m) = kept /\ UpTo(0) = {}
  <2>1. \A j \in kept : j \in Nat /\ j <= m /\ ~ (j <= 0)
    OBVIOUS
  <2> QED
    BY <2>1
<1>4. \A i \in Nat \ {0} : /\ i \notin UpTo(i - 1)
                           /\ i \in kept => UpTo(i) = UpTo(i - 1) \cup {i}
                           /\ i \notin kept => UpTo(i) = UpTo(i - 1)
  <2>1. SUFFICES ASSUME NEW i \in Nat \ {0}
                 PROVE  /\ i \notin UpTo(i - 1)
                        /\ i \in kept => UpTo(i) = UpTo(i - 1) \cup {i}
                        /\ i \notin kept => UpTo(i) = UpTo(i - 1)
    OBVIOUS
  <2>2. \A j \in kept : j \in Nat /\ (j <= i <=> j <= i - 1 \/ j = i) /\ ~ (i <= i - 1)
    OBVIOUS
  <2> QED
    BY <2>2
<1>5. n \in Nat /\ 1 <= n /\ n <= Cardinality(kept)
  BY <1>1
<1> HIDE DEF UpTo
<1>6. m \in Enough
  BY <1>1, <1>3, <1>5
<1>7. PICK i \in Enough : \A k \in Enough : i <= k
  <2>1. Enough \in SUBSET Nat /\ Enough # {}
    BY <1>6
  <2> HIDE DEF Enough
  <2> QED
    BY <2>1, LeastNatural
<1>8. i \in Nat \ {0}
  BY <1>3, <1>5, <1>7, FS_EmptySet
<1>9. Cardinality(UpTo(i - 1)) < n
  <2>1. i - 1 \in Nat /\ i - 1 \notin Enough
    BY <1>7, <1>8
  <2> QED
    BY <1>2, <1>5, <2>1
<1>10. i \in kept
  BY <1>2, <1>4, <1>5, <1>7, <1>8, <1>9
<1>11. Cardinality(UpTo(i)) = Cardinality(UpTo(i - 1)) + 1
  BY <1>2, <1>4, <1>8, <1>10, FS_AddElement
<1>12. Cardinality(UpTo(i)) = n
  BY <1>2, <1>5, <1>7, <1>9, <1>11
<1> QED
  BY <1>10, <1>12 DEF UpTo

-----------------------------------------------------------------------------
(* Types.                                                                  *)

Kinds == {"none", "evidence_review", "report_refresh"}
Active == {"pending", "running", "waiting_human"}
RunRow == [kind : Kinds, base : Runs \cup {NoRun}, impacted : SUBSET Sections,
           scope : SUBSET Docs, policy : {"strict", "balanced"},
           status : {"none"} \cup Active \cup Ended,
           error : {"none", "node", "evidence", "relation", "unique"}]

Lists(S) == UNION {[1..n -> S] : n \in Nat}
Keyed(S) == UNION {[keys -> S] : keys \in SUBSET Sections}
Extract == [text : Texts, sources : (SUBSET Docs) \ {{}}]
Draft == [text : Texts, evidence : SUBSET Docs, question : Numbers]
Before == {"idle", "retrieve", "reconcile", "human_review", "interrupted"}
Committing == {"commit", "writing"}
PCs == Before \cup {"apply", "synthesize", "end"} \cup Committing
Seen == [revision : Nat, version : [Texts -> Nat]]
Work == [pc : PCs, batches : Lists(Extract \cup {NoClaim}), retrieved : SUBSET Docs,
         claims : Lists(Draft), links : SUBSET (Numbers \X Numbers),
         decision : {"none", "approve", "reject", "edit"}, sections : Keyed(Numbers),
         seen : Seen]
Row == [id : ClaimIds, text : Texts, evidence : SUBSET Docs, question : Numbers, version : Nat]
Link == [run : Runs, source : Numbers, target : Numbers]
Report == [status : {"none", "published", "invalidated"}, base : Runs \cup {NoRun},
           revision : Nat, sections : Keyed(SUBSET ClaimIds)]

RowsTyped ==
  /\ docs \in [Docs -> {"ready", "deleting", "gone"}]
  /\ runs \in [Runs -> RunRow] /\ lock \in Runs \cup {NoRun}
StoredTyped ==
  /\ claims \in SUBSET Row /\ IsFiniteSet(claims)
  /\ relations \in SUBSET Link /\ reports \in [Runs -> Report]
WorkTyped ==
  /\ work \in [Runs -> Work]
  /\ \A r \in Runs : \A q \in DOMAIN work[r].batches : work[r].batches[q] \in Answers[r] \cup {NoClaim}

(* Where a run is, and what its request has fixed.                         *)

Phase(r) ==
  /\ runs[r].kind = "none" <=> runs[r].status = "none"
  /\ runs[r].status = "none" => work[r].pc = "idle"
  /\ runs[r].status = "succeeded" <=> reports[r].status # "none"
  /\ runs[r].status = "succeeded" => work[r].pc \in {"commit", "end"}
  /\ runs[r].status = "failed" => work[r].pc = "end"
  /\ runs[r].kind = "report_refresh" =>
       /\ runs[r].impacted # {} /\ runs[r].base \in Runs
       /\ reports[runs[r].base].status # "none"
  /\ runs[r].kind # "report_refresh" => runs[r].base = NoRun
Phases == \A r \in Runs : Phase(r)

\* The transaction that writes has the lock, and what it has read of the
\* project is still so.
Reading(r) ==
  work[r].pc = "writing" =>
    /\ lock = r /\ runs[r].status \in Active
    /\ work[r].seen.revision = NextRevision(r)
    /\ \A t \in Texts : work[r].seen.version[t] = NextVersion(r, t)
Serialized ==
  /\ \A r \in Runs : Reading(r)
  /\ lock # NoRun => work[lock].pc = "writing"

\* What a worker holds rests on what it was asked, found and told.
InScope(r, sources) ==
  /\ sources # {} /\ sources \subseteq work[r].retrieved
  /\ runs[r].scope # {} => sources \subseteq runs[r].scope
Accepted(c) == c.text \notin Low /\ c.evidence \cap Suspicious = {}
Extracted(r) ==
  /\ \A q \in DOMAIN work[r].batches :
       work[r].batches[q] # NoClaim => InScope(r, work[r].batches[q].sources)
  /\ work[r].pc = "reconcile" =>
       \A q \in DOMAIN work[r].batches : work[r].batches[q] # NoClaim
  /\ work[r].pc \notin {"retrieve", "reconcile"} => DOMAIN work[r].batches = {}
Drafted(r) ==
  /\ work[r].pc \in {"idle", "retrieve", "reconcile"} => DOMAIN work[r].claims = {}
  /\ \A i \in DOMAIN work[r].claims : InScope(r, work[r].claims[i].evidence)
  /\ work[r].decision # "reject" =>
       \A i \in DOMAIN work[r].claims : work[r].claims[i].question = i
Decided(r) ==
  /\ work[r].pc \in Before => work[r].decision = "none"
  /\ work[r].pc \in {"synthesize"} \cup Committing /\ work[r].decision = "reject" =>
       \A i \in DOMAIN work[r].claims : Accepted(work[r].claims[i])
Written(r) ==
  /\ work[r].pc \in Before \cup {"apply", "synthesize"} => DOMAIN work[r].sections = {}
  /\ \A s \in DOMAIN work[r].sections : work[r].sections[s] \in DOMAIN work[r].claims
  /\ work[r].pc \in Committing /\ runs[r].kind = "report_refresh" =>
       DOMAIN work[r].sections = runs[r].impacted
  /\ work[r].pc \in Committing => DOMAIN work[r].sections # {}
Grounded == \A r \in Runs : Extracted(r) /\ Drafted(r) /\ Decided(r) /\ Written(r)

\* What is stored belongs to a published run.
Stored(r) ==
  /\ reports[r].status # "none" =>
       /\ DOMAIN reports[r].sections # {}
       /\ reports[r].base = runs[r].base
  /\ reports[r].status = "none" => DOMAIN reports[r].sections = {} /\ reports[r].base = NoRun
  /\ runs[r].base # r
StoredOnce ==
  /\ \A r \in Runs : Stored(r)
  /\ \A c \in claims : reports[c.id[1]].status # "none" /\ c.evidence # {}
  /\ \A l \in relations : reports[l.run].status # "none"

Sound ==
  /\ SectionsCiteStoredClaims /\ RefreshKeepsOtherSections /\ InvalidatedHasSuccessor
  /\ RejectedClaimsAreNotStored /\ EvidenceIsInScope /\ RelationsJoinReconciledClaims

IInv == /\ RowsTyped /\ StoredTyped /\ WorkTyped /\ Phases /\ Serialized
        /\ Grounded /\ StoredOnce /\ CommitsNeverCollide /\ Sound

-----------------------------------------------------------------------------
(* What the model's operators return.                                      *)

LEMMA ListFacts ==
  ASSUME NEW S
  PROVE  /\ \A n \in Nat : \A f \in [1..n -> S] : f \in Lists(S)
         /\ <<>> \in Lists(S)
         /\ \A f \in Lists(S) : /\ DOMAIN f \subseteq Numbers
                                /\ IsFiniteSet(DOMAIN f)
                                /\ \A i \in DOMAIN f : f[i] \in S
                                /\ f \in [DOMAIN f -> S]
<1>1. \A n \in Nat : \A f \in [1..n -> S] : f \in Lists(S)
  BY DEF Lists
<1>2. <<>> \in [1..0 -> S]
  OBVIOUS
<1>3. \A n \in Nat : IsFiniteSet(1..n)
  BY FS_Interval
<1>4. \A n \in Nat : 1..n \subseteq Numbers
  BY DEF Numbers
<1>5. ASSUME NEW f \in Lists(S)
      PROVE  /\ DOMAIN f \subseteq Numbers /\ IsFiniteSet(DOMAIN f)
             /\ \A i \in DOMAIN f : f[i] \in S
             /\ f \in [DOMAIN f -> S]
  <2>1. PICK n \in Nat : f \in [1..n -> S]
    BY DEF Lists
  <2>2. DOMAIN f = 1..n
    BY <2>1
  <2> QED
    BY <1>3, <1>4, <2>1, <2>2
<1> QED
  BY <1>1, <1>2, <1>5

LEMMA KeyedFacts ==
  ASSUME NEW S
  PROVE  /\ \A keys \in SUBSET Sections : \A f \in [keys -> S] : f \in Keyed(S)
         /\ <<>> \in Keyed(S) /\ DOMAIN <<>> = {}
         /\ \A f \in Keyed(S) : /\ DOMAIN f \subseteq Sections
                                /\ \A s \in DOMAIN f : f[s] \in S
                                /\ f \in [DOMAIN f -> S]
<1>1. \A keys \in SUBSET Sections : \A f \in [keys -> S] : f \in Keyed(S)
  BY DEF Keyed
<1>2. <<>> \in [{} -> S] /\ DOMAIN <<>> = {}
  OBVIOUS
<1>3. ASSUME NEW f \in Keyed(S)
      PROVE  /\ DOMAIN f \subseteq Sections /\ \A s \in DOMAIN f : f[s] \in S
             /\ f \in [DOMAIN f -> S]
  BY DEF Keyed
<1> QED
  BY <1>1, <1>2, <1>3

\* A rejection keeps each claim it does not reject, and no other.
LEMMA KeepAtIs ==
  ASSUME NEW list \in Lists(Draft), NEW kept \in SUBSET DOMAIN list
  PROVE  /\ KeepAt(list, kept) \in Lists(Draft)
         /\ \A n \in DOMAIN KeepAt(list, kept) : \E i \in kept : KeepAt(list, kept)[n] = list[i]
<1> DEFINE At(n) == CHOOSE i \in kept : Cardinality({j \in kept : j <= i}) = n
           K == KeepAt(list, kept)
<1>1. PICK m \in Nat : list \in [1..m -> Draft]
  BY DEF Lists
<1>2. kept \in SUBSET (1..m) /\ DOMAIN list = 1..m
  BY <1>1
<1>3. Cardinality(kept) \in Nat
  <2>1. IsFiniteSet(1..m)
    BY <1>1, FS_Interval
  <2> QED
    BY <1>2, <2>1, FS_Subset, FS_CardinalityType
<1>4. \A n \in 1..Cardinality(kept) : At(n) \in kept
  <2>1. SUFFICES ASSUME NEW n \in 1..Cardinality(kept) PROVE At(n) \in kept
    OBVIOUS
  <2>2. \E i \in kept : Cardinality({j \in kept : j <= i}) = n
    BY <1>1, <1>2, PositionOf
  <2> QED
    BY <2>2
<1>5. K = [n \in 1..Cardinality(kept) |-> list[At(n)]]
  BY DEF KeepAt
<1> HIDE DEF At, K
<1>6. K \in [1..Cardinality(kept) -> Draft]
  BY <1>1, <1>2, <1>4, <1>5
<1>7. \A n \in DOMAIN K : K[n] = list[At(n)] /\ At(n) \in kept
  BY <1>4, <1>5
<1> QED
  BY <1>3, <1>6, <1>7, ListFacts DEF K

LEMMA ImageIsFinite ==
  ASSUME NEW S, IsFiniteSet(S), NEW T, NEW f \in [S -> T], \A t \in T : \E x \in S : f[x] = t
  PROVE  IsFiniteSet(T)
<1>1. f \in Surjection(S, T)
  BY DEF Surjection
<1> QED
  BY <1>1, FS_Surjection

LEMMA NextRevisionIs ==
  ASSUME StoredTyped, NEW r \in Runs
  PROVE  /\ NextRevision(r) \in Nat \ {0}
         /\ \A p \in Runs \ {r} : reports[p].revision < NextRevision(r)
<1> DEFINE Taken == {0} \cup {reports[p].revision : p \in Runs \ {r}}
<1>1. \A p \in Runs : reports[p].revision \in Nat
  BY DEF StoredTyped, Report
<1>2. Taken \in SUBSET Nat /\ Taken # {}
  BY <1>1
<1>3. IsFiniteSet(Taken)
  <2>1. IsFiniteSet(Runs \ {r})
    BY ReviewAssumption, FS_Subset
  <2> DEFINE T == {reports[p].revision : p \in Runs \ {r}}
             f == [p \in Runs \ {r} |-> reports[p].revision]
  <2>2. f \in [Runs \ {r} -> T] /\ \A t \in T : \E p \in Runs \ {r} : f[p] = t
    OBVIOUS
  <2>3. IsFiniteSet(T)
    <3> HIDE DEF T, f
    <3> QED
      BY <2>1, <2>2, ImageIsFinite
  <2> QED
    BY <2>3, FS_Singleton, FS_Union
<1>4. Max(Taken) \in Taken /\ \A x \in Taken : x <= Max(Taken)
  <2> HIDE DEF Taken
  <2> QED
    BY <1>2, <1>3, MaxIs
<1>5. NextRevision(r) = 1 + Max(Taken)
  BY DEF NextRevision
<1>6. \A p \in Runs \ {r} : reports[p].revision \in Taken
  OBVIOUS
<1>7. Max(Taken) \in Nat /\ \A p \in Runs \ {r} : reports[p].revision <= Max(Taken)
  <2> HIDE DEF Taken
  <2> QED
    BY <1>2, <1>4, <1>6
<1> HIDE DEF Taken
<1> QED
  BY <1>1, <1>5, <1>7

LEMMA NextVersionIs ==
  ASSUME StoredTyped, NEW r \in Runs, NEW t \in Texts
  PROVE  /\ NextVersion(r, t) \in Nat \ {0}
         /\ \A c \in OthersClaims(r) : c.text = t => c.version < NextVersion(r, t)
<1> DEFINE Same == {c \in OthersClaims(r) : c.text = t}
           Taken == {0} \cup {c.version : c \in Same}
<1>1. Same \in SUBSET claims /\ \A c \in Same : c.version \in Nat
  BY DEF StoredTyped, Row, OthersClaims
<1>2. Taken \in SUBSET Nat /\ Taken # {}
  BY <1>1
<1>3. IsFiniteSet(Taken)
  <2>1. IsFiniteSet(Same)
    BY <1>1, FS_Subset DEF StoredTyped
  <2> DEFINE T == {c.version : c \in Same}
             f == [c \in Same |-> c.version]
  <2>2. f \in [Same -> T] /\ \A u \in T : \E c \in Same : f[c] = u
    <3> HIDE DEF Same
    <3> QED
      OBVIOUS
  <2>3. IsFiniteSet(T)
    <3> HIDE DEF Same, T, f
    <3> QED
      BY <2>1, <2>2, ImageIsFinite
  <2> QED
    BY <2>3, FS_Singleton, FS_Union
<1>4. Max(Taken) \in Taken /\ \A x \in Taken : x <= Max(Taken)
  <2> HIDE DEF Taken
  <2> QED
    BY <1>2, <1>3, MaxIs
<1>5. NextVersion(r, t) = 1 + Max(Taken)
  BY DEF NextVersion
<1>6. \A c \in OthersClaims(r) : c.text = t => c \in Same /\ c.version \in Taken
  OBVIOUS
<1>7. /\ Max(Taken) \in Nat
      /\ \A c \in OthersClaims(r) : c.text = t => c.version <= Max(Taken) /\ c.version \in Nat
  <2> HIDE DEF Taken, Same
  <2> QED
    BY <1>1, <1>2, <1>4, <1>6
<1> HIDE DEF Taken, Same
<1> QED
  BY <1>5, <1>7

-----------------------------------------------------------------------------
(* Type correctness.                                                       *)

LEMMA AffectedIs ==
  ASSUME StoredTyped, NEW b \in Runs, NEW changed
  PROVE  /\ Affected(b, changed) \in SUBSET Sections
         /\ Affected(b, changed) \subseteq DOMAIN reports[b].sections
         /\ DOMAIN reports[b].sections # {} => Affected(b, changed) # {}
<1>1. reports[b].sections \in Keyed(SUBSET ClaimIds)
  BY DEF StoredTyped, Report
<1>2. DOMAIN reports[b].sections \subseteq Sections
  BY <1>1, KeyedFacts
<1> DEFINE direct == {s \in DOMAIN reports[b].sections :
                        EvidenceOf(reports[b].sections[s]) \cap changed # {}}
<1>3. Affected(b, changed) = IF direct = {} THEN DOMAIN reports[b].sections ELSE direct
  BY DEF Affected
<1>4. direct \subseteq DOMAIN reports[b].sections
  OBVIOUS
<1> HIDE DEF direct
<1> QED
  BY <1>2, <1>3, <1>4

LEMMA InitTyped == Init => RowsTyped /\ StoredTyped /\ WorkTyped
<1> SUFFICES ASSUME Init PROVE RowsTyped /\ StoredTyped /\ WorkTyped
  OBVIOUS
<1>1. RowsTyped
  <2>1. Unrequested \in RunRow
    BY DEF Unrequested, RunRow, Kinds
  <2>2. [Unrequested EXCEPT !.kind = "evidence_review", !.status = "succeeded"] \in RunRow
    BY DEF Unrequested, RunRow, Kinds, Ended
  <2> QED
    BY <2>1, <2>2, ReviewAssumption DEF Init, RowsTyped
<1>2. DOMAIN FirstClaims \subseteq Numbers /\ IsFiniteSet(DOMAIN FirstClaims)
      /\ \A i \in DOMAIN FirstClaims : FirstClaims[i] \in Extract
  <2>1. FirstClaims \in Seq(Answers[First]) /\ Answers[First] \subseteq Extract
    BY ReviewAssumption DEF Extract
  <2>2. Len(FirstClaims) \in Nat /\ DOMAIN FirstClaims = 1..Len(FirstClaims)
    BY <2>1
  <2>3. IsFiniteSet(1..Len(FirstClaims))
    BY <2>2, FS_Interval
  <2> QED
    BY <2>1, <2>2, <2>3 DEF Numbers
<1>3. StoredTyped
  <2> DEFINE row(i) == [id |-> <<First, i>>, text |-> FirstClaims[i].text,
                        evidence |-> FirstClaims[i].sources, question |-> i, version |-> 1]
             f == [i \in DOMAIN FirstClaims |-> row(i)]
  <2>1. claims = {row(i) : i \in DOMAIN FirstClaims}
    BY DEF Init
  <2>2. \A i \in DOMAIN FirstClaims : row(i) \in Row
    BY <1>2, ReviewAssumption DEF Row, ClaimIds, Numbers, Extract
  <2>3. claims \in SUBSET Row
    <3> HIDE DEF row
    <3> QED
      BY <2>1, <2>2
  <2>4. IsFiniteSet(claims)
    <3>1. f \in [DOMAIN FirstClaims -> claims]
          /\ \A c \in claims : \E i \in DOMAIN FirstClaims : f[i] = c
      <4> HIDE DEF row
      <4> QED
        BY <2>1
    <3> HIDE DEF f, row
    <3> QED
      BY <1>2, <3>1, ImageIsFinite
  <2>5. NoReport \in Report
    BY KeyedFacts DEF NoReport, Report
  <2>6. [status |-> "published", base |-> NoRun, revision |-> 1,
         sections |-> [s \in Sections |-> {<<First, FirstReport[s]>>}]] \in Report
    <3>1. [s \in Sections |-> {<<First, FirstReport[s]>>}] \in [Sections -> SUBSET ClaimIds]
      BY <1>2, ReviewAssumption DEF ClaimIds, Numbers
    <3>2. [s \in Sections |-> {<<First, FirstReport[s]>>}] \in Keyed(SUBSET ClaimIds)
      BY <3>1, KeyedFacts
    <3> QED
      BY <3>2 DEF Report
  <2>7. reports \in [Runs -> Report]
    BY <2>5, <2>6 DEF Init
  <2> QED
    BY <2>3, <2>4, <2>7 DEF Init, StoredTyped
<1>4. WorkTyped
  <2>1. NoWork.seen \in Seen
    BY DEF NoWork, Seen
  <2>2. NoWork \in Work /\ [NoWork EXCEPT !.pc = "end"] \in Work
    BY <2>1, KeyedFacts, ListFacts DEF NoWork, Work, PCs, Before
  <2>3. NoWork.batches = <<>> /\ DOMAIN <<>> = {}
    BY DEF NoWork
  <2>4. \A r \in Runs : work[r] \in Work /\ work[r].batches = <<>>
    BY <2>2, <2>3 DEF Init, NoWork
  <2> QED
    BY <2>3, <2>4 DEF Init, WorkTyped
<1> QED
  BY <1>1, <1>3, <1>4

\* The transaction's rows are rows of the tables.
LEMMA RowsWritten ==
  ASSUME RowsTyped, StoredTyped, WorkTyped, NEW r \in Runs,
         runs[r].kind = "report_refresh" => runs[r].base \in Runs
  PROVE  /\ \A i \in DOMAIN work[r].claims : ClaimRow(r, i) \in Row
         /\ IsFiniteSet(ClaimRows(r))
         /\ LinkRows(r) \in SUBSET Link
         /\ SectionRows(r) \in Keyed(SUBSET ClaimIds)
<1>1. work[r] \in Work /\ runs[r] \in RunRow
  BY DEF WorkTyped, RowsTyped
<1>2. /\ work[r].claims \in Lists(Draft) /\ work[r].seen \in Seen
      /\ work[r].links \in SUBSET (Numbers \X Numbers) /\ work[r].sections \in Keyed(Numbers)
  BY <1>1 DEF Work
<1>3. /\ DOMAIN work[r].claims \subseteq Numbers /\ IsFiniteSet(DOMAIN work[r].claims)
      /\ \A i \in DOMAIN work[r].claims : work[r].claims[i] \in Draft
  BY <1>2, ListFacts
<1>4. ASSUME NEW i \in DOMAIN work[r].claims
      PROVE  ClaimRow(r, i) \in Row
  <2> DEFINE c == work[r].claims[i]
             earlier == {j \in 1..(i - 1) : work[r].claims[j].text = c.text}
  <2>1. ClaimRow(r, i) = [id |-> <<r, i>>, text |-> c.text, evidence |-> c.evidence,
                          question |-> c.question,
                          version |-> work[r].seen.version[c.text] + Cardinality(earlier)]
    BY DEF ClaimRow
  <2>2. Cardinality(earlier) \in Nat
    <3>1. i \in Nat /\ IsFiniteSet(1..(i - 1))
      BY <1>3, FS_Interval DEF Numbers
    <3>2. IsFiniteSet(earlier)
      BY <3>1, FS_Subset
    <3> QED
      BY <3>2, FS_CardinalityType
  <2>3. c \in Draft /\ work[r].seen.version[c.text] \in Nat
    BY <1>2, <1>3 DEF Draft, Seen
  <2>4. <<r, i>> \in ClaimIds
    BY <1>3 DEF ClaimIds, Numbers
  <2> HIDE DEF c, earlier
  <2>5. work[r].seen.version[c.text] + Cardinality(earlier) \in Nat
    BY <2>2, <2>3
  <2> QED
    BY <2>1, <2>3, <2>4, <2>5 DEF Row, Draft
<1>5. IsFiniteSet(ClaimRows(r))
  <2> DEFINE f == [i \in DOMAIN work[r].claims |-> ClaimRow(r, i)]
  <2>1. /\ f \in [DOMAIN work[r].claims -> ClaimRows(r)]
        /\ \A c \in ClaimRows(r) : \E i \in DOMAIN work[r].claims : f[i] = c
    BY DEF ClaimRows
  <2> HIDE DEF f
  <2> QED
    BY <1>3, <2>1, ImageIsFinite
<1>6. LinkRows(r) \in SUBSET Link
  BY <1>2 DEF LinkRows, Link
<1>7. SectionRows(r) \in Keyed(SUBSET ClaimIds)
  <2>1. /\ DOMAIN work[r].sections \in SUBSET Sections
        /\ \A s \in DOMAIN work[r].sections : {<<r, work[r].sections[s]>>} \in SUBSET ClaimIds
    BY <1>2, KeyedFacts DEF ClaimIds, Numbers
  <2>2. CASE runs[r].kind = "report_refresh"
    <3>1. reports[runs[r].base].sections \in Keyed(SUBSET ClaimIds)
      BY <2>2 DEF StoredTyped, Report
    <3>2. /\ DOMAIN reports[runs[r].base].sections \in SUBSET Sections
          /\ \A s \in DOMAIN reports[runs[r].base].sections :
               reports[runs[r].base].sections[s] \in SUBSET ClaimIds
      BY <3>1, KeyedFacts
    <3>3. SectionRows(r) \in [DOMAIN reports[runs[r].base].sections -> SUBSET ClaimIds]
      BY <2>1, <2>2, <3>2 DEF SectionRows
    <3> QED
      BY <3>2, <3>3, KeyedFacts
  <2>3. CASE runs[r].kind # "report_refresh"
    <3>1. SectionRows(r) \in [DOMAIN work[r].sections -> SUBSET ClaimIds]
      BY <2>1, <2>3 DEF SectionRows
    <3> QED
      BY <2>1, <3>1, KeyedFacts
  <2> QED
    BY <2>2, <2>3
<1> QED
  BY <1>4, <1>5, <1>6, <1>7

ApiStep ==
  \/ \E r \in Runs : RequestReview(r) \/ \E b \in Runs : RequestRefresh(r, b)
  \/ \E d \in Docs : RequestRemoval(d) \/ RemoveChunks(d)
GraphStep(r) ==
  \/ Decide(r) \/ Start(r) \/ \E q : Retrieve(r, q)
  \/ Reconcile(r) \/ PassReview(r) \/ AskHuman(r) \/ ApplyDecision(r)
  \/ Synthesize(r) \/ FailNode(r)
  \/ BeginCommit(r) \/ CrashInCommit(r) \/ Leave(r) \/ \E error : RollBack(r, error)

LEMMA NextIs ==
  Next => ApiStep \/ \E r \in Runs : GraphStep(r) \/ WriteReport(r)
BY DEF Next, Commit, ApiStep, GraphStep

\* The steps that only give the run another status.
LEMMA StatusMoves ==
  ASSUME NEW r \in Runs, Decide(r) \/ Start(r) \/ AskHuman(r) \/ ApplyDecision(r)
  PROVE  /\ \E s \in Active : runs' = [runs EXCEPT ![r].status = s]
         /\ \E w : work' = [work EXCEPT ![r] = w]
         /\ UNCHANGED <<docs, claims, relations, reports, lock>>
<1>1. CASE Decide(r)
  BY <1>1 DEF Decide, Active
<1>2. CASE Start(r)
  BY <1>2 DEF Start, Active
<1>3. CASE AskHuman(r)
  BY <1>3 DEF AskHuman, MoveTo, Active
<1>4. CASE ApplyDecision(r)
  <2>1. runs' = [runs EXCEPT ![r].status = "running"]
        /\ UNCHANGED <<docs, claims, relations, reports, lock>>
    BY <1>4, ZenonT(60) DEF ApplyDecision
  <2>2. \E w : work' = [work EXCEPT ![r] = w]
    BY <1>4 DEF ApplyDecision
  <2> QED
    BY <2>1, <2>2 DEF Active
<1> QED
  BY <1>1, <1>2, <1>3, <1>4

\* What a run was asked, a step of its worker leaves as it is.
LEMMA RequestKept ==
  ASSUME RowsTyped, WorkTyped, NEW r \in Runs, GraphStep(r) \/ WriteReport(r)
  PROVE  /\ \A p \in Runs \ {r} : runs'[p] = runs[p] /\ work'[p] = work[p]
         /\ runs'[r].kind = runs[r].kind /\ runs'[r].base = runs[r].base
         /\ runs'[r].impacted = runs[r].impacted /\ runs'[r].scope = runs[r].scope
         /\ runs'[r].policy = runs[r].policy
<1>1. runs[r] \in RunRow /\ runs \in [Runs -> RunRow] /\ work \in [Runs -> Work]
  BY DEF RowsTyped, WorkTyped
<1>2. CASE Decide(r) \/ Start(r) \/ AskHuman(r) \/ ApplyDecision(r)
  <2>1. PICK s \in Active : runs' = [runs EXCEPT ![r].status = s]
    BY <1>2, StatusMoves
  <2>2. PICK w : work' = [work EXCEPT ![r] = w]
    BY <1>2, StatusMoves
  <2> QED
    BY <1>1, <2>1, <2>2 DEF RunRow
<1>3. CASE (\E q : Retrieve(r, q)) \/ Reconcile(r) \/ PassReview(r) \/ Synthesize(r)
  BY <1>1, <1>3 DEF Retrieve, Reconcile, PassReview, Synthesize, MoveTo
<1>4. CASE FailNode(r) \/ \E error : RollBack(r, error)
  BY <1>1, <1>4 DEF FailNode, RollBack, Stop, RunRow
<1>5. CASE BeginCommit(r) \/ CrashInCommit(r) \/ Leave(r)
  BY <1>1, <1>5 DEF BeginCommit, CrashInCommit, Leave
<1>6. CASE WriteReport(r)
  BY <1>1, <1>6, SMTT(40) DEF WriteReport, RunRow
<1> QED
  BY <1>2, <1>3, <1>4, <1>5, <1>6 DEF GraphStep

\* A worker's step in memory stores nothing.
LEMMA NothingStored ==
  ASSUME NEW r \in Runs, GraphStep(r)
  PROVE  UNCHANGED <<docs, claims, relations, reports>>
BY DEF GraphStep, Decide, Start, Retrieve, Reconcile, PassReview, AskHuman, ApplyDecision,
       Synthesize, FailNode, BeginCommit, CrashInCommit, Leave, RollBack

LEMMA RunRowSet ==
  ASSUME NEW row \in RunRow, NEW s \in Active \cup Ended,
         NEW e \in {"none", "node", "evidence", "relation", "unique"}
  PROVE  /\ [row EXCEPT !.status = s] \in RunRow
         /\ [row EXCEPT !.status = s, !.error = e] \in RunRow
BY DEF RunRow

\* The row a request inserts.
LEMMA ReviewIs ==
  ASSUME NEW r \in Runs, RequestReview(r)
  PROVE  \E row \in RunRow :
           /\ runs' = [runs EXCEPT ![r] = row] /\ runs[r].kind = "none"
           /\ row.kind = "evidence_review" /\ row.status = "pending" /\ row.base = NoRun
           /\ UNCHANGED <<docs, lock>>
<1>1. PICK scope \in Scopes, policy \in {"strict", "balanced"} :
        runs' = [runs EXCEPT ![r] = [Unrequested EXCEPT !.kind = "evidence_review",
                   !.scope = scope, !.policy = policy, !.status = "pending"]]
  BY DEF RequestReview
<1> DEFINE row == [Unrequested EXCEPT !.kind = "evidence_review",
                     !.scope = scope, !.policy = policy, !.status = "pending"]
<1>2. /\ row \in RunRow /\ row.kind = "evidence_review" /\ row.status = "pending"
      /\ row.base = NoRun
  BY ReviewAssumption DEF Unrequested, RunRow, Kinds, Active
<1>3. runs' = [runs EXCEPT ![r] = row]
  BY <1>1
<1> HIDE DEF row
<1> QED
  BY <1>2, <1>3 DEF RequestReview

LEMMA RefreshIs ==
  ASSUME StoredTyped, NEW r \in Runs, NEW b \in Runs, RequestRefresh(r, b)
  PROVE  \E row \in RunRow :
           /\ runs' = [runs EXCEPT ![r] = row] /\ runs[r].kind = "none"
           /\ row.kind = "report_refresh" /\ row.status = "pending" /\ row.base = b
           /\ DOMAIN reports[b].sections # {} => row.impacted # {}
           /\ reports[b].status # "none"
           /\ UNCHANGED <<docs, lock>>
<1>1. PICK forced \in SUBSET DOMAIN reports[b].sections, changed \in Scopes :
        runs' = [runs EXCEPT ![r] = [Unrequested EXCEPT !.kind = "report_refresh",
              !.base = b, !.scope = changed, !.status = "pending",
              !.impacted = IF forced = {} THEN Affected(b, changed) ELSE forced]]
  BY DEF RequestRefresh
<1> DEFINE impacted == IF forced = {} THEN Affected(b, changed) ELSE forced
           row == [Unrequested EXCEPT !.kind = "report_refresh",
              !.base = b, !.scope = changed, !.status = "pending", !.impacted = impacted]
<1>2. impacted \in SUBSET Sections /\ (DOMAIN reports[b].sections # {} => impacted # {})
  <2>1. reports[b].sections \in Keyed(SUBSET ClaimIds)
    BY DEF StoredTyped, Report
  <2>2. DOMAIN reports[b].sections \subseteq Sections
    BY <2>1, KeyedFacts
  <2> QED
    BY <2>2, AffectedIs
<1>3. runs' = [runs EXCEPT ![r] = row]
  BY <1>1
<1> HIDE DEF impacted
<1>4. /\ row \in RunRow /\ row.kind = "report_refresh" /\ row.status = "pending"
      /\ row.base = b /\ row.impacted = impacted
  BY <1>2, ReviewAssumption DEF Unrequested, RunRow, Kinds, Active
<1> HIDE DEF row
<1> QED
  BY <1>2, <1>3, <1>4 DEF RequestRefresh

LEMMA RowsStep ==
  ASSUME RowsTyped, StoredTyped, WorkTyped, Phases, StoredOnce, [Next]_vars
  PROVE  RowsTyped'
<1>1. /\ runs \in [Runs -> RunRow] /\ docs \in [Docs -> {"ready", "deleting", "gone"}]
      /\ work \in [Runs -> Work] /\ lock \in Runs \cup {NoRun}
  BY DEF RowsTyped, WorkTyped
<1>2. CASE ApiStep
  <2>1. CASE \E d \in Docs : RequestRemoval(d) \/ RemoveChunks(d)
    BY <1>1, <2>1 DEF RequestRemoval, RemoveChunks, RowsTyped
  <2>2. ASSUME NEW r \in Runs, RequestReview(r) PROVE RowsTyped'
    BY <1>1, <2>2, ReviewIs DEF RowsTyped
  <2>3. ASSUME NEW r \in Runs, NEW b \in Runs, RequestRefresh(r, b) PROVE RowsTyped'
    BY <1>1, <2>3, RefreshIs DEF RowsTyped
  <2> QED
    BY <1>2, <2>1, <2>2, <2>3 DEF ApiStep
<1>3. ASSUME NEW r \in Runs, Decide(r) \/ Start(r) \/ AskHuman(r) \/ ApplyDecision(r)
      PROVE  RowsTyped'
  <2>1. PICK s \in Active : runs' = [runs EXCEPT ![r] = [runs[r] EXCEPT !.status = s]]
    BY <1>3, StatusMoves, SMTT(40)
  <2>2. runs' \in [Runs -> RunRow]
    BY <1>1, <2>1, RunRowSet
  <2> QED
    BY <1>1, <1>3, <2>2, StatusMoves DEF RowsTyped
<1>4. ASSUME NEW r \in Runs,
             (\E q : Retrieve(r, q)) \/ Reconcile(r) \/ PassReview(r) \/ Synthesize(r)
      PROVE  RowsTyped'
  BY <1>1, <1>4 DEF Retrieve, Reconcile, PassReview, Synthesize, RowsTyped
<1>5. ASSUME NEW r \in Runs, FailNode(r) PROVE RowsTyped'
  <2>1. runs' = [runs EXCEPT ![r] = [runs[r] EXCEPT !.status = "failed", !.error = "node"]]
    BY <1>1, <1>5 DEF FailNode, Stop
  <2>2. runs' \in [Runs -> RunRow]
    BY <1>1, <2>1, RunRowSet DEF Ended
  <2> QED
    BY <1>1, <1>5, <2>2 DEF FailNode, RowsTyped
<1>6. ASSUME NEW r \in Runs, NEW error, RollBack(r, error) PROVE RowsTyped'
  <2>1. runs' = [runs EXCEPT ![r] = [runs[r] EXCEPT !.status = "failed", !.error = error]]
    BY <1>1, <1>6 DEF RollBack, Stop
  <2>2. error \in {"evidence", "relation", "unique"}
    BY <1>6 DEF RollBack, Obstacles
  <2>3. runs' \in [Runs -> RunRow]
    BY <1>1, <2>1, <2>2, RunRowSet DEF Ended
  <2> QED
    BY <1>1, <1>6, <2>3 DEF RollBack, Release, RowsTyped
<1>7. ASSUME NEW r \in Runs, BeginCommit(r) \/ CrashInCommit(r) \/ Leave(r)
      PROVE  RowsTyped'
  BY <1>1, <1>7 DEF BeginCommit, CrashInCommit, Leave, Release, RowsTyped
<1>8. ASSUME NEW r \in Runs, WriteReport(r) PROVE RowsTyped'
  <2>1. runs' = [runs EXCEPT ![r] = [runs[r] EXCEPT !.status = "succeeded"]]
    BY <1>1, <1>8, SMTT(40) DEF WriteReport
  <2>2. runs' \in [Runs -> RunRow]
    BY <1>1, <2>1, RunRowSet DEF Ended
  <2> QED
    BY <1>1, <1>8, <2>2 DEF WriteReport, Release, RowsTyped
<1>9. CASE UNCHANGED vars
  BY <1>9, SMTT(40) DEF vars, RowsTyped
<1> QED
  BY <1>2, <1>3, <1>4, <1>5, <1>6, <1>7, <1>8, <1>9, NextIs DEF GraphStep

LEMMA ApiStores ==
  ApiStep => UNCHANGED <<work, claims, relations, reports, lock>>
BY DEF ApiStep, RequestReview, RequestRefresh, RequestRemoval, RemoveChunks

\* What a commit writes, in the terms of the rows.
LEMMA WriteIs ==
  ASSUME RowsTyped, StoredTyped, WorkTyped, Phases, NEW r \in Runs, WriteReport(r)
  PROVE  /\ runs[r].base \in Runs \/ runs[r].kind # "report_refresh"
         /\ reports' \in [Runs -> Report]
         /\ reports'[r] = [status |-> "published", base |-> runs[r].base,
                           revision |-> work[r].seen.revision, sections |-> SectionRows(r)]
         /\ \A p \in Runs \ {r} :
              /\ reports'[p] = IF p = runs[r].base THEN [reports[p] EXCEPT !.status = "invalidated"]
                               ELSE reports[p]
              /\ reports'[p].sections = reports[p].sections
              /\ reports'[p].base = reports[p].base
              /\ reports'[p].revision = reports[p].revision
              /\ reports'[p].status = IF p = runs[r].base THEN "invalidated" ELSE reports[p].status
         /\ runs' = [runs EXCEPT ![r].status = "succeeded"]
         /\ work'[r] = [work[r] EXCEPT !.pc = "commit", !.seen = NoWork.seen]
         /\ SectionRows(r) \in Keyed(SUBSET ClaimIds)
<1>1. /\ runs[r].kind = "report_refresh" => runs[r].base \in Runs
      /\ runs[r] \in RunRow /\ work[r] \in Work
  BY DEF Phases, Phase, RowsTyped, WorkTyped
<1>2. SectionRows(r) \in Keyed(SUBSET ClaimIds)
  BY <1>1, RowsWritten
<1>3. [status |-> "published", base |-> runs[r].base,
       revision |-> work[r].seen.revision, sections |-> SectionRows(r)] \in Report
  BY <1>1, <1>2 DEF RunRow, Work, Seen, Report
<1>4. \A p \in Runs : reports[p] \in Report
                      /\ [reports[p] EXCEPT !.status = "invalidated"] \in Report
  BY DEF StoredTyped, Report
<1>5. reports' = WithReport(r) /\ runs' = [runs EXCEPT ![r].status = "succeeded"]
      /\ work' = [work EXCEPT ![r].pc = "commit", ![r].seen = NoWork.seen]
  BY DEF WriteReport
<1>6. reports' \in [Runs -> Report]
  BY <1>3, <1>4, <1>5 DEF WithReport
<1>7. /\ reports'[r] = [status |-> "published", base |-> runs[r].base,
                        revision |-> work[r].seen.revision, sections |-> SectionRows(r)]
      /\ \A p \in Runs \ {r} :
           reports'[p] = IF p = runs[r].base THEN [reports[p] EXCEPT !.status = "invalidated"]
                         ELSE reports[p]
  BY <1>5 DEF WithReport
<1>8. \A p \in Runs \ {r} : /\ reports'[p].sections = reports[p].sections
                            /\ reports'[p].base = reports[p].base
                            /\ reports'[p].revision = reports[p].revision
                            /\ reports'[p].status = IF p = runs[r].base THEN "invalidated" ELSE reports[p].status
  <2>1. SUFFICES ASSUME NEW p \in Runs \ {r}
                 PROVE  /\ reports'[p].sections = reports[p].sections
                        /\ reports'[p].base = reports[p].base
                        /\ reports'[p].revision = reports[p].revision
                        /\ reports'[p].status = IF p = runs[r].base THEN "invalidated" ELSE reports[p].status
    OBVIOUS
  <2>2. reports[p] \in Report
    BY <1>4
  <2> QED
    BY <1>7, <2>2 DEF Report
<1>9. work'[r] = [work[r] EXCEPT !.pc = "commit", !.seen = NoWork.seen]
  BY <1>5 DEF WorkTyped
<1> QED
  BY <1>1, <1>2, <1>5, <1>6, <1>7, <1>8, <1>9

LEMMA StoredStep ==
  ASSUME RowsTyped, StoredTyped, WorkTyped, Phases, [Next]_vars
  PROVE  StoredTyped'
<1>1. CASE UNCHANGED <<claims, relations, reports>>
  BY <1>1 DEF StoredTyped
<1>2. ASSUME NEW r \in Runs, WriteReport(r) PROVE StoredTyped'
  <2>1. reports' \in [Runs -> Report]
    BY <1>2, WriteIs
  <2>2. runs[r].kind = "report_refresh" => runs[r].base \in Runs
    BY <1>2, WriteIs
  <2>3. /\ ClaimRows(r) \in SUBSET Row /\ IsFiniteSet(ClaimRows(r))
        /\ LinkRows(r) \in SUBSET Link
    BY <2>2, RowsWritten DEF ClaimRows
  <2>4. /\ OthersClaims(r) \in SUBSET claims /\ OthersRelations(r) \in SUBSET relations
        /\ IsFiniteSet(OthersClaims(r))
    BY FS_Subset DEF OthersClaims, OthersRelations, StoredTyped
  <2>5. /\ claims' = OthersClaims(r) \cup ClaimRows(r)
        /\ relations' = OthersRelations(r) \cup LinkRows(r)
    BY <1>2 DEF WriteReport
  <2>6. IsFiniteSet(claims')
    BY <2>3, <2>4, <2>5, FS_Union
  <2>7. claims' \in SUBSET Row /\ relations' \in SUBSET Link
    BY <2>3, <2>4, <2>5 DEF StoredTyped
  <2> QED
    BY <2>1, <2>6, <2>7 DEF StoredTyped
<1> QED
  BY <1>1, <1>2, NextIs, ApiStores, NothingStored DEF vars

\* The claims a run may extract are texts with sources.
LEMMA AnswersAre ==
  ASSUME NEW r \in Runs
  PROVE  Answers[r] \subseteq Extract /\ NoClaim \notin Answers[r]
BY ReviewAssumption DEF Extract

LEMMA NoWorkIs ==
  /\ NoWork \in Work /\ [NoWork EXCEPT !.pc = "end"] \in Work
  /\ NoWork.seen \in Seen /\ NoWork.batches = <<>> /\ NoWork.claims = <<>>
  /\ NoWork.sections = <<>> /\ NoWork.decision = "none" /\ DOMAIN <<>> = {}
<1>1. NoWork.seen \in Seen
  BY DEF NoWork, Seen
<1>2. NoWork \in Work /\ [NoWork EXCEPT !.pc = "end"] \in Work
  BY <1>1, KeyedFacts, ListFacts, SMTT(40) DEF NoWork, Work, PCs, Before
<1> QED
  BY <1>1, <1>2 DEF NoWork

\* What each step of the graph makes of the worker's state.
LEMMA ReconcileIs ==
  ASSUME WorkTyped, NEW r \in Runs, Extracted(r), Reconcile(r)
  PROVE  /\ work'[r].claims \in Lists(Draft)
         /\ DOMAIN work'[r].claims = DOMAIN work[r].batches
         /\ \A q \in DOMAIN work[r].batches :
              /\ work[r].batches[q] # NoClaim
              /\ work'[r].claims[q] = [text |-> work[r].batches[q].text,
                                       evidence |-> work[r].batches[q].sources, question |-> q]
         /\ work'[r].links \in SUBSET (Numbers \X Numbers)
         /\ work'[r] = [work[r] EXCEPT !.claims = work'[r].claims, !.links = work'[r].links,
                                       !.batches = <<>>, !.pc = "human_review"]
         /\ UNCHANGED <<docs, runs, claims, relations, reports, lock>>
<1> DEFINE C == [q \in DOMAIN work[r].batches |->
               [text |-> work[r].batches[q].text, evidence |-> work[r].batches[q].sources,
                question |-> q]]
<1>1. work \in [Runs -> Work] /\ work[r] \in Work /\ work[r].pc = "reconcile"
  BY DEF WorkTyped, Reconcile
<1>2. PICK links \in LinkSets(r) :
        work' = [work EXCEPT ![r].claims = C, ![r].links = links, ![r].batches = <<>>,
                             ![r].pc = "human_review"]
  BY DEF Reconcile
<1> HIDE DEF C
<1>3. work'[r] = [work[r] EXCEPT !.claims = C, !.links = links, !.batches = <<>>,
                                 !.pc = "human_review"]
  BY <1>1, <1>2
<1>4. work'[r].claims = C /\ work'[r].links = links
  BY <1>1, <1>3 DEF Work
<1>5. links \in SUBSET (Numbers \X Numbers)
  <2>1. Links[r] \subseteq Numbers \X Numbers
    BY ReviewAssumption DEF Numbers
  <2> QED
    BY <2>1 DEF LinkSets
<1>6. \A q \in DOMAIN work[r].batches :
        work[r].batches[q] # NoClaim /\ work[r].batches[q] \in Extract
  BY <1>1, AnswersAre DEF WorkTyped, Extracted
<1>7. C \in Lists(Draft)
  <2>1. work[r].batches \in Lists(Extract \cup {NoClaim})
    BY <1>1 DEF Work
  <2>2. PICK n \in Nat : work[r].batches \in [1..n -> Extract \cup {NoClaim}]
    BY <2>1 DEF Lists
  <2>3. C \in [1..n -> Draft]
    BY <1>6, <2>2 DEF C, Draft, Extract, Numbers
  <2> QED
    BY <2>3, ListFacts
<1> QED
  BY <1>3, <1>4, <1>5, <1>6, <1>7 DEF C, Reconcile

LEMMA ApplyIs ==
  ASSUME WorkTyped, NEW r \in Runs, ApplyDecision(r)
  PROVE  /\ \/ /\ work[r].decision = "approve"
               /\ work'[r] = [work[r] EXCEPT !.pc = "synthesize", !.decision = "none"]
            \/ /\ work[r].decision = "reject"
               /\ work'[r] = [work[r] EXCEPT !.pc = "synthesize",
                    !.claims = KeepAt(work[r].claims, DOMAIN work[r].claims \ Rejected(r))]
            \/ /\ work[r].decision = "edit"
               /\ \E i \in DOMAIN work[r].claims, t \in Texts :
                    work'[r] = [work[r] EXCEPT !.pc = "synthesize", !.decision = "none",
                         !.claims = [work[r].claims EXCEPT ![i].text = t]]
         /\ work[r].pc = "apply" /\ runs' = [runs EXCEPT ![r].status = "running"]
<1>1. work \in [Runs -> Work] /\ work[r] \in Work
  BY DEF WorkTyped
<1> DEFINE kept == DOMAIN work[r].claims \ Rejected(r)
<1>2. CASE work[r].decision = "approve"
           /\ work' = [work EXCEPT ![r].pc = "synthesize", ![r].decision = "none"]
  BY <1>1, <1>2 DEF ApplyDecision
<1>3. CASE work[r].decision = "reject"
           /\ work' = [work EXCEPT ![r].claims = KeepAt(@, kept), ![r].pc = "synthesize"]
  BY <1>1, <1>3 DEF ApplyDecision, Work
<1>4. CASE work[r].decision = "edit" /\
           \E i \in DOMAIN work[r].claims, t \in Texts :
                 work' = [work EXCEPT ![r].claims[i].text = t, ![r].pc = "synthesize",
                                        ![r].decision = "none"]
  <2>1. PICK i \in DOMAIN work[r].claims, t \in Texts :
          work' = [work EXCEPT ![r].claims[i].text = t, ![r].pc = "synthesize",
                               ![r].decision = "none"]
    BY <1>4
  <2>2. work'[r] = [work[r] EXCEPT !.claims[i].text = t, !.pc = "synthesize", !.decision = "none"]
    BY <1>1, <2>1
  <2>3. work'[r] = [work[r] EXCEPT !.pc = "synthesize", !.decision = "none",
                                   !.claims = [work[r].claims EXCEPT ![i].text = t]]
    BY <1>1, <2>2 DEF Work
  <2>4. work[r].pc = "apply" /\ runs' = [runs EXCEPT ![r].status = "running"]
    BY DEF ApplyDecision
  <2> QED
    BY <1>4, <2>3, <2>4, ZenonT(60)
<1> QED
  BY <1>2, <1>3, <1>4 DEF ApplyDecision

LEMMA SynthesizeIs ==
  ASSUME WorkTyped, RowsTyped, NEW r \in Runs, Synthesize(r)
  PROVE  /\ work'[r].sections \in Keyed(Numbers)
         /\ DOMAIN work'[r].sections \subseteq Sections
         /\ \A s \in DOMAIN work'[r].sections : work'[r].sections[s] \in DOMAIN work[r].claims
         /\ runs[r].kind = "report_refresh" => DOMAIN work'[r].sections = runs[r].impacted
         /\ runs[r].kind # "report_refresh" => DOMAIN work'[r].sections # {}
         /\ work'[r] = [work[r] EXCEPT !.sections = work'[r].sections, !.pc = "commit"]
         /\ work[r].pc = "synthesize"
         /\ UNCHANGED <<docs, runs, claims, relations, reports, lock>>
<1>1. work \in [Runs -> Work] /\ work[r] \in Work /\ runs[r] \in RunRow
  BY DEF WorkTyped, RowsTyped
<1>2. PICK sections \in Writable(r) :
        work' = [work EXCEPT ![r].sections = sections, ![r].pc = "commit"]
  BY DEF Synthesize
<1>3. /\ work'[r] = [work[r] EXCEPT !.sections = sections, !.pc = "commit"]
      /\ work'[r].sections = sections
  BY <1>1, <1>2 DEF Work
<1>4. PICK keys \in (IF runs[r].kind = "report_refresh" THEN {runs[r].impacted} ELSE Outlines) :
        sections \in [keys -> DOMAIN work[r].claims]
  BY <1>2 DEF Writable
<1>5. /\ keys \in SUBSET Sections
      /\ runs[r].kind = "report_refresh" => keys = runs[r].impacted
      /\ runs[r].kind # "report_refresh" => keys # {}
  BY <1>1, <1>4, ReviewAssumption DEF RunRow
<1>6. DOMAIN work[r].claims \subseteq Numbers
  BY <1>1, ListFacts DEF Work
<1>7. sections \in Keyed(Numbers) /\ DOMAIN sections = keys
      /\ \A s \in keys : sections[s] \in DOMAIN work[r].claims
  <2>1. sections \in [keys -> Numbers]
    BY <1>4, <1>6
  <2> QED
    BY <1>4, <1>5, <2>1, KeyedFacts
<1> QED
  BY <1>3, <1>5, <1>7 DEF Synthesize

\* The steps in which the worker's state only moves on, with what it has.
LEMMA GraphMoves ==
  ASSUME WorkTyped, StoredTyped, NEW r \in Runs
  PROVE  /\ Decide(r) => \E d \in {"approve", "reject", "edit"} :
              work'[r] = [work[r] EXCEPT !.decision = d, !.pc = "apply"]
         /\ PassReview(r) => work'[r] = [work[r] EXCEPT !.pc = "synthesize"]
         /\ AskHuman(r) => work'[r] = [work[r] EXCEPT !.pc = "interrupted"]
         /\ FailNode(r) => work'[r] = [NoWork EXCEPT !.pc = "end"]
         /\ \A error : RollBack(r, error) => work'[r] = [NoWork EXCEPT !.pc = "end"]
         /\ CrashInCommit(r) => work'[r] = [work[r] EXCEPT !.pc = "commit", !.seen = NoWork.seen]
         /\ BeginCommit(r) => \E seen \in Seen :
              /\ work'[r] = [work[r] EXCEPT !.pc = "writing", !.seen = seen]
              /\ seen.revision = NextRevision(r)
              /\ \A t \in Texts : seen.version[t] = NextVersion(r, t)
         /\ Leave(r) => work'[r] = [work[r] EXCEPT !.pc = "end", !.claims = <<>>,
                                                    !.retrieved = {}, !.sections = <<>>]
<1>1. work \in [Runs -> Work] /\ work[r] \in Work
  BY DEF WorkTyped
<1>2. Decide(r) => \E d \in {"approve", "reject", "edit"} :
              work'[r] = [work[r] EXCEPT !.decision = d, !.pc = "apply"]
  BY <1>1 DEF Decide
<1>3. /\ PassReview(r) => work'[r] = [work[r] EXCEPT !.pc = "synthesize"]
      /\ AskHuman(r) => work'[r] = [work[r] EXCEPT !.pc = "interrupted"]
  BY <1>1 DEF PassReview, AskHuman, MoveTo
<1>4. FailNode(r) => work'[r] = [NoWork EXCEPT !.pc = "end"]
  BY <1>1 DEF FailNode, Stop
<1>5. \A error : RollBack(r, error) => work'[r] = [NoWork EXCEPT !.pc = "end"]
  BY <1>1 DEF RollBack, Stop
<1>6. CrashInCommit(r) => work'[r] = [work[r] EXCEPT !.pc = "commit", !.seen = NoWork.seen]
  BY <1>1 DEF CrashInCommit
<1>7. ASSUME BeginCommit(r)
      PROVE  \E seen \in Seen :
              /\ work'[r] = [work[r] EXCEPT !.pc = "writing", !.seen = seen]
              /\ seen.revision = NextRevision(r)
              /\ \A t \in Texts : seen.version[t] = NextVersion(r, t)
  <2> DEFINE seen == [revision |-> NextRevision(r),
                      version |-> [t \in Texts |-> NextVersion(r, t)]]
  <2>1. work' = [work EXCEPT ![r].pc = "writing", ![r].seen = seen]
    BY <1>7 DEF BeginCommit
  <2>2. seen \in Seen
    BY NextRevisionIs, NextVersionIs DEF Seen
  <2>3. seen.revision = NextRevision(r) /\ \A t \in Texts : seen.version[t] = NextVersion(r, t)
    OBVIOUS
  <2> HIDE DEF seen
  <2>4. work'[r] = [work[r] EXCEPT !.pc = "writing", !.seen = seen]
    BY <1>1, <2>1
  <2> QED
    BY <2>2, <2>3, <2>4
<1>8. Leave(r) => work'[r] = [work[r] EXCEPT !.pc = "end", !.claims = <<>>,
                                              !.retrieved = {}, !.sections = <<>>]
  BY <1>1 DEF Leave
<1> QED
  BY <1>2, <1>3, <1>4, <1>5, <1>6, <1>7, <1>8

LEMMA WorkStep ==
  ASSUME RowsTyped, StoredTyped, WorkTyped, Grounded, [Next]_vars
  PROVE  WorkTyped'
<1>1. work \in [Runs -> Work]
  BY DEF WorkTyped
<1>2. ASSUME NEW r \in Runs, work'[r] \in Work, work'[r].batches \in {work[r].batches, <<>>},
             \E w : work' = [work EXCEPT ![r] = w]
      PROVE  WorkTyped'
  BY <1>1, <1>2 DEF WorkTyped
<1>3. ASSUME NEW r \in Runs, GraphStep(r) \/ WriteReport(r)
      PROVE  \E w : work' = [work EXCEPT ![r] = w]
  <2>1. CASE Decide(r) \/ Start(r) \/ AskHuman(r) \/ ApplyDecision(r)
    BY <2>1, StatusMoves
  <2>2. CASE \E q : Retrieve(r, q)
    BY <2>2 DEF Retrieve
  <2>3. CASE Reconcile(r) \/ PassReview(r) \/ Synthesize(r)
    BY <2>3 DEF Reconcile, PassReview, Synthesize, MoveTo
  <2>4. CASE FailNode(r) \/ (\E error : RollBack(r, error))
    BY <2>4 DEF FailNode, RollBack, Stop
  <2>5. CASE BeginCommit(r) \/ CrashInCommit(r) \/ Leave(r) \/ WriteReport(r)
    BY <2>5 DEF BeginCommit, CrashInCommit, Leave, WriteReport
  <2> QED
    BY <1>3, <2>1, <2>2, <2>3, <2>4, <2>5 DEF GraphStep
<1>4. ASSUME NEW r \in Runs, Start(r) PROVE WorkTyped'
  <2>1. PICK n \in QuestionCounts(r) :
          work' = [work EXCEPT ![r].pc = "retrieve", ![r].batches = [q \in 1..n |-> NoClaim]]
    BY <1>4 DEF Start
  <2>2. n \in Nat
    <3>1. runs[r].impacted \in SUBSET Sections
      BY DEF RowsTyped, RunRow
    <3>2. Cardinality(runs[r].impacted) \in Nat
      BY <3>1, ReviewAssumption, FS_Subset, FS_CardinalityType
    <3> QED
      BY <2>1, <3>2, ReviewAssumption DEF QuestionCounts
  <2> DEFINE B == [q \in 1..n |-> NoClaim]
  <2>3. B \in Lists(Extract \cup {NoClaim}) /\ \A q \in DOMAIN B : B[q] = NoClaim
    BY <2>2, ListFacts
  <2> HIDE DEF B
  <2>4. work'[r] = [work[r] EXCEPT !.pc = "retrieve", !.batches = B]
    BY <1>1, <2>1 DEF B
  <2>5. work'[r] \in Work /\ work'[r].batches = B
    BY ZenonT(40), <1>1, <2>3, <2>4 DEF Work, PCs, Before
  <2> QED
    BY <1>1, <1>3, <1>4, <2>3, <2>5 DEF WorkTyped, GraphStep
<1>5. ASSUME NEW r \in Runs, NEW q, Retrieve(r, q) PROVE WorkTyped'
  <2>1. PICK c \in Extractable(r), pc \in {"retrieve", "reconcile"} :
          work' = [work EXCEPT ![r].batches[q] = c, ![r].retrieved = @ \cup Found(r), ![r].pc = pc]
    BY <1>5 DEF Retrieve
  <2>2. q \in DOMAIN work[r].batches /\ c \in Answers[r] /\ c \in Extract
    BY <1>5, <2>1, AnswersAre DEF Retrieve, Extractable
  <2>3. work'[r] = [work[r] EXCEPT !.batches = [work[r].batches EXCEPT ![q] = c],
                                   !.retrieved = @ \cup Found(r), !.pc = pc]
    BY <1>1, <2>1
  <2>4. PICK n \in Nat : work[r].batches \in [1..n -> Extract \cup {NoClaim}]
    BY <1>1 DEF Work, Lists
  <2>5. [work[r].batches EXCEPT ![q] = c] \in Lists(Extract \cup {NoClaim})
    BY <2>2, <2>4, ListFacts
  <2>6. Found(r) \in SUBSET Docs
    BY DEF Found, Filter, RowsTyped, RunRow
  <2> DEFINE B == [work[r].batches EXCEPT ![q] = c]
             R == work[r].retrieved \cup Found(r)
  <2>7. work'[r] \in Work /\ work'[r].batches = B
    <3>1. work[r] \in Work /\ B \in Lists(Extract \cup {NoClaim}) /\ pc \in PCs
      BY <1>1, <2>5 DEF PCs, Before
    <3>2. R \in SUBSET Docs
      BY <1>1, <2>6 DEF Work
    <3>3. work'[r] = [work[r] EXCEPT !.batches = B, !.retrieved = R, !.pc = pc]
      BY <2>3
    <3> HIDE DEF B, R
    <3> QED
      BY <3>1, <3>2, <3>3 DEF Work
  <2>8. \A p \in DOMAIN work'[r].batches : work'[r].batches[p] \in Answers[r] \cup {NoClaim}
    BY <2>2, <2>4, <2>7 DEF WorkTyped
  <2> QED
    BY <1>1, <1>3, <1>5, <2>7, <2>8 DEF WorkTyped, GraphStep
<1>6. ASSUME NEW r \in Runs, Reconcile(r) PROVE WorkTyped'
  <2>1. Extracted(r)
    BY DEF Grounded
  <2>2. work'[r] \in Work /\ work'[r].batches = <<>>
    <3>1. \E C \in Lists(Draft), L \in SUBSET (Numbers \X Numbers) :
            work'[r] = [work[r] EXCEPT !.claims = C, !.links = L, !.batches = <<>>,
                                       !.pc = "human_review"]
      <4>1. /\ work'[r].claims \in Lists(Draft)
            /\ work'[r].links \in SUBSET (Numbers \X Numbers)
            /\ work'[r] = [work[r] EXCEPT !.claims = work'[r].claims, !.links = work'[r].links,
                                          !.batches = <<>>, !.pc = "human_review"]
        BY <1>6, <2>1, ReconcileIs
      <4> QED
        BY <4>1
    <3>2. work[r] \in Work /\ <<>> \in Lists(Extract \cup {NoClaim}) /\ "human_review" \in PCs
      BY <1>1, ListFacts DEF PCs, Before
    <3> QED
      BY <3>1, <3>2 DEF Work
  <2> QED
    BY <1>2, <1>3, <1>6, <2>2 DEF GraphStep
<1>7. ASSUME NEW r \in Runs, ApplyDecision(r) PROVE WorkTyped'
  <2>1. work[r].claims \in Lists(Draft)
    BY <1>1 DEF Work
  <2>2. PICK n \in Nat : work[r].claims \in [1..n -> Draft]
    BY <2>1 DEF Lists
  <2>3. KeepAt(work[r].claims, DOMAIN work[r].claims \ Rejected(r)) \in Lists(Draft)
    BY <2>1, KeepAtIs
  <2>4. \A i \in DOMAIN work[r].claims, t \in Texts :
          [work[r].claims EXCEPT ![i].text = t] \in Lists(Draft)
    <3>1. SUFFICES ASSUME NEW i \in DOMAIN work[r].claims, NEW t \in Texts
                   PROVE  [work[r].claims EXCEPT ![i].text = t] \in Lists(Draft)
      OBVIOUS
    <3>2. [work[r].claims EXCEPT ![i].text = t] \in [1..n -> Draft]
      BY <2>2 DEF Draft
    <3> QED
      BY <3>2, ListFacts
  <2>5. work'[r] \in Work /\ work'[r].batches = work[r].batches
    <3>1. \E C \in Lists(Draft), d \in {"none", "reject"} :
            work'[r] = [work[r] EXCEPT !.pc = "synthesize", !.decision = d, !.claims = C]
      <4>1. work[r] \in Work
        BY <1>1
      <4>2. CASE work'[r] = [work[r] EXCEPT !.pc = "synthesize", !.decision = "none"]
        <5>1. work'[r] = [work[r] EXCEPT !.pc = "synthesize", !.decision = "none",
                                         !.claims = work[r].claims]
          BY <4>1, <4>2 DEF Work
        <5> QED
          BY <2>1, <5>1
      <4>3. CASE work[r].decision = "reject" /\
                 work'[r] = [work[r] EXCEPT !.pc = "synthesize",
                    !.claims = KeepAt(work[r].claims, DOMAIN work[r].claims \ Rejected(r))]
        <5> DEFINE K == KeepAt(work[r].claims, DOMAIN work[r].claims \ Rejected(r))
        <5> HIDE DEF K
        <5>1. work'[r] = [work[r] EXCEPT !.pc = "synthesize", !.decision = "reject", !.claims = K]
          BY <4>1, <4>3 DEF Work, K
        <5> QED
          BY <2>3, <5>1 DEF K
      <4>4. CASE \E i \in DOMAIN work[r].claims, t \in Texts :
                    work'[r] = [work[r] EXCEPT !.pc = "synthesize", !.decision = "none",
                         !.claims = [work[r].claims EXCEPT ![i].text = t]]
        BY <2>4, <4>4
      <4> QED
        BY <1>7, <4>2, <4>3, <4>4, ApplyIs
    <3>2. work[r] \in Work /\ "synthesize" \in PCs
      BY <1>1 DEF PCs
    <3> QED
      BY <3>1, <3>2 DEF Work
  <2> QED
    BY <1>2, <1>3, <1>7, <2>5 DEF GraphStep
<1>8. ASSUME NEW r \in Runs, Synthesize(r) PROVE WorkTyped'
  <2>1. work'[r] \in Work /\ work'[r].batches = work[r].batches
    <3>1. \E S \in Keyed(Numbers) : work'[r] = [work[r] EXCEPT !.sections = S, !.pc = "commit"]
      BY <1>8, SynthesizeIs
    <3>2. work[r] \in Work /\ "commit" \in PCs
      BY <1>1 DEF PCs, Committing
    <3> QED
      BY <3>1, <3>2 DEF Work
  <2> QED
    BY <1>2, <1>3, <1>8, <2>1 DEF GraphStep
<1>9. ASSUME NEW r \in Runs, Decide(r) \/ PassReview(r) \/ AskHuman(r) PROVE WorkTyped'
  <2>1. work'[r] \in Work /\ work'[r].batches = work[r].batches
    <3>1. \E d \in {"none", "approve", "reject", "edit"}, pc \in PCs :
            work'[r] = [work[r] EXCEPT !.decision = d, !.pc = pc]
      <4>1. work[r] \in Work /\ {"apply", "synthesize", "interrupted"} \subseteq PCs
        BY <1>1 DEF PCs, Before
      <4>2. CASE Decide(r)
        BY <4>1, <4>2, GraphMoves
      <4>3. CASE PassReview(r) \/ AskHuman(r)
        <5>1. PICK pc \in PCs : work'[r] = [work[r] EXCEPT !.pc = pc]
          BY <4>1, <4>3, GraphMoves
        <5>2. work'[r] = [work[r] EXCEPT !.decision = work[r].decision, !.pc = pc]
              /\ work[r].decision \in {"none", "approve", "reject", "edit"}
          BY <4>1, <5>1 DEF Work
        <5> QED
          BY <5>2
      <4> QED
        BY <1>9, <4>2, <4>3
    <3> QED
      BY <1>1, <3>1 DEF Work
  <2> QED
    BY <1>2, <1>3, <1>9, <2>1 DEF GraphStep
<1>10. ASSUME NEW r \in Runs, FailNode(r) \/ \E error : RollBack(r, error) PROVE WorkTyped'
  <2>1. work'[r] \in Work /\ work'[r].batches = <<>>
    BY ZenonT(40), <1>1, <1>10, GraphMoves, NoWorkIs DEF Work
  <2> QED
    BY <1>2, <1>3, <1>10, <2>1 DEF GraphStep
<1>11. ASSUME NEW r \in Runs, BeginCommit(r) \/ CrashInCommit(r) \/ WriteReport(r)
       PROVE  WorkTyped'
  <2>1. \E pc \in Committing, seen \in Seen : work'[r] = [work[r] EXCEPT !.pc = pc, !.seen = seen]
    <3>1. WriteReport(r) => work'[r] = [work[r] EXCEPT !.pc = "commit", !.seen = NoWork.seen]
      BY <1>1 DEF WriteReport
    <3> QED
      BY <1>11, <3>1, GraphMoves, NoWorkIs DEF Committing
  <2>2. work'[r] \in Work /\ work'[r].batches = work[r].batches
    BY <1>1, <2>1 DEF Work, PCs
  <2> QED
    BY <1>2, <1>3, <1>11, <2>2 DEF GraphStep
<1>12. ASSUME NEW r \in Runs, Leave(r) PROVE WorkTyped'
  <2>1. work'[r] \in Work /\ work'[r].batches = work[r].batches
    <3>1. /\ work[r] \in Work /\ "end" \in PCs /\ <<>> \in Lists(Draft) /\ <<>> \in Keyed(Numbers)
          /\ work'[r] = [work[r] EXCEPT !.pc = "end", !.claims = <<>>,
                                        !.retrieved = {}, !.sections = <<>>]
      BY <1>1, <1>12, GraphMoves, ListFacts, KeyedFacts DEF PCs
    <3> QED
      BY <3>1 DEF Work
  <2> QED
    BY <1>2, <1>3, <1>12, <2>1 DEF GraphStep
<1>13. CASE ApiStep
  BY <1>13, ApiStores DEF WorkTyped
<1>14. CASE UNCHANGED vars
  BY <1>14 DEF vars, WorkTyped
<1> QED
  BY <1>4, <1>5, <1>6, <1>7, <1>8, <1>9, <1>10, <1>11, <1>12, <1>13, <1>14, NextIs DEF GraphStep

-----------------------------------------------------------------------------
(* The phases of a run.                                                    *)

\* A step of the graph is a step of a run in progress, or ends the node of a
\* committed one.
LEMMA GraphPhase ==
  ASSUME RowsTyped, StoredTyped, WorkTyped, NEW r \in Runs, Phase(r), GraphStep(r)
  PROVE  \/ /\ runs[r].status \in Active
            /\ \/ runs'[r].status \in Active
               \/ runs'[r].status = "failed" /\ work'[r].pc = "end"
         \/ /\ runs[r].status = "succeeded" /\ runs'[r] = runs[r] /\ Leave(r)
            /\ work'[r].pc = "end"
<1>1. runs[r] \in RunRow /\ runs \in [Runs -> RunRow] /\ work[r] \in Work /\ work \in [Runs -> Work]
  BY DEF RowsTyped, WorkTyped
<1>2. work[r].pc \notin {"idle", "commit", "end"} => runs[r].status \in Active
  BY <1>1 DEF Phase, RunRow, Ended
<1>3. CASE Decide(r) \/ Start(r) \/ AskHuman(r) \/ ApplyDecision(r)
  <2>1. runs'[r].status \in Active
    <3>1. PICK s \in Active : runs' = [runs EXCEPT ![r].status = s]
      BY <1>3, StatusMoves, SMTT(40)
    <3> QED
      BY <1>1, <3>1 DEF RunRow
  <2>2. runs[r].status \in Active
    BY <1>2, <1>3 DEF Decide, Start, AskHuman, ApplyDecision, Active
  <2> QED
    BY <2>1, <2>2
<1>4. CASE (\E q : Retrieve(r, q)) \/ Reconcile(r) \/ PassReview(r) \/ Synthesize(r)
  <2>1. runs' = runs /\ work[r].pc \in {"retrieve", "reconcile", "human_review", "synthesize"}
    BY <1>4 DEF Retrieve, Reconcile, PassReview, Synthesize
  <2> QED
    BY <1>2, <2>1
<1>5. CASE FailNode(r) \/ \E error : RollBack(r, error)
  <2>1. work[r].pc \in {"retrieve", "reconcile", "synthesize", "apply", "writing"}
    BY <1>5 DEF FailNode, RollBack
  <2>2. \E error : runs' = [runs EXCEPT ![r].status = "failed", ![r].error = error]
    BY <1>5 DEF FailNode, RollBack, Stop
  <2>3. runs'[r].status = "failed"
    BY <1>1, <2>2 DEF RunRow
  <2>4. work'[r].pc = "end"
    BY <1>5, GraphMoves, NoWorkIs DEF Work
  <2> QED
    BY <1>2, <2>1, <2>3, <2>4
<1>6. CASE BeginCommit(r)
  BY <1>1, <1>6 DEF BeginCommit, Phase, HasEnded, Ended, RunRow
<1>7. CASE CrashInCommit(r)
  BY <1>2, <1>7 DEF CrashInCommit
<1>8. CASE Leave(r)
  <2>1. runs' = runs /\ runs[r].status = "succeeded"
    BY <1>8 DEF Leave, HasEnded, Ended, Phase
  <2>2. work'[r].pc = "end"
    BY <1>1, <1>8, GraphMoves, ZenonT(60) DEF Work
  <2> QED
    BY <1>8, <2>1, <2>2
<1> QED
  BY <1>3, <1>4, <1>5, <1>6, <1>7, <1>8 DEF GraphStep

LEMMA PhasesStep ==
  ASSUME RowsTyped, StoredTyped, WorkTyped, Phases, StoredOnce, Grounded, [Next]_vars
  PROVE  Phases'
<1>1. runs \in [Runs -> RunRow] /\ work \in [Runs -> Work] /\ reports \in [Runs -> Report]
  BY DEF RowsTyped, WorkTyped, StoredTyped
<1>2. CASE ApiStep
  <2>1. UNCHANGED <<work, reports>>
    BY <1>2, ApiStores
  <2>2. CASE \E d \in Docs : RequestRemoval(d) \/ RemoveChunks(d)
    <3>1. runs' = runs
      BY <2>2 DEF RequestRemoval, RemoveChunks
    <3> QED
      BY <2>1, <3>1 DEF Phases, Phase
  <2>3. ASSUME NEW r \in Runs, NEW row \in RunRow, runs' = [runs EXCEPT ![r] = row],
               runs[r].kind = "none",
               row.kind # "none", row.status = "pending",
               row.kind = "report_refresh" => /\ row.impacted # {} /\ row.base \in Runs
                                              /\ reports[row.base].status # "none",
               row.kind # "report_refresh" => row.base = NoRun
        PROVE  Phases'
    <3>1. runs[r].status = "none" /\ reports[r].status = "none"
      BY <2>3 DEF Phases, Phase
    <3>2. runs'[r] = row /\ \A p \in Runs \ {r} : runs'[p] = runs[p]
      BY <1>1, <2>3
    <3>3. Phase(r)'
      BY <2>1, <2>3, <3>1, <3>2 DEF Phase
    <3>4. \A p \in Runs \ {r} : Phase(p)'
      BY <2>1, <3>2 DEF Phases, Phase
    <3> QED
      BY <3>3, <3>4 DEF Phases
  <2>4. ASSUME NEW r \in Runs, RequestReview(r) PROVE Phases'
    BY <2>3, <2>4, ReviewIs
  <2>5. ASSUME NEW r \in Runs, NEW b \in Runs, RequestRefresh(r, b) PROVE Phases'
    <3>1. PICK row \in RunRow :
            /\ runs' = [runs EXCEPT ![r] = row] /\ runs[r].kind = "none"
            /\ row.kind = "report_refresh" /\ row.status = "pending" /\ row.base = b
            /\ DOMAIN reports[b].sections # {} => row.impacted # {}
            /\ reports[b].status # "none"
      BY <2>5, RefreshIs
    <3>2. DOMAIN reports[b].sections # {}
      BY <3>1 DEF StoredOnce, Stored
    <3> QED
      BY <2>3, <3>1, <3>2
  <2> QED
    BY <1>2, <2>2, <2>4, <2>5 DEF ApiStep
<1>3. ASSUME NEW r \in Runs, GraphStep(r) PROVE Phases'
  <2>1. /\ reports' = reports
        /\ \A p \in Runs \ {r} : runs'[p] = runs[p] /\ work'[p] = work[p]
        /\ runs'[r].kind = runs[r].kind /\ runs'[r].base = runs[r].base
        /\ runs'[r].impacted = runs[r].impacted
    BY <1>3, RequestKept, NothingStored
  <2>2. Phase(r)
    BY DEF Phases
  <2>3. Phase(r)'
    BY <1>3, <2>1, <2>2, GraphPhase DEF Phase, Active
  <2>4. \A p \in Runs \ {r} : Phase(p)'
    BY <2>1 DEF Phases, Phase
  <2> QED
    BY <2>3, <2>4 DEF Phases
<1>4. ASSUME NEW r \in Runs, WriteReport(r) PROVE Phases'
  <2>1. /\ \A p \in Runs \ {r} : runs'[p] = runs[p] /\ work'[p] = work[p]
        /\ runs'[r].kind = runs[r].kind /\ runs'[r].base = runs[r].base
        /\ runs'[r].impacted = runs[r].impacted
    BY <1>4, RequestKept
  <2>2. /\ reports'[r].status = "published" /\ runs'[r].status = "succeeded"
        /\ work'[r].pc = "commit"
    <3>1. /\ reports'[r] = [status |-> "published", base |-> runs[r].base,
                            revision |-> work[r].seen.revision, sections |-> SectionRows(r)]
          /\ runs' = [runs EXCEPT ![r].status = "succeeded"]
          /\ work'[r] = [work[r] EXCEPT !.pc = "commit", !.seen = NoWork.seen]
      BY <1>4, WriteIs
    <3>2. runs[r] \in RunRow /\ work[r] \in Work
      BY <1>1
    <3> QED
      BY <1>1, <3>1, <3>2 DEF RunRow, Work
  <2>3. \A p \in Runs : reports[p].status # "none" => reports'[p].status # "none"
    <3>1. \A p \in Runs \ {r} :
            reports'[p].status = IF p = runs[r].base THEN "invalidated" ELSE reports[p].status
      BY <1>4, WriteIs, ZenonT(60)
    <3> QED
      BY <2>2, <3>1
  <2>4. \A p \in Runs \ {r} : reports'[p].status = "none" <=> reports[p].status = "none"
    <3>1. runs[r].base \in Runs => reports[runs[r].base].status # "none"
      BY ReviewAssumption DEF Phases, Phase
    <3>2. \A p \in Runs \ {r} : p # runs[r].base => reports'[p].status = reports[p].status
      BY ZenonT(40), <1>4, WriteIs
    <3> QED
      BY <2>3, <3>1, <3>2
  <2>5. Phase(r) /\ work[r].pc = "writing"
    BY <1>4 DEF Phases, WriteReport
  <2>6. Phase(r)'
    <3>1. runs[r].kind # "none"
      BY <2>5 DEF Phase
    <3> QED
      BY <2>1, <2>2, <2>3, <2>5, <3>1 DEF Phase
  <2>7. \A p \in Runs \ {r} : Phase(p)'
    BY <2>1, <2>3, <2>4 DEF Phases, Phase
  <2> QED
    BY <2>6, <2>7 DEF Phases
<1>5. CASE UNCHANGED vars
  BY <1>5 DEF vars, Phases, Phase
<1> QED
  BY <1>2, <1>3, <1>4, <1>5, NextIs

\* The worker's state after a step, field by field.
Becomes(r, pc, batches, retrieved, drafts, decision, sections) ==
  /\ work'[r].pc = pc /\ work'[r].batches = batches /\ work'[r].retrieved = retrieved
  /\ work'[r].claims = drafts /\ work'[r].decision = decision
  /\ work'[r].sections = sections

LEMMA Becoming ==
  ASSUME RowsTyped, StoredTyped, WorkTyped, NEW r \in Runs
  PROVE  /\ Decide(r) => \E d \in {"approve", "reject", "edit"} :
              Becomes(r, "apply", work[r].batches, work[r].retrieved, work[r].claims, d,
                      work[r].sections)
         /\ Start(r) => \E n \in QuestionCounts(r) :
              Becomes(r, "retrieve", [q \in 1..n |-> NoClaim], work[r].retrieved,
                      work[r].claims, work[r].decision, work[r].sections)
         /\ \A q : Retrieve(r, q) => \E c \in Extractable(r), pc \in {"retrieve", "reconcile"} :
              /\ Becomes(r, pc, [work[r].batches EXCEPT ![q] = c],
                         work[r].retrieved \cup Found(r), work[r].claims, work[r].decision,
                         work[r].sections)
              /\ pc = "reconcile" =>
                   \A p \in DOMAIN work[r].batches \ {q} : work[r].batches[p] # NoClaim
         /\ PassReview(r) => Becomes(r, "synthesize", work[r].batches, work[r].retrieved,
                                     work[r].claims, work[r].decision, work[r].sections)
         /\ AskHuman(r) => Becomes(r, "interrupted", work[r].batches, work[r].retrieved,
                                   work[r].claims, work[r].decision, work[r].sections)
         /\ FailNode(r) \/ (\E error : RollBack(r, error)) =>
              Becomes(r, "end", <<>>, {}, <<>>, "none", <<>>)
         /\ BeginCommit(r) => Becomes(r, "writing", work[r].batches, work[r].retrieved,
                                      work[r].claims, work[r].decision, work[r].sections)
         /\ CrashInCommit(r) \/ WriteReport(r) =>
              Becomes(r, "commit", work[r].batches, work[r].retrieved,
                      work[r].claims, work[r].decision, work[r].sections)
         /\ Leave(r) => Becomes(r, "end", work[r].batches, {}, <<>>, work[r].decision, <<>>)
<1>1. work \in [Runs -> Work] /\ work[r] \in Work
  BY DEF WorkTyped
<1>2. ASSUME Decide(r)
      PROVE  \E d \in {"approve", "reject", "edit"} :
              Becomes(r, "apply", work[r].batches, work[r].retrieved, work[r].claims, d,
                      work[r].sections)
  <2>1. PICK d \in {"approve", "reject", "edit"} :
          work' = [work EXCEPT ![r].decision = d, ![r].pc = "apply"]
    BY <1>2 DEF Decide
  <2> QED
    BY <1>1, <2>1 DEF Becomes, Work
<1>3. ASSUME Start(r)
      PROVE  \E n \in QuestionCounts(r) :
              Becomes(r, "retrieve", [q \in 1..n |-> NoClaim], work[r].retrieved,
                      work[r].claims, work[r].decision, work[r].sections)
  <2>1. PICK n \in QuestionCounts(r) :
          work' = [work EXCEPT ![r].pc = "retrieve", ![r].batches = [q \in 1..n |-> NoClaim]]
    BY <1>3 DEF Start
  <2> DEFINE B == [q \in 1..n |-> NoClaim]
  <2>2. work' = [work EXCEPT ![r].pc = "retrieve", ![r].batches = B]
    BY <2>1
  <2> HIDE DEF B
  <2>3. Becomes(r, "retrieve", B, work[r].retrieved,
                work[r].claims, work[r].decision, work[r].sections)
    BY <1>1, <2>2 DEF Becomes, Work
  <2> QED
    BY <2>3 DEF B
<1>4. ASSUME NEW q, Retrieve(r, q)
      PROVE  \E c \in Extractable(r), pc \in {"retrieve", "reconcile"} :
              /\ Becomes(r, pc, [work[r].batches EXCEPT ![q] = c],
                         work[r].retrieved \cup Found(r), work[r].claims, work[r].decision,
                         work[r].sections)
              /\ pc = "reconcile" =>
                   \A p \in DOMAIN work[r].batches \ {q} : work[r].batches[p] # NoClaim
  <2> DEFINE left == \E p \in DOMAIN work[r].batches \ {q} : work[r].batches[p] = NoClaim
             pc == IF left THEN "retrieve" ELSE "reconcile"
  <2>1. PICK c \in Extractable(r) :
          work' = [work EXCEPT ![r].batches[q] = c, ![r].retrieved = @ \cup Found(r), ![r].pc = pc]
    BY <1>4 DEF Retrieve
  <2>2. /\ pc \in {"retrieve", "reconcile"}
        /\ pc = "reconcile" => \A p \in DOMAIN work[r].batches \ {q} : work[r].batches[p] # NoClaim
    OBVIOUS
  <2> DEFINE B == [work[r].batches EXCEPT ![q] = c]
  <2> HIDE DEF pc, left
  <2>3. Becomes(r, pc, B, work[r].retrieved \cup Found(r), work[r].claims, work[r].decision,
                work[r].sections)
    BY <1>1, <2>1 DEF Becomes, Work
  <2> QED
    BY <2>2, <2>3 DEF B
<1>5. PassReview(r) => Becomes(r, "synthesize", work[r].batches, work[r].retrieved,
                               work[r].claims, work[r].decision, work[r].sections)
  BY <1>1 DEF PassReview, MoveTo, Becomes, Work
<1>6. AskHuman(r) => Becomes(r, "interrupted", work[r].batches, work[r].retrieved,
                             work[r].claims, work[r].decision, work[r].sections)
  BY <1>1 DEF AskHuman, MoveTo, Becomes, Work
<1>7. ASSUME FailNode(r) \/ (\E error : RollBack(r, error))
      PROVE  Becomes(r, "end", <<>>, {}, <<>>, "none", <<>>)
  <2>1. work' = [work EXCEPT ![r] = [NoWork EXCEPT !.pc = "end"]]
    BY <1>7 DEF FailNode, RollBack, Stop
  <2>2. work'[r] = [NoWork EXCEPT !.pc = "end"]
    BY <1>1, <2>1
  <2> QED
    BY <2>2 DEF Becomes, NoWork
<1>8. BeginCommit(r) => Becomes(r, "writing", work[r].batches, work[r].retrieved,
                                work[r].claims, work[r].decision, work[r].sections)
  <2>1. SUFFICES ASSUME BeginCommit(r), NEW seen,
                        work' = [work EXCEPT ![r].pc = "writing", ![r].seen = seen]
                 PROVE  Becomes(r, "writing", work[r].batches, work[r].retrieved,
                                work[r].claims, work[r].decision, work[r].sections)
    BY DEF BeginCommit
  <2> QED
    BY <1>1, <2>1 DEF Becomes, Work
<1>9. CrashInCommit(r) \/ WriteReport(r) =>
        Becomes(r, "commit", work[r].batches, work[r].retrieved,
                work[r].claims, work[r].decision, work[r].sections)
  <2>1. SUFFICES ASSUME work' = [work EXCEPT ![r].pc = "commit", ![r].seen = NoWork.seen]
                 PROVE  Becomes(r, "commit", work[r].batches, work[r].retrieved,
                                work[r].claims, work[r].decision, work[r].sections)
    BY DEF CrashInCommit, WriteReport
  <2> QED
    BY <1>1, <2>1 DEF Becomes, Work
<1>10. Leave(r) => Becomes(r, "end", work[r].batches, {}, <<>>, work[r].decision, <<>>)
  BY <1>1 DEF Leave, Becomes, Work
<1> QED
  BY <1>2, <1>3, <1>4, <1>5, <1>6, <1>7, <1>8, <1>9, <1>10

-----------------------------------------------------------------------------
(* One commit at a time.                                                   *)

\* Only the first step of a commit enters the transaction, and whoever leaves
\* it gives the lock back.
LEMMA LockMoves ==
  ASSUME RowsTyped, StoredTyped, WorkTyped, NEW r \in Runs, GraphStep(r)
  PROVE  \/ BeginCommit(r)
         \/ /\ work'[r].pc # "writing"
            /\ \/ work[r].pc # "writing" /\ lock' = lock
               \/ work[r].pc = "writing" /\ Release(r)
<1>1. work \in [Runs -> Work] /\ work[r] \in Work
  BY DEF WorkTyped
<1>2. CASE Decide(r) \/ PassReview(r) \/ AskHuman(r) \/ Leave(r)
  <2>1. work[r].pc # "writing" /\ lock' = lock
    BY <1>2 DEF Decide, PassReview, AskHuman, Leave
  <2>2. work'[r].pc # "writing"
    BY <1>2, Becoming DEF Becomes
  <2> QED
    BY <2>1, <2>2
<1>3. CASE Start(r)
  BY <1>1, <1>3 DEF Start, Work
<1>4. CASE \E q : Retrieve(r, q)
  <2>1. work'[r].pc # "writing"
    BY <1>4, Becoming DEF Becomes
  <2>2. work[r].pc # "writing" /\ lock' = lock
    BY <1>4 DEF Retrieve
  <2> QED
    BY <2>1, <2>2
<1>5. CASE Reconcile(r)
  <2>1. \E C, L : work' = [work EXCEPT ![r].claims = C, ![r].links = L, ![r].batches = <<>>,
                                       ![r].pc = "human_review"]
    BY <1>5 DEF Reconcile
  <2>2. work'[r].pc = "human_review"
    BY <1>1, <2>1 DEF Work
  <2>3. work[r].pc # "writing" /\ lock' = lock
    BY <1>5 DEF Reconcile
  <2> QED
    BY <2>2, <2>3
<1>6. CASE ApplyDecision(r)
  <2>1. work'[r].pc = "synthesize"
    BY <1>1, <1>6, ApplyIs, ZenonT(60) DEF Work
  <2>2. work[r].pc # "writing" /\ lock' = lock
    BY <1>6 DEF ApplyDecision
  <2> QED
    BY <2>1, <2>2, SMTT(40)
<1>7. CASE Synthesize(r)
  <2>1. PICK S : work' = [work EXCEPT ![r].sections = S, ![r].pc = "commit"]
    BY <1>7 DEF Synthesize
  <2>2. work'[r].pc = "commit"
    BY <1>1, <2>1 DEF Work
  <2>3. work[r].pc # "writing" /\ lock' = lock
    BY <1>7 DEF Synthesize
  <2> QED
    BY <2>2, <2>3
<1>8. CASE FailNode(r)
  <2>1. work'[r].pc = "end"
    BY <1>8, GraphMoves, NoWorkIs, ZenonT(60) DEF Work
  <2>2. work[r].pc # "writing" /\ lock' = lock
    BY <1>8 DEF FailNode
  <2> QED
    BY <2>1, <2>2
<1>9. CASE \E error : RollBack(r, error)
  <2>1. work'[r].pc = "end"
    BY <1>9, GraphMoves, NoWorkIs DEF Work
  <2>2. work[r].pc = "writing" /\ Release(r)
    BY <1>9 DEF RollBack
  <2> QED
    BY <2>1, <2>2
<1>10. CASE CrashInCommit(r)
  <2>1. work'[r].pc = "commit"
    <3>1. work'[r] = [work[r] EXCEPT !.pc = "commit", !.seen = NoWork.seen]
      BY <1>10, GraphMoves
    <3> QED
      BY <1>1, <3>1 DEF Work
  <2>2. work[r].pc = "writing" /\ Release(r)
    BY <1>10 DEF CrashInCommit
  <2> QED
    BY <2>1, <2>2
<1> QED
  BY <1>2, <1>3, <1>4, <1>5, <1>6, <1>7, <1>8, <1>9, <1>10 DEF GraphStep

LEMMA SameReading ==
  ASSUME UNCHANGED <<claims, reports>>, NEW r
  PROVE  /\ NextRevision(r)' = NextRevision(r)
         /\ \A t : NextVersion(r, t)' = NextVersion(r, t)
<1>1. OthersClaims(r)' = OthersClaims(r)
  BY DEF OthersClaims
<1>2. NextRevision(r)' = NextRevision(r)
  BY DEF NextRevision
<1>3. \A t : NextVersion(r, t)' = NextVersion(r, t)
  BY <1>1 DEF NextVersion
<1> QED
  BY <1>2, <1>3

LEMMA SerializedStep ==
  ASSUME RowsTyped, StoredTyped, WorkTyped, Phases, Serialized, [Next]_vars
  PROVE  Serialized'
<1>1. /\ runs \in [Runs -> RunRow] /\ work \in [Runs -> Work]
      /\ lock \in Runs \cup {NoRun} /\ NoRun \notin Runs
  BY ReviewAssumption DEF RowsTyped, WorkTyped
<1>2. CASE ApiStep
  <2>1. UNCHANGED <<work, claims, reports, lock>>
    BY <1>2, ApiStores
  <2>2. \A p \in Runs : runs[p].status \in Active => runs'[p].status \in Active
    <3>1. CASE \E d \in Docs : RequestRemoval(d) \/ RemoveChunks(d)
      BY <3>1 DEF RequestRemoval, RemoveChunks
    <3>2. CASE \E r \in Runs : RequestReview(r) \/ \E b \in Runs : RequestRefresh(r, b)
      <4>1. PICK r \in Runs : RequestReview(r) \/ \E b \in Runs : RequestRefresh(r, b)
        BY <3>2
      <4>2. runs[r].kind = "none" /\ \E row : runs' = [runs EXCEPT ![r] = row]
        BY <4>1 DEF RequestReview, RequestRefresh
      <4>3. runs[r].status \notin Active
        BY <4>2 DEF Phases, Phase, Active
      <4> QED
        BY <1>1, <4>2, <4>3
    <3> QED
      BY <1>2, <3>1, <3>2 DEF ApiStep
  <2> QED
    BY <2>1, <2>2, SameReading DEF Serialized, Reading
<1>3. ASSUME NEW r \in Runs, GraphStep(r) PROVE Serialized'
  <2>1. UNCHANGED <<claims, reports>>
    BY <1>3, NothingStored
  <2>2. \A p \in Runs \ {r} : runs'[p] = runs[p] /\ work'[p] = work[p]
    BY <1>3, RequestKept
  <2>3. CASE BeginCommit(r)
    <3>1. /\ lock = NoRun /\ lock' = r /\ runs' = runs
          /\ runs[r].status \notin Ended /\ work[r].pc = "commit"
      BY <2>3 DEF BeginCommit, LockIsFree, HasEnded
    <3>2. runs[r].status \in Active
      BY <1>1, <3>1 DEF Phases, Phase, RunRow, Ended
    <3>3. PICK seen \in Seen :
              /\ work'[r] = [work[r] EXCEPT !.pc = "writing", !.seen = seen]
              /\ seen.revision = NextRevision(r)
              /\ \A t \in Texts : seen.version[t] = NextVersion(r, t)
      BY <2>3, GraphMoves
    <3>4. work'[r].pc = "writing" /\ work'[r].seen = seen
      BY <1>1, <3>3 DEF Work
    <3>5. Reading(r)'
      BY <2>1, <3>1, <3>2, <3>3, <3>4, SameReading DEF Reading
    <3>6. \A p \in Runs \ {r} : Reading(p)'
      BY <1>1, <2>2, <3>1 DEF Serialized, Reading
    <3> QED
      BY <3>1, <3>4, <3>5, <3>6 DEF Serialized
  <2>4. CASE work'[r].pc # "writing" /\ work[r].pc # "writing" /\ lock' = lock
    <3>1. \A p \in Runs \ {r} : Reading(p)'
      BY <2>1, <2>2, <2>4, SameReading DEF Serialized, Reading
    <3>2. Reading(r)'
      BY <2>4 DEF Reading
    <3>3. lock' # NoRun => work'[lock'].pc = "writing"
      BY <1>1, <2>2, <2>4 DEF Serialized
    <3> QED
      BY <3>1, <3>2, <3>3 DEF Serialized
  <2>5. CASE work'[r].pc # "writing" /\ work[r].pc = "writing" /\ Release(r)
    <3>1. lock = r /\ lock' = NoRun
      BY <2>5 DEF Serialized, Reading, Release
    <3>2. \A p \in Runs \ {r} : work'[p].pc # "writing"
      BY <2>2, <3>1 DEF Serialized, Reading
    <3> QED
      BY <2>5, <3>1, <3>2 DEF Serialized, Reading
  <2> QED
    BY <1>3, <2>3, <2>4, <2>5, LockMoves
<1>4. ASSUME NEW r \in Runs, WriteReport(r) PROVE Serialized'
  <2>1. lock = r /\ lock' = NoRun
    BY <1>4 DEF WriteReport, Serialized, Reading, Release
  <2>2. \A p \in Runs \ {r} : work'[p].pc # "writing"
    BY <1>4, <2>1, RequestKept DEF Serialized, Reading
  <2>3. work'[r].pc # "writing"
    <3>1. work'[r] = [work[r] EXCEPT !.pc = "commit", !.seen = NoWork.seen]
      BY <1>4, WriteIs
    <3> QED
      BY <1>1, <3>1 DEF Work
  <2> QED
    BY <2>1, <2>2, <2>3 DEF Serialized, Reading
<1>5. CASE UNCHANGED vars
  <2>1. UNCHANGED <<claims, reports, runs, work, lock>>
    BY <1>5 DEF vars
  <2> QED
    BY <2>1, SameReading DEF Serialized, Reading
<1> QED
  BY <1>2, <1>3, <1>4, <1>5, NextIs

\* No commit is refused for a revision or a version another one has taken.
LEMMA NothingTaken ==
  ASSUME StoredTyped, WorkTyped, Serialized, NEW r \in Runs, work[r].pc = "writing"
  PROVE  "unique" \notin Obstacles(r)
<1>1. /\ work[r].seen.revision = NextRevision(r)
      /\ \A t \in Texts : work[r].seen.version[t] = NextVersion(r, t)
  BY DEF Serialized, Reading
<1>2. \A p \in Runs \ {r} : reports[p].revision # work[r].seen.revision
  <2>1. \A p \in Runs \ {r} : reports[p].revision \in Nat
    BY DEF StoredTyped, Report
  <2> QED
    BY <1>1, <2>1, NextRevisionIs
<1>3. ASSUME NEW i \in DOMAIN work[r].claims, NEW c \in OthersClaims(r),
             ClaimRow(r, i).text = c.text, ClaimRow(r, i).version = c.version
      PROVE  FALSE
  <2> DEFINE d == work[r].claims[i]
             earlier == {j \in 1..(i - 1) : work[r].claims[j].text = d.text}
  <2>1. i \in Nat /\ d.text \in Texts
    <3>1. work[r].claims \in Lists(Draft)
      BY DEF WorkTyped, Work
    <3>2. DOMAIN work[r].claims \subseteq Numbers /\ d \in Draft
      BY <3>1, ListFacts
    <3> QED
      BY <3>2 DEF Draft, Numbers
  <2>2. Cardinality(earlier) \in Nat
    <3>1. IsFiniteSet(1..(i - 1))
      BY <2>1, FS_Interval
    <3>2. IsFiniteSet(earlier)
      BY <3>1, FS_Subset
    <3> QED
      BY <3>2, FS_CardinalityType
  <2>3. /\ ClaimRow(r, i).text = d.text
        /\ ClaimRow(r, i).version = work[r].seen.version[d.text] + Cardinality(earlier)
    BY DEF ClaimRow
  <2>4. c.version < NextVersion(r, d.text) /\ NextVersion(r, d.text) \in Nat /\ c.version \in Nat
    <3>1. c.version \in Nat
      BY DEF StoredTyped, OthersClaims, Row
    <3> QED
      BY <1>3, <2>1, <2>3, <3>1, NextVersionIs
  <2> HIDE DEF d, earlier
  <2>5. c.version = NextVersion(r, d.text) + Cardinality(earlier)
    BY <1>1, <1>3, <2>1, <2>3
  <2> QED
    BY <2>2, <2>4, <2>5
<1> QED
  BY <1>2, <1>3 DEF Obstacles, ClaimRows

LEMMA CollideStep ==
  ASSUME RowsTyped, StoredTyped, WorkTyped, Serialized, CommitsNeverCollide, [Next]_vars
  PROVE  CommitsNeverCollide'
<1>1. runs \in [Runs -> RunRow]
  BY DEF RowsTyped
<1>2. SUFFICES ASSUME NEW p \in Runs, runs[p].error # "unique" PROVE runs'[p].error # "unique"
  BY DEF CommitsNeverCollide
<1>3. CASE ApiStep
  <2>1. CASE \E d \in Docs : RequestRemoval(d) \/ RemoveChunks(d)
    BY <1>2, <2>1 DEF RequestRemoval, RemoveChunks
  <2>2. ASSUME NEW r \in Runs, RequestReview(r) PROVE runs'[p].error # "unique"
    BY <1>1, <1>2, <2>2 DEF RequestReview, Unrequested
  <2>3. ASSUME NEW r \in Runs, NEW b \in Runs, RequestRefresh(r, b) PROVE runs'[p].error # "unique"
    BY <1>1, <1>2, <2>3 DEF RequestRefresh, Unrequested
  <2> QED
    BY <1>3, <2>1, <2>2, <2>3 DEF ApiStep
<1>4. ASSUME NEW r \in Runs, GraphStep(r) \/ WriteReport(r) PROVE runs'[p].error # "unique"
  <2>1. CASE Decide(r) \/ Start(r) \/ AskHuman(r) \/ ApplyDecision(r)
    <3>1. PICK s \in Active : runs' = [runs EXCEPT ![r].status = s]
      BY <2>1, StatusMoves, SMTT(40)
    <3> QED
      BY <1>1, <1>2, <3>1 DEF RunRow
  <2>2. CASE (\E q : Retrieve(r, q)) \/ Reconcile(r) \/ PassReview(r) \/ Synthesize(r)
             \/ BeginCommit(r) \/ CrashInCommit(r) \/ Leave(r)
    BY <1>2, <2>2 DEF Retrieve, Reconcile, PassReview, Synthesize, BeginCommit, CrashInCommit, Leave
  <2>3. CASE FailNode(r) \/ \E error : RollBack(r, error)
    <3>1. PICK error : /\ runs' = [runs EXCEPT ![r].status = "failed", ![r].error = error]
                       /\ error = "node" \/ RollBack(r, error)
      BY <2>3 DEF FailNode, RollBack, Stop
    <3>2. error # "unique"
      BY <3>1, NothingTaken DEF RollBack
    <3> QED
      BY <1>1, <1>2, <3>1, <3>2 DEF RunRow
  <2>4. CASE WriteReport(r)
    BY <1>1, <1>2, <2>4 DEF WriteReport, RunRow
  <2> QED
    BY <1>4, <2>1, <2>2, <2>3, <2>4 DEF GraphStep
<1>5. CASE UNCHANGED vars
  BY <1>2, <1>5 DEF vars
<1> QED
  BY <1>3, <1>4, <1>5, NextIs

-----------------------------------------------------------------------------
(* What a worker holds.                                                    *)

GroundedRun(r) == Extracted(r) /\ Drafted(r) /\ Decided(r) /\ Written(r)

LEMMA GroundedKept ==
  ASSUME NEW r \in Runs, GroundedRun(r), work'[r] = work[r],
         \/ /\ runs'[r].kind = runs[r].kind /\ runs'[r].scope = runs[r].scope
            /\ runs'[r].impacted = runs[r].impacted
         \/ work[r].pc = "idle"
  PROVE  GroundedRun(r)'
<1>1. CASE /\ runs'[r].kind = runs[r].kind /\ runs'[r].scope = runs[r].scope
           /\ runs'[r].impacted = runs[r].impacted
  BY <1>1 DEF GroundedRun, Extracted, Drafted, Decided, Written, InScope
<1>2. CASE work[r].pc = "idle"
  <2>1. DOMAIN work[r].batches = {} /\ DOMAIN work[r].claims = {} /\ work'[r].pc = "idle"
    BY <1>2 DEF GroundedRun, Extracted, Drafted
  <2>2. Extracted(r)' /\ Drafted(r)' /\ Decided(r)'
    BY <2>1 DEF GroundedRun, Extracted, Drafted, Decided
  <2>3. Written(r)'
    BY <2>1 DEF GroundedRun, Written, Committing
  <2> QED
    BY <2>2, <2>3 DEF GroundedRun
<1> QED
  BY <1>1, <1>2

LEMMA FoundInScope ==
  ASSUME RowsTyped, NEW r \in Runs, NEW c \in Extractable(r)
  PROVE  /\ c \in Answers[r] /\ c.sources # {} /\ c.sources \subseteq Found(r)
         /\ runs[r].scope # {} => c.sources \subseteq runs[r].scope
<1>1. c \in Answers[r] /\ c.sources \subseteq Found(r)
  BY DEF Extractable
<1>2. c \in Extract
  BY <1>1, AnswersAre
<1>3. runs[r].scope # {} => Found(r) \subseteq runs[r].scope
  BY DEF Found, Filter
<1> QED
  BY <1>1, <1>2, <1>3 DEF Extract

LEMMA GraphGrounded ==
  ASSUME RowsTyped, StoredTyped, WorkTyped, NEW r \in Runs, Phase(r), GroundedRun(r),
         GraphStep(r) \/ WriteReport(r)
  PROVE  GroundedRun(r)'
<1>1. /\ runs'[r].kind = runs[r].kind /\ runs'[r].scope = runs[r].scope
      /\ runs'[r].impacted = runs[r].impacted
  BY RequestKept
<1>2. Extracted(r) /\ Drafted(r) /\ Decided(r) /\ Written(r)
  BY DEF GroundedRun
<1>3. \* The steps that only move on.
      ASSUME NEW pc, NEW d,
             Becomes(r, pc, work[r].batches, work[r].retrieved, work[r].claims, d, work[r].sections),
             pc \notin {"idle", "retrieve", "reconcile"},
             work[r].pc \notin {"retrieve", "reconcile"},
             d = "reject" => \/ pc = "apply"
                             \/ /\ work[r].decision = "reject"
                                /\ pc \in Committing /\ work[r].pc \in Committing,
             d # "reject" => work[r].decision # "reject",
             pc \in Before => d = "none",
             \/ pc \in Committing /\ work[r].pc \in Committing
             \/ pc \notin Committing /\ work[r].pc \in Before \cup {"apply", "synthesize"}
      PROVE  GroundedRun(r)'
  <2>1. /\ work'[r].pc = pc /\ work'[r].batches = work[r].batches
        /\ work'[r].retrieved = work[r].retrieved /\ work'[r].claims = work[r].claims
        /\ work'[r].decision = d /\ work'[r].sections = work[r].sections
    BY <1>3 DEF Becomes
  <2>2. Extracted(r)'
    BY <1>1, <1>2, <1>3, <2>1 DEF Extracted, InScope
  <2>3. Drafted(r)'
    BY <1>1, <1>2, <1>3, <2>1 DEF Drafted, InScope
  <2>4. Decided(r)'
    BY <1>2, <1>3, <2>1 DEF Decided, Committing
  <2>5. Written(r)'
    BY <1>1, <1>2, <1>3, <2>1 DEF Written, Committing, Before
  <2> QED
    BY <2>2, <2>3, <2>4, <2>5 DEF GroundedRun
<1>4. CASE Decide(r)
  <2>1. PICK d \in {"approve", "reject", "edit"} :
          Becomes(r, "apply", work[r].batches, work[r].retrieved, work[r].claims, d,
                  work[r].sections)
    BY <1>4, Becoming
  <2>2. work[r].pc = "interrupted"
    BY <1>4 DEF Decide
  <2>3. work[r].decision = "none"
    BY <1>2, <2>2 DEF Decided, Before
  <2> QED
    BY <1>3, <2>1, <2>2, <2>3 DEF Before, Committing
<1>5. CASE PassReview(r) \/ AskHuman(r)
  <2>1. work[r].pc = "human_review" /\ work[r].decision = "none"
    BY <1>2, <1>5 DEF PassReview, AskHuman, Decided, Before
  <2>2. PICK pc \in {"synthesize", "interrupted"} :
          Becomes(r, pc, work[r].batches, work[r].retrieved, work[r].claims, "none",
                  work[r].sections)
    BY <1>5, <2>1, Becoming
  <2> QED
    BY <1>3, <2>1, <2>2 DEF Before, Committing
<1>6. CASE BeginCommit(r) \/ CrashInCommit(r) \/ WriteReport(r)
  <2>1. work[r].pc \in Committing
    BY <1>6 DEF BeginCommit, CrashInCommit, WriteReport, Committing
  <2>2. PICK pc \in Committing :
          Becomes(r, pc, work[r].batches, work[r].retrieved, work[r].claims, work[r].decision,
                  work[r].sections)
    BY <1>6, Becoming DEF Committing
  <2> QED
    BY <1>3, <2>1, <2>2 DEF Before, Committing
<1>7. CASE FailNode(r) \/ (\E error : RollBack(r, error)) \/ Leave(r)
  <2>1. \E R, d, b : /\ Becomes(r, "end", b, R, <<>>, d, <<>>)
                     /\ DOMAIN b = {}
    <3>1. CASE FailNode(r) \/ \E error : RollBack(r, error)
      <4>1. Becomes(r, "end", <<>>, {}, <<>>, "none", <<>>) /\ DOMAIN <<>> = {}
        BY <3>1, Becoming, NoWorkIs
      <4> QED
        BY <4>1
    <3>2. CASE Leave(r)
      <4>1. DOMAIN work[r].batches = {}
        BY <1>2, <3>2 DEF Leave, Extracted
      <4> QED
        BY <3>2, <4>1, Becoming
    <3> QED
      BY <1>7, <3>1, <3>2
  <2>2. /\ work'[r].pc = "end" /\ DOMAIN work'[r].batches = {} /\ DOMAIN work'[r].claims = {}
        /\ DOMAIN work'[r].sections = {}
    BY <2>1 DEF Becomes
  <2> QED
    BY <2>2 DEF GroundedRun, Extracted, Drafted, Decided, Written, Before, Committing
<1>8. CASE Start(r)
  <2>1. PICK n \in QuestionCounts(r) :
          Becomes(r, "retrieve", [q \in 1..n |-> NoClaim], work[r].retrieved,
                  work[r].claims, work[r].decision, work[r].sections)
    BY <1>8, Becoming
  <2>2. work[r].pc = "idle"
    BY <1>8 DEF Start
  <2>3. DOMAIN work[r].claims = {} /\ work[r].decision = "none" /\ DOMAIN work[r].sections = {}
    BY <1>2, <2>2 DEF Drafted, Decided, Written, Before
  <2>4. /\ work'[r].pc = "retrieve" /\ \A q \in DOMAIN work'[r].batches : work'[r].batches[q] = NoClaim
        /\ DOMAIN work'[r].claims = {} /\ work'[r].decision = "none"
        /\ DOMAIN work'[r].sections = {}
    BY <2>1, <2>3 DEF Becomes
  <2> QED
    BY <2>4 DEF GroundedRun, Extracted, Drafted, Decided, Written, Before, Committing
<1>9. ASSUME NEW q, Retrieve(r, q) PROVE GroundedRun(r)'
  <2>1. PICK c \in Extractable(r), pc \in {"retrieve", "reconcile"} :
              /\ Becomes(r, pc, [work[r].batches EXCEPT ![q] = c],
                         work[r].retrieved \cup Found(r), work[r].claims, work[r].decision,
                         work[r].sections)
              /\ pc = "reconcile" =>
                   \A p \in DOMAIN work[r].batches \ {q} : work[r].batches[p] # NoClaim
    BY <1>9, Becoming
  <2>2. work[r].pc = "retrieve" /\ q \in DOMAIN work[r].batches
    BY <1>9 DEF Retrieve
  <2>3. DOMAIN work[r].claims = {} /\ work[r].decision = "none" /\ DOMAIN work[r].sections = {}
    BY <1>2, <2>2 DEF Drafted, Decided, Written, Before
  <2>4. /\ c \in Answers[r] /\ c.sources # {} /\ c.sources \subseteq Found(r)
        /\ runs[r].scope # {} => c.sources \subseteq runs[r].scope
        /\ c # NoClaim
    BY FoundInScope, AnswersAre
  <2>5. /\ DOMAIN work'[r].batches = DOMAIN work[r].batches /\ work'[r].batches[q] = c
        /\ \A p \in DOMAIN work[r].batches \ {q} : work'[r].batches[p] = work[r].batches[p]
    <3>1. work[r].batches \in Lists(Extract \cup {NoClaim})
      BY DEF WorkTyped, Work
    <3>2. PICK n \in Nat : work[r].batches \in [1..n -> Extract \cup {NoClaim}]
      BY <3>1 DEF Lists
    <3> QED
      BY <2>1, <2>2, <3>2 DEF Becomes
  <2>6. /\ work'[r].pc = pc /\ work'[r].retrieved = work[r].retrieved \cup Found(r)
        /\ work'[r].claims = work[r].claims /\ work'[r].decision = work[r].decision
        /\ work'[r].sections = work[r].sections
    BY <2>1 DEF Becomes
  <2>7. Extracted(r)'
    <3>1. \A p \in DOMAIN work[r].batches : work'[r].batches[p] # NoClaim =>
             /\ work'[r].batches[p].sources # {}
             /\ work'[r].batches[p].sources \subseteq work'[r].retrieved
             /\ runs[r].scope # {} => work'[r].batches[p].sources \subseteq runs[r].scope
      BY <1>2, <2>4, <2>5, <2>6 DEF Extracted, InScope
    <3>2. pc = "reconcile" => \A p \in DOMAIN work[r].batches : work'[r].batches[p] # NoClaim
      BY <2>1, <2>4, <2>5
    <3> QED
      BY <1>1, <2>5, <2>6, <3>1, <3>2 DEF Extracted, InScope
  <2> QED
    BY <2>3, <2>6, <2>7 DEF GroundedRun, Drafted, Decided, Written, Before, Committing
<1>10. CASE Reconcile(r)
  <2>1. work[r].pc = "reconcile"
    BY <1>10 DEF Reconcile
  <2>2. work[r].decision = "none" /\ DOMAIN work[r].sections = {}
    BY <1>2, <2>1 DEF Decided, Written, Before
  <2>3. /\ DOMAIN work'[r].claims = DOMAIN work[r].batches
        /\ \A q \in DOMAIN work[r].batches :
              /\ work[r].batches[q] # NoClaim
              /\ work'[r].claims[q] = [text |-> work[r].batches[q].text,
                                       evidence |-> work[r].batches[q].sources, question |-> q]
    BY <1>2, <1>10, ReconcileIs
  <2>4. Becomes(r, "human_review", <<>>, work[r].retrieved, work'[r].claims, work[r].decision,
                work[r].sections)
    <3>1. PICK C, L : work' = [work EXCEPT ![r].claims = C, ![r].links = L, ![r].batches = <<>>,
                                           ![r].pc = "human_review"]
      BY <1>10 DEF Reconcile
    <3> QED
      BY <3>1 DEF Becomes, WorkTyped, Work
  <2>5. /\ work'[r].pc = "human_review" /\ DOMAIN work'[r].batches = {}
        /\ work'[r].retrieved = work[r].retrieved /\ work'[r].decision = "none"
        /\ DOMAIN work'[r].sections = {}
    BY <2>2, <2>4 DEF Becomes
  <2>6. \A i \in DOMAIN work'[r].claims :
          /\ work'[r].claims[i].evidence = work[r].batches[i].sources
          /\ work'[r].claims[i].question = i
    <3>1. SUFFICES ASSUME NEW i \in DOMAIN work'[r].claims
                   PROVE  /\ work'[r].claims[i].evidence = work[r].batches[i].sources
                          /\ work'[r].claims[i].question = i
      OBVIOUS
    <3> DEFINE text == work[r].batches[i].text
               sources == work[r].batches[i].sources
    <3>2. work'[r].claims[i] = [text |-> text, evidence |-> sources, question |-> i]
      BY <2>3
    <3> HIDE DEF text, sources
    <3>3. work'[r].claims[i].evidence = sources /\ work'[r].claims[i].question = i
      BY <3>2
    <3> QED
      BY <3>3 DEF sources
  <2>7. Drafted(r)'
    <3>1. \A i \in DOMAIN work'[r].claims : InScope(r, work[r].batches[i].sources)
      BY <1>2, <2>2, <2>3 DEF Extracted
    <3>2. \A S : InScope(r, S) => InScope(r, S)'
      BY <1>1, <2>5 DEF InScope
    <3>3. \A i \in DOMAIN work'[r].claims : InScope(r, work[r].claims[i].evidence)'
      <4> SUFFICES ASSUME NEW i \in DOMAIN work'[r].claims
                   PROVE  InScope(r, work[r].claims[i].evidence)'
        OBVIOUS
      <4>1. PICK S : S = work[r].batches[i].sources
        OBVIOUS
      <4>2. InScope(r, S)'
        BY <3>1, <3>2, <4>1
      <4>3. work'[r].claims[i].evidence = S
        BY <2>6, <4>1
      <4> QED
        BY <4>2, <4>3 DEF InScope
    <3> QED
      BY <2>5, <2>6, <3>3 DEF Drafted
  <2> QED
    BY <2>5, <2>7 DEF GroundedRun, Extracted, Decided, Written, Before, Committing
<1>11. CASE ApplyDecision(r)
  <2>1. work[r].pc = "apply" /\ work[r] \in Work
    BY <1>11 DEF ApplyDecision, WorkTyped
  <2>2. DOMAIN work[r].batches = {} /\ DOMAIN work[r].sections = {}
    BY <1>2, <2>1 DEF Extracted, Written
  <2>3. ASSUME NEW C, NEW d,
               Becomes(r, "synthesize", work[r].batches, work[r].retrieved, C, d, work[r].sections),
               d = "none" \/ \A i \in DOMAIN C : Accepted(C[i]),
               \A i \in DOMAIN C : InScope(r, C[i].evidence),
               d # "reject" => \A i \in DOMAIN C : C[i].question = i
        PROVE  GroundedRun(r)'
    <3>1. /\ work'[r].pc = "synthesize" /\ DOMAIN work'[r].batches = {}
          /\ work'[r].retrieved = work[r].retrieved /\ work'[r].decision = d
          /\ DOMAIN work'[r].sections = {} /\ work'[r].claims = C
      BY <2>2, <2>3 DEF Becomes
    <3>2. Drafted(r)'
      BY <1>1, <2>3, <3>1 DEF Drafted, InScope
    <3>3. Decided(r)'
      BY <2>3, <3>1 DEF Decided, Before
    <3> QED
      BY <3>1, <3>2, <3>3 DEF GroundedRun, Extracted, Written, Committing
  <2>4. CASE work[r].decision = "approve"
             /\ work'[r] = [work[r] EXCEPT !.pc = "synthesize", !.decision = "none"]
    <3>1. Becomes(r, "synthesize", work[r].batches, work[r].retrieved, work[r].claims, "none",
                  work[r].sections)
      BY <2>1, <2>4 DEF Becomes, Work
    <3> QED
      BY <1>2, <2>3, <2>4, <3>1 DEF Drafted
  <2>5. CASE work[r].decision = "reject"
             /\ work'[r] = [work[r] EXCEPT !.pc = "synthesize",
                  !.claims = KeepAt(work[r].claims, DOMAIN work[r].claims \ Rejected(r))]
    <3> DEFINE K == KeepAt(work[r].claims, DOMAIN work[r].claims \ Rejected(r))
    <3>1. \A n \in DOMAIN K : \E i \in DOMAIN work[r].claims \ Rejected(r) : K[n] = work[r].claims[i]
      <4>1. work[r].claims \in Lists(Draft)
        BY <2>1 DEF Work
      <4> QED
        BY <4>1, KeepAtIs
    <3> HIDE DEF K
    <3>2. Becomes(r, "synthesize", work[r].batches, work[r].retrieved, K, "reject",
                  work[r].sections)
      <4>1. work'[r] = [work[r] EXCEPT !.pc = "synthesize", !.claims = K]
        BY <2>5 DEF K
      <4> QED
        BY <2>1, <2>5, <4>1 DEF Becomes, Work
    <3>3. \A i \in DOMAIN work[r].claims \ Rejected(r) :
            Accepted(work[r].claims[i]) /\ InScope(r, work[r].claims[i].evidence)
      BY <1>2 DEF Drafted, InScope, Rejected, Flagged, SuspiciousChunks, Accepted
    <3> QED
      BY <2>3, <3>1, <3>2, <3>3
  <2>6. CASE work[r].decision = "edit" /\ \E i \in DOMAIN work[r].claims, t \in Texts :
                    work'[r] = [work[r] EXCEPT !.pc = "synthesize", !.decision = "none",
                         !.claims = [work[r].claims EXCEPT ![i].text = t]]
    <3>1. PICK i \in DOMAIN work[r].claims, t \in Texts :
            work'[r] = [work[r] EXCEPT !.pc = "synthesize", !.decision = "none",
                         !.claims = [work[r].claims EXCEPT ![i].text = t]]
      BY <2>6
    <3> DEFINE C == [work[r].claims EXCEPT ![i].text = t]
    <3>2. \A j \in DOMAIN C : /\ j \in DOMAIN work[r].claims
                              /\ C[j].evidence = work[r].claims[j].evidence
                              /\ C[j].question = work[r].claims[j].question
      <4>1. work[r].claims \in Lists(Draft)
        BY <2>1 DEF Work
      <4>2. PICK n \in Nat : work[r].claims \in [1..n -> Draft]
        BY <4>1 DEF Lists
      <4> QED
        BY <4>2 DEF Draft
    <3> HIDE DEF C
    <3>3. Becomes(r, "synthesize", work[r].batches, work[r].retrieved, C, "none",
                  work[r].sections)
      BY <2>1, <3>1 DEF Becomes, Work, C
    <3> QED
      BY <1>2, <2>3, <2>6, <3>2, <3>3 DEF Drafted
  <2> QED
    BY <1>11, <2>4, <2>5, <2>6, ApplyIs
<1>12. CASE Synthesize(r)
  <2>1. /\ \A s \in DOMAIN work'[r].sections : work'[r].sections[s] \in DOMAIN work[r].claims
        /\ runs[r].kind = "report_refresh" => DOMAIN work'[r].sections = runs[r].impacted
        /\ runs[r].kind # "report_refresh" => DOMAIN work'[r].sections # {}
        /\ work[r].pc = "synthesize"
    BY <1>12, SynthesizeIs
  <2>2. Becomes(r, "commit", work[r].batches, work[r].retrieved, work[r].claims,
                work[r].decision, work'[r].sections)
    <3>1. PICK S : work' = [work EXCEPT ![r].sections = S, ![r].pc = "commit"]
      BY <1>12 DEF Synthesize
    <3> QED
      BY <3>1 DEF Becomes, WorkTyped, Work
  <2>3. /\ work'[r].pc = "commit" /\ work'[r].batches = work[r].batches
        /\ work'[r].retrieved = work[r].retrieved /\ work'[r].claims = work[r].claims
        /\ work'[r].decision = work[r].decision
    BY <2>2 DEF Becomes
  <2>4. DOMAIN work'[r].sections # {}
    BY <2>1 DEF Phase
  <2>5. Extracted(r)' /\ Drafted(r)'
    BY <1>1, <1>2, <2>1, <2>3 DEF Extracted, Drafted, InScope
  <2>6. Decided(r)'
    BY <1>2, <2>1, <2>3 DEF Decided, Before, Committing
  <2>7. Written(r)'
    BY <1>1, <2>1, <2>3, <2>4 DEF Written, Before, Committing
  <2> QED
    BY <2>5, <2>6, <2>7 DEF GroundedRun
<1> QED
  BY <1>4, <1>5, <1>6, <1>7, <1>8, <1>9, <1>10, <1>11, <1>12 DEF GraphStep

LEMMA GroundedStep ==
  ASSUME RowsTyped, StoredTyped, WorkTyped, Phases, Grounded, [Next]_vars
  PROVE  Grounded'
<1>1. \A r \in Runs : GroundedRun(r) /\ Phase(r)
  BY DEF Grounded, GroundedRun, Phases
<1>2. CASE ApiStep
  <2>1. work' = work
    BY <1>2, ApiStores
  <2>2. \A p \in Runs : runs'[p] = runs[p] \/ work[p].pc = "idle"
    <3>1. CASE \E d \in Docs : RequestRemoval(d) \/ RemoveChunks(d)
      BY <3>1 DEF RequestRemoval, RemoveChunks
    <3>2. ASSUME NEW r \in Runs, RequestReview(r) \/ \E b \in Runs : RequestRefresh(r, b)
          PROVE  \A p \in Runs : runs'[p] = runs[p] \/ work[p].pc = "idle"
      <4>1. runs[r].kind = "none" /\ \E row : runs' = [runs EXCEPT ![r] = row]
        BY <3>2 DEF RequestReview, RequestRefresh
      <4>2. work[r].pc = "idle"
        BY <1>1, <4>1 DEF Phase
      <4> QED
        BY <4>1, <4>2 DEF RowsTyped
    <3> QED
      BY <1>2, <3>1, <3>2 DEF ApiStep
  <2>3. \A p \in Runs : GroundedRun(p)'
    BY <1>1, <2>1, <2>2, GroundedKept
  <2> QED
    BY <2>3 DEF Grounded, GroundedRun
<1>3. ASSUME NEW r \in Runs, GraphStep(r) \/ WriteReport(r) PROVE Grounded'
  <2>1. GroundedRun(r)'
    BY <1>1, <1>3, GraphGrounded
  <2>2. \A p \in Runs \ {r} : GroundedRun(p)'
    BY <1>1, <1>3, RequestKept, GroundedKept
  <2> QED
    BY <2>1, <2>2 DEF Grounded, GroundedRun
<1>4. CASE UNCHANGED vars
  <2>1. \A p \in Runs : GroundedRun(p)'
    BY <1>1, <1>4, GroundedKept DEF vars
  <2> QED
    BY <2>1 DEF Grounded, GroundedRun
<1> QED
  BY <1>2, <1>3, <1>4, NextIs

-----------------------------------------------------------------------------
(* What is stored.                                                         *)

\* The rows a commit leaves: those of other runs, and its own.
LEMMA RowsLeft ==
  ASSUME RowsTyped, StoredTyped, WorkTyped, NEW r \in Runs, WriteReport(r)
  PROVE  /\ \A c \in claims' : \/ c \in claims /\ c.id[1] # r
                               \/ \E i \in DOMAIN work[r].claims : c = ClaimRow(r, i)
         /\ \A c \in claims : c.id[1] # r => c \in claims'
         /\ \A i \in DOMAIN work[r].claims :
              /\ ClaimRow(r, i) \in claims' /\ ClaimRow(r, i).id = <<r, i>>
              /\ ClaimRow(r, i).text = work[r].claims[i].text
              /\ ClaimRow(r, i).evidence = work[r].claims[i].evidence
              /\ ClaimRow(r, i).question = work[r].claims[i].question
         /\ \A l \in relations' : \/ l \in relations /\ l.run # r
                                  \/ l.run = r /\ \E m \in work[r].links :
                                       l.source = m[1] /\ l.target = m[2]
<1>1. claims' = OthersClaims(r) \cup ClaimRows(r) /\ relations' = OthersRelations(r) \cup LinkRows(r)
  BY DEF WriteReport
<1>2. \A i : /\ ClaimRow(r, i).id = <<r, i>>
             /\ ClaimRow(r, i).text = work[r].claims[i].text
             /\ ClaimRow(r, i).evidence = work[r].claims[i].evidence
             /\ ClaimRow(r, i).question = work[r].claims[i].question
  BY DEF ClaimRow
<1>3. /\ \A c \in claims' : \/ c \in claims /\ c.id[1] # r
                            \/ \E i \in DOMAIN work[r].claims : c = ClaimRow(r, i)
      /\ \A c \in claims : c.id[1] # r => c \in claims'
      /\ \A i \in DOMAIN work[r].claims : ClaimRow(r, i) \in claims'
  BY <1>1 DEF OthersClaims, ClaimRows
<1>4. \A l \in LinkRows(r) : l.run = r /\ \E m \in work[r].links : l.source = m[1] /\ l.target = m[2]
  BY DEF LinkRows
<1>5. \A l \in OthersRelations(r) : l \in relations /\ l.run # r
  BY DEF OthersRelations
<1> QED
  BY <1>1, <1>2, <1>3, <1>4, <1>5

LEMMA StoredOnceStep ==
  ASSUME RowsTyped, StoredTyped, WorkTyped, Phases, Grounded, StoredOnce, [Next]_vars
  PROVE  StoredOnce'
<1>1. /\ runs \in [Runs -> RunRow] /\ NoRun \notin Runs
      /\ \A r \in Runs : Stored(r) /\ Phase(r)
  BY ReviewAssumption DEF RowsTyped, StoredOnce, Phases
<1>2. CASE UNCHANGED <<claims, relations, reports>> /\ \A p \in Runs : runs'[p].base = runs[p].base
  BY <1>2 DEF StoredOnce, Stored
<1>3. CASE ApiStep
  <2>1. UNCHANGED <<claims, relations, reports>>
    BY <1>3, ApiStores
  <2>2. CASE \E d \in Docs : RequestRemoval(d) \/ RemoveChunks(d)
    BY <1>2, <2>1, <2>2 DEF RequestRemoval, RemoveChunks
  <2>3. ASSUME NEW r \in Runs, NEW row, runs' = [runs EXCEPT ![r] = row],
               runs[r].kind = "none", row.base # r
        PROVE  StoredOnce'
    <3>1. reports[r].status = "none"
      BY <1>1, <2>3 DEF Phase
    <3>2. runs'[r] = row /\ \A p \in Runs \ {r} : runs'[p] = runs[p]
      BY <1>1, <2>3
    <3>3. Stored(r)'
      BY <1>1, <2>1, <2>3, <3>1, <3>2 DEF Stored
    <3>4. \A p \in Runs \ {r} : Stored(p)'
      BY <1>1, <2>1, <3>2 DEF Stored
    <3> QED
      BY <2>1, <3>3, <3>4 DEF StoredOnce
  <2>4. ASSUME NEW r \in Runs, RequestReview(r) PROVE StoredOnce'
    BY <1>1, <2>3, <2>4, ReviewIs
  <2>5. ASSUME NEW r \in Runs, NEW b \in Runs, RequestRefresh(r, b) PROVE StoredOnce'
    <3>1. PICK row \in RunRow :
            /\ runs' = [runs EXCEPT ![r] = row] /\ runs[r].kind = "none"
            /\ row.base = b /\ reports[b].status # "none"
      BY <2>5, RefreshIs
    <3>2. b # r
      BY <1>1, <3>1 DEF Phase
    <3> QED
      BY <2>3, <3>1, <3>2
  <2> QED
    BY <1>3, <2>2, <2>4, <2>5 DEF ApiStep
<1>4. ASSUME NEW r \in Runs, GraphStep(r) PROVE StoredOnce'
  <2>1. \A p \in Runs : runs'[p].base = runs[p].base
    BY <1>4, RequestKept
  <2> QED
    BY <1>2, <1>4, <2>1, NothingStored
<1>5. ASSUME NEW r \in Runs, WriteReport(r) PROVE StoredOnce'
  <2>1. \A p \in Runs : runs'[p].base = runs[p].base
    BY <1>5, RequestKept
  <2>2. /\ reports'[r] = [status |-> "published", base |-> runs[r].base,
                          revision |-> work[r].seen.revision, sections |-> SectionRows(r)]
        /\ \A p \in Runs \ {r} :
              /\ reports'[p].sections = reports[p].sections /\ reports'[p].base = reports[p].base
              /\ reports'[p].status = IF p = runs[r].base THEN "invalidated" ELSE reports[p].status
    BY <1>5, WriteIs, ZenonT(60)
  <2> DEFINE S == SectionRows(r)
  <2>3. S = SectionRows(r)
    OBVIOUS
  <2> HIDE DEF S
  <2>4. /\ reports'[r].status = "published" /\ reports'[r].base = runs[r].base
        /\ reports'[r].sections = S
    BY <2>2, <2>3
  <2>5. S # <<>> /\ DOMAIN S # {}
    <3>1. Written(r) /\ work[r].pc = "writing"
      BY <1>5 DEF Grounded, WriteReport
    <3>2. CASE runs[r].kind = "report_refresh"
      <4>1. DOMAIN S = DOMAIN reports[runs[r].base].sections
        BY <2>3, <3>2 DEF SectionRows
      <4>2. runs[r].base \in Runs /\ reports[runs[r].base].status # "none"
        BY <1>1, <3>2 DEF Phase
      <4>3. DOMAIN S # {}
        BY <1>1, <4>1, <4>2 DEF Stored
      <4> QED
        BY <4>3, NoWorkIs
    <3>3. CASE runs[r].kind # "report_refresh"
      <4>1. DOMAIN S = DOMAIN work[r].sections
        BY <2>3, <3>3 DEF SectionRows
      <4>2. DOMAIN S # {}
        BY <3>1, <4>1 DEF Written, Committing
      <4> QED
        BY <4>2, NoWorkIs
    <3> QED
      BY <3>2, <3>3
  <2>6. Stored(r)'
    BY <1>1, <2>1, <2>4, <2>5 DEF Stored
  <2>7. ASSUME NEW p \in Runs \ {r} PROVE Stored(p)' /\ (reports[p].status # "none" => reports'[p].status # "none")
    <3>1. CASE p = runs[r].base
      <4>1. reports[p].status # "none"
        BY <1>1, <3>1 DEF Phase
      <4> QED
        BY <1>1, <2>1, <2>2, <3>1, <4>1 DEF Stored
    <3>2. CASE p # runs[r].base
      BY <1>1, <2>1, <2>2, <3>2 DEF Stored
    <3> QED
      BY <3>1, <3>2
  <2>8. \A c \in claims' : reports'[c.id[1]].status # "none" /\ c.evidence # {}
    <3>1. SUFFICES ASSUME NEW c \in claims'
                   PROVE  reports'[c.id[1]].status # "none" /\ c.evidence # {}
      OBVIOUS
    <3>2. CASE c \in claims /\ c.id[1] # r
      <4>1. c.id[1] \in Runs
        BY <3>2 DEF StoredTyped, Row, ClaimIds
      <4> QED
        BY <2>7, <3>2, <4>1 DEF StoredOnce
    <3>3. ASSUME NEW i \in DOMAIN work[r].claims, c = ClaimRow(r, i)
          PROVE  reports'[c.id[1]].status # "none" /\ c.evidence # {}
      <4>1. c.id = <<r, i>> /\ c.evidence = work[r].claims[i].evidence
        BY <1>5, <3>3, RowsLeft
      <4>2. work[r].claims[i].evidence # {}
        BY DEF Grounded, Drafted, InScope
      <4> QED
        BY <2>4, <4>1, <4>2
    <3> QED
      BY <1>5, <3>2, <3>3, RowsLeft
  <2>9. \A l \in relations' : reports'[l.run].status # "none"
    <3>1. SUFFICES ASSUME NEW l \in relations' PROVE reports'[l.run].status # "none"
      OBVIOUS
    <3>2. CASE l \in relations /\ l.run # r
      <4>1. l.run \in Runs
        BY <3>2 DEF StoredTyped, Link
      <4> QED
        BY <2>7, <3>2, <4>1 DEF StoredOnce
    <3>3. CASE l.run = r
      BY <2>4, <3>3
    <3> QED
      BY <1>5, <3>2, <3>3, RowsLeft
  <2> QED
    BY <2>6, <2>7, <2>8, <2>9 DEF StoredOnce
<1>6. CASE UNCHANGED vars
  BY <1>2, <1>6 DEF vars
<1> QED
  BY <1>3, <1>4, <1>5, <1>6, NextIs

-----------------------------------------------------------------------------
(* What was asked, decided and retrieved is what is stored.                *)

LEMMA SoundKept ==
  ASSUME StoredTyped, StoredOnce, Sound, UNCHANGED <<claims, relations, reports>>,
         \A p \in Runs : reports[p].status # "none" =>
           /\ runs'[p].impacted = runs[p].impacted /\ runs'[p].scope = runs[p].scope
           /\ work'[p].decision = work[p].decision /\ work'[p].links = work[p].links
  PROVE  Sound'
<1>1. /\ \A c \in claims : c.id[1] \in Runs /\ reports[c.id[1]].status # "none"
      /\ \A l \in relations : l.run \in Runs /\ reports[l.run].status # "none"
      /\ \A r \in Runs : reports[r].base # NoRun => reports[r].status # "none"
  BY DEF StoredOnce, Stored, StoredTyped, Row, ClaimIds, Link
<1>2. SectionsCiteStoredClaims'
  BY DEF Sound, SectionsCiteStoredClaims
<1>3. RefreshKeepsOtherSections'
  BY <1>1 DEF Sound, RefreshKeepsOtherSections
<1>4. InvalidatedHasSuccessor'
  BY DEF Sound, InvalidatedHasSuccessor
<1>5. RejectedClaimsAreNotStored'
  BY <1>1 DEF Sound, RejectedClaimsAreNotStored
<1>6. EvidenceIsInScope'
  BY <1>1 DEF Sound, EvidenceIsInScope
<1>7. RelationsJoinReconciledClaims'
  BY <1>1 DEF Sound, RelationsJoinReconciledClaims
<1> QED
  BY <1>2, <1>3, <1>4, <1>5, <1>6, <1>7 DEF Sound

\* A run whose report is stored only leaves its graph.
LEMMA PublishedKept ==
  ASSUME RowsTyped, StoredTyped, WorkTyped, Phases, NEW p \in Runs, reports[p].status # "none",
         ApiStep \/ \E r \in Runs : GraphStep(r) \/ (WriteReport(r) /\ r # p)
  PROVE  /\ runs'[p] = runs[p]
         /\ work'[p].decision = work[p].decision /\ work'[p].links = work[p].links
         /\ work[p].pc # "writing"
<1>1. Phase(p) /\ runs[p].status = "succeeded" /\ runs[p].kind # "none" /\ work[p].pc # "writing"
  BY DEF Phases, Phase
<1>2. runs \in [Runs -> RunRow] /\ work[p] \in Work /\ work \in [Runs -> Work]
  BY DEF RowsTyped, WorkTyped
<1>3. CASE ApiStep
  <2>1. work' = work
    BY <1>3, ApiStores
  <2>2. CASE \E d \in Docs : RequestRemoval(d) \/ RemoveChunks(d)
    BY <1>1, <2>1, <2>2 DEF RequestRemoval, RemoveChunks
  <2>3. ASSUME NEW r \in Runs, RequestReview(r) PROVE runs'[p] = runs[p]
    BY <1>1, <1>2, <2>3, ReviewIs
  <2>4. ASSUME NEW r \in Runs, NEW b \in Runs, RequestRefresh(r, b) PROVE runs'[p] = runs[p]
    BY <1>1, <1>2, <2>4, RefreshIs
  <2> QED
    BY <1>1, <1>3, <2>1, <2>2, <2>3, <2>4 DEF ApiStep
<1>4. ASSUME NEW r \in Runs, r # p, GraphStep(r) \/ WriteReport(r)
      PROVE  runs'[p] = runs[p] /\ work'[p] = work[p]
  BY <1>4, RequestKept
<1>5. CASE GraphStep(p)
  <2>1. Leave(p) /\ runs'[p] = runs[p]
    BY <1>1, <1>5, GraphPhase DEF Active
  <2>2. work' = [work EXCEPT ![p].pc = "end", ![p].claims = <<>>, ![p].retrieved = {},
                             ![p].sections = <<>>]
    BY <2>1 DEF Leave
  <2>3. work'[p].decision = work[p].decision /\ work'[p].links = work[p].links
    BY <1>2, <2>2 DEF Work
  <2> QED
    BY <1>1, <2>1, <2>3
<1> QED
  BY <1>1, <1>3, <1>4, <1>5

\* A run that writes has stored nothing before.
LEMMA FirstWrite ==
  ASSUME RowsTyped, StoredTyped, Phases, StoredOnce, NEW r \in Runs, work[r].pc = "writing"
  PROVE  /\ reports[r].status = "none" /\ reports[r].base = NoRun
         /\ \A c \in claims : c.id[1] # r
         /\ \A l \in relations : l.run # r
         /\ \A p \in Runs : runs[p].base \in Runs => runs[p].base # r
         /\ runs[r].base \in Runs <=> runs[r].kind = "report_refresh"
<1>1. reports[r].status = "none"
  BY DEF Phases, Phase
<1>2. \A p \in Runs : runs[p].base \in Runs =>
        runs[p].kind = "report_refresh" /\ reports[runs[p].base].status # "none"
  BY ReviewAssumption DEF Phases, Phase
<1> QED
  BY <1>1, <1>2 DEF StoredOnce, Stored, Phases, Phase

LEMMA WriteSound ==
  ASSUME RowsTyped, StoredTyped, WorkTyped, Phases, Serialized, Grounded, StoredOnce, Sound,
         NEW r \in Runs, WriteReport(r)
  PROVE  Sound'
<1>1. /\ work[r].pc = "writing" /\ Obstacles(r) = {} /\ work[r] \in Work /\ NoRun \notin Runs
      /\ Extracted(r) /\ Drafted(r) /\ Decided(r) /\ Written(r)
  BY ReviewAssumption DEF WriteReport, WorkTyped, Grounded
<1>2. /\ reports[r].status = "none" /\ reports[r].base = NoRun
      /\ \A c \in claims : c.id[1] # r
      /\ \A l \in relations : l.run # r
      /\ \A p \in Runs : runs[p].base \in Runs => runs[p].base # r
      /\ runs[r].base \in Runs <=> runs[r].kind = "report_refresh"
  BY <1>1, FirstWrite
<1> DEFINE S == SectionRows(r)
<1>3. /\ reports'[r].status = "published" /\ reports'[r].base = runs[r].base
      /\ reports'[r].revision = work[r].seen.revision /\ reports'[r].sections = S
  <2>1. reports'[r] = [status |-> "published", base |-> runs[r].base,
                       revision |-> work[r].seen.revision, sections |-> S]
    BY WriteIs
  <2> HIDE DEF S
  <2> QED
    BY <2>1
<1>4. \A p \in Runs \ {r} :
        /\ reports'[p].sections = reports[p].sections /\ reports'[p].base = reports[p].base
        /\ reports'[p].revision = reports[p].revision
        /\ reports'[p].status = IF p = runs[r].base THEN "invalidated" ELSE reports[p].status
  BY WriteIs, ZenonT(60)
<1>5. /\ \A p \in Runs \ {r} : runs'[p] = runs[p] /\ work'[p] = work[p]
      /\ runs'[r].impacted = runs[r].impacted /\ runs'[r].scope = runs[r].scope
  BY RequestKept
<1>6. work'[r].decision = work[r].decision /\ work'[r].links = work[r].links
  <2>1. work' = [work EXCEPT ![r].pc = "commit", ![r].seen = NoWork.seen]
    BY DEF WriteReport
  <2> QED
    BY <1>1, <2>1 DEF WorkTyped, Work
<1>7. /\ \A c \in claims' : c \in claims \/ \E i \in DOMAIN work[r].claims : c = ClaimRow(r, i)
      /\ \A c \in claims : c \in claims'
      /\ \A i \in DOMAIN work[r].claims :
              /\ ClaimRow(r, i) \in claims' /\ ClaimRow(r, i).id = <<r, i>>
              /\ ClaimRow(r, i).text = work[r].claims[i].text
              /\ ClaimRow(r, i).evidence = work[r].claims[i].evidence
              /\ ClaimRow(r, i).question = work[r].claims[i].question
  BY <1>2, RowsLeft
<1>8. \A l \in relations' : \/ l \in relations
                            \/ l.run = r /\ \E m \in work[r].links :
                                 l.source = m[1] /\ l.target = m[2]
  BY RowsLeft
<1>9. \A i \in DOMAIN work[r].claims : InScope(r, work[r].claims[i].evidence)
  BY <1>1 DEF Drafted
<1>10. /\ runs[r].kind = "report_refresh" =>
            /\ DOMAIN S = DOMAIN reports[runs[r].base].sections
            /\ \A s \in DOMAIN S : S[s] = IF s \in runs[r].impacted
                                          THEN {<<r, work[r].sections[s]>>}
                                          ELSE reports[runs[r].base].sections[s]
            /\ \A s \in runs[r].impacted : work[r].sections[s] \in DOMAIN work[r].claims
       /\ runs[r].kind # "report_refresh" =>
            \A s \in DOMAIN S : /\ S[s] = {<<r, work[r].sections[s]>>}
                                /\ work[r].sections[s] \in DOMAIN work[r].claims
  <2>1. CASE runs[r].kind = "report_refresh"
    <3>1. DOMAIN work[r].sections = runs[r].impacted
      BY <1>1, <2>1 DEF Written, Committing
    <3>2. \A s \in runs[r].impacted : work[r].sections[s] \in DOMAIN work[r].claims
      BY <1>1, <3>1 DEF Written
    <3>3. S = [s \in DOMAIN reports[runs[r].base].sections |->
                 IF s \in runs[r].impacted THEN {<<r, work[r].sections[s]>>}
                                           ELSE reports[runs[r].base].sections[s]]
      BY <2>1, <3>1 DEF SectionRows
    <3> HIDE DEF S
    <3> QED
      BY <2>1, <3>2, <3>3
  <2>2. CASE runs[r].kind # "report_refresh"
    <3>1. S = [s \in DOMAIN work[r].sections |-> {<<r, work[r].sections[s]>>}]
      BY <2>2 DEF SectionRows
    <3> HIDE DEF S
    <3> QED
      BY <1>1, <2>2, <3>1 DEF Written
  <2> QED
    BY <2>1, <2>2
<1> HIDE DEF S
<1>11. SectionsCiteStoredClaims'
  <2> DEFINE Cited(ids) == ids # {} /\ \A id \in ids : \E c \in claims' : c.id = id /\ c.evidence # {}
  <2>1. \A p \in Runs : \A s \in DOMAIN reports[p].sections : Cited(reports[p].sections[s])
    BY <1>7 DEF Sound, SectionsCiteStoredClaims
  <2>2. \A i \in DOMAIN work[r].claims : Cited({<<r, i>>})
    BY <1>7, <1>9 DEF InScope
  <2> HIDE DEF Cited
  <2>3. \A s \in DOMAIN S : Cited(S[s])
    BY <1>2, <1>10, <2>1, <2>2
  <2>4. \A p \in Runs : \A s \in DOMAIN reports'[p].sections : Cited(reports'[p].sections[s])
    BY <1>3, <1>4, <2>1, <2>3
  <2> QED
    BY <2>4 DEF Cited, SectionsCiteStoredClaims
<1>12. RefreshKeepsOtherSections'
  <2>1. SUFFICES ASSUME NEW p \in Runs, reports'[p].base # NoRun
                 PROVE  LET old == reports'[reports'[p].base].sections
                            new == reports'[p].sections
                        IN  /\ DOMAIN new = DOMAIN old
                            /\ \A s \in DOMAIN old :
                                 IF s \in runs'[p].impacted
                                 THEN \A id \in new[s] : id[1] = p ELSE new[s] = old[s]
    BY DEF RefreshKeepsOtherSections
  <2>2. CASE p = r
    <3>1. /\ runs[r].base \in Runs \ {r} /\ runs[r].kind = "report_refresh"
          /\ reports'[p].base = runs[r].base
      <4>1. runs[r].base \in Runs \cup {NoRun}
        BY DEF RowsTyped, RunRow
      <4> QED
        BY <1>2, <1>3, <2>1, <2>2, <4>1
    <3>2. reports'[runs[r].base].sections = reports[runs[r].base].sections
      BY <1>4, <3>1
    <3> QED
      BY <1>3, <1>5, <1>10, <2>2, <3>1, <3>2
  <2>3. CASE p # r
    <3>1. /\ reports'[p].base = reports[p].base /\ reports[p].base = runs[p].base
          /\ reports[p].base \in Runs \ {r}
      <4>1. reports[p].base = runs[p].base /\ runs[p].base \in Runs \cup {NoRun}
            /\ reports'[p].base = reports[p].base
        BY <1>4, <2>1, <2>3 DEF StoredOnce, Stored, RowsTyped, RunRow
      <4> QED
        BY <1>2, <2>1, <4>1
    <3>2. /\ reports'[reports[p].base].sections = reports[reports[p].base].sections
          /\ reports'[p].sections = reports[p].sections /\ runs'[p] = runs[p]
      BY <1>4, <1>5, <2>3, <3>1
    <3> QED
      BY <1>1, <3>1, <3>2 DEF Sound, RefreshKeepsOtherSections
  <2> QED
    BY <2>2, <2>3
<1>13. InvalidatedHasSuccessor'
  <2>1. SUFFICES ASSUME NEW b \in Runs, reports'[b].status = "invalidated"
                 PROVE  \E p \in Runs : /\ reports'[p].base = b
                                        /\ reports'[p].revision > reports'[b].revision
    BY DEF InvalidatedHasSuccessor
  <2>2. b # r
    BY <1>3, <2>1
  <2>3. CASE b = runs[r].base
    <3>1. reports[b].revision < NextRevision(r) /\ work[r].seen.revision = NextRevision(r)
      BY <1>1, <2>2, NextRevisionIs DEF Serialized, Reading
    <3>2. reports[b].revision \in Nat /\ NextRevision(r) \in Nat
      BY NextRevisionIs DEF StoredTyped, Report
    <3> QED
      BY <1>3, <1>4, <2>2, <2>3, <3>1, <3>2
  <2>4. CASE b # runs[r].base
    <3>1. reports[b].status = "invalidated"
      BY <1>4, <2>1, <2>2, <2>4
    <3>2. PICK p \in Runs : reports[p].base = b /\ reports[p].revision > reports[b].revision
      BY <3>1 DEF Sound, InvalidatedHasSuccessor
    <3>3. p # r
      BY <1>1, <1>2, <3>2
    <3> QED
      BY <1>4, <2>2, <3>2, <3>3
  <2> QED
    BY <2>3, <2>4
<1>14. RejectedClaimsAreNotStored'
  <2>1. SUFFICES ASSUME NEW c \in claims', work'[c.id[1]].decision = "reject"
                 PROVE  c.text \notin Low /\ c.evidence \cap Suspicious = {}
    BY DEF RejectedClaimsAreNotStored
  <2>2. CASE c \in claims
    <3>1. c.id[1] \in Runs \ {r}
      BY <1>2, <2>2 DEF StoredTyped, Row, ClaimIds
    <3> QED
      BY <1>5, <2>1, <2>2, <3>1 DEF Sound, RejectedClaimsAreNotStored
  <2>3. ASSUME NEW i \in DOMAIN work[r].claims, c = ClaimRow(r, i)
        PROVE  c.text \notin Low /\ c.evidence \cap Suspicious = {}
    <3>1. c.id[1] = r /\ c.text = work[r].claims[i].text /\ c.evidence = work[r].claims[i].evidence
      BY <1>7, <2>3
    <3>2. Accepted(work[r].claims[i])
      BY <1>1, <1>6, <2>1, <3>1 DEF Decided, Committing
    <3> QED
      BY <3>1, <3>2 DEF Accepted
  <2> QED
    BY <1>7, <2>2, <2>3
<1>15. EvidenceIsInScope'
  <2>1. SUFFICES ASSUME NEW c \in claims', runs'[c.id[1]].scope # {}
                 PROVE  c.evidence \subseteq runs'[c.id[1]].scope
    BY DEF EvidenceIsInScope
  <2>2. CASE c \in claims
    <3>1. c.id[1] \in Runs \ {r}
      BY <1>2, <2>2 DEF StoredTyped, Row, ClaimIds
    <3> QED
      BY <1>5, <2>1, <2>2, <3>1 DEF Sound, EvidenceIsInScope
  <2>3. ASSUME NEW i \in DOMAIN work[r].claims, c = ClaimRow(r, i)
        PROVE  c.evidence \subseteq runs'[c.id[1]].scope
    <3>1. c.id[1] = r /\ c.evidence = work[r].claims[i].evidence
      BY <1>7, <2>3
    <3> QED
      BY <1>5, <1>9, <2>1, <3>1 DEF InScope
  <2> QED
    BY <1>7, <2>2, <2>3
<1>16. RelationsJoinReconciledClaims'
  <2>1. SUFFICES ASSUME NEW l \in relations', work'[l.run].decision # "reject"
                 PROVE  \E c, d \in claims' :
                          /\ c.id = <<l.run, l.source>> /\ d.id = <<l.run, l.target>>
                          /\ <<c.question, d.question>> \in work'[l.run].links
    BY DEF RelationsJoinReconciledClaims
  <2>2. CASE l \in relations
    <3>1. l.run \in Runs \ {r}
      BY <1>2, <2>2 DEF StoredTyped, Link
    <3>2. work'[l.run] = work[l.run]
      BY <1>5, <3>1
    <3>3. PICK c, d \in claims : /\ c.id = <<l.run, l.source>> /\ d.id = <<l.run, l.target>>
                                 /\ <<c.question, d.question>> \in work[l.run].links
      BY <2>1, <2>2, <3>2 DEF Sound, RelationsJoinReconciledClaims
    <3> QED
      BY <1>7, <3>2, <3>3
  <2>3. ASSUME NEW m \in work[r].links, l.run = r, l.source = m[1], l.target = m[2]
        PROVE  \E c, d \in claims' :
                 /\ c.id = <<l.run, l.source>> /\ d.id = <<l.run, l.target>>
                 /\ <<c.question, d.question>> \in work'[l.run].links
    <3>1. m[1] \in DOMAIN work[r].claims /\ m[2] \in DOMAIN work[r].claims /\ m = <<m[1], m[2]>>
      <4>1. m \in Numbers \X Numbers
        BY <1>1 DEF Work
      <4>2. {m[1], m[2]} \ DOMAIN work[r].claims = {}
        <5>1. "relation" \notin Obstacles(r)
          BY <1>1
        <5> QED
          BY <5>1 DEF Obstacles
      <4> QED
        BY <4>1, <4>2
    <3>2. work[r].claims[m[1]].question = m[1] /\ work[r].claims[m[2]].question = m[2]
      BY <1>1, <1>6, <2>1, <2>3, <3>1 DEF Drafted
    <3>3. /\ ClaimRow(r, m[1]) \in claims' /\ ClaimRow(r, m[2]) \in claims'
          /\ ClaimRow(r, m[1]).id = <<l.run, l.source>>
          /\ ClaimRow(r, m[2]).id = <<l.run, l.target>>
          /\ ClaimRow(r, m[1]).question = m[1] /\ ClaimRow(r, m[2]).question = m[2]
      BY <1>7, <2>3, <3>1, <3>2
    <3>4. <<ClaimRow(r, m[1]).question, ClaimRow(r, m[2]).question>> \in work'[l.run].links
      BY <1>6, <2>3, <3>1, <3>3
    <3> QED
      BY <3>3, <3>4
  <2> QED
    BY <1>8, <2>2, <2>3
<1> QED
  BY <1>11, <1>12, <1>13, <1>14, <1>15, <1>16 DEF Sound

LEMMA SoundStep ==
  ASSUME RowsTyped, StoredTyped, WorkTyped, Phases, Serialized, Grounded, StoredOnce, Sound,
         [Next]_vars
  PROVE  Sound'
<1>1. CASE UNCHANGED vars
  BY <1>1, SoundKept DEF vars
<1>2. CASE ApiStep
  <2>1. UNCHANGED <<claims, relations, reports>>
    BY <1>2, ApiStores
  <2>2. \A p \in Runs : reports[p].status # "none" =>
          /\ runs'[p] = runs[p]
          /\ work'[p].decision = work[p].decision /\ work'[p].links = work[p].links
    BY <1>2, PublishedKept
  <2> QED
    BY <2>1, <2>2, SoundKept
<1>3. ASSUME NEW r \in Runs, GraphStep(r) PROVE Sound'
  <2>1. UNCHANGED <<claims, relations, reports>>
    BY <1>3, NothingStored
  <2>2. \A p \in Runs : reports[p].status # "none" =>
          /\ runs'[p] = runs[p]
          /\ work'[p].decision = work[p].decision /\ work'[p].links = work[p].links
    BY <1>3, PublishedKept
  <2> QED
    BY <2>1, <2>2, SoundKept
<1>4. ASSUME NEW r \in Runs, WriteReport(r) PROVE Sound'
  BY <1>4, WriteSound
<1> QED
  BY <1>1, <1>2, <1>3, <1>4, NextIs

-----------------------------------------------------------------------------
(* The invariant.                                                          *)

LEMMA InitInv == Init => IInv
<1> SUFFICES ASSUME Init PROVE IInv
  OBVIOUS
<1>1. RowsTyped /\ StoredTyped /\ WorkTyped
  BY InitTyped
<1>2. /\ \A r \in Runs \ {First} :
           runs[r] = Unrequested /\ work[r] = NoWork /\ reports[r] = NoReport
      /\ runs[First] = [Unrequested EXCEPT !.kind = "evidence_review", !.status = "succeeded"]
      /\ work[First] = [NoWork EXCEPT !.pc = "end"]
      /\ reports[First] = [status |-> "published", base |-> NoRun, revision |-> 1,
                           sections |-> [s \in Sections |-> {<<First, FirstReport[s]>>}]]
      /\ relations = {} /\ lock = NoRun /\ First \in Runs /\ NoRun \notin Runs
  BY ReviewAssumption DEF Init
<1>3. \A r \in Runs :
        /\ runs[r].scope = {} /\ runs[r].base = NoRun /\ runs[r].error = "none"
        /\ runs[r].kind = IF r = First THEN "evidence_review" ELSE "none"
        /\ runs[r].status = IF r = First THEN "succeeded" ELSE "none"
  <2>1. /\ runs[First].scope = {} /\ runs[First].base = NoRun /\ runs[First].error = "none"
        /\ runs[First].kind = "evidence_review" /\ runs[First].status = "succeeded"
    BY <1>2 DEF Unrequested
  <2>2. \A r \in Runs \ {First} :
          /\ runs[r].scope = {} /\ runs[r].base = NoRun /\ runs[r].error = "none"
          /\ runs[r].kind = "none" /\ runs[r].status = "none"
    BY <1>2 DEF Unrequested
  <2> QED
    BY <2>1, <2>2
<1>4. \A r \in Runs :
        /\ work[r].pc = IF r = First THEN "end" ELSE "idle"
        /\ DOMAIN work[r].batches = {} /\ DOMAIN work[r].claims = {}
        /\ DOMAIN work[r].sections = {} /\ work[r].decision = "none"
  BY <1>2 DEF NoWork
<1>5. /\ \A r \in Runs \ {First} :
           reports[r].status = "none" /\ DOMAIN reports[r].sections = {}
      /\ reports[First].status = "published"
      /\ \A r \in Runs : reports[r].base = NoRun
      /\ reports[First].sections = [s \in Sections |-> {<<First, FirstReport[s]>>}]
  BY <1>2 DEF NoReport
<1>6. \A c \in claims : \E i \in DOMAIN FirstClaims :
        c.id = <<First, i>> /\ c.evidence = FirstClaims[i].sources
  BY DEF Init
<1>7. \A i \in DOMAIN FirstClaims : \E c \in claims :
        c.id = <<First, i>> /\ c.evidence = FirstClaims[i].sources
  <2> DEFINE row(i) == [id |-> <<First, i>>, text |-> FirstClaims[i].text,
                        evidence |-> FirstClaims[i].sources, question |-> i, version |-> 1]
  <2>1. \A i \in DOMAIN FirstClaims : row(i) \in claims
    BY DEF Init
  <2>2. \A i \in DOMAIN FirstClaims :
          row(i).id = <<First, i>> /\ row(i).evidence = FirstClaims[i].sources
    OBVIOUS
  <2> HIDE DEF row
  <2> QED
    BY <2>1, <2>2
<1>8. \A i \in DOMAIN FirstClaims : FirstClaims[i].sources # {}
  <2>1. Answers[First] \subseteq Extract
    BY <1>2, AnswersAre
  <2>2. \A i \in DOMAIN FirstClaims : FirstClaims[i] \in Answers[First]
    BY ReviewAssumption
  <2> QED
    BY <2>1, <2>2 DEF Extract
<1>9. Phases
  BY <1>2, <1>3, <1>4, <1>5 DEF Phases, Phase
<1>10. Serialized
  BY <1>2, <1>4 DEF Serialized, Reading
<1>11. Grounded
  BY <1>4 DEF Grounded, Extracted, Drafted, Decided, Written, Committing
<1>12. StoredOnce
  <2>1. DOMAIN reports[First].sections # {}
    BY <1>5, ReviewAssumption
  <2>2. \A c \in claims : reports[c.id[1]].status # "none" /\ c.evidence # {}
    BY <1>5, <1>6, <1>8
  <2> QED
    BY <1>2, <1>3, <1>5, <2>1, <2>2 DEF StoredOnce, Stored
<1>13. CommitsNeverCollide
  BY <1>3 DEF CommitsNeverCollide
<1>14. Sound
  <2>1. SectionsCiteStoredClaims
    <3>1. \A s \in Sections : FirstReport[s] \in DOMAIN FirstClaims
      BY ReviewAssumption
    <3>2. \A s \in Sections : \E c \in claims :
            c.id = <<First, FirstReport[s]>> /\ c.evidence # {}
      BY <1>7, <1>8, <3>1
    <3>3. /\ DOMAIN reports[First].sections = Sections
          /\ \A s \in Sections : reports[First].sections[s] = {<<First, FirstReport[s]>>}
      BY <1>5
    <3>4. \A r \in Runs : r # First => DOMAIN reports[r].sections = {}
      BY <1>5
    <3> QED
      <4>1. SUFFICES ASSUME NEW r \in Runs, NEW s \in DOMAIN reports[r].sections
                     PROVE  /\ reports[r].sections[s] # {}
                            /\ \A id \in reports[r].sections[s] :
                                 \E c \in claims : c.id = id /\ c.evidence # {}
        BY DEF SectionsCiteStoredClaims
      <4>2. r = First /\ s \in Sections
        BY <3>3, <3>4
      <4>3. reports[r].sections[s] = {<<First, FirstReport[s]>>}
        BY <3>3, <4>2
      <4>4. \E c \in claims : c.id = <<First, FirstReport[s]>> /\ c.evidence # {}
        BY <3>2, <4>2
      <4> QED
        BY <4>3, <4>4
  <2>2. RefreshKeepsOtherSections /\ InvalidatedHasSuccessor
    BY <1>5 DEF RefreshKeepsOtherSections, InvalidatedHasSuccessor
  <2>3. RejectedClaimsAreNotStored /\ EvidenceIsInScope
    BY <1>2, <1>3, <1>4, <1>6 DEF RejectedClaimsAreNotStored, EvidenceIsInScope
  <2> QED
    BY <1>2, <2>1, <2>2, <2>3 DEF Sound, RelationsJoinReconciledClaims
<1> QED
  BY <1>1, <1>9, <1>10, <1>11, <1>12, <1>13, <1>14 DEF IInv

LEMMA InvStep == IInv /\ [Next]_vars => IInv'
BY RowsStep, StoredStep, WorkStep, PhasesStep, SerializedStep, GroundedStep, StoredOnceStep,
   CollideStep, SoundStep DEF IInv

LEMMA Invariance == Spec => []IInv
BY InitInv, InvStep, PTL DEF Spec

LEMMA InvIsTyped == IInv => TypeOK
<1> SUFFICES ASSUME IInv PROVE TypeOK
  OBVIOUS
<1>1. RowsTyped /\ StoredTyped /\ WorkTyped /\ Phases /\ Serialized /\ Grounded /\ NoRun \notin Runs
  BY ReviewAssumption DEF IInv
<1>2. docs \in [Docs -> {"ready", "deleting", "gone"}]
  BY <1>1 DEF RowsTyped
<1>3. lock # NoRun => work[lock].pc = "writing"
  BY <1>1 DEF Serialized
<1>4. ASSUME NEW r \in Runs
      PROVE  runs[r] \in [kind : {"none", "evidence_review", "report_refresh"},
                          base : Runs \cup {NoRun}, impacted : SUBSET Sections,
                          scope : SUBSET Docs, policy : {"strict", "balanced"},
                          status : {"none", "pending", "running", "waiting_human"} \cup Ended,
                          error : {"none", "node", "evidence", "relation", "unique"}]
  <2>1. runs[r] \in RunRow
    BY <1>1 DEF RowsTyped
  <2> QED
    BY <2>1 DEF RunRow, Kinds, Active
<1>5. \A r \in Runs :
        runs[r].kind = "report_refresh" => runs[r].impacted # {} /\ runs[r].base # NoRun
  BY <1>1 DEF Phases, Phase
<1>6. ASSUME NEW r \in Runs
      PROVE  /\ work[r].links \subseteq Numbers \X Numbers
             /\ DOMAIN work[r].sections \subseteq Sections
  <2>1. work[r].links \in SUBSET (Numbers \X Numbers) /\ work[r].sections \in Keyed(Numbers)
    BY <1>1 DEF WorkTyped, Work
  <2> QED
    BY <2>1, KeyedFacts
<1>7. ASSUME NEW r \in Runs, NEW s \in DOMAIN reports[r].sections
      PROVE  reports[r].sections[s] \subseteq Runs \X Numbers
  <2>1. reports[r].sections \in Keyed(SUBSET ClaimIds)
    BY <1>1 DEF StoredTyped, Report
  <2>2. reports[r].sections[s] \in SUBSET ClaimIds
    BY <2>1, KeyedFacts
  <2> QED
    BY <2>2 DEF ClaimIds, Numbers
<1>8. \A r \in Runs : \A q \in DOMAIN work[r].batches :
        work[r].batches[q] \in Answers[r] \cup {NoClaim}
  BY <1>1 DEF WorkTyped
<1>9. \A r \in Runs : \A s \in DOMAIN work[r].sections :
        work[r].sections[s] \in DOMAIN work[r].claims
  BY <1>1 DEF Grounded, Written
<1> QED
  BY <1>2, <1>3, <1>4, <1>5, <1>6, <1>7, <1>8, <1>9 DEF TypeOK

-----------------------------------------------------------------------------
(* The theorems.                                                           *)

\* No commit of a project takes a revision or a claim version that another run
\* has taken: the advisory lock is held from the reading of the largest ones to
\* the end of the transaction (workflow_commit.py), so that the unique
\* constraints never fail a run.
THEOREM CommitsUnique == Spec => []CommitsNeverCollide
<1>1. IInv => CommitsNeverCollide
  BY DEF IInv
<1> QED
  BY <1>1, Invariance, PTL

\* Sections cite stored claims with evidence, an invalidated report has a
\* successor, what a person rejects is not stored, evidence keeps to the
\* documents of the request, and relations join the claims compared.
THEOREM ReportsSound == Spec => []ReportsAreSound
<1>1. IInv => ReportsAreSound
  BY InvIsTyped DEF IInv, Sound, ReportsAreSound
<1> QED
  BY <1>1, Invariance, PTL

\* A refresh rewrites the impacted sections from its own claims and carries all
\* others over from its base unchanged, through any number of refreshes.
THEOREM RefreshKeeps == Spec => []RefreshKeepsOtherSections
<1>1. IInv => RefreshKeepsOtherSections
  BY DEF IInv, Sound
<1> QED
  BY <1>1, Invariance, PTL

\* A committed report keeps its revision, its sections and its claims, whatever
\* is committed, retried or removed after it; only its status may change, to
\* invalidated.
THEOREM ReportsStay == Spec => ReportsAreImmutable
<1> DEFINE Kept(p) == /\ reports'[p] \in {reports[p], [reports[p] EXCEPT !.status = "invalidated"]}
                      /\ {c \in claims' : c.id[1] = p} = {c \in claims : c.id[1] = p}
<1>1. IInv /\ Next => \A p \in Runs : reports[p].status # "none" => Kept(p)
  <2>1. SUFFICES ASSUME IInv, Next, NEW p \in Runs, reports[p].status # "none" PROVE Kept(p)
    OBVIOUS
  <2>2. RowsTyped /\ StoredTyped /\ WorkTyped /\ Phases /\ StoredOnce
    BY <2>1 DEF IInv
  <2>3. CASE UNCHANGED <<claims, reports>>
    BY <2>3
  <2>4. ASSUME NEW r \in Runs, WriteReport(r) PROVE Kept(p)
    <3>1. reports[r].status = "none"
      BY <2>2, <2>4, FirstWrite DEF WriteReport
    <3>2. p # r
      BY <2>1, <3>1
    <3>3. reports'[p] \in {reports[p], [reports[p] EXCEPT !.status = "invalidated"]}
      <4>1. reports'[p] = IF p = runs[r].base THEN [reports[p] EXCEPT !.status = "invalidated"]
                          ELSE reports[p]
        BY <2>4, <3>2 DEF WriteReport, WithReport
      <4> QED
        BY <4>1
    <3>4. \A c \in claims' : c.id[1] = p => c \in claims
      BY <2>2, <2>4, <3>2, RowsLeft
    <3>5. \A c \in claims : c.id[1] = p => c \in claims'
      BY <2>2, <2>4, <3>2, RowsLeft
    <3> QED
      BY <3>3, <3>4, <3>5
  <2> HIDE DEF Kept
  <2>5. CASE ApiStep
    BY <2>3, <2>5, ApiStores
  <2>6. ASSUME NEW r \in Runs, GraphStep(r) PROVE Kept(p)
    BY <2>3, <2>6, NothingStored
  <2> QED
    BY <2>1, <2>4, <2>5, <2>6, NextIs
<1>2. IInv /\ [Next]_vars =>
        [\A r \in Runs : reports[r].status # "none" =>
           /\ reports'[r] \in {reports[r], [reports[r] EXCEPT !.status = "invalidated"]}
           /\ {c \in claims' : c.id[1] = r} = {c \in claims : c.id[1] = r}]_vars
  BY <1>1
<1> QED
  BY <1>2, Invariance, PTL DEF Spec, ReportsAreImmutable
=============================================================================
