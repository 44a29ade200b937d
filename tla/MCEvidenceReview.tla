-------------------------- MODULE MCEvidenceReview --------------------------
(* The first report has a section for each document; two more runs, each a
   review or a refresh of any report there is. *)
EXTENDS EvidenceReview, TLC
CONSTANTS r0, r1, r2, d1, d2
MCRuns == {r0, r1, r2}
MCDocs == {d1, d2}
Answer(text, sources) == [text |-> text, sources |-> sources]
MCAnswers == (r0 :> {Answer("sure", {d1}), Answer("sure", {d2})})
  @@ (r1 :> {Answer("sure", {d1}), Answer("unsure", {d2})})
  @@ (r2 :> {Answer("sure", {d1})})
MCScopes == {{}, {d1}}
MCLinks == (r0 :> {}) @@ (r1 :> {<<2, 1>>}) @@ (r2 :> {})
MCFirstClaims == <<Answer("sure", {d1}), Answer("sure", {d2})>>
MCFirstReport == ("s1" :> 1) @@ ("s2" :> 2)
=============================================================================
