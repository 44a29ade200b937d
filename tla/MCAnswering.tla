---------------------------- MODULE MCAnswering ----------------------------
(* Two documents: d1, in the conversation, with a chunk that has a vector and
   one that has none; d3, outside it and still being ingested; one Wiki page
   made of both chunks of d1; one Web page. *)
EXTENDS Answering, TLC
CONSTANTS d1, d3, dense1, light1, other1, page, site
MCDocs == {d1, d3}
MCConversationDocs == {d1}
MCIngesting == {d3}
MCRaw == {dense1, light1, other1}
MCLight == {light1}
MCWiki == {page}
MCWeb == {site}
MCDocOf == (dense1 :> d1) @@ (light1 :> d1) @@ (other1 :> d3)
MCTokens == (dense1 :> 2) @@ (light1 :> 2) @@ (other1 :> 1) @@ (page :> 1) @@ (site :> 1)
MCProvenance == (page :> {dense1, light1})
=============================================================================
