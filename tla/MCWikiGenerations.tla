------------------------- MODULE MCWikiGenerations -------------------------
(* Three names, of which b is an alias of a or has a page of its own, as the
   model reads the documents; d2 first gives a fragment without a source. *)
EXTENDS WikiGenerations, TLC
CONSTANTS d1, d2, d3, w1, w2
MCDocs == {d1, d2, d3}
MCWorkers == {w1, w2}
MCNames == {"a", "b", "y"}
Entity(name, also) == [title |-> name, aliases |-> also]
Claim(subject, object) == [subject |-> subject, object |-> object]
Fragment(cites, entities, claims, relations) ==
  [cites |-> cites, entities |-> entities, claims |-> claims, relations |-> relations]
MCFragments ==
  (d1 :> {<<Fragment({0}, <<Entity("a", {}), Entity("b", {"y"}), Entity("a", {"b"})>>,
                     {Claim("b", 1), Claim("a", 1)}, {<<"a", "b">>})>>})
  @@ (d2 :> {<<Fragment({1}, <<Entity("b", {"a"})>>, {}, {}),
               Fragment({0}, <<Entity("y", {})>>, {Claim("y", 2)}, {})>>})
  @@ (d3 :> {<<Fragment({0}, <<Entity("b", {})>>, {Claim("b", 2), Claim("y", 1)}, {<<"b", "a">>})>>})
MCSimilar == {<<"y", "a">>, <<"y", "b">>}
WorkerSymmetry == Permutations(MCWorkers)
=============================================================================
