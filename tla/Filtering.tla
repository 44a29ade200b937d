----------------------------- MODULE Filtering -----------------------------
(***************************************************************************)
(* The elements of a sequence that are in a set, in their order: what a    *)
(* filter of the code keeps of a list, named by the set rather than by a   *)
(* test, so that facts about it can be stated for every filter.            *)
(***************************************************************************)
EXTENDS Sequences, SequencesExt

Keep(s, K) == FoldLeft(LAMBDA kept, e : IF e \in K THEN Append(kept, e) ELSE kept, <<>>, s)
=============================================================================
