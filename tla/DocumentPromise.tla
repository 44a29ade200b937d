--------------------------- MODULE DocumentPromise ---------------------------
(***************************************************************************)
(* What the life cycle of a document promises its readers, with no jobs,   *)
(* leases or workers in it.  A document is prepared, as often as that      *)
(* takes, and is offered only when it is whole.  While it is offered it    *)
(* stays as it is until it is withdrawn, as failed or deleted.  A deleted  *)
(* document stays deleted, what is kept of it only shrinks, and once it    *)
(* has been reported as erased nothing is kept of it again.                *)
(***************************************************************************)
VARIABLES shown,  \* what a reader is told of it
          kept,   \* which of its rows and its object are stored
          whole,  \* whether all that queries need is stored
          erased  \* has its deletion been reported as done

Parts == {"rows", "object"}

Init ==
  /\ shown = "waiting"
  /\ kept = {}
  /\ whole = FALSE
  /\ erased = FALSE

\* Rows that are stored stay; an upload may still be rejected.
Prepare ==
  /\ shown \in {"waiting", "processing", "failed"}
  /\ shown' \in {shown, "processing"}
  /\ kept' \subseteq Parts /\ kept \subseteq kept' \cup {"object"}
  /\ whole' \in BOOLEAN /\ (whole' => kept' = Parts)
  /\ UNCHANGED erased

Offer ==
  /\ shown = "processing" /\ whole
  /\ shown' = "offered"
  /\ UNCHANGED <<kept, whole, erased>>

Withdraw ==
  /\ shown # "deleted"
  /\ shown' \in {"failed", "deleted"}
  /\ UNCHANGED <<kept, whole, erased>>

Clear ==
  /\ shown = "deleted" /\ ~erased
  /\ kept' \subseteq kept
  /\ whole' \in BOOLEAN /\ (whole' => kept' = Parts)
  /\ erased' \in BOOLEAN /\ (erased' => kept' = {})
  /\ UNCHANGED shown

Next == Prepare \/ Offer \/ Withdraw \/ Clear

Spec == Init /\ [][Next]_<<shown, kept, whole, erased>>
=============================================================================
