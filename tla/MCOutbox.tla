------------------------------ MODULE MCOutbox ------------------------------
(* Small instances of Outbox: two dispatchers overlapping during a deploy. *)
EXTENDS Outbox

CONSTANTS e1, e2, d1, d2

TwoEvents == {e1, e2}
TwoDispatchers == {d1, d2}
OnlySecond == {e2}
=============================================================================
