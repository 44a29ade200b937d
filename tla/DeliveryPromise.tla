--------------------------- MODULE DeliveryPromise ---------------------------
(***************************************************************************)
(* What the outbox promises the API: a committed intent is owed until a    *)
(* copy of its task has reached the queue, it is settled once and for all  *)
(* and only after such a copy exists, and the copies are bounded.  Copies  *)
(* may follow the settlement: delivery is at least once, not exactly once. *)
(***************************************************************************)
EXTENDS Naturals

CONSTANTS Intents, MaxCopies

VARIABLES stage, copies

Init ==
  /\ stage = [i \in Intents |-> "none"]
  /\ copies = [i \in Intents |-> 0]

Commit(i) ==
  /\ stage[i] = "none"
  /\ stage' = [stage EXCEPT ![i] = "owed"]
  /\ UNCHANGED copies

Deliver(i) ==
  /\ stage[i] # "none"
  /\ copies[i] < MaxCopies
  /\ copies' = [copies EXCEPT ![i] = @ + 1]
  /\ UNCHANGED stage

Settle(i) ==
  /\ stage[i] = "owed"
  /\ copies[i] > 0
  /\ stage' = [stage EXCEPT ![i] = "settled"]
  /\ UNCHANGED copies

Next == \E i \in Intents : Commit(i) \/ Deliver(i) \/ Settle(i)

Spec == Init /\ [][Next]_<<stage, copies>>
=============================================================================
