---------------------------- MODULE MCAskRequests ----------------------------
(* Small instances of AskRequests. *)
EXTENDS AskRequests, TLC
CONSTANTS r1, r2, k1, h1, h2, c1
TwoHandlers == {r1, r2}
OneKey == {k1}
OnlyAsk == [k \in OneKey |-> "ask"]
TwoBodies == {h1, h2}
OneConversation == {c1}
Quota == [op \in Operations |-> 1]
=============================================================================
