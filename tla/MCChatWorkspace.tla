-------------------------- MODULE MCChatWorkspace --------------------------
(* One tab of the web client and the API it talks to, for TLC. *)
EXTENDS ChatWorkspace
=============================================================================
