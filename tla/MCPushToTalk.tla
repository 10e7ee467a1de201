---------------------------- MODULE MCPushToTalk ----------------------------
(* Instances of PushToTalk for TLC. *)
EXTENDS PushToTalk, TLC

Interchangeable == Permutations(Session) \cup Permutations(Bridge)
=============================================================================
