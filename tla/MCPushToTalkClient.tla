-------------------------- MODULE MCPushToTalkClient --------------------------
EXTENDS PushToTalkClient, TLC

(* Bridges are told apart only by when they open. *)
Interchangeable == Permutations(Bridge)
=============================================================================
