----------------------------- MODULE MCBridges ------------------------------
(* Instances of Bridges for TLC. *)
EXTENDS Bridges, TLC

Interchangeable == Permutations(Session) \cup Permutations(Bridge)
=============================================================================
