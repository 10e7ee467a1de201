------------------------------ MODULE Lifetimes ------------------------------
(***************************************************************************)
(* How long a WebRtc::Session exists, as the rest of the backend sees it:  *)
(* it is created and registered when its WebSocket is attached, taken off  *)
(* the register once when the socket disconnects, and gone some time after *)
(* that.  Signaling implements it, and Bridges relies on it.               *)
(***************************************************************************)
CONSTANT Session

VARIABLES
  created,      \* sessions whose id has been handed out
  registered,   \* sessions PeerConnectionManager finds
  wsRef         \* sessions a live WebSocketSession refers to

vars == <<created, registered, wsRef>>

Init == created = {} /\ registered = {} /\ wsRef = {}

Attach(s) ==
  /\ s \notin created
  /\ created' = created \cup {s}
  /\ registered' = registered \cup {s}
  /\ wsRef' = wsRef \cup {s}

(* The handler that detaches may hold the last reference itself. *)
Detach(s) ==
  /\ s \in registered
  /\ registered' = registered \ {s}
  /\ wsRef' \in {wsRef, wsRef \ {s}}
  /\ UNCHANGED created

Release(s) ==
  /\ s \in wsRef \ registered
  /\ wsRef' = wsRef \ {s}
  /\ UNCHANGED <<created, registered>>

Next == \E s \in Session : Attach(s) \/ Detach(s) \/ Release(s)

Spec == Init /\ [][Next]_vars
=============================================================================
