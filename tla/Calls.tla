-------------------------------- MODULE Calls --------------------------------
(***************************************************************************)
(* What the bridging backend promises its clients, without bridges,        *)
(* directories, threads or object lifetimes.                               *)
(*                                                                         *)
(* Two sessions are either in a call with each other or not; a session is  *)
(* in at most one call; and audio flows from one session to another only   *)
(* inside their call, one direction at a time.                             *)
(***************************************************************************)
CONSTANT Session

VARIABLES
  call,    \* symmetric relation: the pairs of sessions that are in a call
  hears    \* <<s, t>> : what s says is relayed to t

vars == <<call, hears>>

TypeOK ==
  /\ call \subseteq Session \X Session
  /\ hears \subseteq Session \X Session

(* Nobody is in two calls, and nobody is heard outside a call. *)
AtMostOneCall == \A s, t, u \in Session : <<s, t>> \in call /\ <<s, u>> \in call => t = u
HeardInCall   == hears \subseteq call

Init == call = {} /\ hears = {}

InCall(s) == \E t \in Session : <<s, t>> \in call

(* Two free sessions enter a call; nobody hears anybody yet. *)
Begin(s, t) ==
  /\ s # t
  /\ ~InCall(s) /\ ~InCall(t)
  /\ call' = call \cup {<<s, t>>, <<t, s>>}
  /\ UNCHANGED hears

(* One direction of a call comes up. *)
Link(s, t) ==
  /\ <<s, t>> \in call
  /\ hears' = hears \cup {<<s, t>>}
  /\ UNCHANGED call

(* One speaker is no longer heard. *)
Cut(s) ==
  /\ hears' = {h \in hears : h[1] # s}
  /\ UNCHANGED call

(* The call between s and t is over, with both of its directions. *)
End(s, t) ==
  /\ <<s, t>> \in call
  /\ call'  = call  \ {<<s, t>>, <<t, s>>}
  /\ hears' = hears \ {<<s, t>>, <<t, s>>}

Next ==
  \/ \E s, t \in Session : Begin(s, t) \/ Link(s, t) \/ End(s, t)
  \/ \E s \in Session : Cut(s)

Spec == Init /\ [][Next]_vars
=============================================================================
