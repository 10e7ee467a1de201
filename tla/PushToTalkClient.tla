--------------------------- MODULE PushToTalkClient ---------------------------
(***************************************************************************)
(* The page's side of a private command: the effect of usePushToTalk, its  *)
(* requests on their way to the backend and back, and the flag they set.   *)
(*                                                                         *)
(* Each time the bridge or the enabling condition changes, React disposes  *)
(* of the effect and runs it again, with fresh local variables; answers to *)
(* the requests of a disposed effect still run its closures.  Requests     *)
(* travel on connections of their own: the backend gets them, and the page *)
(* gets the answers, in any order, and any of them may be lost.            *)
(***************************************************************************)
EXTENDS Naturals

CONSTANTS
  Bridge,       \* bridges of this session, each open at most once
  None,         \* no bridge: the effect returns early
  MaxEffect,    \* bound on the runs of the effect
  MaxPress      \* bound on the starts it sends; each may be followed by a stop

ASSUME NoneAssumption == None \notin Bridge
ASSUME BoundsAssumption == MaxEffect \in Nat /\ MaxPress \in Nat

VARIABLES
  bridgeOf,    \* the bridge the effect runs for
  run,         \* number of the latest run of the effect, with a bridge or without
  ranFor,      \* the bridge of each run
  pressed,     \* runs whose local variable pressed is set
  started,     \* runs whose local variable started is set
  isPressed,   \* the React state
  requests,    \* requests not yet answered
  presses,     \* number of starts sent
  sent,        \* number of requests sent
  open,        \* the bridge the backend finds for the session, or None
  opened,      \* bridges that are or were open
  flag,        \* Session::is_buffering_command_
  flagBy,      \* history: the bridge of the latest accepted start
  lost,        \* history: a request or an answer was lost
  accepted,    \* history: starts each run has been told were accepted
  stops        \* history: stops each run has sent

pageVars    == <<bridgeOf, run, ranFor, pressed, started, isPressed>>
backendVars == <<open, opened, flag, flagBy>>
vars == <<pageVars, backendVars, requests, presses, sent, lost, accepted, stops>>

Runs       == 1..MaxEffect
MaxRequest == 2 * MaxPress
Request    == [id : 1..MaxRequest, kind : {"start", "stop"}, by : Runs,
               state : {"sent", "accepted", "failed"}]

TypeOK ==
  /\ bridgeOf \in Bridge \cup {None}
  /\ run \in 0..MaxEffect
  /\ ranFor \in [Runs -> Bridge \cup {None}]
  /\ pressed \subseteq Runs /\ started \subseteq Runs
  /\ isPressed \in BOOLEAN
  /\ requests \subseteq Request
  /\ presses \in 0..MaxPress /\ sent \in 0..MaxRequest
  /\ open \in Bridge \cup {None} /\ opened \subseteq Bridge
  /\ flag \in BOOLEAN /\ flagBy \in Bridge \cup {None}
  /\ lost \in BOOLEAN
  /\ accepted \in [Runs -> 0..MaxRequest] /\ stops \in [Runs -> 0..MaxRequest]

Init ==
  /\ bridgeOf = None /\ run = 0 /\ ranFor = [e \in Runs |-> None]
  /\ pressed = {} /\ started = {} /\ isPressed = FALSE
  /\ requests = {} /\ presses = 0 /\ sent = 0
  /\ open = None /\ opened = {} /\ flag = FALSE /\ flagBy = None
  /\ lost = FALSE
  /\ accepted = [e \in Runs |-> 0] /\ stops = [e \in Runs |-> 0]

-----------------------------------------------------------------------------
(* The page. *)

(* The keys matter to the run that is mounted, if it did not return early. *)
Mounted == bridgeOf # None

New(kind, e) == [id |-> sent + 1, kind |-> kind, by |-> e, state |-> "sent"]

(* sendPushToTalkCommand; the answer to q, if any, has been taken. *)
SendStop(e, q) ==
  /\ requests' = (requests \ q) \cup {New("stop", e)}
  /\ sent' = sent + 1
  /\ stops' = [stops EXCEPT ![e] = @ + 1]

(* start(): both keys are down.  A key that is held repeats its event, which
   does nothing while pressed is set. *)
Press ==
  /\ Mounted /\ run \notin pressed
  /\ presses < MaxPress
  /\ presses' = presses + 1
  /\ pressed' = pressed \cup {run}
  /\ isPressed' = TRUE
  /\ requests' = requests \cup {New("start", run)}
  /\ sent' = sent + 1
  /\ UNCHANGED <<bridgeOf, run, ranFor, started, backendVars, lost, accepted, stops>>

(* Mutants: a stop is sent whatever has been acknowledged, started is not
   reset, or the stop is not sent. *)
StopAlways ==
  /\ pressed' = pressed \ {run}
  /\ isPressed' = IF run \in pressed THEN FALSE ELSE isPressed
  /\ started' = IF run \in pressed THEN started \ {run} ELSE started
  /\ IF run \in pressed THEN SendStop(run, {}) ELSE UNCHANGED <<requests, sent, stops>>

StopKeepingStarted ==
  /\ pressed' = pressed \ {run}
  /\ isPressed' = IF run \in pressed THEN FALSE ELSE isPressed
  /\ IF run \in pressed /\ run \in started
       THEN SendStop(run, {})
       ELSE UNCHANGED <<requests, sent, stops>>
  /\ UNCHANGED started

StopUnsent ==
  /\ pressed' = pressed \ {run}
  /\ isPressed' = IF run \in pressed THEN FALSE ELSE isPressed
  /\ started' = IF run \in pressed THEN started \ {run} ELSE started
  /\ UNCHANGED <<requests, sent, stops>>

(* stop(), of the run that is mounted. *)
Stop ==
  /\ pressed' = pressed \ {run}
  /\ isPressed' = IF run \in pressed THEN FALSE ELSE isPressed
  /\ started' = IF run \in pressed THEN started \ {run} ELSE started
  /\ IF run \in pressed /\ run \in started
       THEN SendStop(run, {})
       ELSE UNCHANGED <<requests, sent, stops>>

(* A key goes up, the window loses the focus or is hidden. *)
Release ==
  /\ Mounted /\ run \in pressed
  /\ Stop
  /\ UNCHANGED <<bridgeOf, run, ranFor, backendVars, presses, lost, accepted>>

(* The bridge or the enabling condition has changed: the old run is cleaned
   up and the effect runs again, for a bridge the page has heard of or for
   none. *)
Rerun(b) ==
  /\ run < MaxEffect
  /\ b # bridgeOf
  /\ IF Mounted THEN Stop ELSE UNCHANGED <<pressed, isPressed, started, requests, sent, stops>>
  /\ bridgeOf' = b
  /\ run' = run + 1
  /\ ranFor' = [ranFor EXCEPT ![run + 1] = b]
  /\ UNCHANGED <<backendVars, presses, lost, accepted>>

(* Mutant: the quick release is not completed. *)
StartAcknowledgedOnly(r) ==
  /\ r.kind = "start" /\ r.state = "accepted"
  /\ accepted' = [accepted EXCEPT ![r.by] = @ + 1]
  /\ started' = started \cup {r.by}
  /\ requests' = requests \ {r}
  /\ UNCHANGED <<sent, stops, bridgeOf, run, ranFor, pressed, isPressed, backendVars, presses, lost>>

(* The then-callback of a start.  A release may have happened before the
   answer; its stop is sent now. *)
StartAcknowledged(r) ==
  /\ r.kind = "start" /\ r.state = "accepted"
  /\ accepted' = [accepted EXCEPT ![r.by] = @ + 1]
  /\ \/ /\ r.by \in pressed
        /\ started' = started \cup {r.by}
        /\ requests' = requests \ {r}
        /\ UNCHANGED <<sent, stops>>
     \/ /\ r.by \notin pressed
        /\ started' = started \ {r.by}
        /\ SendStop(r.by, {r})
  /\ UNCHANGED <<bridgeOf, run, ranFor, pressed, isPressed, backendVars, presses, lost>>

(* The catch-callback of a start; a disposed run leaves the state alone. *)
StartFailed(r) ==
  /\ r.kind = "start" /\ r.state = "failed"
  /\ pressed' = pressed \ {r.by}
  /\ isPressed' = IF Mounted /\ r.by = run THEN FALSE ELSE isPressed
  /\ requests' = requests \ {r}
  /\ UNCHANGED <<bridgeOf, run, ranFor, started, backendVars, presses, sent, lost, accepted, stops>>

(* Either answer to a stop; a failure is only shown. *)
StopAnswered(r) ==
  /\ r.kind = "stop" /\ r.state # "sent"
  /\ requests' = requests \ {r}
  /\ UNCHANGED <<pageVars, backendVars, presses, sent, lost, accepted, stops>>

-----------------------------------------------------------------------------
(* The backend: ptt_start and ptt_stop of AppRouter. *)

Answered(r, result) == requests' = (requests \ {r}) \cup {[r EXCEPT !.state = result]}

HandleStart(r) ==
  /\ r.kind = "start" /\ r.state = "sent"
  /\ \/ ranFor[r.by] = open /\ flag' = TRUE /\ flagBy' = open /\ Answered(r, "accepted")
     \/ ranFor[r.by] # open /\ Answered(r, "failed") /\ UNCHANGED <<flag, flagBy>>
  /\ UNCHANGED <<pageVars, open, opened, presses, sent, lost, accepted, stops>>

(* The speech service may fail after the flag has been reset. *)
HandleStop(r) ==
  /\ r.kind = "stop" /\ r.state = "sent"
  /\ \/ ranFor[r.by] = open /\ flag' = FALSE /\ \E a \in {"accepted", "failed"} : Answered(r, a)
     \/ ranFor[r.by] # open /\ Answered(r, "failed") /\ UNCHANGED flag
  /\ UNCHANGED <<pageVars, open, opened, flagBy, presses, sent, lost, accepted, stops>>

(* External: the session enters a call or its call ends. *)
BridgeOpens(b) ==
  /\ open = None /\ b \notin opened
  /\ open' = b /\ opened' = opened \cup {b}
  /\ UNCHANGED <<pageVars, flag, flagBy, requests, presses, sent, lost, accepted, stops>>

BridgeCloses ==
  /\ open # None
  /\ open' = None
  /\ UNCHANGED <<pageVars, opened, flag, flagBy, requests, presses, sent, lost, accepted, stops>>

(* External: a request or its answer is lost. *)
Lose(r) ==
  /\ r.state \in {"sent", "accepted"}
  /\ Answered(r, "failed")
  /\ lost' = TRUE
  /\ UNCHANGED <<pageVars, backendVars, presses, sent, accepted, stops>>

Keys    == Press \/ Release
Effects == \E b \in opened \cup {None} : Rerun(b)
Answers == \E r \in requests : StartAcknowledged(r) \/ StartFailed(r) \/ StopAnswered(r)
Handles == \E r \in requests : HandleStart(r) \/ HandleStop(r)
World   == (\E b \in Bridge : BridgeOpens(b)) \/ BridgeCloses \/ \E r \in requests : Lose(r)

Next == Keys \/ Effects \/ Answers \/ Handles \/ World

Spec == Init /\ [][Next]_vars

(* Every request is handled and every answer comes back, or is lost.  The user
   and the calls do as they please. *)
FairSpec == Spec /\ WF_vars(Answers) /\ WF_vars(Handles)
-----------------------------------------------------------------------------
(* Properties. *)

Quiet == requests = {}

(* A command the backend is buffering has its key down, once every request has
   been answered and none was lost: however keys, answers and reruns of the
   effect interleave, a released key is a stopped command.  Only the end of the
   bridge leaves a command behind. *)
ReleasedIsStopped ==
  Quiet /\ ~lost /\ flag /\ flagBy = open =>
    Mounted /\ run \in pressed /\ bridgeOf = open

(* A run of the effect never sends a stop the backend has not been promised by
   an accepted start: no key event, blur or disposal stops a command twice. *)
StopsMatchStarts ==
  \A e \in Runs : stops[e] + (IF e \in started THEN 1 ELSE 0) <= accepted[e]

(* A key that stays up ends the command in the end. *)
KeyUpStops ==
  <>[](run \notin pressed) => <>[](~flag \/ lost \/ flagBy # open)

(* The page says "Private command active" (MicrophoneControl.tsx) while the key
   is down.  A stop that is still on its way when the key goes down again may
   be handled after the new start: with every request answered and none lost,
   the page says so of a session that is being relayed. *)
HeldMeansPrivate ==
  Quiet /\ ~lost /\ Mounted /\ isPressed /\ bridgeOf = open => flag
=============================================================================
