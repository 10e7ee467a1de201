------------------------------ MODULE CallClient ------------------------------
(***************************************************************************)
(* The page's side of a call: the buttons of useCallActions, the polling   *)
(* of useSessionStatus, the effects of useCallController that bring the    *)
(* two together, against the call routes of AppRouter.                     *)
(*                                                                         *)
(* The page is one thread, and React commits what a handler has set, and   *)
(* runs the effects, before the next one: an action is a click or an       *)
(* answer with its commit and effects.  What an async function captured    *)
(* stays as it was at the click.  Requests travel on connections of their  *)
(* own: they and their answers may be lost, and overtake each other.       *)
(***************************************************************************)
EXTENDS Naturals

CONSTANTS
  MaxSession,   \* bound on the sessions the page gets, one for each connection of its socket
  MaxBridge     \* bound on the bridges they are an end of

ASSUME BoundsAssumption == MaxSession \in Nat /\ MaxBridge \in Nat

VARIABLES
  session,      \* websocket.sessionId, or 0
  cache,        \* sessionStatus of each session, as react-query keeps it by its key
  polls,        \* the request for the status of each session
  seen,         \* hasSeenActiveBridgeRef
  bridgeId,     \* the store's bridgeId, or 0
  creation,     \* the request of start; isCalling while there is one
  deletion,     \* the request of end; isHangingUp while there is one
  latest,       \* the latest session of the page
  alive,        \* its sessions that the backend has
  bridges       \* the bridges with a session of the page as an end

backend == <<latest, alive, bridges>>
shown   == <<session, cache, seen>>
vars == <<shown, polls, bridgeId, creation, deletion, backend>>

Sessions == 1..MaxSession
Bridges  == 1..MaxBridge

(* SessionStatusResponse, of whose ends the properties know nothing. *)
Inactive == [active |-> FALSE, bridge |-> 0]
Status   == {Inactive} \cup [active : {TRUE}, bridge : Bridges]

(* No request, one on its way, and the answer on its way back. *)
Idle     == [at |-> "idle"]
Poll     == {Idle, [at |-> "sent"]} \cup [at : {"answered"}, status : Status]
Creation == {Idle} \cup [at : {"sent"}, by : Sessions]
              \cup [at : {"created"}, bridge : Bridges]
Deletion == {Idle, [at |-> "done"]} \cup [at : {"sent"}, bridge : Bridges]

(* A bridge is removed by its id; one with an end that left is no longer
   active, but still there to be removed. *)
Unmade == [of |-> 0, state |-> "unmade"]
Bridge == {Unmade} \cup [of : Sessions, state : {"active", "stale", "removed"}]

TypeOK ==
  /\ session \in 0..MaxSession
  /\ cache \in [Sessions -> Status] /\ polls \in [Sessions -> Poll]
  /\ seen \in BOOLEAN
  /\ bridgeId \in 0..MaxBridge
  /\ creation \in Creation /\ deletion \in Deletion
  /\ latest \in 0..MaxSession /\ alive \subseteq 1..latest
  /\ bridges \in [Bridges -> Bridge]

Init ==
  /\ session = 0
  /\ cache = [s \in Sessions |-> Inactive] /\ polls = [s \in Sessions |-> Idle]
  /\ seen = FALSE /\ bridgeId = 0
  /\ creation = Idle /\ deletion = Idle
  /\ latest = 0 /\ alive = {} /\ bridges = [b \in Bridges |-> Unmade]

-----------------------------------------------------------------------------
(* What useCallController computes when it renders. *)

(* No session has no status, which counts as no active bridge. *)
StatusOf(s, c) == IF s = 0 THEN Inactive ELSE c[s]

sessionStatus  == StatusOf(session, cache)
activeBridgeId == IF sessionStatus.active THEN sessionStatus.bridge ELSE bridgeId
isCalling      == creation # Idle
isHangingUp    == deletion # Idle
canCall        == session # 0 /\ ~isCalling /\ activeBridgeId = 0

(* Mutant: a status without a bridge always clears the store. *)
StatusEffectAtOnce(d) ==
  /\ seen' = d.active
  /\ bridgeId' = IF d.active THEN bridgeId ELSE 0

(* Mutant: the store is never cleared. *)
StatusEffectForgetful(d) == seen' = d.active /\ UNCHANGED bridgeId

(* The effect on sessionStatus: the store is cleared when a bridge that has been
   seen is not there any more. *)
StatusEffect(d) ==
  /\ seen' = d.active
  /\ bridgeId' = IF seen /\ ~d.active THEN 0 ELSE bridgeId

(* The page shows the status c has for session s. *)
Show(s, c) ==
  /\ session' = s /\ cache' = c
  /\ StatusEffect(StatusOf(s, c))

-----------------------------------------------------------------------------
(* The buttons: useCallActions.  (What end() and an incoming call do to the
   microphone is among the steps PageConnection has for it.) *)

StartCall ==
  /\ canCall
  /\ creation' = [at |-> "sent", by |-> session]
  /\ UNCHANGED <<shown, polls, bridgeId, deletion, backend>>

CallStarted ==
  /\ creation.at = "created"
  /\ bridgeId' = creation.bridge
  /\ creation' = Idle
  /\ UNCHANGED <<shown, polls, deletion, backend>>

(* The backend refused, or the request or its answer was lost. *)
CallFails ==
  /\ isCalling
  /\ bridgeId' = 0
  /\ creation' = Idle
  /\ UNCHANGED <<shown, polls, deletion, backend>>

(* Mutant: end() without its early return. *)
EndCallAnyway ==
  /\ ~isHangingUp
  /\ deletion' = [at |-> "sent", bridge |-> activeBridgeId]
  /\ UNCHANGED <<shown, polls, bridgeId, creation, backend>>

EndCall ==
  /\ activeBridgeId # 0 /\ ~isHangingUp
  /\ deletion' = [at |-> "sent", bridge |-> activeBridgeId]
  /\ UNCHANGED <<shown, polls, bridgeId, creation, backend>>

CallEnded ==
  /\ deletion.at = "done"
  /\ bridgeId' = 0
  /\ deletion' = Idle
  /\ UNCHANGED <<shown, polls, creation, backend>>

(* As CallFails; the store is left as it is. *)
HangUpFails ==
  /\ isHangingUp
  /\ deletion' = Idle
  /\ UNCHANGED <<shown, polls, bridgeId, creation, backend>>

-----------------------------------------------------------------------------
(* The polling: useSessionStatus.  There is one request at a time for a session,
   sent again a second after the last has settled. *)

(* Mutant: no more polls once a call is active. *)
PollSendsWhileFree ==
  /\ session # 0 /\ polls[session] = Idle /\ ~sessionStatus.active
  /\ polls' = [polls EXCEPT ![session] = [at |-> "sent"]]
  /\ UNCHANGED <<shown, bridgeId, creation, deletion, backend>>

PollSends ==
  /\ session # 0 /\ polls[session] = Idle
  /\ polls' = [polls EXCEPT ![session] = [at |-> "sent"]]
  /\ UNCHANGED <<shown, bridgeId, creation, deletion, backend>>

(* Mutant: the answer is taken for the status of the session of today. *)
PollAnsweredUnkeyed(s) ==
  /\ polls[s].at = "answered"
  /\ polls' = [polls EXCEPT ![s] = Idle]
  /\ Show(session, IF session = 0 THEN cache ELSE [cache EXCEPT ![session] = polls[s].status])
  /\ UNCHANGED <<creation, deletion, backend>>

PollAnswered(s) ==
  /\ polls[s].at = "answered"
  /\ polls' = [polls EXCEPT ![s] = Idle]
  /\ Show(session, [cache EXCEPT ![s] = polls[s].status])
  /\ UNCHANGED <<creation, deletion, backend>>

(* The status that was there is kept. *)
PollFails(s) ==
  /\ polls[s] # Idle
  /\ polls' = [polls EXCEPT ![s] = Idle]
  /\ UNCHANGED <<shown, bridgeId, creation, deletion, backend>>

-----------------------------------------------------------------------------
(* The socket, as PageConnection has it. *)

SessionLost ==
  /\ session # 0
  /\ Show(0, cache)
  /\ UNCHANGED <<polls, creation, deletion, backend>>

SessionCreated ==
  /\ session = 0 /\ latest < MaxSession
  /\ latest' = latest + 1 /\ alive' = alive \cup {latest'}
  /\ Show(latest', cache)
  /\ UNCHANGED <<polls, creation, deletion, bridges>>

-----------------------------------------------------------------------------
(* The backend, one handler at a time.  What it does with bridges is Bridges'
   matter; here they are what the answers say of them. *)

PageOnly == UNCHANGED <<shown, bridgeId>>

Active(b) == bridges[b].state = "active"
Busy(s)   == \E b \in Bridges : Active(b) /\ bridges[b].of = s

(* The next bridge gets session s as an end. *)
Make(b, s) ==
  /\ bridges[b] = Unmade /\ \A c \in 1..(b - 1) : bridges[c] # Unmade
  /\ s \in alive /\ ~Busy(s)
  /\ bridges' = [bridges EXCEPT ![b] = [of |-> s, state |-> "active"]]

(* create_session.  When either session is gone or busy it refuses and changes
   nothing, and CallFails follows. *)
CreateSession ==
  /\ creation.at = "sent"
  /\ \E b \in Bridges : /\ Make(b, creation.by)
                        /\ creation' = [at |-> "created", bridge |-> b]
  /\ UNCHANGED <<polls, deletion, latest, alive>> /\ PageOnly

(* delete_session, which may not find the bridge either. *)
DeleteSession ==
  /\ deletion.at = "sent" /\ bridges[deletion.bridge].state \in {"active", "stale"}
  /\ bridges' = [bridges EXCEPT ![deletion.bridge].state = "removed"]
  /\ deletion' = [at |-> "done"]
  /\ UNCHANGED <<polls, creation, latest, alive>> /\ PageOnly

(* session_status. *)
SessionStatus(s) ==
  /\ polls[s].at = "sent"
  /\ \E d \in Status :
       /\ d.active = Busy(s)
       /\ Busy(s) => Active(d.bridge) /\ bridges[d.bridge].of = s
       /\ polls' = [polls EXCEPT ![s] = [at |-> "answered", status |-> d]]
  /\ UNCHANGED <<creation, deletion, backend>> /\ PageOnly

(* Another page calls a session of this one. *)
IsCalled ==
  /\ \E b \in Bridges, s \in alive : Make(b, s)
  /\ UNCHANGED <<polls, creation, deletion, latest, alive>> /\ PageOnly

(* The other end hangs up, or is gone. *)
OtherEnds(b) ==
  /\ Active(b)
  /\ \E left \in {"removed", "stale"} : bridges' = [bridges EXCEPT ![b].state = left]
  /\ UNCHANGED <<polls, creation, deletion, latest, alive>> /\ PageOnly

(* The backend has noticed that a socket of the page is gone, or has closed it. *)
Detach(s) ==
  /\ s \in alive
  /\ alive' = alive \ {s}
  /\ bridges' = [b \in Bridges |-> IF Active(b) /\ bridges[b].of = s
                                    THEN [bridges[b] EXCEPT !.state = "stale"] ELSE bridges[b]]
  /\ UNCHANGED <<polls, creation, deletion, latest>> /\ PageOnly

-----------------------------------------------------------------------------
User    == StartCall \/ EndCall
Answers == CallStarted \/ CallFails \/ CallEnded \/ HangUpFails
             \/ \E s \in Sessions : PollAnswered(s) \/ PollFails(s)
Routes  == CreateSession \/ DeleteSession \/ \E s \in Sessions : SessionStatus(s)
World   == SessionLost \/ SessionCreated \/ IsCalled
             \/ (\E b \in Bridges : OtherEnds(b)) \/ \E s \in Sessions : Detach(s)

Next == User \/ Answers \/ PollSends \/ Routes \/ World

Spec == Init /\ [][Next]_vars

(* The timer of the polls runs, the backend handles what it gets and its answers
   come.  Single polls may fail, but not all of them. *)
Fairness ==
  /\ WF_vars(PollSends)
  /\ WF_vars(CreateSession \/ CallStarted \/ CallFails)
  /\ WF_vars(DeleteSession \/ CallEnded \/ HangUpFails)
  /\ SF_vars(\E s \in {session} \ {0} : SessionStatus(s))
  /\ SF_vars(\E s \in {session} \ {0} : PollAnswered(s))

FairSpec == Spec /\ Fairness
-----------------------------------------------------------------------------
(* Properties. *)

(* The status the page shows is one of its own session's: an answer to a poll of
   an earlier session, still on its way when the socket reconnected, is not taken
   for it. *)
StatusIsOfSession == sessionStatus.active => bridges[sessionStatus.bridge].of = session

(* A poll that found no call because it was answered before the page's own was
   created does not take that call off the page, and with it the End button and
   the private command.  Only one that has been seen active is taken off, or when
   the hanging up of an earlier one is answered. *)
CreatedCallStays ==
  [][\A b \in Bridges :
       bridgeId = b /\ activeBridgeId = b /\ Active(b) /\ ~seen /\ ~isHangingUp
         => activeBridgeId' = b \/ sessionStatus'.active]_vars

ShowsActive ==
  activeBridgeId # 0 /\ Active(activeBridgeId) /\ bridges[activeBridgeId].of = session

(* A session that stays in calls is shown in one, whoever began it and whatever
   was lost: the page can end it. *)
LiveCallIsShown == (session # 0 /\ Busy(session)) ~> (ShowsActive \/ session = 0 \/ ~Busy(session))

(* A call that a status has brought to the page leaves it for good when it is
   over: neither the store, nor a poll answered before it was over, nor the cache of
   another session brings it back.  The exception is the answer to its creation:
   when it comes after polls have shown the call and its end, it is stored and no
   effect clears the store again. *)
SeenCallIsForgotten ==
  \A b \in Bridges :
    (seen /\ activeBridgeId = b /\ ~Active(b) /\ creation # [at |-> "created", bridge |-> b])
      ~> [](activeBridgeId # b)
=============================================================================
