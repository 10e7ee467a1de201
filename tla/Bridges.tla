------------------------------- MODULE Bridges -------------------------------
(***************************************************************************)
(* The bridging core of the backend: PeerConnectionManager, BridgeManager, *)
(* Bridge, the audio callback of WebRtc::Session, and the lifetimes that   *)
(* Coordinator and WebSocketSession give a Session.                        *)
(*                                                                         *)
(* Two kinds of threads run.  One io thread executes every HTTP and        *)
(* WebSocket handler, one at a time (main.cpp: io_context.run()).  The RTC *)
(* library delivers the audio of each session on a thread of its own.  A   *)
(* handler of the io thread is therefore atomic with respect to the other  *)
(* handlers, but not with respect to audio: create_bridge and              *)
(* remove_bridge are split at each Session::on_audio call.                 *)
(*                                                                         *)
(* External (the RTC library): the callback of a track runs under a lock   *)
(* of the track, and replacing the callback takes the same lock, so        *)
(* on_audio waits for the frame that is being delivered.                   *)
(***************************************************************************)
EXTENDS Naturals

CONSTANTS
  Session,    \* identifiers of WebRtc::Session objects (fresh UUIDs)
  Bridge,     \* identifiers of Bridge objects (fresh UUIDs)
  None        \* an expired-for-good weak pointer, an absent map entry, an empty callback

ASSUME NoneAssumption == None \notin Session /\ None \notin Bridge

VARIABLES
  created,      \* sessions whose id has been handed out
  registered,   \* keys of PeerConnectionManager::sessions_
  wsRef,        \* sessions a live WebSocketSession still refers to (on_message_ capture)
  made,         \* bridges whose id has been handed out
  first,        \* Bridge::first_, a weak pointer
  second,       \* Bridge::second_, a weak pointer
  entry,        \* BridgeManager::bridges_by_session_
  route,        \* the weak target of each session's audio callback
  sending,      \* the target locked by the audio callback now running for a session
  op,           \* what the io thread is in the middle of
  cur           \* the bridge it is doing it to

lifeVars   == <<created, registered, wsRef>>
bridgeVars == <<made, first, second>>
vars == <<created, registered, wsRef, made, first, second, entry, route, sending, op, cur>>

TypeOK ==
  /\ created \subseteq Session
  /\ registered \subseteq created
  /\ wsRef \subseteq created
  /\ made \subseteq Bridge
  /\ first \in [Bridge -> Session \cup {None}]
  /\ second \in [Bridge -> Session \cup {None}]
  /\ entry \in [Session -> Bridge \cup {None}]
  /\ route \in [Session -> Session \cup {None}]
  /\ sending \in [Session -> Session \cup {None}]
  /\ op \in {"idle", "connect first", "connect second", "disconnect first", "disconnect second"}
  /\ cur \in Bridge \cup {None}

Init ==
  /\ created = {} /\ registered = {} /\ wsRef = {}
  /\ made = {}
  /\ first = [b \in Bridge |-> None] /\ second = [b \in Bridge |-> None]
  /\ entry = [s \in Session |-> None]
  /\ route = [s \in Session |-> None]
  /\ sending = [s \in Session |-> None]
  /\ op = "idle" /\ cur = None

-----------------------------------------------------------------------------
(* Lifetimes. *)

(* Mutant: a Bridge that held shared pointers would keep its ends alive. *)
AliveByBridge(s) ==
  \/ s \in wsRef
  \/ \E r \in Session : sending[r] = s
  \/ \E b \in Bridge : first[b] = s \/ second[b] = s

(* Some shared_ptr<Session> to s exists: the WebSocketSession holds one, and so
   does an audio callback between target.lock() and the end of send_audio. *)
Alive(s) == s \in wsRef \/ \E r \in Session : sending[r] = s

(* A weak pointer that can still be locked. *)
Lockable(w) == w # None /\ Alive(w)

Active(b) == Lockable(first[b]) /\ Lockable(second[b])

(* The session has a directory entry whose bridge is active. *)
Busy(s) == entry[s] # None /\ Active(entry[s])

(* Coordinator::attatch: the session is created and registered, and the
   WebSocketSession that serves it holds a reference in its callbacks. *)
Attach(s) ==
  /\ op = "idle"
  /\ s \notin created
  /\ created' = created \cup {s}
  /\ registered' = registered \cup {s}
  /\ wsRef' = wsRef \cup {s}
  /\ UNCHANGED <<bridgeVars, entry, route, sending, op, cur>>

(* Coordinator::detach, called once by WebSocketSession::disconnect.  Bridges
   and the directory are not told. *)
Detach(s) ==
  /\ op = "idle"
  /\ s \in registered
  /\ registered' = registered \ {s}
  /\ UNCHANGED <<created, wsRef, bridgeVars, entry, route, sending, op, cur>>

(* Mutant: the object of a socket that is still connected is dropped. *)
ReleaseConnected(s) ==
  /\ s \in wsRef
  /\ wsRef' = wsRef \ {s}
  /\ UNCHANGED <<created, registered, bridgeVars, entry, route, sending, op, cur>>

(* The last reference to the disconnected WebSocketSession is dropped, by a
   pending operation that completes or by an RTC thread that was posting a
   message, and the object goes with its reference to the session. *)
Release(s) ==
  /\ s \in wsRef \ registered
  /\ wsRef' = wsRef \ {s}
  /\ UNCHANGED <<created, registered, bridgeVars, entry, route, sending, op, cur>>

-----------------------------------------------------------------------------
(* BridgeManager::create_bridge.  A request that names one session twice, a
   session that is not registered, or a first session that is busy is refused
   without any change of state. *)

(* Mutant: a session may call itself. *)
CanBridgeWithItself(s, t) ==
  /\ op = "idle"
  /\ s \in registered /\ t \in registered
  /\ ~Busy(s)

CanBridge(s, t) ==
  /\ op = "idle"
  /\ s # t
  /\ s \in registered /\ t \in registered
  /\ ~Busy(s)

(* The second session is busy: the request is refused, but the stale entry of
   the first one has been erased by then. *)
RefuseBusyTarget(s, t) ==
  /\ CanBridge(s, t)
  /\ Busy(t)
  /\ entry' = [entry EXCEPT ![s] = None]
  /\ UNCHANGED <<lifeVars, bridgeVars, route, sending, op, cur>>

(* Mutant: only the first session is asked whether it is busy. *)
CreateBridgeToBusy(s, t, b) ==
  /\ CanBridge(s, t)
  /\ b \notin made
  /\ entry' = [entry EXCEPT ![s] = None, ![t] = None]
  /\ made' = made \cup {b}
  /\ first' = [first EXCEPT ![b] = s]
  /\ second' = [second EXCEPT ![b] = t]
  /\ op' = "connect first" /\ cur' = b
  /\ UNCHANGED <<lifeVars, route, sending>>

(* Both are free: stale entries are erased and the Bridge is constructed. *)
CreateBridge(s, t, b) ==
  /\ CanBridge(s, t)
  /\ ~Busy(t)
  /\ b \notin made
  /\ entry' = [entry EXCEPT ![s] = None, ![t] = None]
  /\ made' = made \cup {b}
  /\ first' = [first EXCEPT ![b] = s]
  /\ second' = [second EXCEPT ![b] = t]
  /\ op' = "connect first" /\ cur' = b
  /\ UNCHANGED <<lifeVars, route, sending>>

(* Bridge::connect, first direction; on_audio waits for a frame in delivery. *)
ConnectFirst ==
  /\ op = "connect first"
  /\ sending[first[cur]] = None
  /\ route' = [route EXCEPT ![first[cur]] = second[cur]]
  /\ op' = "connect second"
  /\ UNCHANGED <<lifeVars, bridgeVars, entry, sending, cur>>

(* Mutants: the directory lists the partner instead of the bridge, or only the
   session that asked for the bridge. *)
ConnectSecondListingPartner ==
  /\ op = "connect second"
  /\ sending[second[cur]] = None
  /\ route' = [route EXCEPT ![second[cur]] = first[cur]]
  /\ entry' = [entry EXCEPT ![first[cur]] = second[cur], ![second[cur]] = first[cur]]
  /\ op' = "idle" /\ cur' = None
  /\ UNCHANGED <<lifeVars, bridgeVars, sending>>

ConnectSecondListingOne ==
  /\ op = "connect second"
  /\ sending[second[cur]] = None
  /\ route' = [route EXCEPT ![second[cur]] = first[cur]]
  /\ entry' = [entry EXCEPT ![first[cur]] = cur]
  /\ op' = "idle" /\ cur' = None
  /\ UNCHANGED <<lifeVars, bridgeVars, sending>>

(* Bridge::connect, second direction, then both entries are emplaced. *)
ConnectSecond ==
  /\ op = "connect second"
  /\ sending[second[cur]] = None
  /\ route' = [route EXCEPT ![second[cur]] = first[cur]]
  /\ entry' = [entry EXCEPT ![first[cur]] = cur, ![second[cur]] = cur]
  /\ op' = "idle" /\ cur' = None
  /\ UNCHANGED <<lifeVars, bridgeVars, sending>>

-----------------------------------------------------------------------------
(* BridgeManager::remove_bridge.  An id no entry holds is answered 404 without
   any change of state. *)

Erased(b) == [s \in Session |-> IF entry[s] = b THEN None ELSE entry[s]]

(* Both ends have expired: Bridge::disconnect returns at once. *)
RemoveDead(b) ==
  /\ op = "idle"
  /\ \E s \in Session : entry[s] = b
  /\ ~Lockable(first[b]) /\ ~Lockable(second[b])
  /\ entry' = Erased(b)
  /\ UNCHANGED <<lifeVars, bridgeVars, route, sending, op, cur>>

RemoveBridge(b) ==
  /\ op = "idle"
  /\ \E s \in Session : entry[s] = b
  /\ Lockable(first[b]) \/ Lockable(second[b])
  /\ op' = "disconnect first" /\ cur' = b
  /\ UNCHANGED <<lifeVars, bridgeVars, entry, route, sending>>

(* Mutant: the callback is replaced under a frame in delivery. *)
SilenceUnderFrame(w) ==
  \/ Lockable(w) /\ route' = [route EXCEPT ![w] = None]
  \/ ~Lockable(w) /\ UNCHANGED route

(* An end that is still there gets an empty callback; on_audio waits for a
   frame in delivery. *)
Silence(w) ==
  \/ Lockable(w) /\ sending[w] = None /\ route' = [route EXCEPT ![w] = None]
  \/ ~Lockable(w) /\ UNCHANGED route

DisconnectFirst ==
  /\ op = "disconnect first"
  /\ Silence(first[cur])
  /\ op' = "disconnect second"
  /\ UNCHANGED <<lifeVars, bridgeVars, entry, sending, cur>>

(* Mutant: the weak pointers are not reset, so the bridge stays active. *)
DisconnectSecondStaysActive ==
  /\ op = "disconnect second"
  /\ Silence(second[cur])
  /\ entry' = Erased(cur)
  /\ op' = "idle" /\ cur' = None
  /\ UNCHANGED <<lifeVars, bridgeVars, sending>>

(* The second end, the reset of both weak pointers and the erase of every
   entry of the bridge. *)
DisconnectSecond ==
  /\ op = "disconnect second"
  /\ Silence(second[cur])
  /\ first' = [first EXCEPT ![cur] = None]
  /\ second' = [second EXCEPT ![cur] = None]
  /\ entry' = Erased(cur)
  /\ op' = "idle" /\ cur' = None
  /\ UNCHANGED <<lifeVars, made, sending>>

-----------------------------------------------------------------------------
(* The audio callback of session s, on the thread of its track. *)

(* target.lock(); a frame whose target is gone, or that meets an empty
   callback (std::bad_function_call), is dropped. *)
Receive(s) ==
  /\ Alive(s)
  /\ sending[s] = None
  /\ Lockable(route[s])
  /\ sending' = [sending EXCEPT ![s] = route[s]]
  /\ UNCHANGED <<lifeVars, bridgeVars, entry, route, op, cur>>

(* Mutant: send_audio waits for the io thread. *)
FinishSendWhenIdle(s) ==
  /\ op = "idle"
  /\ sending[s] # None
  /\ sending' = [sending EXCEPT ![s] = None]
  /\ UNCHANGED <<lifeVars, bridgeVars, entry, route, op, cur>>

(* send_audio returns and the locked reference goes; it may be the last one. *)
FinishSend(s) ==
  /\ sending[s] # None
  /\ sending' = [sending EXCEPT ![s] = None]
  /\ UNCHANGED <<lifeVars, bridgeVars, entry, route, op, cur>>

-----------------------------------------------------------------------------
Sockets   == \E s \in Session : Attach(s) \/ Detach(s) \/ Release(s)
Requests  == \/ \E s, t \in Session : RefuseBusyTarget(s, t) \/ \E b \in Bridge : CreateBridge(s, t, b)
             \/ \E b \in Bridge : RemoveDead(b) \/ RemoveBridge(b)
Callbacks == ConnectFirst \/ ConnectSecond \/ DisconnectFirst \/ DisconnectSecond
Audio     == \E s \in Session : Receive(s) \/ FinishSend(s)

Next == Sockets \/ Requests \/ Callbacks \/ Audio

Spec == Init /\ [][Next]_vars

(* The io thread finishes the handler it is in: the callback lock it waits for
   is free most of the time (a frame every 20 ms), though it may be taken again
   before the thread gets it, hence strong fairness.  An audio callback
   returns, and so do the pending operations of a disconnected socket.
   Nothing forces a client to connect, leave, call or hang up. *)
Fairness ==
  /\ SF_vars(Callbacks)
  /\ \A s \in Session : WF_vars(FinishSend(s)) /\ WF_vars(Release(s))

FairSpec == Spec /\ Fairness
-----------------------------------------------------------------------------
(* Properties. *)

Connecting(b)    == cur = b /\ op \in {"connect first", "connect second"}
Settled(b)       == Active(b) /\ cur # b
EndOf(s, b)      == s = first[b] \/ s = second[b]
Between(s, t, b) == \/ first[b] = s /\ second[b] = t
                    \/ first[b] = t /\ second[b] = s

(* A session is never in two active bridges, although the directory that
   create_bridge consults may hold stale entries, may have had its entry erased
   by a refused request, and is written only after both callbacks are set. *)
OneCallPerSession ==
  \A b1, b2 \in Bridge : \A s \in Session :
    Active(b1) /\ Active(b2) /\ EndOf(s, b1) /\ EndOf(s, b2) => b1 = b2

(* Both ends of an active bridge are listed under it, so that session_status
   answers both with the same bridge and either can hang up. *)
DirectoryAgrees ==
  \A b \in Bridge :
    Active(b) /\ ~Connecting(b) => entry[first[b]] = b /\ entry[second[b]] = b

(* A frame on its way to a session comes from its partner in an active bridge:
   nothing said in one call is heard in another, nor after a hang-up has been
   answered, although the audio threads run through all of it. *)
CallPrivacy ==
  \A s \in Session :
    sending[s] # None /\ Alive(s) =>
      \E b \in Bridge : Active(b) /\ Between(s, sending[s], b)

(* As long as no session has ever left, the two ends of an active bridge that
   is not being set up or taken down hear each other. *)
HeardWhileNobodyLeft ==
  created = registered =>
    \A b \in Bridge :
      Settled(b) => route[first[b]] = second[b] /\ route[second[b]] = first[b]

(* The user interface tells the source of an active bridge "The destination is
   connected and can hear this session" (CallControls.tsx): both ends of an
   active bridge hear each other.  remove_bridge on an older bridge of one end,
   whose other end has gone, breaks it: Bridge::disconnect empties the callback
   the newer bridge has installed. *)
ConnectedMeansHeard ==
  op = "idle" =>
    \A b \in Bridge :
      Settled(b) => route[first[b]] = second[b] /\ route[second[b]] = first[b]

(* A call of two sessions whose sockets are still connected ends only by a
   remove_bridge of that very bridge, whatever happens to other sessions and to
   older bridges of the two. *)
CallEndsOnlyByHangUpOrLeaving ==
  [][\A b \in Bridge :
       Active(b) /\ first[b] \in registered /\ second[b] \in registered /\ ~Active(b)'
         => op = "disconnect second" /\ cur = b]_vars

(* What the clients are promised (Calls): the active bridges are the calls and
   the live routes are who hears whom. *)
callRel  == {p \in Session \X Session : \E b \in Bridge : Active(b) /\ Between(p[1], p[2], b)}
hearsRel == {p \in Session \X Session : route[p[1]] = p[2] /\ Alive(p[1]) /\ Alive(p[2])}

Promise == INSTANCE Calls WITH call <- callRel, hears <- hearsRel

(* Every step of the implementation is a step, or no step, of Calls. *)
ImplementsCalls == Promise!Spec

(* The io thread never stays in a handler waiting for a callback lock. *)
HandlersFinish == (op # "idle") ~> (op = "idle")

(* When one end's socket has disconnected its bridge stops being active, so the
   other end does not stay busy for ever although nobody tells the directory. *)
PartnerIsFreed ==
  \A b \in Bridge : \A s \in Session :
    (Active(b) /\ EndOf(s, b) /\ s \notin registered) ~> ~Active(b)
-----------------------------------------------------------------------------
(* The inductive invariant behind the safety properties: what the io thread
   relies on between two of its steps. *)

(* A registered session is kept by its WebSocketSession, and callbacks only join
   sessions that were once created. *)
LifetimesAgree ==
  /\ registered \subseteq wsRef
  /\ \A s \in Session : route[s] # None => s \in created /\ route[s] \in created

(* The callback lock: the frame in delivery goes where the callback points. *)
InFlightFollowsRoute == \A s \in Session : sending[s] # None => route[s] = sending[s]

(* A bridge has two different ends or none. *)
BridgeShape ==
  \A b \in Bridge :
    /\ first[b] = None <=> second[b] = None
    /\ first[b] # None =>
         b \in made /\ first[b] # second[b] /\ first[b] \in created /\ second[b] \in created

(* A directory entry, stale or not, leads to a bridge of that session that has
   not been disconnected. *)
EntryShape ==
  \A s \in Session : entry[s] # None => first[entry[s]] # None /\ EndOf(s, entry[s])

(* What holds in the middle of create_bridge and remove_bridge. *)
HandlerState ==
  /\ op = "idle" <=> cur = None
  /\ cur # None => first[cur] # None
  /\ op \in {"connect first", "connect second"} =>
       /\ first[cur] \in registered /\ second[cur] \in registered
       /\ entry[first[cur]] = None /\ entry[second[cur]] = None
  /\ op = "connect second" => route[first[cur]] = second[cur]
  /\ op = "disconnect second" /\ Lockable(first[cur]) => route[first[cur]] = None

(* A route between two sessions that exist belongs to a bridge of the two. *)
RoutesInBridges ==
  \A s, t \in Session :
    route[s] = t /\ Alive(s) /\ Alive(t) => \E b \in Bridge : Between(s, t, b)

(* The strengthening that every step preserves. *)
BridgeInv ==
  /\ TypeOK
  /\ LifetimesAgree
  /\ InFlightFollowsRoute
  /\ BridgeShape
  /\ EntryShape
  /\ HandlerState
  /\ DirectoryAgrees
  /\ RoutesInBridges
  /\ HeardWhileNobodyLeft
=============================================================================
