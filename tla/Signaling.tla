------------------------------ MODULE Signaling ------------------------------
(***************************************************************************)
(* The signaling link of a client: WebSocketSession with its write queue,  *)
(* the list WebSocketManager keeps, and the callbacks Coordinator installs *)
(* between the socket and the peer connection.                             *)
(*                                                                         *)
(* The completion handlers of a socket run on the io thread, one at a      *)
(* time.  The RTC library reports local descriptions and candidates on a   *)
(* thread of its own, which locks the WebSocketSession for a moment and    *)
(* posts the message to the io thread.  Every outstanding operation of the *)
(* socket holds a reference to the WebSocketSession, and so does that      *)
(* thread; the last one to go takes the peer with it.                      *)
(*                                                                         *)
(* A signaling message is a number: 0 is session_created and n is the n-th *)
(* message posted for the session.                                         *)
(***************************************************************************)
EXTENDS Integers, Sequences

CONSTANTS
  Session,    \* the sockets that upgrade, one per WebRtc::Session
  MaxRtc      \* bound on the messages the RTC library reports for a session

ASSUME MaxRtcAssumption == MaxRtc \in Nat

VARIABLES
  created,        \* sessions attached so far
  registered,     \* keys of PeerConnectionManager::sessions_
  sessions,       \* WebSocketManager::sessions_
  accepting,      \* sessions with an async_accept outstanding
  reading,        \* sessions with an async_read outstanding
  writing,        \* number of async_writes outstanding
  isWriting,      \* sessions whose is_writing_ is set
  isDisconnected, \* sessions whose is_disconnected_ is set
  queue,          \* WebSocketSession::write_queue_
  wire,           \* messages written to the connection
  down,           \* sessions whose connection has ended
  described,      \* sessions whose peer has a remote description to answer
  rtc,            \* where the RTC thread is in its callback for a session
  posted,         \* messages posted to the io thread and not yet handled
  reported        \* number of messages posted so far

socketVars == <<accepting, reading, writing, isWriting, isDisconnected, queue, wire>>
tableVars  == <<created, registered, sessions>>
rtcVars    == <<rtc, posted, reported>>
vars == <<socketVars, tableVars, rtcVars, down, described>>

TypeOK ==
  /\ created \subseteq Session /\ registered \subseteq created /\ sessions \subseteq created
  /\ accepting \subseteq created /\ reading \subseteq created
  /\ isWriting \subseteq created /\ isDisconnected \subseteq created
  /\ down \subseteq created /\ described \subseteq created
  /\ writing \in [Session -> Nat]
  /\ queue \in [Session -> Seq(0..MaxRtc)]
  /\ wire \in [Session -> Seq(0..MaxRtc)]
  /\ posted \in [Session -> Seq(0..MaxRtc)]
  /\ rtc \in [Session -> {"idle", "locked", "posted"}]
  /\ reported \in [Session -> 0..MaxRtc]

Init ==
  /\ created = {} /\ registered = {} /\ sessions = {}
  /\ accepting = {} /\ reading = {} /\ isWriting = {} /\ isDisconnected = {}
  /\ down = {} /\ described = {}
  /\ writing = [s \in Session |-> 0]
  /\ queue = [s \in Session |-> <<>>]
  /\ wire = [s \in Session |-> <<>>]
  /\ posted = [s \in Session |-> <<>>]
  /\ rtc = [s \in Session |-> "idle"]
  /\ reported = [s \in Session |-> 0]

(* Some shared_ptr<WebSocketSession> to s exists. *)
Held(s) ==
  \/ s \in sessions \cup accepting \cup reading
  \/ writing[s] > 0
  \/ rtc[s] # "idle"

-----------------------------------------------------------------------------
(* What the handlers call. *)

(* Mutant: every message is written at once. *)
WriteAtOnce(s, m) ==
  /\ queue' = [queue EXCEPT ![s] = Append(@, m)]
  /\ writing' = [writing EXCEPT ![s] = @ + 1]
  /\ isWriting' = isWriting \cup {s}

(* WebSocketSession::write: a message is queued, and written if no other is. *)
Write(s, m) ==
  /\ queue' = [queue EXCEPT ![s] = Append(@, m)]
  /\ isWriting' = isWriting \cup {s}
  /\ writing' = [writing EXCEPT ![s] = IF s \in isWriting THEN @ ELSE @ + 1]

(* Mutants: detach forgets the list of sockets, or the peer. *)
DisconnectKeepingSocket(s) ==
  /\ isDisconnected' = isDisconnected \cup {s}
  /\ registered' = registered \ {s}
  /\ UNCHANGED sessions

DisconnectKeepingPeer(s) ==
  /\ isDisconnected' = isDisconnected \cup {s}
  /\ sessions' = sessions \ {s}
  /\ UNCHANGED registered

(* WebSocketSession::disconnect and Coordinator::detach: the first time, the
   session leaves both tables. *)
Disconnect(s) ==
  /\ isDisconnected' = isDisconnected \cup {s}
  /\ IF s \in isDisconnected
       THEN UNCHANGED <<registered, sessions>>
       ELSE registered' = registered \ {s} /\ sessions' = sessions \ {s}

-----------------------------------------------------------------------------
(* The io thread. *)

(* Coordinator::attatch, up to the async_accept of WebSocketSession::start. *)
Attach(s) ==
  /\ s \notin created
  /\ created' = created \cup {s}
  /\ registered' = registered \cup {s}
  /\ sessions' = sessions \cup {s}
  /\ accepting' = accepting \cup {s}
  /\ UNCHANGED <<reading, writing, isWriting, isDisconnected, queue, wire, rtcVars, down, described>>

(* Mutant: the bare id is sent instead of the session_created message. *)
AcceptedSendingId(s) ==
  /\ s \in accepting
  /\ accepting' = accepting \ {s}
  /\ Write(s, s)
  /\ reading' = reading \cup {s}
  /\ UNCHANGED <<isDisconnected, wire, tableVars, rtcVars, down, described>>

(* The handshake is done: session_created is written, then reading starts. *)
Accepted(s) ==
  /\ s \in accepting
  /\ accepting' = accepting \ {s}
  /\ Write(s, 0)
  /\ reading' = reading \cup {s}
  /\ UNCHANGED <<isDisconnected, wire, tableVars, rtcVars, down, described>>

(* The handshake failed, for the client's request or for the connection. *)
AcceptFailed(s) ==
  /\ s \in accepting
  /\ accepting' = accepting \ {s}
  /\ Disconnect(s)
  /\ UNCHANGED <<created, reading, writing, isWriting, queue, wire, rtcVars, down, described>>

(* Mutant: a handled description ends the reading. *)
ReadDescriptionOnce(s) ==
  /\ s \in reading
  /\ described' = described \cup {s}
  /\ reading' = reading \ {s}
  /\ UNCHANGED <<accepting, writing, isWriting, isDisconnected, queue, wire, tableVars, rtcVars, down>>

(* An offer arrives and is applied; the next read starts.  A candidate, a
   description that is rejected and a message that does not parse change
   nothing here. *)
ReadDescription(s) ==
  /\ s \in reading
  /\ described' = described \cup {s}
  /\ UNCHANGED <<socketVars, tableVars, rtcVars, down>>

(* A read ends with the connection, in order or with an error. *)
ReadFailed(s) ==
  /\ s \in reading \cap down
  /\ reading' = reading \ {s}
  /\ Disconnect(s)
  /\ UNCHANGED <<created, accepting, writing, isWriting, queue, wire, rtcVars, down, described>>

(* Mutants: the message is not removed from the queue, or the next one is not
   written and is_writing_ stays set. *)
WrittenKept(s) ==
  /\ writing[s] > 0
  /\ wire' = [wire EXCEPT ![s] = Append(@, Head(queue[s]))]
  /\ UNCHANGED <<queue, writing, isWriting, accepting, reading, isDisconnected>>
  /\ UNCHANGED <<tableVars, rtcVars, down, described>>

WrittenStuck(s) ==
  /\ writing[s] > 0
  /\ wire' = [wire EXCEPT ![s] = Append(@, Head(queue[s]))]
  /\ queue' = [queue EXCEPT ![s] = Tail(@)]
  /\ writing' = [writing EXCEPT ![s] = @ - 1]
  /\ UNCHANGED <<isWriting, accepting, reading, isDisconnected, tableVars, rtcVars, down, described>>

(* The write of the first message in the queue has completed. *)
Written(s) ==
  /\ writing[s] > 0
  /\ wire' = [wire EXCEPT ![s] = Append(@, Head(queue[s]))]
  /\ queue' = [queue EXCEPT ![s] = Tail(@)]
  /\ IF Len(queue[s]) > 1
       THEN UNCHANGED <<writing, isWriting>>
       ELSE writing' = [writing EXCEPT ![s] = @ - 1] /\ isWriting' = isWriting \ {s}
  /\ UNCHANGED <<accepting, reading, isDisconnected, tableVars, rtcVars, down, described>>

(* The write failed; is_writing_ stays set, and the queue as it is. *)
WriteFailed(s) ==
  /\ writing[s] > 0
  /\ s \in down
  /\ writing' = [writing EXCEPT ![s] = @ - 1]
  /\ Disconnect(s)
  /\ UNCHANGED <<created, accepting, reading, isWriting, queue, wire, rtcVars, down, described>>

(* The io thread gets to the oldest posted message; the weak pointer it came
   with may have expired. *)
RunPosted(s) ==
  /\ posted[s] # <<>>
  /\ posted' = [posted EXCEPT ![s] = Tail(@)]
  /\ IF Held(s) THEN Write(s, Head(posted[s])) ELSE UNCHANGED <<queue, writing, isWriting>>
  /\ UNCHANGED <<accepting, reading, isDisconnected, wire, tableVars, rtc, reported, down, described>>

-----------------------------------------------------------------------------
(* The thread of the RTC library: the callbacks of configure_peer_connection. *)

RtcLock(s) ==
  /\ s \in described
  /\ rtc[s] = "idle"
  /\ reported[s] < MaxRtc
  /\ Held(s)
  /\ rtc' = [rtc EXCEPT ![s] = "locked"]
  /\ UNCHANGED <<socketVars, tableVars, posted, reported, down, described>>

RtcPost(s) ==
  /\ rtc[s] = "locked"
  /\ rtc' = [rtc EXCEPT ![s] = "posted"]
  /\ reported' = [reported EXCEPT ![s] = @ + 1]
  /\ posted' = [posted EXCEPT ![s] = Append(@, reported'[s])]
  /\ UNCHANGED <<socketVars, tableVars, down, described>>

(* The callback returns, after posting or because the message did not
   serialize, and its reference goes. *)
RtcReturn(s) ==
  /\ rtc[s] # "idle"
  /\ rtc' = [rtc EXCEPT ![s] = "idle"]
  /\ UNCHANGED <<socketVars, tableVars, posted, reported, down, described>>

-----------------------------------------------------------------------------
(* External: the connection ends, for whatever reason. *)
ConnectionEnds(s) ==
  /\ s \in created \ down
  /\ down' = down \cup {s}
  /\ UNCHANGED <<socketVars, tableVars, rtcVars, described>>

Handshake(s)   == Accepted(s) \/ AcceptFailed(s)
WriteHandler(s) == Written(s) \/ WriteFailed(s)
RtcThread(s)   == RtcPost(s) \/ RtcReturn(s)

Next ==
  \E s \in Session :
    \/ Attach(s) \/ Handshake(s) \/ ReadDescription(s) \/ ReadFailed(s) \/ WriteHandler(s)
    \/ RunPosted(s) \/ RtcLock(s) \/ RtcThread(s) \/ ConnectionEnds(s)

Spec == Init /\ [][Next]_vars

(* An accept and a write complete one way or the other, a read of a connection
   that has ended fails, the io thread gets to what is posted, and an RTC
   callback returns.  Clients need not connect, send or leave, and the RTC
   library need not report anything. *)
Fairness ==
  \A s \in Session :
    /\ WF_vars(Handshake(s)) /\ WF_vars(WriteHandler(s)) /\ WF_vars(ReadFailed(s))
    /\ WF_vars(RunPosted(s)) /\ WF_vars(RtcThread(s))

FairSpec == Spec /\ Fairness
-----------------------------------------------------------------------------
(* Properties. *)

(* The stream never has two writes outstanding, which Beast forbids, although
   messages come from the handshake, from posts and from completed writes. *)
OneWriteAtATime == \A s \in Session : writing[s] <= 1

(* What the client receives starts with session_created and goes on with the
   messages of the RTC library, in the order they were posted, none missing
   and none twice, although two threads and a queue are between them. *)
WireInOrder == \A s \in Session : \A i \in 1..Len(wire[s]) : wire[s][i] = i - 1

(* A session that can be called has an operation outstanding on its socket that
   will notice the end of the connection: no peer stays registered because
   nobody is left to detach it. *)
EndIsNoticed == registered \subseteq accepting \cup reading

(* A message that was posted reaches the connection, unless the socket
   disconnects first. *)
PostedIsWritten ==
  \A s \in Session : \A m \in 1..MaxRtc :
    (reported[s] >= m) ~> (Len(wire[s]) > m \/ s \in isDisconnected)

(* When the connection of a client has ended, its WebSocketSession goes, and
   the peer with it: nothing keeps the two alive in a circle. *)
EndedIsReleased == \A s \in Session : (s \in down) ~> ~Held(s)

(* The lifetime of a session that Bridges builds on. *)
Lifetime == INSTANCE Lifetimes WITH wsRef <- {s \in Session : Held(s)}

ImplementsLifetimes == Lifetime!Spec
-----------------------------------------------------------------------------
(* The inductive invariant behind the safety properties. *)

(* Both tables know the same sessions, none of which has disconnected. *)
TablesAgree ==
  /\ registered = sessions
  /\ isDisconnected \cap registered = {}

(* Until the handshake is done nothing else happens to a session. *)
Untouched(s) ==
  /\ s \notin reading \cup isWriting \cup described
  /\ writing[s] = 0 /\ rtc[s] = "idle" /\ reported[s] = 0
  /\ queue[s] = <<>> /\ wire[s] = <<>> /\ posted[s] = <<>>

HandshakeFirst == \A s \in Session : s \notin created \/ s \in accepting => Untouched(s)

(* A write is outstanding only for the first message of a queue in use. *)
QueueInUse == \A s \in Session : writing[s] = 1 => s \in isWriting /\ queue[s] # <<>>

(* The bound on messages is looked at before the callback posts. *)
WithinBound == \A s \in Session : rtc[s] = "locked" => reported[s] < MaxRtc

(* The messages lie in order along posted, queue and wire, and none is lost as
   long as the WebSocketSession exists. *)
InOrder ==
  \A s \in Session :
    /\ \A i \in 1..Len(queue[s]) : queue[s][i] = Len(wire[s]) - 1 + i
    /\ \A i \in 1..Len(posted[s]) : posted[s][i] = reported[s] - Len(posted[s]) + i
    /\ s \in created \ accepting /\ Held(s) =>
         Len(wire[s]) + Len(queue[s]) + Len(posted[s]) = reported[s] + 1

SignalingInv ==
  /\ TypeOK
  /\ TablesAgree
  /\ EndIsNoticed
  /\ HandshakeFirst
  /\ QueueInUse
  /\ WithinBound
  /\ OneWriteAtATime
  /\ WireInOrder
  /\ InOrder
=============================================================================
