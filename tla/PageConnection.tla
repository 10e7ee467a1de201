---------------------------- MODULE PageConnection ----------------------------
(***************************************************************************)
(* How a page gets, and gets again, its place at the backend: the socket   *)
(* of useBackendWebSocket with its reconnecting, the peer connection that  *)
(* usePeerConnection makes for each connected socket, the chain of         *)
(* connectSignaling that applies one message after the other, and the      *)
(* handler of Coordinator with which the backend answers.                  *)
(*                                                                         *)
(* The page is one thread.  An action is a browser event with the handlers *)
(* it runs, a commit of React with its effects, or the settling of the     *)
(* promise the head of the chain awaits, with all that follows up to the   *)
(* next await.  Sockets are numbered and the session the backend makes for *)
(* a socket has its number.                                                *)
(***************************************************************************)
EXTENDS Naturals, Sequences

CONSTANTS
  MaxReconnect,   \* bound on the times the page opens a socket again
  MaxCandidate,   \* bound on the candidates gathered for a local description
  MaxOffer        \* bound on the offers the backend's library makes of its own in a session

ASSUME BoundsAssumption ==
  MaxReconnect \in Nat /\ MaxCandidate \in Nat /\ MaxOffer \in Nat

VARIABLES
  sock,         \* the state of each socket of the page
  current,      \* socketRef.current, or 0
  first,        \* the first socket of the effect that is mounted
  mounted,      \* the variable active of that effect
  timer,        \* reconnectTimer is set
  status,       \* the React state websocket.status
  session,      \* the React state websocket.sessionId, or 0
  pending,      \* pendingMessagesRef
  mic,          \* useMicrophone has a stream, is starting, or neither
  rendered,     \* status and stream at the last commit, which the effects have seen
  pc,           \* the peer connection of the page with its sender and its chain
  peerStatus,   \* the React state peer.status, as far as it is "failed" or another
  up, down,     \* messages on the connection of the latest open socket
  back          \* the WebRtc::Session at its other end

pageVars == <<current, first, mounted, timer, status, session, pending, mic, rendered, peerStatus>>
vars == <<pageVars, sock, pc, up, down, back>>

MaxSocket == MaxReconnect + 2
Sockets   == 1..MaxSocket
Live      == {"connecting", "open"}

(* The close() of the page makes a socket "closing". *)
SocketState == {"none", "connecting", "open", "closing", "closed"}

Message == [of : Sockets, n : Nat, kind : {"created", "offer", "answer", "candidate", "negotiate"}]
Signal  == [of : Sockets, desc : Nat, kind : {"offer", "answer", "candidate"}]

Peer == [of : 0..MaxSocket, sig : {"stable", "have-local-offer", "have-remote-offer"},
         remote : BOOLEAN, parked : Seq(Nat), chain : Seq(Message), handled : Nat,
         need : BOOLEAN, desc : Nat, gather : 0..MaxCandidate, mic : BOOLEAN, failed : BOOLEAN]

Backend == [id : 0..MaxSocket, sig : {"stable", "have-local-offer"}, remote : BOOLEAN,
            out : Nat, offers : 0..MaxOffer, cands : 0..MaxCandidate,
            applied : SUBSET Nat, lost : SUBSET Nat]

TypeOK ==
  /\ sock \in [Sockets -> SocketState]
  /\ current \in 0..MaxSocket /\ first \in {1, 2}
  /\ mounted \in BOOLEAN /\ timer \in BOOLEAN
  /\ status \in {"connecting", "connected", "disconnected"}
  /\ session \in 0..MaxSocket
  /\ pending \in Seq(Message)
  /\ mic \in {"off", "starting", "on"}
  /\ rendered \in [status : {"connecting", "connected", "disconnected"}, stream : BOOLEAN]
  /\ pc \in Peer
  /\ peerStatus \in {"other", "failed"}
  /\ up \in Seq(Signal) /\ down \in Seq(Message)
  /\ back \in Backend

(* A new RTCPeerConnection of the page: its transceiver sends silence, and the
   browser is to ask for a negotiation.  No peer is the one of socket 0. *)
PeerFor(n, queued) ==
  [of |-> n, sig |-> "stable", remote |-> FALSE, parked |-> <<>>, chain |-> queued, handled |-> 0,
   need |-> n # 0, desc |-> 0, gather |-> 0, mic |-> FALSE, failed |-> FALSE]

NoPeer == PeerFor(0, <<>>)

(* A new session of the backend, which has said session_created. *)
SessionFor(n) ==
  [id |-> n, sig |-> "stable", remote |-> FALSE, out |-> IF n = 0 THEN 0 ELSE 1,
   offers |-> 0, cands |-> 0, applied |-> {}, lost |-> {}]

Unrendered == [status |-> "connecting", stream |-> FALSE]

(* The first socket is connecting.  In development StrictMode (main.tsx) mounts
   the page twice: the first socket was closed by the cleanup, and a second one
   opened. *)
Init ==
  /\ first \in {1, 2} /\ current = first
  /\ sock = [n \in Sockets |-> IF n < first THEN "closing"
                               ELSE IF n = first THEN "connecting" ELSE "none"]
  /\ mounted = TRUE /\ timer = FALSE
  /\ status = "connecting" /\ session = 0 /\ pending = <<>>
  /\ mic = "off" /\ rendered = Unrendered
  /\ pc = NoPeer /\ peerStatus = "other"
  /\ up = <<>> /\ down = <<>> /\ back = SessionFor(0)

-----------------------------------------------------------------------------
(* The socket: useBackendWebSocket. *)

(* Mutant: the handlers of a cleaned-up effect go on. *)
ListensAlways(n) == mounted

(* The events of socket n find their effect still active. *)
Listens(n) == mounted /\ n >= first

(* Mutant: the messages of the last connection stay pending. *)
ConnectKeeping(n) ==
  /\ sock' = [sock EXCEPT ![n] = "connecting"]
  /\ current' = n
  /\ status' = "connecting"
  /\ UNCHANGED pending

(* connect. *)
Connect(n) ==
  /\ sock' = [sock EXCEPT ![n] = "connecting"]
  /\ current' = n
  /\ status' = "connecting"
  /\ pending' = <<>>

(* The backend accepts the socket, makes a session and says so. *)
SocketOpens(n) ==
  /\ sock[n] = "connecting"
  /\ sock' = [sock EXCEPT ![n] = "open"]
  /\ status' = IF Listens(n) THEN "connected" ELSE status
  /\ back' = SessionFor(n)
  /\ down' = <<[of |-> n, n |-> 1, kind |-> "created"]>> /\ up' = <<>>
  /\ UNCHANGED <<current, first, mounted, timer, session, pending, mic, rendered, pc, peerStatus>>

(* Mutant: no reconnect timer. *)
SocketClosesForGood(n) ==
  /\ sock[n] \in {"connecting", "open", "closing"}
  /\ sock' = [sock EXCEPT ![n] = "closed"]
  /\ IF Listens(n)
       THEN /\ current' = 0 /\ status' = "disconnected" /\ session' = 0
            /\ UNCHANGED timer
       ELSE UNCHANGED <<current, status, session, timer>>
  /\ IF n = back.id
       THEN up' = <<>> /\ down' = <<>> /\ back' = SessionFor(0)
       ELSE UNCHANGED <<up, down, back>>
  /\ UNCHANGED <<first, mounted, pending, mic, rendered, pc, peerStatus>>

(* The connection fails, or is closed by either side; the session and what was on
   the connection are gone.  An error event comes in the same task as the close
   event, which overwrites the status it sets. *)
SocketCloses(n) ==
  /\ sock[n] \in {"connecting", "open", "closing"}
  /\ sock' = [sock EXCEPT ![n] = "closed"]
  /\ IF Listens(n)
       THEN /\ current' = 0 /\ status' = "disconnected" /\ session' = 0
            /\ timer' = TRUE
       ELSE UNCHANGED <<current, status, session, timer>>
  /\ IF n = back.id
       THEN up' = <<>> /\ down' = <<>> /\ back' = SessionFor(0)
       ELSE UNCHANGED <<up, down, back>>
  /\ UNCHANGED <<first, mounted, pending, mic, rendered, pc, peerStatus>>

Unused(n) == sock[n] = "none" /\ n <= first + MaxReconnect

(* The timer fires.  Five seconds are long enough for React to have committed
   the disconnected status. *)
Reconnect(n) ==
  /\ timer /\ mounted
  /\ rendered.status = status
  /\ Unused(n) /\ \A m \in 1..(n - 1) : ~Unused(m)
  /\ timer' = FALSE
  /\ Connect(n)
  /\ UNCHANGED <<first, mounted, session, mic, rendered, pc, peerStatus, up, down, back>>

(* A message event: to the listener of the peer if there is one. *)
Deliver ==
  /\ down # <<>> /\ sock[back.id] = "open"
  /\ Listens(back.id)
  /\ down' = Tail(down)
  /\ IF pc.of = 0
       THEN pending' = Append(pending, Head(down)) /\ UNCHANGED pc
       ELSE pc' = [pc EXCEPT !.chain = Append(@, Head(down))] /\ UNCHANGED pending
  /\ session' = IF Head(down).kind = "created" THEN Head(down).of ELSE session
  /\ UNCHANGED <<sock, current, first, mounted, timer, status, mic, rendered, peerStatus, up, back>>

(* The cleanups of the effects; the state of the hooks goes with the page. *)
Unmount ==
  /\ mounted
  /\ mounted' = FALSE /\ timer' = FALSE /\ current' = 0
  /\ sock' = IF current # 0 /\ sock[current] \in Live
               THEN [sock EXCEPT ![current] = "closing"] ELSE sock
  /\ pc' = NoPeer /\ mic' = "off"
  /\ status' = "connecting" /\ session' = 0 /\ pending' = <<>>
  /\ rendered' = Unrendered /\ peerStatus' = "other"
  /\ UNCHANGED <<first, up, down, back>>

-----------------------------------------------------------------------------
(* The peer connection: usePeerConnection. *)

MicrophoneOnly ==
  UNCHANGED <<sock, current, first, mounted, timer, status, session, pending, rendered, pc,
              peerStatus, up, down, back>>

Opening == status = "connected" /\ rendered.status # "connected"
Shown   == [status |-> status, stream |-> mic = "on"]
Closing == status # "connected" /\ rendered.status = "connected"

(* Mutant: the messages that came before the listener are not handed on. *)
AfterPeerEffectUnsubscribed ==
  IF Opening THEN PeerFor(current, <<>>) ELSE IF Closing THEN NoPeer ELSE pc

(* The first effect: a peer for a connected socket, subscribed to its messages;
   its cleanup closes the peer, whose promises then never settle. *)
AfterPeerEffect ==
  IF Opening THEN PeerFor(current, pending) ELSE IF Closing THEN NoPeer ELSE pc

(* React commits and runs the effects whose dependencies have changed: the
   peer's, then the one that replaces the outgoing track, which depends on the
   microphone only and may fail. *)
Render ==
  /\ mounted
  /\ rendered # Shown
  /\ rendered' = Shown
  /\ pending' = IF Opening THEN <<>> ELSE pending
  /\ LET replaces == Shown.stream # rendered.stream /\ AfterPeerEffect.of # 0
         showing  == IF Closing THEN "other" ELSE peerStatus
     IN \/ /\ pc' = IF replaces THEN [AfterPeerEffect EXCEPT !.mic = Shown.stream] ELSE AfterPeerEffect
           /\ peerStatus' = showing
        \/ /\ replaces
           /\ pc' = AfterPeerEffect
           /\ peerStatus' = "failed"
  /\ UNCHANGED <<sock, current, first, mounted, timer, status, session, mic, up, down, back>>

(* useMicrophone: start asks for permission, unless it has already. *)
MicrophoneStarts ==
  /\ mounted /\ mic = "off"
  /\ mic' = "starting"
  /\ MicrophoneOnly

MicrophoneAnswers ==
  /\ mounted /\ mic = "starting"
  /\ mic' \in {"on", "off"}
  /\ MicrophoneOnly

(* stop, by the button, an incoming call or a hang-up, or the end of the track.
   While it is starting there is no stream to stop. *)
MicrophoneStops ==
  /\ mounted /\ mic = "on"
  /\ mic' = "off"
  /\ MicrophoneOnly

-----------------------------------------------------------------------------
(* The chain of connectSignaling and the events of registerPeerEvents. *)

(* send: only an open socket takes it. *)
SendSignal(kind, d) ==
  up' = IF current # 0 /\ sock[current] = "open"
          THEN Append(up, [of |-> pc.of, desc |-> d, kind |-> kind]) ELSE up

ChainOnly == UNCHANGED <<pageVars, sock, down, back>>

Task(kind) == pc.of # 0 /\ pc.chain # <<>> /\ Head(pc.chain).kind = kind

(* The head of the chain is done with. *)
Done(p) ==
  [p EXCEPT !.chain = Tail(@),
            !.handled = IF Head(p.chain).kind = "negotiate" THEN @ ELSE Head(p.chain).n]

(* setRemoteDescription has settled, and each parked candidate is added. *)
WithRemote(p) == [p EXCEPT !.remote = TRUE, !.parked = <<>>]

(* Mutant: the candidates are gathered once more. *)
WithLocalAndMore(p) == [p EXCEPT !.desc = @ + 1, !.gather = MaxCandidate + 1]

(* setLocalDescription has settled: candidates are gathered for it. *)
WithLocal(p) == [p EXCEPT !.desc = @ + 1, !.gather = MaxCandidate]

(* External: the negotiationneeded event of the browser. *)
NegotiationNeeded ==
  /\ pc.of # 0 /\ pc.need
  /\ pc' = [pc EXCEPT !.need = FALSE,
                      !.chain = Append(@, [of |-> pc.of, n |-> 0, kind |-> "negotiate"])]
  /\ UNCHANGED up /\ ChainOnly

(* Mutant: a candidate is sent before the offer it belongs to. *)
NegotiateTrickling ==
  /\ Task("negotiate")
  /\ IF pc.sig # "stable"
       THEN pc' = Done(pc) /\ UNCHANGED up
       ELSE /\ pc' = [WithLocal(Done(pc)) EXCEPT !.sig = "have-local-offer", !.gather = 0]
            /\ up' = IF current # 0 /\ sock[current] = "open"
                       THEN up \o <<[of |-> pc.of, desc |-> pc.desc + 1, kind |-> "candidate"],
                                    [of |-> pc.of, desc |-> pc.desc + 1, kind |-> "offer"]>>
                       ELSE up
  /\ ChainOnly

(* negotiate: an offer is created, set and sent. *)
Negotiate ==
  /\ Task("negotiate")
  /\ IF pc.sig # "stable"
       THEN pc' = Done(pc) /\ UNCHANGED up
       ELSE /\ pc' = [WithLocal(Done(pc)) EXCEPT !.sig = "have-local-offer"]
            /\ SendSignal("offer", pc.desc + 1)
  /\ ChainOnly

TakeCreated ==
  /\ Task("created")
  /\ pc' = Done(pc)
  /\ UNCHANGED up /\ ChainOnly

(* A candidate waits for a remote description. *)
TakeCandidate ==
  /\ Task("candidate")
  /\ pc' = IF pc.remote THEN Done(pc) ELSE [Done(pc) EXCEPT !.parked = Append(@, Head(pc.chain).n)]
  /\ UNCHANGED up /\ ChainOnly

TakeAnswer ==
  /\ Task("answer") /\ pc.sig = "have-local-offer"
  /\ pc' = [WithRemote(Done(pc)) EXCEPT !.sig = "stable"]
  /\ UNCHANGED up /\ ChainOnly

(* An offer that crosses the page's own: the page takes its own back. *)
Rollback ==
  /\ Task("offer") /\ pc.sig = "have-local-offer"
  /\ pc' = [pc EXCEPT !.sig = "stable"]
  /\ UNCHANGED up /\ ChainOnly

TakeOffer ==
  /\ Task("offer") /\ pc.sig = "stable"
  /\ pc' = [WithRemote(pc) EXCEPT !.sig = "have-remote-offer"]
  /\ UNCHANGED up /\ ChainOnly

(* The answer is created, set and sent.  What a rollback took back may be
   negotiated again. *)
SendAnswer ==
  /\ Task("offer") /\ pc.sig = "have-remote-offer"
  /\ \E again \in {FALSE, pc.desc > 0} :
       pc' = [WithLocal(Done(pc)) EXCEPT !.sig = "stable", !.need = @ \/ again]
  /\ SendSignal("answer", pc.desc + 1)
  /\ ChainOnly

(* A step of the chain rejects, as an answer to no offer must; the failure is
   shown and the chain goes on.  An answer may have been set before a parked
   candidate is refused. *)
ChainFails ==
  /\ pc.of # 0 /\ pc.chain # <<>> /\ Head(pc.chain).kind # "created"
  /\ LET p == [Done(pc) EXCEPT !.failed = TRUE]
     IN \/ pc' = p
        \/ /\ Task("answer") /\ pc.sig = "have-local-offer" /\ pc.parked # <<>>
           /\ pc' = [WithRemote(p) EXCEPT !.sig = "stable"]
  /\ peerStatus' = "failed"
  /\ UNCHANGED <<current, first, mounted, timer, status, session, pending, mic, rendered,
                 sock, up, down, back>>

(* External: the browser has gathered a candidate. *)
Gather ==
  /\ pc.of # 0 /\ pc.gather > 0
  /\ pc' = [pc EXCEPT !.gather = @ - 1]
  /\ SendSignal("candidate", pc.desc)
  /\ ChainOnly

(* External: the connectionstatechange event of the browser. *)
ConnectionState ==
  /\ pc.of # 0 /\ pc.remote /\ pc.sig = "stable"
  /\ peerStatus' \in {"other", "failed"}
  /\ UNCHANGED <<current, first, mounted, timer, status, session, pending, mic, rendered,
                 sock, pc, up, down, back>>

-----------------------------------------------------------------------------
(* The backend: the on_message handler of Coordinator and the library behind
   WebRtc::Session, which answers an offer it takes. *)

BackendOnly == UNCHANGED <<pageVars, sock, pc>>

Serving == back.id # 0 /\ sock[back.id] = "open"

Say(kind) == down' = Append(down, [of |-> back.id, n |-> back.out + 1, kind |-> kind])

(* External: when offers cross, the library may reject the page's or take its
   own back. *)
ReceiveOffer(m) ==
  /\ m.kind = "offer"
  /\ \/ /\ back' = [back EXCEPT !.sig = "stable", !.remote = TRUE,
                               !.applied = @ \cup {m.desc}, !.out = @ + 1]
        /\ Say("answer")
     \/ back.sig = "have-local-offer" /\ UNCHANGED <<back, down>>

ReceiveAnswer(m) ==
  /\ m.kind = "answer"
  /\ back' = IF back.sig = "have-local-offer"
               THEN [back EXCEPT !.sig = "stable", !.remote = TRUE, !.applied = @ \cup {m.desc}]
               ELSE back
  /\ UNCHANGED down

(* Without a remote description the library rejects a candidate. *)
ReceiveCandidate(m) ==
  /\ m.kind = "candidate"
  /\ back' = IF back.remote THEN back ELSE [back EXCEPT !.lost = @ \cup {m.desc}]
  /\ UNCHANGED down

Receive ==
  /\ Serving /\ up # <<>>
  /\ up' = Tail(up)
  /\ ReceiveOffer(Head(up)) \/ ReceiveAnswer(Head(up)) \/ ReceiveCandidate(Head(up))
  /\ BackendOnly

(* External: the library has a candidate for its local description, or makes an
   offer of its own. *)
BackendCandidate ==
  /\ Serving /\ back.cands < MaxCandidate
  /\ back.remote \/ back.sig = "have-local-offer"
  /\ back' = [back EXCEPT !.cands = @ + 1, !.out = @ + 1]
  /\ Say("candidate")
  /\ UNCHANGED up /\ BackendOnly

BackendOffer ==
  /\ Serving /\ back.sig = "stable" /\ back.offers < MaxOffer
  /\ back' = [back EXCEPT !.sig = "have-local-offer", !.offers = @ + 1, !.out = @ + 1]
  /\ Say("offer")
  /\ UNCHANGED up /\ BackendOnly

-----------------------------------------------------------------------------
ChainStep == Negotiate \/ TakeCreated \/ TakeCandidate \/ TakeAnswer \/ Rollback \/ TakeOffer
               \/ SendAnswer \/ ChainFails
EndsClosed == \E n \in Sockets : sock[n] = "closing" /\ SocketCloses(n)

Page    == Deliver \/ Render \/ Unmount \/ (\E n \in Sockets : Reconnect(n))
             \/ MicrophoneStarts \/ MicrophoneAnswers \/ MicrophoneStops
Browser == NegotiationNeeded \/ Gather \/ ConnectionState
             \/ \E n \in Sockets : SocketOpens(n) \/ SocketCloses(n)
Library == Receive \/ BackendCandidate \/ BackendOffer

Next == Page \/ ChainStep \/ Browser \/ Library

Spec == Init /\ [][Next]_vars

(* Events are dispatched, commits and timers happen, promises settle, and the
   backend reads.  Nothing makes a socket open or stay open, and the user does
   as they please. *)
Fairness ==
  /\ WF_vars(Deliver) /\ WF_vars(Render) /\ WF_vars(\E n \in Sockets : Reconnect(n))
  /\ WF_vars(EndsClosed)
  /\ WF_vars(ChainStep) /\ WF_vars(NegotiationNeeded)
  /\ WF_vars(Receive)

FairSpec == Spec /\ Fairness
-----------------------------------------------------------------------------
(* Properties. *)

(* The page never has a second live socket, nor one after it was unmounted: a
   closed effect, a pending timer and a late close event do not open or keep
   one.  A second socket would be a second session of the same person. *)
OneSocket ==
  \A n \in Sockets : sock[n] \in Live => mounted /\ n = current /\ ~timer

(* Two sessions of one page are never mixed up: the shown id is that of the
   socket in use, its peer handles only the messages of that session, and what
   the peer sends goes to it. *)
SessionsKeptApart ==
  mounted =>
    /\ session # 0 => session = current
    /\ \A i \in 1..Len(pc.chain) : pc.chain[i].of = pc.of
    /\ \A i \in 1..Len(up) : up[i].of = back.id

(* What the backend has said and the page has not yet handled lies in order
   between them: on the connection, pending until there is a peer, and in the
   peer's chain.  Nothing is skipped and nothing comes twice, although the peer
   is made some time after the first message and a step of the chain may
   fail. *)
Spoken(m) == m.kind # "negotiate"
Unheard   == pc.chain \o pending \o down
SpokenAt  == {i \in 1..Len(Unheard) : Spoken(Unheard[i])}
SignalsInOrder ==
  Serving /\ mounted =>
    /\ {Unheard[i].n : i \in SpokenAt} = (pc.handled + 1)..back.out
    /\ \A i, j \in SpokenAt : i < j => Unheard[i].n < Unheard[j].n

(* The backend loses a candidate only with the description it belongs to: the
   page says its offer before its candidates, also when offers cross. *)
NoCandidateLost == back.lost \cap back.applied = {}

Negotiated ==
  /\ session = current /\ current # 0 /\ back.id = current
  /\ pc.of = current /\ pc.chain = <<>> /\ pc.sig = "stable" /\ pc.remote /\ pc.parked = <<>>
  /\ back.sig = "stable" /\ back.remote

(* Nothing fails any more, or the page is about to reconnect. *)
Calm ==
  /\ mounted /\ ~pc.failed
  /\ IF current = 0 THEN \E n \in Sockets : Unused(n) ELSE sock[current] = "open"

(* When connections stop failing the page gets through: it has a session and an
   audio connection negotiated with it, whatever was lost before and whoever
   offered first. *)
GetsThrough == <>[]Calm => <>[]Negotiated

(* The page says "Live" (MicrophoneControl.tsx) when the microphone is on.  The
   effect that hands its track to the peer depends on the microphone only: the
   peer of a new connection goes on sending silence. *)
CapturedIsSent ==
  pc.of # 0 /\ rendered = Shown /\ peerStatus # "failed" => pc.mic = Shown.stream
=============================================================================
