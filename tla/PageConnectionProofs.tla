------------------------- MODULE PageConnectionProofs -------------------------
(***************************************************************************)
(* Safety of PageConnection for any bounds: one socket at a time, nothing  *)
(* of one connection in another, no candidate lost with a description that *)
(* counts, and the messages of the backend handled in order.               *)
(***************************************************************************)
EXTENDS PageConnection, Integers, TLAPS

(* What belongs together while a page is mounted: the status of its socket, the
   session of the backend and, once React has committed the status, the peer. *)
Phases ==
  /\ status = "connecting" =>
       /\ current # 0 /\ sock[current] = "connecting" /\ ~timer
       /\ back.id = 0 /\ session = 0
       /\ pending = <<>> /\ rendered.status # "connected"
  /\ status = "connected" =>
       /\ current # 0 /\ sock[current] = "open" /\ ~timer
       /\ back.id = current /\ session \in {0, current}
       /\ pc.of # 0 => pc.of = current
  /\ status = "disconnected" => current = 0 /\ back.id = 0 /\ session = 0
  /\ rendered.status = "connected" <=> pc.of # 0
  /\ current # 0 => current >= first

(* No peer is without a socket, and no session is without one. *)
Absent ==
  /\ pc.of = 0 => pc.desc = 0
  /\ ~mounted => pc.of = 0
  /\ back.id = 0 => back.lost = {}

(* Only the effect that StrictMode cleaned up, or a page that is gone, has closed
   its socket. *)
Closers ==
  \A n \in Sockets : /\ n < first => sock[n] \in {"closing", "closed"}
                     /\ mounted /\ n >= first => sock[n] # "closing"

(* Every message is of the connection it is on, or of the peer that has it. *)
Addressed ==
  /\ \A i \in 1..Len(up) : up[i].of = back.id
  /\ \A i \in 1..Len(down) : down[i].of = back.id
  /\ \A i \in 1..Len(pc.chain) : pc.chain[i].of = pc.of
  /\ mounted /\ status = "connected" => \A i \in 1..Len(pending) : pending[i].of = current

(* The descriptions of a peer are numbered as it makes them, each before its
   candidates. *)
Descriptions ==
  /\ mounted => /\ \A i \in 1..Len(up) : up[i].desc <= pc.desc
                /\ \A d \in back.lost : d <= pc.desc
  /\ \A j \in 1..Len(up) :
       up[j].kind # "candidate" => /\ \A i \in 1..(j - 1) : up[i].desc < up[j].desc
                                   /\ \A d \in back.lost : d < up[j].desc
  /\ ~back.remote => back.applied = {}

PageInv ==
  /\ TypeOK /\ (mounted => Phases) /\ Absent /\ Closers /\ OneSocket
  /\ Addressed /\ Descriptions /\ NoCandidateLost
-----------------------------------------------------------------------------
(* Sequences. *)

LEMMA TailOf ==
  ASSUME NEW S, NEW q \in Seq(S), q # <<>>
  PROVE  /\ Tail(q) \in Seq(S) /\ Head(q) \in S /\ Head(q) = q[1]
         /\ Len(Tail(q)) = Len(q) - 1 /\ Len(q) \in Nat \ {0}
         /\ \A i \in 1..Len(Tail(q)) : i + 1 \in 1..Len(q) /\ Tail(q)[i] = q[i + 1]
OBVIOUS

LEMMA AppendOf ==
  ASSUME NEW S, NEW q \in Seq(S), NEW m \in S
  PROVE  /\ Append(q, m) \in Seq(S) /\ Len(Append(q, m)) = Len(q) + 1 /\ Len(q) \in Nat
         /\ \A i \in 1..Len(q) : Append(q, m)[i] = q[i]
         /\ Append(q, m)[Len(q) + 1] = m
OBVIOUS

LEMMA EmptyOf ==
  ASSUME NEW S
  PROVE  <<>> \in Seq(S) /\ \A i \in 1..Len(<<>>) : FALSE
OBVIOUS

(* Numbers of sockets. *)
LEMMA SocketNumbers ==
  /\ Sockets \subseteq 0..MaxSocket /\ 0 \in 0..MaxSocket /\ 0 \notin Sockets
  /\ \A n \in 0..MaxSocket : n # 0 => n \in Sockets
  /\ \A n \in Sockets : n \in Nat
BY BoundsAssumption DEF Sockets, MaxSocket

LEMMA NewPeer ==
  ASSUME NEW n \in 0..MaxSocket, NEW q \in Seq(Message)
  PROVE  /\ PeerFor(n, q) \in Peer /\ PeerFor(n, q).of = n
         /\ PeerFor(n, q).desc = 0 /\ PeerFor(n, q).chain = q
<1>1. <<>> \in Seq(Nat) /\ 0 \in 0..MaxCandidate
  BY BoundsAssumption
<1>2. QED
  BY <1>1 DEF PeerFor, Peer

LEMMA NewSession ==
  ASSUME NEW n \in 0..MaxSocket
  PROVE  /\ SessionFor(n) \in Backend /\ SessionFor(n).id = n
         /\ SessionFor(n).lost = {} /\ SessionFor(n).applied = {} /\ ~SessionFor(n).remote
BY BoundsAssumption DEF SessionFor, Backend

(* The steps of the chain keep a peer a peer, and the socket it is for. *)
LEMMA DoneWith ==
  ASSUME NEW p \in Peer, p.chain # <<>>
  PROVE  /\ Done(p) \in Peer /\ Done(p).of = p.of /\ Done(p).desc = p.desc
         /\ Done(p).chain = Tail(p.chain)
<1>1. p.chain \in Seq(Message) /\ p.handled \in Nat
  BY DEF Peer
<1>2. Tail(p.chain) \in Seq(Message) /\ Head(p.chain) \in Message
  BY <1>1, TailOf
<1>3. Head(p.chain).n \in Nat
  BY <1>2 DEF Message
<1>4. QED
  BY <1>1, <1>2, <1>3 DEF Done, Peer

LEMMA RemoteSettled ==
  ASSUME NEW p \in Peer
  PROVE  /\ WithRemote(p) \in Peer /\ WithRemote(p).of = p.of
         /\ WithRemote(p).desc = p.desc /\ WithRemote(p).chain = p.chain
<1>1. <<>> \in Seq(Nat)
  OBVIOUS
<1>2. QED
  BY <1>1 DEF WithRemote, Peer

LEMMA LocalSettled ==
  ASSUME NEW p \in Peer
  PROVE  /\ WithLocal(p) \in Peer /\ WithLocal(p).of = p.of
         /\ WithLocal(p).desc = p.desc + 1 /\ WithLocal(p).chain = p.chain
<1>1. MaxCandidate \in 0..MaxCandidate
  BY BoundsAssumption
<1>2. p.desc + 1 \in Nat
  BY DEF Peer
<1>3. [p EXCEPT !.desc = p.desc + 1, !.gather = MaxCandidate] \in Peer
  BY <1>1, <1>2 DEF Peer
<1>4. QED
  BY <1>3 DEF WithLocal, Peer

LEMMA PeerField ==
  ASSUME NEW p \in Peer
  PROVE  /\ \A g \in {"stable", "have-local-offer", "have-remote-offer"}, b \in BOOLEAN :
              /\ [p EXCEPT !.sig = g] \in Peer
              /\ [p EXCEPT !.sig = g, !.need = b] \in Peer
         /\ [p EXCEPT !.failed = TRUE] \in Peer
         /\ \A b \in BOOLEAN : [p EXCEPT !.mic = b] \in Peer
BY DEF Peer
-----------------------------------------------------------------------------
(* The steps of the peer: they change the peer, its status and what it sends. *)

OthersAlone ==
  UNCHANGED <<current, first, mounted, timer, status, session, pending, mic, rendered,
              sock, down, back>>

(* A description is numbered one higher than all that was sent. *)
Sends ==
  \/ UNCHANGED up
  \/ \E kind \in {"offer", "answer", "candidate"} :
       /\ SendSignal(kind, pc'.desc)
       /\ kind # "candidate" => pc.desc < pc'.desc

LEMMA SentIsAddressed ==
  ASSUME PageInv, OthersAlone, pc.of # 0, pc' \in Peer, pc.desc <= pc'.desc, Sends
  PROVE  /\ up' \in Seq(Signal)
         /\ \A i \in 1..Len(up') : up'[i].of = back.id /\ up'[i].desc <= pc'.desc
         /\ \A j \in 1..Len(up') :
              up'[j].kind # "candidate" => /\ \A i \in 1..(j - 1) : up'[i].desc < up'[j].desc
                                           /\ \A d \in back.lost : d < up'[j].desc
<1>1. mounted /\ Phases /\ up \in Seq(Signal) /\ pc \in Peer /\ back \in Backend
  BY DEF PageInv, Absent, TypeOK
<1>2. pc.desc \in Nat /\ pc'.desc \in Nat /\ back.lost \subseteq Nat
  BY <1>1 DEF Peer, Backend
<1>3. Len(up) \in Nat /\ \A i \in 1..Len(up) : up[i].desc \in Nat
  <2>1. Len(up) \in Nat /\ \A i \in 1..Len(up) : up[i] \in Signal
    BY <1>1
  <2>2. \A m \in Signal : m.desc \in Nat
    BY DEF Signal
  <2>3. QED
    BY <2>1, <2>2
<1>4. /\ \A i \in 1..Len(up) : up[i].of = back.id /\ up[i].desc <= pc.desc
      /\ \A d \in back.lost : d <= pc.desc
      /\ \A j \in 1..Len(up) :
           up[j].kind # "candidate" => /\ \A i \in 1..(j - 1) : up[i].desc < up[j].desc
                                       /\ \A d \in back.lost : d < up[j].desc
  BY <1>1 DEF PageInv, Addressed, Descriptions
<1>5. CASE up' = up
  BY <1>1, <1>2, <1>3, <1>4, <1>5
<1>6. ASSUME NEW kind \in {"offer", "answer", "candidate"}, current # 0, sock[current] = "open",
             kind # "candidate" => pc.desc < pc'.desc,
             up' = Append(up, [of |-> pc.of, desc |-> pc'.desc, kind |-> kind])
      PROVE  /\ up' \in Seq(Signal)
             /\ \A i \in 1..Len(up') : up'[i].of = back.id /\ up'[i].desc <= pc'.desc
             /\ \A j \in 1..Len(up') :
                  up'[j].kind # "candidate" => /\ \A i \in 1..(j - 1) : up'[i].desc < up'[j].desc
                                               /\ \A d \in back.lost : d < up'[j].desc
  <2> DEFINE m == [of |-> pc.of, desc |-> pc'.desc, kind |-> kind]
  <2>1. pc.of = back.id /\ pc.of \in Sockets
    BY <1>1, <1>6, SocketNumbers DEF Phases, PageInv, TypeOK
  <2>2. m \in Signal /\ m.of = pc.of /\ m.desc = pc'.desc /\ m.kind = kind
    BY <1>2, <2>1 DEF Signal
  <2>3. /\ up' \in Seq(Signal) /\ Len(up') = Len(up) + 1 /\ Len(up) \in Nat
        /\ \A i \in 1..Len(up) : up'[i] = up[i]
        /\ up'[Len(up) + 1] = m
    BY <1>1, <1>6, <2>2, AppendOf
  <2> HIDE DEF m
  <2>4. ASSUME NEW i \in 1..Len(up')
        PROVE  up'[i].of = back.id /\ up'[i].desc <= pc'.desc
    <3>1. CASE i \in 1..Len(up)
      BY <1>2, <1>3, <1>4, <2>3, <3>1
    <3>2. CASE i = Len(up) + 1
      BY <1>2, <2>1, <2>2, <2>3, <3>2
    <3>3. QED
      BY <2>3, <3>1, <3>2
  <2>5. ASSUME NEW j \in 1..Len(up'), up'[j].kind # "candidate"
        PROVE  /\ \A i \in 1..(j - 1) : up'[i].desc < up'[j].desc
               /\ \A d \in back.lost : d < up'[j].desc
    <3>1. CASE j \in 1..Len(up)
      <4>1. \A i \in 1..(j - 1) : i \in 1..Len(up)
        BY <2>3, <3>1
      <4>2. QED
        BY <1>4, <2>3, <2>5, <3>1, <4>1
    <3>2. CASE j = Len(up) + 1
      <4>1. up'[j].desc = pc'.desc /\ pc.desc < pc'.desc
        BY <1>6, <2>2, <2>3, <2>5, <3>2
      <4>2. \A i \in 1..(j - 1) : up'[i].desc = up[i].desc /\ up[i].desc <= pc.desc
                                  /\ up[i].desc \in Nat
        BY <1>3, <1>4, <2>3, <3>2
      <4>3. QED
        BY <1>2, <1>4, <4>1, <4>2
    <3>3. QED
      BY <2>3, <3>1, <3>2
  <2>6. QED
    BY <2>3, <2>4, <2>5
<1>7. QED
  BY <1>5, <1>6 DEF Sends, SendSignal

LEMMA PeerStep ==
  ASSUME PageInv, OthersAlone, pc.of # 0, peerStatus' \in {"other", "failed"},
         pc' \in Peer, pc'.of = pc.of, pc.desc <= pc'.desc,
         \A i \in 1..Len(pc'.chain) : pc'.chain[i].of = pc.of,
         Sends
  PROVE  PageInv'
<1>1. /\ up' \in Seq(Signal)
      /\ \A i \in 1..Len(up') : up'[i].of = back.id /\ up'[i].desc <= pc'.desc
      /\ \A j \in 1..Len(up') :
           up'[j].kind # "candidate" => /\ \A i \in 1..(j - 1) : up'[i].desc < up'[j].desc
                                        /\ \A d \in back.lost : d < up'[j].desc
  BY SentIsAddressed
<1>2. TypeOK'
  BY <1>1 DEF PageInv, TypeOK, OthersAlone
<1>3. (mounted => Phases)'
  BY DEF PageInv, Phases, OthersAlone
<1>4. Absent'
  BY DEF PageInv, Absent, OthersAlone
<1>5. Closers' /\ OneSocket'
  BY DEF PageInv, Closers, OneSocket, OthersAlone
<1>6. Addressed'
  BY <1>1 DEF PageInv, Addressed, OthersAlone
<1>7. Descriptions'
  <2>1. mounted /\ \A d \in back.lost : d <= pc.desc
    BY DEF PageInv, Absent, Descriptions
  <2>2. pc.desc \in Nat /\ pc'.desc \in Nat /\ back.lost \subseteq Nat
    BY DEF PageInv, TypeOK, Peer, Backend
  <2>3. \A d \in back.lost : d <= pc'.desc
    BY <2>1, <2>2
  <2>4. back' = back
    BY DEF OthersAlone
  <2>5. QED
    BY <1>1, <2>3, <2>4 DEF PageInv, Descriptions
<1>8. NoCandidateLost'
  BY DEF PageInv, NoCandidateLost, OthersAlone
<1>9. QED
  BY <1>2, <1>3, <1>4, <1>5, <1>6, <1>7, <1>8 DEF PageInv

(* The head of the chain is done with, after what p says has settled. *)
LEMMA HeadDone ==
  ASSUME PageInv, pc.chain # <<>>
  PROVE  /\ Done(pc) \in Peer /\ Done(pc).of = pc.of /\ Done(pc).desc = pc.desc
         /\ \A i \in 1..Len(Done(pc).chain) : Done(pc).chain[i].of = pc.of
<1>1. pc \in Peer /\ pc.chain \in Seq(Message)
  BY DEF PageInv, TypeOK, Peer
<1>2. /\ Done(pc) \in Peer /\ Done(pc).of = pc.of /\ Done(pc).desc = pc.desc
      /\ Done(pc).chain = Tail(pc.chain)
  BY <1>1, DoneWith
<1>3. \A i \in 1..Len(Tail(pc.chain)) : Tail(pc.chain)[i].of = pc.of
  BY <1>1, TailOf DEF PageInv, Addressed
<1>4. QED
  BY <1>2, <1>3

LEMMA ChainOnlyAlone ==
  ASSUME PageInv, ChainOnly
  PROVE  OthersAlone /\ peerStatus' \in {"other", "failed"}
BY DEF PageInv, TypeOK, ChainOnly, pageVars, OthersAlone

LEMMA NegotiateStep == PageInv /\ Negotiate => PageInv'
<1> SUFFICES ASSUME PageInv, Negotiate PROVE PageInv'
  OBVIOUS
<1> DEFINE p == WithLocal(Done(pc))
<1>1. pc.of # 0 /\ pc.chain # <<>> /\ ChainOnly
  BY DEF Negotiate, Task
<1>2. /\ Done(pc) \in Peer /\ Done(pc).of = pc.of /\ Done(pc).desc = pc.desc
      /\ \A i \in 1..Len(Done(pc).chain) : Done(pc).chain[i].of = pc.of
  BY <1>1, HeadDone
<1>3. pc.desc \in Nat
  BY DEF PageInv, TypeOK, Peer
<1>4. CASE pc.sig # "stable"
  BY <1>1, <1>2, <1>3, <1>4, ChainOnlyAlone, PeerStep DEF Negotiate, Sends
<1>5. CASE pc.sig = "stable"
  <2>1. p \in Peer /\ p.of = pc.of /\ p.desc = pc.desc + 1 /\ p.chain = Done(pc).chain
    BY <1>2, LocalSettled
  <2> HIDE DEF p
  <2>2. pc' = [p EXCEPT !.sig = "have-local-offer"] /\ SendSignal("offer", pc.desc + 1)
    BY <1>5 DEF Negotiate, p
  <2>3. pc' \in Peer
    BY <2>1, <2>2, PeerField
  <2>4. pc'.of = pc.of /\ pc'.desc = pc.desc + 1 /\ pc'.chain = Done(pc).chain
    BY <2>1, <2>2 DEF Peer
  <2>5. Sends /\ pc.desc <= pc'.desc
    BY <1>3, <2>2, <2>4 DEF Sends
  <2>6. QED
    BY <1>1, <1>2, <2>3, <2>4, <2>5, ChainOnlyAlone, PeerStep
<1>6. QED
  BY <1>4, <1>5

LEMMA AnswerStep == PageInv /\ SendAnswer => PageInv'
<1> SUFFICES ASSUME PageInv, SendAnswer PROVE PageInv'
  OBVIOUS
<1> DEFINE p == WithLocal(Done(pc))
<1>1. pc.of # 0 /\ pc.chain # <<>> /\ ChainOnly
  BY DEF SendAnswer, Task
<1>2. /\ Done(pc) \in Peer /\ Done(pc).of = pc.of /\ Done(pc).desc = pc.desc
      /\ \A i \in 1..Len(Done(pc).chain) : Done(pc).chain[i].of = pc.of
  BY <1>1, HeadDone
<1>3. pc.desc \in Nat
  BY DEF PageInv, TypeOK, Peer
<1>4. p \in Peer /\ p.of = pc.of /\ p.desc = pc.desc + 1 /\ p.chain = Done(pc).chain
  BY <1>2, LocalSettled
<1> HIDE DEF p
<1>5. PICK again \in BOOLEAN : pc' = [p EXCEPT !.sig = "stable", !.need = p.need \/ again]
  BY DEF SendAnswer, p
<1>6. p.need \/ again \in BOOLEAN
  BY <1>4 DEF Peer
<1>7. pc' \in Peer
  BY <1>4, <1>5, <1>6, PeerField
<1>8. pc'.of = pc.of /\ pc'.desc = pc.desc + 1 /\ pc'.chain = Done(pc).chain
  BY <1>4, <1>5 DEF Peer
<1>9. Sends /\ pc.desc <= pc'.desc
  BY <1>3, <1>8 DEF Sends, SendAnswer
<1>10. QED
  BY <1>1, <1>2, <1>7, <1>8, <1>9, ChainOnlyAlone, PeerStep

(* The steps of the chain that send nothing. *)
LEMMA QuietStep ==
  ASSUME PageInv, NEW p \in Peer, pc.of # 0, p.of = pc.of, p.desc = pc.desc,
         \A i \in 1..Len(p.chain) : p.chain[i].of = pc.of,
         pc' = p, UNCHANGED up, OthersAlone, peerStatus' \in {"other", "failed"}
  PROVE  PageInv'
<1>1. pc.desc <= pc'.desc
  BY DEF PageInv, TypeOK, Peer
<1>2. QED
  BY <1>1, PeerStep DEF Sends

LEMMA TakeStep ==
  PageInv /\ (TakeCreated \/ TakeCandidate \/ TakeAnswer \/ Rollback \/ TakeOffer) => PageInv'
<1> SUFFICES ASSUME PageInv, TakeCreated \/ TakeCandidate \/ TakeAnswer \/ Rollback \/ TakeOffer
             PROVE  PageInv'
  OBVIOUS
<1>1. pc.of # 0 /\ pc.chain # <<>> /\ UNCHANGED up /\ ChainOnly
  BY DEF TakeCreated, TakeCandidate, TakeAnswer, Rollback, TakeOffer, Task
<1>2. /\ Done(pc) \in Peer /\ Done(pc).of = pc.of /\ Done(pc).desc = pc.desc
      /\ \A i \in 1..Len(Done(pc).chain) : Done(pc).chain[i].of = pc.of
  BY <1>1, HeadDone
<1>3. OthersAlone /\ peerStatus' \in {"other", "failed"}
  BY <1>1, ChainOnlyAlone
<1>4. pc \in Peer /\ \A i \in 1..Len(pc.chain) : pc.chain[i].of = pc.of
  BY DEF PageInv, TypeOK, Addressed
<1>5. CASE TakeCreated
  BY <1>1, <1>2, <1>3, <1>5, QuietStep DEF TakeCreated
<1>6. CASE TakeCandidate
  <2> DEFINE q == Append(Done(pc).parked, Head(pc.chain).n)
             p == [Done(pc) EXCEPT !.parked = q]
  <2>1. Head(pc.chain).n \in Nat
    <3>1. pc.chain \in Seq(Message)
      BY <1>4 DEF Peer
    <3>2. Head(pc.chain) \in Message
      BY <1>1, <3>1, TailOf
    <3>3. QED
      BY <3>2 DEF Message
  <2>2. q \in Seq(Nat)
    BY <1>2, <2>1 DEF Peer
  <2> HIDE DEF q
  <2>3. p \in Peer /\ p.of = pc.of /\ p.desc = pc.desc /\ p.chain = Done(pc).chain
    BY <1>2, <2>2 DEF Peer
  <2>4. pc' = Done(pc) \/ pc' = p
    BY <1>6 DEF TakeCandidate, q
  <2>5. QED
    BY <1>1, <1>2, <1>3, <2>3, <2>4, QuietStep
<1>7. CASE TakeAnswer
  <2> DEFINE r == WithRemote(Done(pc))
             p == [r EXCEPT !.sig = "stable"]
  <2>1. r \in Peer /\ r.of = pc.of /\ r.desc = pc.desc /\ r.chain = Done(pc).chain
    BY <1>2, RemoteSettled
  <2> HIDE DEF r
  <2>2. p \in Peer /\ p.of = pc.of /\ p.desc = pc.desc /\ p.chain = Done(pc).chain
    BY <2>1 DEF Peer
  <2>3. pc' = p
    BY <1>7 DEF TakeAnswer, r
  <2>4. QED
    BY <1>1, <1>2, <1>3, <2>2, <2>3, QuietStep
<1>8. CASE Rollback
  <2> DEFINE p == [pc EXCEPT !.sig = "stable"]
  <2>1. p \in Peer /\ p.of = pc.of /\ p.desc = pc.desc /\ p.chain = pc.chain
    BY <1>4 DEF Peer
  <2>2. pc' = p
    BY <1>8 DEF Rollback
  <2>3. QED
    BY <1>1, <1>3, <1>4, <2>1, <2>2, QuietStep
<1>9. CASE TakeOffer
  <2> DEFINE r == WithRemote(pc)
             p == [r EXCEPT !.sig = "have-remote-offer"]
  <2>1. r \in Peer /\ r.of = pc.of /\ r.desc = pc.desc /\ r.chain = pc.chain
    BY <1>4, RemoteSettled
  <2> HIDE DEF r
  <2>2. p \in Peer /\ p.of = pc.of /\ p.desc = pc.desc /\ p.chain = pc.chain
    BY <2>1 DEF Peer
  <2>3. pc' = p
    BY <1>9 DEF TakeOffer, r
  <2>4. QED
    BY <1>1, <1>3, <1>4, <2>2, <2>3, QuietStep
<1>10. QED
  BY <1>5, <1>6, <1>7, <1>8, <1>9

LEMMA FailStep == PageInv /\ ChainFails => PageInv'
<1> SUFFICES ASSUME PageInv, ChainFails PROVE PageInv'
  OBVIOUS
<1> DEFINE d == Done(pc)
           p == [d EXCEPT !.failed = TRUE]
           r == WithRemote(p)
<1>1. pc.of # 0 /\ pc.chain # <<>> /\ UNCHANGED up /\ OthersAlone /\ peerStatus' = "failed"
  BY DEF ChainFails, OthersAlone
<1>2. /\ d \in Peer /\ d.of = pc.of /\ d.desc = pc.desc
      /\ \A i \in 1..Len(d.chain) : d.chain[i].of = pc.of
  BY <1>1, HeadDone
<1>3. pc' = p \/ pc' = [r EXCEPT !.sig = "stable"]
  BY DEF ChainFails
<1> HIDE DEF d
<1>4. p \in Peer /\ p.of = pc.of /\ p.desc = pc.desc /\ p.chain = d.chain
  BY <1>2 DEF Peer
<1> HIDE DEF p
<1>5. r \in Peer /\ r.of = pc.of /\ r.desc = pc.desc /\ r.chain = d.chain
  BY <1>4, RemoteSettled
<1> HIDE DEF r
<1>6. /\ [r EXCEPT !.sig = "stable"] \in Peer
      /\ [r EXCEPT !.sig = "stable"].of = pc.of /\ [r EXCEPT !.sig = "stable"].desc = pc.desc
      /\ [r EXCEPT !.sig = "stable"].chain = d.chain
  BY <1>5 DEF Peer
<1>7. QED
  BY <1>1, <1>2, <1>3, <1>4, <1>6, QuietStep, ZenonT(60)

(* What the browser does of its own. *)
LEMMA BrowserStep == PageInv /\ (NegotiationNeeded \/ Gather \/ ConnectionState) => PageInv'
<1> SUFFICES ASSUME PageInv, NegotiationNeeded \/ Gather \/ ConnectionState PROVE PageInv'
  OBVIOUS
<1>1. pc \in Peer /\ \A i \in 1..Len(pc.chain) : pc.chain[i].of = pc.of
  BY DEF PageInv, TypeOK, Addressed
<1>2. pc.of # 0 /\ OthersAlone /\ peerStatus' \in {"other", "failed"}
  BY ChainOnlyAlone DEF NegotiationNeeded, Gather, ConnectionState, OthersAlone
<1>3. CASE NegotiationNeeded
  <2> DEFINE m == [of |-> pc.of, n |-> 0, kind |-> "negotiate"]
             q == Append(pc.chain, m)
             p == [pc EXCEPT !.need = FALSE, !.chain = q]
  <2>1. pc.of \in Sockets
    BY <1>1, <1>2, SocketNumbers DEF Peer
  <2>2. m \in Message /\ m.of = pc.of
    BY <2>1 DEF Message
  <2> HIDE DEF m
  <2>3. /\ q \in Seq(Message) /\ Len(q) = Len(pc.chain) + 1 /\ Len(pc.chain) \in Nat
        /\ \A i \in 1..Len(pc.chain) : q[i] = pc.chain[i]
        /\ q[Len(pc.chain) + 1] = m
    BY <1>1, <2>2, AppendOf DEF Peer
  <2>4. ASSUME NEW i \in 1..Len(q) PROVE q[i].of = pc.of
    BY <1>1, <2>2, <2>3
  <2> HIDE DEF q
  <2>5. p \in Peer /\ p.of = pc.of /\ p.desc = pc.desc /\ p.chain = q
    BY <1>1, <2>3 DEF Peer
  <2>6. pc' = p /\ UNCHANGED up
    BY <1>3 DEF NegotiationNeeded, m, q
  <2>7. QED
    BY <1>2, <2>4, <2>5, <2>6, QuietStep
<1>4. CASE Gather
  <2>1. pc.gather - 1 \in 0..MaxCandidate
    BY <1>1, <1>4, BoundsAssumption DEF Gather, Peer
  <2>2. pc' = [pc EXCEPT !.gather = pc.gather - 1]
    BY <1>4 DEF Gather
  <2>3. pc' \in Peer /\ pc'.of = pc.of /\ pc'.desc = pc.desc /\ pc'.chain = pc.chain
    BY <1>1, <2>1, <2>2 DEF Peer
  <2>4. Sends /\ pc.desc <= pc'.desc
    BY <1>1, <1>4, <2>3 DEF Gather, Sends, Peer
  <2>5. QED
    BY <1>1, <1>2, <2>3, <2>4, PeerStep
<1>5. CASE ConnectionState
  BY <1>1, <1>2, <1>5, QuietStep DEF ConnectionState
<1>6. QED
  BY <1>3, <1>4, <1>5
-----------------------------------------------------------------------------
(* The steps of the backend: they change its session and the connection. *)

LEMMA BackendStep ==
  ASSUME PageInv, BackendOnly, back.id # 0,
         back' \in Backend, back'.id = back.id,
         up' \in Seq(Signal), down' \in Seq(Message),
         \A i \in 1..Len(up') : up'[i].of = back.id,
         \A i \in 1..Len(down') : down'[i].of = back.id,
         Descriptions', NoCandidateLost'
  PROVE  PageInv'
<1>1. TypeOK'
  BY DEF PageInv, TypeOK, BackendOnly, pageVars
<1>2. (mounted => Phases)'
  BY DEF PageInv, Phases, BackendOnly, pageVars
<1>3. Absent' /\ Closers' /\ OneSocket' /\ Addressed'
  BY DEF PageInv, Absent, Closers, OneSocket, Addressed, BackendOnly, pageVars
<1>4. QED
  BY <1>1, <1>2, <1>3 DEF PageInv

(* One more message said. *)
LEMMA SayKeeps ==
  ASSUME PageInv, back.id # 0, NEW kind \in {"answer", "candidate", "offer"}, Say(kind)
  PROVE  down' \in Seq(Message) /\ \A i \in 1..Len(down') : down'[i].of = back.id
<1> DEFINE m == [of |-> back.id, n |-> back.out + 1, kind |-> kind]
<1>1. back \in Backend /\ down \in Seq(Message) /\ \A i \in 1..Len(down) : down[i].of = back.id
  BY DEF PageInv, TypeOK, Addressed
<1>2. back.id \in Sockets /\ back.out + 1 \in Nat
  BY <1>1, SocketNumbers DEF Backend
<1>3. m \in Message /\ m.of = back.id
  BY <1>2 DEF Message
<1>4. down' = Append(down, m)
  BY DEF Say
<1> HIDE DEF m
<1>5. /\ down' \in Seq(Message) /\ Len(down') = Len(down) + 1 /\ Len(down) \in Nat
      /\ \A i \in 1..Len(down) : down'[i] = down[i]
      /\ down'[Len(down) + 1] = m
  BY <1>1, <1>3, <1>4, AppendOf
<1>6. ASSUME NEW i \in 1..Len(down') PROVE down'[i].of = back.id
  BY <1>1, <1>3, <1>5
<1>7. QED
  BY <1>5, <1>6

LEMMA SpeakStep == PageInv /\ (BackendCandidate \/ BackendOffer) => PageInv'
<1> SUFFICES ASSUME PageInv, BackendCandidate \/ BackendOffer PROVE PageInv'
  OBVIOUS
<1>1. back \in Backend /\ up \in Seq(Signal) /\ \A i \in 1..Len(up) : up[i].of = back.id
  BY DEF PageInv, TypeOK, Addressed
<1>2. back.id # 0 /\ BackendOnly /\ up' = up
  BY DEF BackendCandidate, BackendOffer, Serving
<1>3. down' \in Seq(Message) /\ \A i \in 1..Len(down') : down'[i].of = back.id
  BY <1>2, SayKeeps DEF BackendCandidate, BackendOffer
<1>4. /\ back' \in Backend /\ back'.id = back.id
      /\ back'.lost = back.lost /\ back'.applied = back.applied /\ back'.remote = back.remote
  <2>1. CASE BackendCandidate
    <3>1. back.cands + 1 \in 0..MaxCandidate /\ back.out + 1 \in Nat
      BY <1>1, <2>1, BoundsAssumption DEF BackendCandidate, Backend
    <3>2. back' = [back EXCEPT !.cands = back.cands + 1, !.out = back.out + 1]
      BY <2>1 DEF BackendCandidate
    <3>3. QED
      BY <1>1, <3>1, <3>2 DEF Backend
  <2>2. CASE BackendOffer
    <3>1. back.offers + 1 \in 0..MaxOffer /\ back.out + 1 \in Nat
      BY <1>1, <2>2, BoundsAssumption DEF BackendOffer, Backend
    <3>2. back' = [back EXCEPT !.sig = "have-local-offer", !.offers = back.offers + 1,
                               !.out = back.out + 1]
      BY <2>2 DEF BackendOffer
    <3>3. QED
      BY <1>1, <3>1, <3>2 DEF Backend
  <2>3. QED
    BY <2>1, <2>2
<1>5. Descriptions' /\ NoCandidateLost'
  BY <1>2, <1>4 DEF PageInv, Descriptions, NoCandidateLost, BackendOnly, pageVars
<1>6. QED
  BY <1>1, <1>2, <1>3, <1>4, <1>5, BackendStep

(* A description that is applied is higher than all that lost a candidate, and a
   candidate is lost only while nothing is applied. *)
LEMMA ReceiveStep == PageInv /\ Receive => PageInv'
<1> SUFFICES ASSUME PageInv, Receive PROVE PageInv'
  OBVIOUS
<1> DEFINE m == Head(up)
<1>1. /\ back \in Backend /\ up \in Seq(Signal) /\ down \in Seq(Message)
      /\ \A i \in 1..Len(up) : up[i].of = back.id
      /\ \A i \in 1..Len(down) : down[i].of = back.id
      /\ Descriptions /\ NoCandidateLost
  BY DEF PageInv, TypeOK, Addressed
<1>2. back.id # 0 /\ BackendOnly /\ up # <<>> /\ up' = Tail(up)
  BY DEF Receive, Serving
<1>3. /\ up' \in Seq(Signal) /\ m \in Signal /\ m = up[1]
      /\ Len(up') = Len(up) - 1 /\ Len(up) \in Nat \ {0}
      /\ \A i \in 1..Len(up') : i + 1 \in 1..Len(up) /\ up'[i] = up[i + 1]
  BY <1>1, <1>2, TailOf
<1>4. ReceiveOffer(m) \/ ReceiveAnswer(m) \/ ReceiveCandidate(m)
  BY DEF Receive
<1> HIDE DEF m
<1>5. m.desc \in Nat /\ back.lost \subseteq Nat /\ back.applied \subseteq Nat
  BY <1>1, <1>3 DEF Signal, Backend
<1>6. \A i \in 1..Len(up') : up'[i].of = back.id
  BY <1>1, <1>3, SMTT(60)
<1>7. \/ back' = back /\ UNCHANGED down
      \/ /\ back' = [back EXCEPT !.sig = "stable", !.remote = TRUE,
                                 !.applied = back.applied \cup {m.desc}, !.out = back.out + 1]
         /\ Say("answer") /\ m.kind # "candidate"
      \/ /\ back' = [back EXCEPT !.sig = "stable", !.remote = TRUE,
                                 !.applied = back.applied \cup {m.desc}]
         /\ UNCHANGED down /\ m.kind # "candidate"
      \/ /\ back' = [back EXCEPT !.lost = back.lost \cup {m.desc}]
         /\ UNCHANGED down /\ ~back.remote
  BY <1>4 DEF ReceiveOffer, ReceiveAnswer, ReceiveCandidate
<1>8. down' \in Seq(Message) /\ \A i \in 1..Len(down') : down'[i].of = back.id
  BY <1>1, <1>2, <1>7, SayKeeps
<1>9. /\ back' \in Backend /\ back'.id = back.id
      /\ \/ back'.lost = back.lost /\ back'.applied = back.applied /\ back'.remote = back.remote
         \/ /\ m.kind # "candidate" /\ back'.remote
            /\ back'.lost = back.lost /\ back'.applied = back.applied \cup {m.desc}
         \/ /\ ~back.remote /\ ~back'.remote
            /\ back'.lost = back.lost \cup {m.desc} /\ back'.applied = back.applied
  <2>1. back.applied \cup {m.desc} \in SUBSET Nat /\ back.lost \cup {m.desc} \in SUBSET Nat
        /\ back.out + 1 \in Nat
    BY <1>1, <1>5 DEF Backend
  <2>2. CASE back' = back
    BY <1>1, <2>2
  <2>3. CASE /\ back' = [back EXCEPT !.sig = "stable", !.remote = TRUE,
                                     !.applied = back.applied \cup {m.desc}, !.out = back.out + 1]
             /\ m.kind # "candidate"
    BY <1>1, <2>1, <2>3 DEF Backend
  <2>4. CASE /\ back' = [back EXCEPT !.sig = "stable", !.remote = TRUE,
                                     !.applied = back.applied \cup {m.desc}]
             /\ m.kind # "candidate"
    BY <1>1, <2>1, <2>4 DEF Backend
  <2>5. CASE back' = [back EXCEPT !.lost = back.lost \cup {m.desc}] /\ ~back.remote
    BY <1>1, <2>1, <2>5 DEF Backend
  <2>6. QED
    BY <1>7, <2>2, <2>3, <2>4, <2>5
<1>10. pc' = pc /\ mounted' = mounted
  BY <1>2 DEF BackendOnly, pageVars
<1>11. mounted => /\ m.desc <= pc.desc
                  /\ \A i \in 1..Len(up') : up'[i].desc <= pc.desc
                  /\ \A d \in back.lost : d <= pc.desc
  BY <1>1, <1>3 DEF Descriptions
<1>12. ASSUME NEW j \in 1..Len(up'), up'[j].kind # "candidate"
       PROVE  /\ \A i \in 1..(j - 1) : up'[i].desc < up'[j].desc
              /\ \A d \in back.lost : d < up'[j].desc
              /\ m.desc < up'[j].desc
  <2>1. j + 1 \in 1..Len(up) /\ up'[j] = up[j + 1]
    BY <1>3
  <2>2. /\ \A i \in 1..((j + 1) - 1) : up[i].desc < up[j + 1].desc
        /\ \A d \in back.lost : d < up[j + 1].desc
    BY <1>1, <1>12, <2>1 DEF Descriptions
  <2>3. ASSUME NEW i \in 1..(j - 1) PROVE up'[i].desc < up'[j].desc
    <3>1. i \in 1..Len(up') /\ i + 1 \in 1..((j + 1) - 1)
      BY <1>3
    <3>2. QED
      BY <1>3, <2>1, <2>2, <3>1
  <2>4. 1 \in 1..((j + 1) - 1)
    BY <1>3
  <2>5. QED
    BY <1>3, <2>1, <2>2, <2>3, <2>4
<1>13. Descriptions'
  <2>1. \A d \in back'.lost : d \in back.lost \/ d = m.desc
    BY <1>9
  <2>2. ~back'.remote => back'.applied = {}
    BY <1>1, <1>9 DEF Descriptions
  <2>3. QED
    BY <1>10, <1>11, <1>12, <2>1, <2>2 DEF Descriptions
<1>14. NoCandidateLost'
  <2>1. m.kind # "candidate" => \A d \in back.lost : d < m.desc
    BY <1>1, <1>3 DEF Descriptions
  <2>2. ~back.remote => back.applied = {}
    BY <1>1 DEF Descriptions
  <2>3. m.kind # "candidate" => m.desc \notin back.lost
    BY <1>5, <2>1
  <2>4. QED
    BY <1>1, <1>9, <2>2, <2>3 DEF NoCandidateLost
<1>15. QED
  BY <1>2, <1>3, <1>6, <1>8, <1>9, <1>13, <1>14, BackendStep
-----------------------------------------------------------------------------
(* The socket opens: with a new session of the backend, and nothing on it. *)
LEMMA OpenStep == PageInv /\ (\E n \in Sockets : SocketOpens(n)) => PageInv'
<1> SUFFICES ASSUME PageInv, NEW n \in Sockets, SocketOpens(n) PROVE PageInv'
  OBVIOUS
<1>1. /\ sock[n] = "connecting" /\ sock' = [sock EXCEPT ![n] = "open"]
      /\ back' = SessionFor(n) /\ up' = <<>>
      /\ down' = <<[of |-> n, n |-> 1, kind |-> "created"]>>
      /\ UNCHANGED <<current, first, mounted, timer, session, pending, mic, rendered, pc, peerStatus>>
  BY DEF SocketOpens
<1>2. TypeOK /\ Phases /\ mounted /\ n = current /\ n >= first /\ ~timer
  BY <1>1, SocketNumbers DEF PageInv, OneSocket, Live, Phases, TypeOK
<1>3. status' = "connected" /\ status = "connecting"
  <2>1. status = "connecting"
    BY <1>1, <1>2, SocketNumbers DEF Phases, TypeOK
  <2>2. QED
    BY <1>2, <2>1 DEF SocketOpens, Listens
<1>4. /\ back' \in Backend /\ back'.id = n /\ back'.lost = {} /\ back'.applied = {}
  BY <1>1, NewSession, SocketNumbers
<1>5. /\ down' \in Seq(Message) /\ \A i \in 1..Len(down') : down'[i].of = n
      /\ up' \in Seq(Signal) /\ \A i \in 1..Len(up') : FALSE
  <2>1. [of |-> n, n |-> 1, kind |-> "created"] \in Message
    BY DEF Message
  <2>2. QED
    BY <1>1, <2>1
<1>6. TypeOK'
  BY <1>1, <1>2, <1>3, <1>4, <1>5 DEF TypeOK, SocketState
<1>7. (mounted => Phases)'
  <2>1. sock'[current'] = "open" /\ current' = n /\ n # 0 /\ ~timer'
    BY <1>1, <1>2, SocketNumbers DEF TypeOK
  <2>2. pc'.of = 0 /\ rendered'.status # "connected" /\ session' = 0
    BY <1>1, <1>2, <1>3 DEF Phases
  <2>3. current' >= first'
    BY <1>1, <1>2
  <2>4. QED
    BY <1>3, <1>4, <2>1, <2>2, <2>3 DEF Phases
<1>8. Absent'
  BY <1>1, <1>4 DEF PageInv, Absent
<1>9. Closers' /\ OneSocket'
  BY <1>1, <1>2 DEF PageInv, Closers, OneSocket, Live, TypeOK
<1>10. Addressed'
  <2>1. pending' = <<>>
    BY <1>1, <1>2, <1>3 DEF Phases
  <2>2. QED
    BY <1>1, <1>4, <1>5, <2>1 DEF PageInv, Addressed
<1>11. Descriptions' /\ NoCandidateLost'
  BY <1>4, <1>5 DEF Descriptions, NoCandidateLost
<1>12. QED
  BY <1>6, <1>7, <1>8, <1>9, <1>10, <1>11 DEF PageInv

(* A socket closes: the one in use, with its session, or one that a cleanup has
   closed, which says nothing to the page any more. *)
LEMMA CloseStep == PageInv /\ (\E n \in Sockets : SocketCloses(n)) => PageInv'
<1> SUFFICES ASSUME PageInv, NEW n \in Sockets, SocketCloses(n) PROVE PageInv'
  OBVIOUS
<1>1. /\ sock[n] \in {"connecting", "open", "closing"} /\ sock' = [sock EXCEPT ![n] = "closed"]
      /\ UNCHANGED <<first, mounted, pending, mic, rendered, pc, peerStatus>>
  BY DEF SocketCloses
<1>2. TypeOK /\ Closers /\ OneSocket /\ Absent /\ Addressed /\ Descriptions /\ NoCandidateLost
      /\ (mounted => Phases)
  BY DEF PageInv
<1>3. \/ n = back.id /\ up' = <<>> /\ down' = <<>> /\ back' = SessionFor(0)
      \/ n # back.id /\ UNCHANGED <<up, down, back>>
  BY DEF SocketCloses
<1>4. 0 \in 0..MaxSocket /\ n # 0
  BY SocketNumbers
<1>5. /\ back' \in Backend /\ up' \in Seq(Signal) /\ down' \in Seq(Message)
      /\ (back' = SessionFor(0) => back'.id = 0 /\ back'.lost = {} /\ back'.applied = {})
  <2>1. /\ SessionFor(0) \in Backend /\ SessionFor(0).id = 0
        /\ SessionFor(0).lost = {} /\ SessionFor(0).applied = {}
    BY <1>4, NewSession
  <2>2. <<>> \in Seq(Signal) /\ <<>> \in Seq(Message)
    OBVIOUS
  <2>3. up \in Seq(Signal) /\ down \in Seq(Message) /\ back \in Backend
    BY <1>2 DEF TypeOK
  <2>4. QED
    BY <1>3, <2>1, <2>2, <2>3
<1>6. /\ \A i \in 1..Len(up') : up'[i].of = back'.id
      /\ \A i \in 1..Len(down') : down'[i].of = back'.id
  BY <1>2, <1>3, EmptyOf DEF Addressed
<1>7. Descriptions' /\ NoCandidateLost' /\ (back'.id = 0 => back'.lost = {})
  <2>1. CASE n = back.id
    BY <1>3, <1>5, EmptyOf, <2>1 DEF Descriptions, NoCandidateLost
  <2>2. CASE n # back.id
    BY <1>1, <1>2, <1>3, <2>2 DEF Descriptions, NoCandidateLost, Absent
  <2>3. QED
    BY <2>1, <2>2
<1>8. Absent'
  BY <1>1, <1>2, <1>7 DEF Absent
<1>9. \A k \in Sockets : sock'[k] = IF k = n THEN "closed" ELSE sock[k]
  BY <1>1, <1>2 DEF TypeOK
<1>10. Closers'
  BY <1>1, <1>2, <1>9 DEF Closers
<1>11. CASE Listens(n)
  <2>1. current' = 0 /\ status' = "disconnected" /\ session' = 0 /\ timer' = TRUE
    BY <1>11 DEF SocketCloses
  <2>2. mounted /\ n >= first /\ sock[n] \in Live /\ n = current
    BY <1>1, <1>2, <1>11 DEF Listens, Closers, OneSocket, Live
  <2>3. back'.id = 0
    <3>1. back.id \in {0, n}
      BY <1>2, <2>2 DEF Phases, TypeOK
    <3>2. QED
      BY <1>3, <1>5, <3>1
  <2>4. (mounted => Phases)'
    <3>1. rendered'.status = "connected" <=> pc'.of # 0
      BY <1>1, <1>2, <2>2 DEF Phases
    <3>2. QED
      BY <2>1, <2>3, <3>1 DEF Phases
  <2>5. OneSocket'
    BY <1>2, <1>9, <2>2 DEF OneSocket, Live
  <2>6. Addressed'
    BY <1>1, <1>2, <1>6, <2>1 DEF Addressed
  <2>7. TypeOK'
    BY <1>1, <1>2, <1>4, <1>5, <2>1 DEF TypeOK, SocketState
  <2>8. QED
    BY <1>7, <1>8, <1>10, <2>4, <2>5, <2>6, <2>7 DEF PageInv
<1>12. CASE ~Listens(n)
  <2>1. UNCHANGED <<current, status, session, timer>>
    BY <1>12 DEF SocketCloses
  <2>2. mounted => n # current /\ n # back.id
    BY <1>2, <1>4, <1>12, SocketNumbers DEF Listens, Phases, TypeOK
  <2>3. (mounted => Phases)'
    <3>1. ASSUME mounted
          PROVE  UNCHANGED back /\ (current # 0 => sock'[current] = sock[current])
      BY <1>2, <1>3, <1>9, <2>2, <3>1, SocketNumbers DEF TypeOK
    <3>2. QED
      BY <1>1, <1>2, <2>1, <3>1 DEF Phases
  <2>4. OneSocket'
    BY <1>1, <1>2, <1>9, <2>1 DEF OneSocket, Live
  <2>5. Addressed'
    BY <1>1, <1>2, <1>6, <2>1 DEF Addressed
  <2>6. TypeOK'
    BY <1>1, <1>2, <1>5, <2>1 DEF TypeOK, SocketState
  <2>7. QED
    BY <1>7, <1>8, <1>10, <2>3, <2>4, <2>5, <2>6 DEF PageInv
<1>13. QED
  BY <1>11, <1>12

(* The page opens the next socket: the last one is gone, and so is its peer. *)
LEMMA ReconnectStep == PageInv /\ (\E n \in Sockets : Reconnect(n)) => PageInv'
<1> SUFFICES ASSUME PageInv, NEW n \in Sockets, Reconnect(n) PROVE PageInv'
  OBVIOUS
<1>1. /\ timer /\ mounted /\ rendered.status = status /\ sock[n] = "none"
      /\ timer' = FALSE /\ sock' = [sock EXCEPT ![n] = "connecting"]
      /\ current' = n /\ status' = "connecting" /\ pending' = <<>>
      /\ UNCHANGED <<first, mounted, session, mic, rendered, pc, peerStatus, up, down, back>>
  BY DEF Reconnect, Unused, Connect
<1>2. TypeOK /\ Closers /\ OneSocket /\ Absent /\ Addressed /\ Descriptions /\ NoCandidateLost
      /\ Phases
  BY <1>1 DEF PageInv
<1>3. status = "disconnected"
  BY <1>1, <1>2 DEF Phases, TypeOK
<1>4. \A k \in Sockets : sock'[k] = IF k = n THEN "connecting" ELSE sock[k]
  BY <1>1, <1>2 DEF TypeOK
<1>5. \A k \in Sockets : sock[k] \notin Live
  BY <1>1, <1>2 DEF OneSocket
<1>6. n >= first /\ n # 0 /\ n \in 0..MaxSocket
  <2>1. ~(n < first)
    BY <1>1, <1>2 DEF Closers
  <2>2. QED
    BY <1>2, <2>1, SocketNumbers DEF TypeOK
<1>7. TypeOK'
  BY <1>1, <1>2, <1>6, EmptyOf DEF TypeOK, SocketState
<1>8. (mounted => Phases)'
  <2>1. sock'[current'] = "connecting" /\ current' # 0 /\ current' >= first' /\ ~timer'
    BY <1>1, <1>4, <1>6
  <2>2. back'.id = 0 /\ session' = 0 /\ rendered'.status # "connected" /\ pc'.of = 0
    BY <1>1, <1>2, <1>3 DEF Phases
  <2>3. QED
    BY <1>1, <2>1, <2>2 DEF Phases
<1>9. Absent' /\ Closers' /\ OneSocket'
  BY <1>1, <1>2, <1>4, <1>5 DEF Absent, Closers, OneSocket, Live
<1>10. Addressed' /\ Descriptions' /\ NoCandidateLost'
  BY <1>1, <1>2 DEF Addressed, Descriptions, NoCandidateLost
<1>11. QED
  BY <1>7, <1>8, <1>9, <1>10 DEF PageInv

(* A message event. *)
LEMMA DeliverStep == PageInv /\ Deliver => PageInv'
<1> SUFFICES ASSUME PageInv, Deliver PROVE PageInv'
  OBVIOUS
<1> DEFINE m == Head(down)
<1>1. /\ down # <<>> /\ sock[back.id] = "open" /\ mounted /\ down' = Tail(down)
      /\ UNCHANGED <<sock, current, first, mounted, timer, status, mic, rendered, peerStatus, up, back>>
      /\ session' = IF m.kind = "created" THEN m.of ELSE session
      /\ \/ pc.of = 0 /\ pending' = Append(pending, m) /\ UNCHANGED pc
         \/ pc.of # 0 /\ pc' = [pc EXCEPT !.chain = Append(pc.chain, m)] /\ UNCHANGED pending
  BY DEF Deliver, Listens
<1>2. /\ TypeOK /\ Phases /\ Absent /\ Closers /\ OneSocket /\ Addressed /\ Descriptions
      /\ NoCandidateLost
  BY <1>1 DEF PageInv
<1>3. /\ down \in Seq(Message) /\ pending \in Seq(Message) /\ pc \in Peer /\ back \in Backend
      /\ pc.chain \in Seq(Message) /\ back.id \in 0..MaxSocket
  BY <1>2 DEF TypeOK, Peer, Backend
<1>4. /\ down' \in Seq(Message) /\ m \in Message /\ m = down[1]
      /\ Len(down') = Len(down) - 1 /\ Len(down) \in Nat \ {0}
      /\ \A i \in 1..Len(down') : i + 1 \in 1..Len(down) /\ down'[i] = down[i + 1]
  BY <1>1, <1>3, TailOf
<1>5. m.of = back.id /\ m.of \in Sockets /\ \A i \in 1..Len(down') : down'[i].of = back.id
  BY <1>2, <1>4 DEF Addressed, Message
<1>6. current = back.id /\ status = "connected"
  <2>1. current = back.id
    BY <1>1, <1>2, <1>5 DEF OneSocket, Live
  <2>2. current # 0
    BY <1>5, <2>1, SocketNumbers
  <2>3. QED
    BY <1>1, <1>2, <2>1, <2>2 DEF Phases, TypeOK
<1> HIDE DEF m
<1>7. session' \in {0, current} /\ session' \in 0..MaxSocket
  BY <1>1, <1>2, <1>3, <1>5, <1>6 DEF Phases, TypeOK
<1>8. /\ pc' \in Peer /\ pc'.of = pc.of /\ pc'.desc = pc.desc
      /\ \A i \in 1..Len(pc'.chain) : pc'.chain[i].of = pc.of
      /\ pending' \in Seq(Message) /\ \A i \in 1..Len(pending') : pending'[i].of = current
  <2>1. CASE pc.of = 0
    <3>1. /\ pending' \in Seq(Message) /\ Len(pending') = Len(pending) + 1 /\ Len(pending) \in Nat
          /\ \A i \in 1..Len(pending) : pending'[i] = pending[i]
          /\ pending'[Len(pending) + 1] = m
      <4>1. pending' = Append(pending, m)
        BY <1>1, <2>1
      <4>2. QED
        BY <1>3, <1>4, <4>1, AppendOf
    <3>2. ASSUME NEW i \in 1..Len(pending') PROVE pending'[i].of = current
      <4>1. CASE i \in 1..Len(pending)
        BY <1>1, <1>2, <1>6, <3>1, <4>1 DEF Addressed
      <4>2. CASE i = Len(pending) + 1
        BY <1>5, <1>6, <3>1, <4>2
      <4>3. QED
        BY <3>1, <4>1, <4>2
    <3>3. QED
      BY <1>1, <1>2, <1>3, <2>1, <3>1, <3>2 DEF Addressed
  <2>2. CASE pc.of # 0
    <3> DEFINE q == Append(pc.chain, m)
    <3>1. /\ q \in Seq(Message) /\ Len(q) = Len(pc.chain) + 1 /\ Len(pc.chain) \in Nat
          /\ \A i \in 1..Len(pc.chain) : q[i] = pc.chain[i]
          /\ q[Len(pc.chain) + 1] = m
      BY <1>3, <1>4, AppendOf
    <3>2. pc' = [pc EXCEPT !.chain = q] /\ pending' = pending
      BY <1>1, <2>2
    <3> HIDE DEF q
    <3>3. pc.of = current
      BY <1>2, <1>6, <2>2 DEF Phases
    <3>4. ASSUME NEW i \in 1..Len(q) PROVE q[i].of = pc.of
      <4>1. CASE i \in 1..Len(pc.chain)
        BY <1>2, <3>1, <4>1 DEF Addressed
      <4>2. CASE i = Len(pc.chain) + 1
        BY <1>5, <1>6, <3>1, <3>3, <4>2
      <4>3. QED
        BY <3>1, <4>1, <4>2
    <3>5. pc' \in Peer /\ pc'.of = pc.of /\ pc'.desc = pc.desc /\ pc'.chain = q
      BY <1>3, <3>1, <3>2 DEF Peer
    <3>6. QED
      BY <1>1, <1>2, <1>3, <1>6, <3>2, <3>4, <3>5 DEF Addressed
  <2>3. QED
    BY <2>1, <2>2
<1>9. TypeOK'
  BY <1>1, <1>2, <1>4, <1>7, <1>8 DEF TypeOK
<1>10. (mounted => Phases)'
  BY <1>1, <1>2, <1>6, <1>7, <1>8 DEF Phases
<1>11. Absent' /\ Closers' /\ OneSocket'
  BY <1>1, <1>2, <1>8 DEF Absent, Closers, OneSocket
<1>12. Addressed'
  BY <1>1, <1>2, <1>5, <1>8 DEF Addressed
<1>13. Descriptions' /\ NoCandidateLost'
  BY <1>1, <1>2, <1>8 DEF Descriptions, NoCandidateLost
<1>14. QED
  BY <1>9, <1>10, <1>11, <1>12, <1>13 DEF PageInv

LEMMA UnmountStep == PageInv /\ Unmount => PageInv'
<1> SUFFICES ASSUME PageInv, Unmount PROVE PageInv'
  OBVIOUS
<1>1. /\ mounted /\ mounted' = FALSE /\ timer' = FALSE /\ current' = 0
      /\ pc' = NoPeer /\ mic' = "off"
      /\ status' = "connecting" /\ session' = 0 /\ pending' = <<>>
      /\ rendered' = Unrendered /\ peerStatus' = "other"
      /\ UNCHANGED <<first, up, down, back>>
      /\ sock' = IF current # 0 /\ sock[current] \in Live
                   THEN [sock EXCEPT ![current] = "closing"] ELSE sock
  BY DEF Unmount
<1>2. TypeOK /\ Closers /\ OneSocket /\ Absent /\ Addressed /\ Descriptions /\ NoCandidateLost
  BY DEF PageInv
<1>3. sock' \in [Sockets -> SocketState]
  BY <1>1, <1>2 DEF TypeOK, SocketState
<1>4. \A k \in Sockets : sock'[k] = IF k = current /\ sock[k] \in Live THEN "closing" ELSE sock[k]
  BY <1>1, <1>2, SocketNumbers DEF TypeOK
<1>5. \A k \in Sockets : sock'[k] \notin Live
  BY <1>2, <1>4 DEF OneSocket, Live
<1>6. pc' \in Peer /\ pc'.of = 0 /\ pc'.desc = 0 /\ pc'.chain = <<>>
  BY <1>1, NewPeer, EmptyOf, SocketNumbers DEF NoPeer
<1>7. TypeOK'
  BY <1>1, <1>2, <1>3, <1>6, EmptyOf, SocketNumbers DEF TypeOK, Unrendered
<1>8. Absent' /\ OneSocket'
  BY <1>1, <1>2, <1>5, <1>6 DEF Absent, OneSocket
<1>9. Closers'
  BY <1>1, <1>2, <1>4 DEF Closers, Live
<1>10. Addressed' /\ Descriptions' /\ NoCandidateLost'
  BY <1>1, <1>2, <1>6, EmptyOf DEF Addressed, Descriptions, NoCandidateLost
<1>11. QED
  BY <1>1, <1>7, <1>8, <1>9, <1>10 DEF PageInv

LEMMA MicrophoneStep ==
  PageInv /\ (MicrophoneStarts \/ MicrophoneAnswers \/ MicrophoneStops) => PageInv'
<1> SUFFICES ASSUME PageInv, MicrophoneStarts \/ MicrophoneAnswers \/ MicrophoneStops PROVE PageInv'
  OBVIOUS
<1>1. /\ UNCHANGED <<sock, current, first, mounted, timer, status, session, pending, rendered, pc,
                     peerStatus, up, down, back>>
      /\ mic' \in {"off", "starting", "on"}
  BY DEF MicrophoneStarts, MicrophoneAnswers, MicrophoneStops, MicrophoneOnly
<1>2. TypeOK'
  BY <1>1 DEF PageInv, TypeOK
<1>3. (mounted => Phases)'
  BY <1>1 DEF PageInv, Phases
<1>4. Absent' /\ Closers' /\ OneSocket'
  BY <1>1 DEF PageInv, Absent, Closers, OneSocket
<1>5. Addressed' /\ Descriptions' /\ NoCandidateLost'
  BY <1>1 DEF PageInv, Addressed, Descriptions, NoCandidateLost
<1>6. QED
  BY <1>2, <1>3, <1>4, <1>5 DEF PageInv

(* A commit: the status the effects have seen catches up, and the peer with it. *)
LEMMA RenderStep == PageInv /\ Render => PageInv'
<1> SUFFICES ASSUME PageInv, Render PROVE PageInv'
  OBVIOUS
<1> DEFINE p == AfterPeerEffect
<1>1. /\ mounted /\ rendered' = Shown
      /\ pending' = IF Opening THEN <<>> ELSE pending
      /\ pc' = p \/ pc' = [p EXCEPT !.mic = Shown.stream]
      /\ peerStatus' \in {"other", "failed", peerStatus}
      /\ UNCHANGED <<sock, current, first, mounted, timer, status, session, mic, up, down, back>>
  BY DEF Render
<1>2. /\ TypeOK /\ Phases /\ Absent /\ Closers /\ OneSocket /\ Addressed /\ Descriptions
      /\ NoCandidateLost
  BY <1>1 DEF PageInv
<1>3. /\ rendered'.status = status /\ rendered'.stream \in BOOLEAN
      /\ rendered' \in [status : {"connecting", "connected", "disconnected"}, stream : BOOLEAN]
      /\ Shown.stream \in BOOLEAN
  BY <1>1, <1>2 DEF Shown, TypeOK
<1>4. \/ Opening /\ p = PeerFor(current, pending)
      \/ ~Opening /\ Closing /\ p = NoPeer
      \/ ~Opening /\ ~Closing /\ p = pc
  BY DEF AfterPeerEffect
<1>5. /\ pc \in Peer /\ pending \in Seq(Message) /\ current \in 0..MaxSocket
      /\ \A i \in 1..Len(pc.chain) : pc.chain[i].of = pc.of
  BY <1>2 DEF TypeOK, Addressed
<1> HIDE DEF p
<1>6. /\ p \in Peer /\ \A i \in 1..Len(p.chain) : p.chain[i].of = p.of
      /\ p.of = 0 => p.desc = 0
      /\ p.of # 0 <=> status = "connected"
      /\ p.of # 0 => p.of = current
      /\ \/ p.desc = pc.desc
         \/ p.desc = 0 /\ (\A i \in 1..Len(up) : FALSE) /\ back.lost = {}
  <2>1. CASE Opening /\ p = PeerFor(current, pending)
    <3>1. /\ p \in Peer /\ p.of = current /\ p.desc = 0 /\ p.chain = pending
      BY <1>5, <2>1, NewPeer
    <3>2. status = "connected" /\ current # 0 /\ pc.of = 0
      BY <1>2, <2>1 DEF Opening, Phases
    <3>3. pc.desc = 0 /\ \A i \in 1..Len(pending) : pending[i].of = current
      BY <1>1, <1>2, <3>2 DEF Absent, Addressed
    <3>4. QED
      BY <3>1, <3>2, <3>3
  <2>2. CASE Closing /\ p = NoPeer
    <3>1. p \in Peer /\ p.of = 0 /\ p.desc = 0 /\ p.chain = <<>>
      BY <2>2, NewPeer, EmptyOf, SocketNumbers DEF NoPeer
    <3>2. status # "connected" /\ back.id = 0
      BY <1>2, <2>2 DEF Closing, Phases, TypeOK
    <3>3. back.lost = {}
      BY <1>2, <3>2 DEF Absent
    <3>4. ASSUME NEW i \in 1..Len(up) PROVE FALSE
      <4>1. up[i] \in Signal /\ up[i].of = 0
        BY <1>2, <3>2, <3>4 DEF TypeOK, Addressed
      <4>2. QED
        BY <4>1, SocketNumbers DEF Signal
    <3>5. QED
      BY <3>1, <3>2, <3>3, <3>4, EmptyOf
  <2>3. CASE ~Opening /\ ~Closing /\ p = pc
    <3>1. pc.of # 0 <=> status = "connected"
      BY <1>2, <2>3 DEF Opening, Closing, Phases, TypeOK
    <3>2. QED
      BY <1>2, <1>5, <2>3, <3>1 DEF Phases, Absent
  <2>4. QED
    BY <1>4, <2>1, <2>2, <2>3
<1>7. pc' \in Peer /\ pc'.of = p.of /\ pc'.desc = p.desc /\ pc'.chain = p.chain
  <2>1. /\ [p EXCEPT !.mic = Shown.stream] \in Peer
        /\ [p EXCEPT !.mic = Shown.stream].of = p.of
        /\ [p EXCEPT !.mic = Shown.stream].desc = p.desc
        /\ [p EXCEPT !.mic = Shown.stream].chain = p.chain
    BY <1>3, <1>6 DEF Peer
  <2>2. QED
    BY <1>1, <1>6, <2>1
<1>8. pending' \in Seq(Message) /\ (status = "connecting" => pending' = <<>>)
      /\ (status = "connected" => \A i \in 1..Len(pending') : pending'[i].of = current)
  <2>1. CASE pending' = <<>>
    BY <2>1, EmptyOf
  <2>2. CASE pending' = pending
    BY <1>1, <1>2, <1>5, <2>2 DEF Addressed, Phases
  <2>3. QED
    BY <1>1, <2>1, <2>2
<1>9. TypeOK'
  BY <1>1, <1>2, <1>3, <1>7, <1>8 DEF TypeOK
<1>10. (mounted => Phases)'
  BY <1>1, <1>2, <1>3, <1>6, <1>7, <1>8 DEF Phases
<1>11. Absent' /\ Closers' /\ OneSocket'
  BY <1>1, <1>2, <1>6, <1>7 DEF Absent, Closers, OneSocket
<1>12. Addressed'
  BY <1>1, <1>2, <1>6, <1>7, <1>8 DEF Addressed
<1>13. Descriptions' /\ NoCandidateLost'
  BY <1>1, <1>2, <1>6, <1>7 DEF Descriptions, NoCandidateLost
<1>14. QED
  BY <1>9, <1>10, <1>11, <1>12, <1>13 DEF PageInv

LEMMA InitInv == Init => PageInv
<1> SUFFICES ASSUME Init PROVE PageInv
  OBVIOUS
<1>1. /\ pc \in Peer /\ pc.of = 0 /\ pc.desc = 0 /\ pc.chain = <<>>
  BY NewPeer, EmptyOf, SocketNumbers DEF Init, NoPeer
<1>2. back \in Backend /\ back.id = 0 /\ back.lost = {} /\ back.applied = {}
  BY NewSession, SocketNumbers DEF Init
<1>3. first \in Sockets /\ current = first /\ first \in 0..MaxSocket /\ first # 0
  BY BoundsAssumption DEF Init, Sockets, MaxSocket
<1>4. sock \in [Sockets -> SocketState]
  BY DEF Init, SocketState
<1>5. TypeOK
  BY <1>1, <1>2, <1>3, <1>4, EmptyOf, SocketNumbers DEF Init, TypeOK, Unrendered
<1>6. \A n \in Sockets : sock[n] = IF n < first THEN "closing"
                                   ELSE IF n = first THEN "connecting" ELSE "none"
  BY DEF Init
<1>7. Phases
  <2>1. sock[current] = "connecting" /\ current >= first
    BY <1>3, <1>6
  <2>2. QED
    BY <1>1, <1>2, <1>3, <2>1 DEF Init, Phases, Unrendered
<1>8. Absent /\ Closers /\ OneSocket
  BY <1>1, <1>2, <1>3, <1>6 DEF Init, Absent, Closers, OneSocket, Live
<1>9. Addressed /\ Descriptions /\ NoCandidateLost
  BY <1>1, <1>2, EmptyOf DEF Init, Addressed, Descriptions, NoCandidateLost
<1>10. QED
  BY <1>5, <1>7, <1>8, <1>9 DEF PageInv

LEMMA NextInv == PageInv /\ [Next]_vars => PageInv'
<1> SUFFICES ASSUME PageInv, [Next]_vars PROVE PageInv'
  OBVIOUS
<1>1. CASE Page
  BY <1>1, DeliverStep, RenderStep, UnmountStep, ReconnectStep, MicrophoneStep DEF Page
<1>2. CASE ChainStep
  BY <1>2, NegotiateStep, TakeStep, AnswerStep, FailStep DEF ChainStep
<1>3. CASE Browser
  BY <1>3, BrowserStep, OpenStep, CloseStep DEF Browser
<1>4. CASE Library
  BY <1>4, ReceiveStep, SpeakStep DEF Library
<1>5. CASE UNCHANGED vars
  <2>1. UNCHANGED <<current, first, mounted, timer, status, session, pending, mic, rendered,
                    peerStatus, sock, pc, up, down, back>>
    BY <1>5 DEF vars, pageVars
  <2>2. TypeOK' /\ (mounted => Phases)'
    BY <2>1 DEF PageInv, TypeOK, Phases
  <2>3. Absent' /\ Closers' /\ OneSocket' /\ Addressed' /\ Descriptions' /\ NoCandidateLost'
    BY <2>1 DEF PageInv, Absent, Closers, OneSocket, Addressed, Descriptions, NoCandidateLost
  <2>4. QED
    BY <2>2, <2>3 DEF PageInv
<1>6. QED
  BY <1>1, <1>2, <1>3, <1>4, <1>5 DEF Next
-----------------------------------------------------------------------------
(* What the backend has said and the page has not handled, piece by piece: on the
   connection, pending, and in the chain, which has negotiations in between. *)

(* q holds the last messages said before or with the one numbered last. *)
Numbered(q, last) == \A i \in 1..Len(q) : Spoken(q[i]) /\ q[i].n = last - Len(q) + i

(* The chain q holds the messages after the one numbered handled, to last. *)
Told(q, handled, last) ==
  /\ handled <= last
  /\ \A i \in 1..Len(q) : Spoken(q[i]) => handled < q[i].n /\ q[i].n <= last
  /\ \A i, j \in 1..Len(q) : Spoken(q[i]) /\ Spoken(q[j]) /\ i < j => q[i].n < q[j].n
  /\ \A k \in (handled + 1)..last : \E i \in 1..Len(q) : Spoken(q[i]) /\ q[i].n = k

InOrder ==
  /\ pc.of = 0 => pc.chain = <<>> /\ pc.handled = 0
  /\ pc.of # 0 => pending = <<>>
  /\ Serving /\ mounted =>
       /\ Numbered(down, back.out)
       /\ Numbered(pending, back.out - Len(down))
       /\ Told(pc.chain, pc.handled, back.out - Len(down) - Len(pending))

LEMMA NumberedTail ==
  ASSUME NEW q \in Seq(Message), q # <<>>, NEW last \in Int, Numbered(q, last)
  PROVE  /\ Numbered(Tail(q), last) /\ Len(Tail(q)) = Len(q) - 1 /\ Len(q) \in Nat \ {0}
         /\ Spoken(Head(q)) /\ Head(q).n = last - Len(q) + 1
<1>1. /\ Head(q) = q[1] /\ Len(Tail(q)) = Len(q) - 1 /\ Len(q) \in Nat \ {0}
      /\ \A i \in 1..Len(Tail(q)) : i + 1 \in 1..Len(q) /\ Tail(q)[i] = q[i + 1]
  BY TailOf
<1>2. Spoken(q[1]) /\ q[1].n = last - Len(q) + 1
  BY <1>1 DEF Numbered
<1> DEFINE t == Tail(q)
<1>3. /\ Len(t) = Len(q) - 1
      /\ \A i \in 1..Len(t) : i + 1 \in 1..Len(q) /\ t[i] = q[i + 1]
  BY <1>1
<1> HIDE DEF t
<1>4. ASSUME NEW i \in 1..Len(t) PROVE Spoken(t[i]) /\ t[i].n = last - Len(t) + i
  <2>1. Spoken(q[i + 1]) /\ q[i + 1].n = last - Len(q) + (i + 1)
    BY <1>3 DEF Numbered
  <2> QED BY <1>1, <1>3, <2>1
<1>5. Numbered(t, last)
  BY <1>4 DEF Numbered
<1> QED BY <1>1, <1>2, <1>5 DEF t

LEMMA NumberedAppend ==
  ASSUME NEW q \in Seq(Message), NEW m \in Message, NEW last \in Int, Numbered(q, last),
         Spoken(m), m.n = last + 1
  PROVE  Numbered(Append(q, m), last + 1) /\ Len(Append(q, m)) = Len(q) + 1
<1> DEFINE a == Append(q, m)
<1>1. /\ Len(a) = Len(q) + 1 /\ Len(q) \in Nat
      /\ \A i \in 1..Len(q) : a[i] = q[i]
      /\ a[Len(q) + 1] = m
  BY AppendOf
<1> HIDE DEF a
<1>2. ASSUME NEW i \in 1..Len(a) PROVE Spoken(a[i]) /\ a[i].n = last + 1 - Len(a) + i
  <2>1. CASE i \in 1..Len(q)
    <3>1. Spoken(q[i]) /\ q[i].n = last - Len(q) + i
      BY <2>1 DEF Numbered
    <3> QED BY <1>1, <2>1, <3>1
  <2>2. CASE i = Len(q) + 1
    BY <1>1, <2>2
  <2> QED BY <1>1, <2>1, <2>2
<1>3. Numbered(a, last + 1)
  BY <1>2 DEF Numbered
<1> QED BY <1>1, <1>3 DEF a

(* The head of the chain is the next message, or a negotiation. *)
LEMMA ToldTail ==
  ASSUME NEW q \in Seq(Message), q # <<>>, NEW h \in Nat, NEW last \in Int, Told(q, h, last)
  PROVE  Told(Tail(q), IF Head(q).kind = "negotiate" THEN h ELSE Head(q).n, last)
<1> DEFINE t == Tail(q)
<1>1. /\ Head(q) = q[1] /\ Len(t) = Len(q) - 1 /\ Len(q) \in Nat \ {0}
      /\ \A i \in 1..Len(t) : i + 1 \in 1..Len(q) /\ t[i] = q[i + 1]
  BY TailOf
<1>2. \A i \in 1..Len(q) : q[i].n \in Nat
  <2>1. \A i \in 1..Len(q) : q[i] \in Message
    OBVIOUS
  <2> QED BY <2>1 DEF Message
<1> HIDE DEF t
<1>3. /\ h <= last
      /\ \A i \in 1..Len(q) : Spoken(q[i]) => h < q[i].n /\ q[i].n <= last
      /\ \A i, j \in 1..Len(q) : Spoken(q[i]) /\ Spoken(q[j]) /\ i < j => q[i].n < q[j].n
      /\ \A k \in (h + 1)..last : \E i \in 1..Len(q) : Spoken(q[i]) /\ q[i].n = k
  BY DEF Told
<1>4. \A i, j \in 1..Len(t) : Spoken(t[i]) /\ Spoken(t[j]) /\ i < j => t[i].n < t[j].n
  <2>1. ASSUME NEW i \in 1..Len(t), NEW j \in 1..Len(t), Spoken(t[i]), Spoken(t[j]), i < j
        PROVE  t[i].n < t[j].n
    <3>1. /\ i + 1 \in 1..Len(q) /\ t[i] = q[i + 1] /\ j + 1 \in 1..Len(q) /\ t[j] = q[j + 1]
          /\ i + 1 < j + 1
      BY <1>1, <2>1
    <3> QED BY <1>3, <2>1, <3>1
  <2> QED BY <2>1
<1>5. CASE ~Spoken(q[1])
  <2>1. ASSUME NEW k \in (h + 1)..last PROVE \E i \in 1..Len(t) : Spoken(t[i]) /\ t[i].n = k
    <3>1. PICK i \in 1..Len(q) : Spoken(q[i]) /\ q[i].n = k
      BY <1>3
    <3>2. i - 1 \in 1..Len(t) /\ t[i - 1] = q[i]
      BY <1>1, <1>5, <3>1
    <3> QED BY <3>1, <3>2
  <2>2. \A i \in 1..Len(t) : Spoken(t[i]) => h < t[i].n /\ t[i].n <= last
    BY <1>1, <1>3
  <2>3. Told(t, h, last)
    BY <1>3, <1>4, <2>1, <2>2 DEF Told
  <2> QED BY <1>1, <1>5, <2>3 DEF Spoken, t
<1>6. CASE Spoken(q[1])
  <2>1. h < q[1].n /\ q[1].n <= last /\ q[1].n \in Nat
    BY <1>1, <1>2, <1>3, <1>6
  <2>2. \A i \in 1..Len(t) : Spoken(t[i]) => q[1].n < t[i].n /\ t[i].n <= last
    <3>1. ASSUME NEW i \in 1..Len(t), Spoken(t[i]) PROVE q[1].n < t[i].n /\ t[i].n <= last
      <4>1. i + 1 \in 1..Len(q) /\ t[i] = q[i + 1] /\ 1 \in 1..Len(q) /\ 1 < i + 1
        BY <1>1
      <4> QED BY <1>3, <1>6, <3>1, <4>1
    <3> QED BY <3>1
  <2>3. ASSUME NEW k \in (q[1].n + 1)..last PROVE \E i \in 1..Len(t) : Spoken(t[i]) /\ t[i].n = k
    <3>1. k \in (h + 1)..last
      BY <2>1
    <3>2. PICK i \in 1..Len(q) : Spoken(q[i]) /\ q[i].n = k
      BY <1>3, <3>1
    <3>3. i # 1
      BY <2>1, <3>2
    <3>4. i - 1 \in 1..Len(t) /\ t[i - 1] = q[i]
      BY <1>1, <3>3
    <3> QED BY <3>2, <3>4
  <2>4. Told(t, q[1].n, last)
    BY <1>4, <2>1, <2>2, <2>3 DEF Told
  <2> QED BY <1>1, <1>6, <2>4 DEF Spoken, t
<1> QED BY <1>5, <1>6

(* A message is added, the next in the order, or a negotiation. *)
LEMMA ToldAppend ==
  ASSUME NEW q \in Seq(Message), NEW m \in Message, NEW h \in Nat, NEW last \in Int,
         Told(q, h, last)
  PROVE  /\ ~Spoken(m) => Told(Append(q, m), h, last)
         /\ Spoken(m) /\ m.n = last + 1 => Told(Append(q, m), h, last + 1)
<1> DEFINE a == Append(q, m)
<1>1. /\ Len(a) = Len(q) + 1 /\ Len(q) \in Nat
      /\ \A i \in 1..Len(q) : a[i] = q[i] /\ i \in 1..Len(a)
      /\ a[Len(q) + 1] = m /\ Len(q) + 1 \in 1..Len(a)
      /\ \A i \in 1..Len(a) : i \in 1..Len(q) \/ i = Len(q) + 1
  BY AppendOf
<1>2. \A i \in 1..Len(q) : q[i].n \in Nat
  <2>1. \A i \in 1..Len(q) : q[i] \in Message
    OBVIOUS
  <2> QED BY <2>1 DEF Message
<1> HIDE DEF a
<1>3. /\ h <= last
      /\ \A i \in 1..Len(q) : Spoken(q[i]) => h < q[i].n /\ q[i].n <= last
      /\ \A i, j \in 1..Len(q) : Spoken(q[i]) /\ Spoken(q[j]) /\ i < j => q[i].n < q[j].n
      /\ \A k \in (h + 1)..last : \E i \in 1..Len(q) : Spoken(q[i]) /\ q[i].n = k
  BY DEF Told
<1>4. CASE ~Spoken(m)
  <2>1. \A i \in 1..Len(a) : Spoken(a[i]) => i \in 1..Len(q) /\ a[i] = q[i]
    BY <1>1, <1>4
  <2>2. /\ \A i \in 1..Len(a) : Spoken(a[i]) => h < a[i].n /\ a[i].n <= last
        /\ \A i, j \in 1..Len(a) : Spoken(a[i]) /\ Spoken(a[j]) /\ i < j => a[i].n < a[j].n
    BY <1>3, <2>1
  <2>3. ASSUME NEW k \in (h + 1)..last PROVE \E i \in 1..Len(a) : Spoken(a[i]) /\ a[i].n = k
    <3>1. PICK i \in 1..Len(q) : Spoken(q[i]) /\ q[i].n = k
      BY <1>3
    <3> QED BY <1>1, <3>1
  <2>4. Told(a, h, last)
    BY <1>3, <2>2, <2>3 DEF Told
  <2> QED BY <1>4, <2>4 DEF a
<1>5. CASE Spoken(m) /\ m.n = last + 1
  <2>1. \A i \in 1..Len(a) : Spoken(a[i]) => h < a[i].n /\ a[i].n <= last + 1
    <3>1. ASSUME NEW i \in 1..Len(a), Spoken(a[i]) PROVE h < a[i].n /\ a[i].n <= last + 1
      <4>1. CASE i \in 1..Len(q)
        BY <1>1, <1>2, <1>3, <3>1, <4>1
      <4>2. CASE i = Len(q) + 1
        BY <1>1, <1>3, <1>5, <4>2
      <4> QED BY <1>1, <4>1, <4>2
    <3> QED BY <3>1
  <2>2. ASSUME NEW i \in 1..Len(a), NEW j \in 1..Len(a), Spoken(a[i]), Spoken(a[j]), i < j
        PROVE  a[i].n < a[j].n
    <3>1. i \in 1..Len(q) /\ a[i] = q[i]
      BY <1>1, <2>2
    <3>2. CASE j \in 1..Len(q)
      BY <1>1, <1>3, <2>2, <3>1, <3>2
    <3>3. CASE j = Len(q) + 1
      <4>1. a[j].n = last + 1
        BY <1>1, <1>5, <3>3
      <4>2. a[i].n <= last /\ a[i].n \in Nat
        BY <1>2, <1>3, <2>2, <3>1
      <4> QED BY <4>1, <4>2
    <3> QED BY <1>1, <3>2, <3>3
  <2>3. ASSUME NEW k \in (h + 1)..(last + 1) PROVE \E i \in 1..Len(a) : Spoken(a[i]) /\ a[i].n = k
    <3>1. CASE k = last + 1
      BY <1>1, <1>5, <3>1
    <3>2. CASE k # last + 1
      <4>1. PICK i \in 1..Len(q) : Spoken(q[i]) /\ q[i].n = k
        BY <1>3, <3>2
      <4> QED BY <1>1, <4>1
    <3> QED BY <3>1, <3>2
  <2>4. h <= last + 1
    BY <1>3
  <2>5. Told(a, h, last + 1)
    BY <2>1, <2>2, <2>3, <2>4 DEF Told
  <2> QED BY <1>5, <2>5 DEF a
<1> QED BY <1>4, <1>5

(* The pending messages become the chain of a new peer. *)
LEMMA ToldFromStart ==
  ASSUME NEW q \in Seq(Message), NEW last \in Int, Numbered(q, last), Told(<<>>, 0, last - Len(q))
  PROVE  Told(q, 0, last)
<1>1. Len(q) \in Nat /\ Len(q) <= last
  BY DEF Told
<1>2. Len(q) = last
  <2>1. CASE Len(q) < last
    <3>1. 1 \in (0 + 1)..(last - Len(q))
      BY <1>1, <2>1
    <3>2. \E i \in 1..Len(<<>>) : TRUE
      BY <3>1 DEF Told
    <3> QED BY <3>2, EmptyOf
  <2> QED BY <1>1, <2>1
<1>3. \A i \in 1..Len(q) : Spoken(q[i]) /\ q[i].n = i
  BY <1>1, <1>2 DEF Numbered
<1>4. \A k \in (0 + 1)..last : k \in 1..Len(q) /\ Spoken(q[k]) /\ q[k].n = k
  BY <1>1, <1>2, <1>3
<1> QED BY <1>1, <1>2, <1>3, <1>4 DEF Told

LEMMA SessionTypes ==
  ASSUME PageInv
  PROVE  /\ pc \in Peer /\ pc.chain \in Seq(Message) /\ pc.handled \in Nat
         /\ pending \in Seq(Message) /\ Len(pending) \in Nat
         /\ down \in Seq(Message) /\ Len(down) \in Nat
         /\ back \in Backend /\ back.out \in Nat /\ back.id \in 0..MaxSocket
         /\ back.out - Len(down) \in Int /\ back.out - Len(down) - Len(pending) \in Int
<1>1. pc \in Peer /\ pending \in Seq(Message) /\ down \in Seq(Message) /\ back \in Backend
  BY DEF PageInv, TypeOK
<1>2. pc.chain \in Seq(Message) /\ pc.handled \in Nat /\ back.out \in Nat /\ back.id \in 0..MaxSocket
  BY <1>1 DEF Peer, Backend
<1>3. Len(pending) \in Nat /\ Len(down) \in Nat
  BY <1>1
<1>4. back.out - Len(down) \in Int /\ back.out - Len(down) - Len(pending) \in Int
  BY <1>2, <1>3
<1> QED BY <1>1, <1>2, <1>3, <1>4

(* The parts of the peer that say what it has handled. *)
LEMMA HandledOf ==
  ASSUME NEW p \in Peer
  PROVE  /\ Done(p).handled = IF Head(p.chain).kind = "negotiate" THEN p.handled ELSE Head(p.chain).n
         /\ WithRemote(p).handled = p.handled /\ WithLocal(p).handled = p.handled
BY DEF Done, WithRemote, WithLocal, Peer

HeadTaken == /\ pc.chain # <<>> /\ pc'.chain = Tail(pc.chain)
             /\ pc'.handled = IF Head(pc.chain).kind = "negotiate" THEN pc.handled
                              ELSE Head(pc.chain).n

(* A step of the peer: it takes the head of its chain, adds a negotiation, or
   leaves the chain as it was. *)
LEMMA PeerStepOrder ==
  ASSUME PageInv, InOrder, OthersAlone, pc.of # 0, pc'.of = pc.of,
         \/ HeadTaken
         \/ pc'.chain = pc.chain /\ pc'.handled = pc.handled
         \/ /\ pc'.handled = pc.handled
            /\ \E m \in Message : ~Spoken(m) /\ pc'.chain = Append(pc.chain, m)
  PROVE  InOrder'
<1>1. /\ pc.chain \in Seq(Message) /\ pc.handled \in Nat
      /\ back.out - Len(down) - Len(pending) \in Int
  BY SessionTypes
<1>2. pending' = pending /\ pending = <<>> /\ pc'.of # 0
  BY DEF InOrder, OthersAlone
<1>3. ASSUME Serving', mounted'
      PROVE  /\ Numbered(down', back'.out) /\ Numbered(pending', back'.out - Len(down'))
             /\ Told(pc'.chain, pc'.handled, back'.out - Len(down') - Len(pending'))
  <2> DEFINE last == back.out - Len(down) - Len(pending)
  <2>1. Serving /\ mounted /\ UNCHANGED <<pending, down, back>>
    BY <1>3 DEF OthersAlone, Serving
  <2>2. /\ Numbered(down, back.out) /\ Numbered(pending, back.out - Len(down))
        /\ Told(pc.chain, pc.handled, last)
    BY <2>1 DEF InOrder
  <2>3. last \in Int
    BY <1>1
  <2> HIDE DEF last
  <2>4. Told(pc'.chain, pc'.handled, last)
    <3>1. CASE HeadTaken
      BY <1>1, <2>2, <2>3, <3>1, ToldTail DEF HeadTaken
    <3>2. CASE pc'.chain = pc.chain /\ pc'.handled = pc.handled
      BY <2>2, <3>2
    <3>3. ASSUME pc'.handled = pc.handled, NEW m \in Message, ~Spoken(m),
                 pc'.chain = Append(pc.chain, m)
          PROVE  Told(pc'.chain, pc'.handled, last)
      BY <1>1, <2>2, <2>3, <3>3, ToldAppend
    <3> QED BY <3>1, <3>2, <3>3
  <2> QED BY <2>1, <2>2, <2>4 DEF last
<1> QED BY <1>2, <1>3 DEF InOrder

LEMMA ChainOrder == PageInv /\ InOrder /\ ChainStep => InOrder'
<1> SUFFICES ASSUME PageInv, InOrder, ChainStep PROVE InOrder'
  OBVIOUS
<1>1. pc.of # 0 /\ pc.chain # <<>> /\ OthersAlone
  BY ChainOnlyAlone DEF ChainStep, Negotiate, TakeCreated, TakeCandidate, TakeAnswer, Rollback,
     TakeOffer, SendAnswer, ChainFails, Task, OthersAlone
<1> DEFINE d == Done(pc)
           taken == IF Head(pc.chain).kind = "negotiate" THEN pc.handled ELSE Head(pc.chain).n
<1>2. pc \in Peer /\ d \in Peer /\ d.of = pc.of /\ d.chain = Tail(pc.chain) /\ d.handled = taken
  BY <1>1, SessionTypes, DoneWith, HandledOf
<1> HIDE DEF d
<1>3. ASSUME NEW q \in Peer, q.of = pc.of, q.chain = d.chain, q.handled = taken, pc' = q
      PROVE  InOrder'
  <2>1. HeadTaken /\ pc'.of = pc.of
    BY <1>1, <1>2, <1>3 DEF HeadTaken
  <2> QED BY <1>1, <2>1, PeerStepOrder
<1> HIDE DEF taken
<1>4. ASSUME NEW p \in Peer, p.of = pc.of, p.chain = d.chain, p.handled = taken,
             NEW g \in {"stable", "have-local-offer", "have-remote-offer"}, NEW b \in BOOLEAN,
             pc' = [p EXCEPT !.sig = g] \/ pc' = [p EXCEPT !.sig = g, !.need = b]
      PROVE  InOrder'
  <2>1. pc' \in Peer
    BY <1>4, PeerField
  <2>2. pc'.of = pc.of /\ pc'.chain = d.chain
    BY <1>4 DEF Peer
  <2>3. pc'.handled = taken
    BY <1>4 DEF Peer
  <2> QED BY <1>3, <2>1, <2>2, <2>3
<1>5. /\ WithLocal(d) \in Peer /\ WithLocal(d).of = pc.of /\ WithLocal(d).chain = d.chain
      /\ WithLocal(d).handled = taken
      /\ WithRemote(d) \in Peer /\ WithRemote(d).of = pc.of /\ WithRemote(d).chain = d.chain
      /\ WithRemote(d).handled = taken
  BY <1>2, LocalSettled, RemoteSettled, HandledOf
<1>6. CASE Negotiate
  <2>1. pc' = d \/ pc' = [WithLocal(d) EXCEPT !.sig = "have-local-offer"]
    BY <1>6 DEF Negotiate, d
  <2> QED BY <1>2, <1>3, <1>4, <1>5, <2>1
<1>7. CASE TakeCreated
  BY <1>2, <1>3, <1>7 DEF TakeCreated, d
<1>8. CASE TakeCandidate
  <2> DEFINE k == Append(d.parked, Head(pc.chain).n)
  <2>1. pc' = d \/ pc' = [d EXCEPT !.parked = k]
    BY <1>8 DEF TakeCandidate, d
  <2>2. k \in Seq(Nat)
    <3>1. Head(pc.chain).n \in Nat
      <4>1. Head(pc.chain) \in Message
        BY <1>1, SessionTypes, TailOf
      <4> QED BY <4>1 DEF Message
    <3>2. d.parked \in Seq(Nat)
      BY <1>2 DEF Peer
    <3> QED BY <3>1, <3>2
  <2> HIDE DEF k
  <2>3. /\ [d EXCEPT !.parked = k] \in Peer /\ [d EXCEPT !.parked = k].of = pc.of
        /\ [d EXCEPT !.parked = k].chain = d.chain /\ [d EXCEPT !.parked = k].handled = taken
    BY <1>2, <2>2 DEF Peer
  <2> QED BY <1>2, <1>3, <2>1, <2>3
<1>9. CASE TakeAnswer
  <2>1. pc' = [WithRemote(d) EXCEPT !.sig = "stable"]
    BY <1>9 DEF TakeAnswer, d
  <2> QED BY <1>4, <1>5, <2>1
<1>10. CASE Rollback
  <2>1. pc' = [pc EXCEPT !.sig = "stable"]
    BY <1>10 DEF Rollback
  <2>2. pc'.of = pc.of /\ pc'.chain = pc.chain /\ pc'.handled = pc.handled
    BY <1>2, <2>1 DEF Peer
  <2> QED BY <1>1, <2>2, PeerStepOrder
<1>11. CASE TakeOffer
  <2> DEFINE r == WithRemote(pc)
  <2>1. r \in Peer /\ r.of = pc.of /\ r.chain = pc.chain /\ r.handled = pc.handled
    BY <1>2, RemoteSettled, HandledOf
  <2>2. pc' = [r EXCEPT !.sig = "have-remote-offer"]
    BY <1>11 DEF TakeOffer
  <2> HIDE DEF r
  <2>3. pc'.of = pc.of /\ pc'.chain = pc.chain /\ pc'.handled = pc.handled
    BY <2>1, <2>2 DEF Peer
  <2> QED BY <1>1, <2>3, PeerStepOrder
<1>12. CASE SendAnswer
  <2> DEFINE p == WithLocal(d)
  <2>1. PICK again \in BOOLEAN : pc' = [p EXCEPT !.sig = "stable", !.need = p.need \/ again]
    BY <1>12 DEF SendAnswer, d
  <2>2. p.need \/ again \in BOOLEAN
    BY <1>5 DEF Peer
  <2> HIDE DEF p
  <2>3. p \in Peer /\ p.of = pc.of /\ p.chain = d.chain /\ p.handled = taken
    BY <1>5 DEF p
  <2> QED BY <1>4, <2>1, <2>2, <2>3
<1>13. CASE ChainFails
  <2> DEFINE p == [d EXCEPT !.failed = TRUE]
             r == WithRemote(p)
  <2>1. pc' = p \/ pc' = [r EXCEPT !.sig = "stable"]
    BY <1>13 DEF ChainFails, d
  <2>2. p \in Peer /\ p.of = pc.of /\ p.chain = d.chain /\ p.handled = taken
    BY <1>2 DEF Peer
  <2> HIDE DEF p
  <2>3. r \in Peer /\ r.of = pc.of /\ r.chain = d.chain /\ r.handled = taken
    BY <2>2, RemoteSettled, HandledOf
  <2> HIDE DEF r
  <2> QED BY <1>3, <1>4, <2>1, <2>2, <2>3
<1> QED BY <1>6, <1>7, <1>8, <1>9, <1>10, <1>11, <1>12, <1>13 DEF ChainStep

LEMMA BrowserOrder ==
  PageInv /\ InOrder /\ (NegotiationNeeded \/ Gather \/ ConnectionState) => InOrder'
<1> SUFFICES ASSUME PageInv, InOrder, NegotiationNeeded \/ Gather \/ ConnectionState PROVE InOrder'
  OBVIOUS
<1>1. pc.of # 0 /\ OthersAlone
  BY ChainOnlyAlone DEF NegotiationNeeded, Gather, ConnectionState, OthersAlone
<1>2. pc \in Peer
  BY SessionTypes
<1>3. CASE NegotiationNeeded
  <2> DEFINE m == [of |-> pc.of, n |-> 0, kind |-> "negotiate"]
  <2>1. m \in Message /\ ~Spoken(m)
    BY <1>1, <1>2, SocketNumbers DEF Message, Spoken, Peer
  <2>2. pc' = [pc EXCEPT !.need = FALSE, !.chain = Append(pc.chain, m)]
    BY <1>3 DEF NegotiationNeeded
  <2> HIDE DEF m
  <2>3. pc'.of = pc.of /\ pc'.handled = pc.handled /\ pc'.chain = Append(pc.chain, m)
    BY <1>2, <2>2 DEF Peer
  <2> QED BY <1>1, <2>1, <2>3, PeerStepOrder
<1>4. CASE Gather
  <2>1. pc'.of = pc.of /\ pc'.handled = pc.handled /\ pc'.chain = pc.chain
    BY <1>2, <1>4 DEF Gather, Peer
  <2> QED BY <1>1, <2>1, PeerStepOrder
<1>5. CASE ConnectionState
  <2>1. pc' = pc
    BY <1>5 DEF ConnectionState
  <2> QED BY <1>1, <2>1, PeerStepOrder
<1> QED BY <1>3, <1>4, <1>5

(* One more message is said. *)
LEMMA SaidInOrder ==
  ASSUME PageInv, InOrder, BackendOnly, NEW kind \in {"answer", "candidate", "offer"}, Say(kind),
         back'.out = back.out + 1, back'.id = back.id
  PROVE  InOrder'
<1> DEFINE m == [of |-> back.id, n |-> back.out + 1, kind |-> kind]
<1>1. UNCHANGED <<pc, pending, mounted, sock>>
  BY DEF BackendOnly, pageVars
<1>2. ASSUME Serving', mounted'
      PROVE  /\ Numbered(down', back'.out) /\ Numbered(pending', back'.out - Len(down'))
             /\ Told(pc'.chain, pc'.handled, back'.out - Len(down') - Len(pending'))
  <2>1. Serving /\ mounted
    BY <1>1, <1>2 DEF Serving
  <2>2. m \in Message /\ Spoken(m) /\ m.n = back.out + 1
    BY <2>1, SessionTypes, SocketNumbers, SMTT(60) DEF Message, Spoken, Serving
  <2>3. down' = Append(down, m)
    BY DEF Say
  <2> HIDE DEF m
  <2>4. /\ Numbered(down, back.out) /\ Numbered(pending, back.out - Len(down))
        /\ Told(pc.chain, pc.handled, back.out - Len(down) - Len(pending))
    BY <2>1 DEF InOrder
  <2>5. Numbered(down', back.out + 1) /\ Len(down') = Len(down) + 1
    BY <2>2, <2>3, <2>4, SessionTypes, NumberedAppend
  <2>6. Len(down) \in Nat /\ back.out \in Nat /\ back'.out = back.out + 1
    BY SessionTypes
  <2>7. back'.out - Len(down') = back.out - Len(down)
    BY <2>5, <2>6
  <2> QED BY <1>1, <2>4, <2>5, <2>6, <2>7
<1> QED BY <1>1, <1>2 DEF InOrder

LEMMA LibraryOrder == PageInv /\ InOrder /\ Library => InOrder'
<1> SUFFICES ASSUME PageInv, InOrder, Library PROVE InOrder'
  OBVIOUS
<1>1. BackendOnly /\ back \in Backend
  BY SessionTypes DEF Library, Receive, BackendCandidate, BackendOffer
<1>2. CASE BackendCandidate
  <2>1. back'.out = back.out + 1 /\ back'.id = back.id
    BY <1>1, <1>2 DEF BackendCandidate, Backend
  <2> QED BY <1>1, <1>2, <2>1, SaidInOrder DEF BackendCandidate
<1>3. CASE BackendOffer
  <2>1. back'.out = back.out + 1 /\ back'.id = back.id
    BY <1>1, <1>3 DEF BackendOffer, Backend
  <2> QED BY <1>1, <1>3, <2>1, SaidInOrder DEF BackendOffer
<1>4. CASE Receive
  <2> DEFINE m == Head(up)
  <2>1. ReceiveOffer(m) \/ ReceiveAnswer(m) \/ ReceiveCandidate(m)
    BY <1>4 DEF Receive
  <2> HIDE DEF m
  <2>2. \/ Say("answer") /\ back'.out = back.out + 1 /\ back'.id = back.id
        \/ UNCHANGED down /\ back'.out = back.out /\ back'.id = back.id
    <3>1. CASE ReceiveOffer(m)
      BY <1>1, <3>1 DEF ReceiveOffer, Backend
    <3>2. CASE ReceiveAnswer(m)
      BY <1>1, <3>2 DEF ReceiveAnswer, Backend
    <3>3. CASE ReceiveCandidate(m)
      BY <1>1, <3>3 DEF ReceiveCandidate, Backend
    <3> QED BY <2>1, <3>1, <3>2, <3>3
  <2>3. CASE UNCHANGED down /\ back'.out = back.out /\ back'.id = back.id
    BY <1>1, <2>3 DEF InOrder, Serving, BackendOnly, pageVars
  <2> QED BY <1>1, <2>2, <2>3, SaidInOrder
<1> QED BY <1>2, <1>3, <1>4 DEF Library

(* The sockets: a session that begins has said one message, and one that ends
   is not served any more. *)
LEMMA SocketOrder ==
  PageInv /\ InOrder /\ (\E n \in Sockets : SocketOpens(n) \/ SocketCloses(n) \/ Reconnect(n)) => InOrder'
<1> SUFFICES ASSUME PageInv, InOrder, NEW n \in Sockets,
                    SocketOpens(n) \/ SocketCloses(n) \/ Reconnect(n)
             PROVE  InOrder'
  OBVIOUS
<1>1. mounted' = mounted /\ pc' = pc /\ (pending' = pending \/ pending' = <<>>)
  BY DEF SocketOpens, SocketCloses, Reconnect, Connect
<1>2. /\ pc'.of = 0 => pc'.chain = <<>> /\ pc'.handled = 0
      /\ pc'.of # 0 => pending' = <<>>
  BY <1>1 DEF InOrder
<1>3. back.id \in 0..MaxSocket /\ sock \in [Sockets -> SocketState]
  BY SessionTypes DEF PageInv, TypeOK
<1>4. CASE SocketOpens(n) /\ mounted
  <2>1. Phases /\ OneSocket /\ TypeOK /\ sock[n] = "connecting"
    BY <1>4 DEF PageInv, SocketOpens
  <2>2. n = current
    BY <2>1 DEF OneSocket, Live
  <2>3. status = "connecting"
    BY <2>1, <2>2, SocketNumbers DEF Phases, TypeOK
  <2>4. pc.of = 0 /\ pending' = <<>>
    BY <1>4, <2>1, <2>3 DEF Phases, SocketOpens
  <2>5. pc'.chain = <<>> /\ pc'.handled = 0
    BY <1>1, <2>4 DEF InOrder
  <2> DEFINE m == [of |-> n, n |-> 1, kind |-> "created"]
  <2>6. down' = <<m>> /\ Spoken(m) /\ m.n = 1
    BY <1>4 DEF SocketOpens, Spoken
  <2>7. back'.out = 1
    BY <1>4, SocketNumbers DEF SocketOpens, SessionFor
  <2> HIDE DEF m
  <2>8. Len(down') = 1 /\ Numbered(down', 1)
    BY <2>6 DEF Numbered
  <2>9. Len(<<>>) = 0 /\ Numbered(<<>>, 0) /\ Told(<<>>, 0, 0)
    BY EmptyOf DEF Numbered, Told
  <2> QED BY <1>2, <2>4, <2>5, <2>7, <2>8, <2>9 DEF InOrder
<1>5. CASE SocketCloses(n) /\ mounted
  <2>1. sock' = [sock EXCEPT ![n] = "closed"]
    BY <1>5 DEF SocketCloses
  <2>2. CASE n = back.id
    <3>1. back'.id = 0
      BY <1>5, <2>2 DEF SocketCloses, SessionFor
    <3> QED BY <1>2, <3>1 DEF InOrder, Serving
  <2>3. CASE n # back.id
    <3>1. UNCHANGED <<down, back, pending>>
      BY <1>5, <2>3 DEF SocketCloses
    <3>2. Serving' => Serving
      BY <1>3, <2>1, <2>3, <3>1, SocketNumbers DEF Serving
    <3> QED BY <1>1, <1>2, <3>1, <3>2 DEF InOrder
  <2> QED BY <2>2, <2>3
<1>6. CASE Reconnect(n) /\ mounted
  <2>1. timer /\ back' = back
    BY <1>6 DEF Reconnect
  <2>2. Phases /\ TypeOK
    BY <1>6 DEF PageInv
  <2>3. back.id = 0
    BY <2>1, <2>2 DEF Phases, TypeOK
  <2> QED BY <1>2, <2>1, <2>3 DEF InOrder, Serving
<1>7. CASE ~mounted
  BY <1>1, <1>2, <1>7 DEF InOrder
<1> QED BY <1>4, <1>5, <1>6, <1>7

(* A message leaves the connection for the chain, or waits for a peer. *)
LEMMA DeliverOrder == PageInv /\ InOrder /\ Deliver => InOrder'
<1> SUFFICES ASSUME PageInv, InOrder, Deliver PROVE InOrder'
  OBVIOUS
<1> DEFINE m == Head(down)
<1>1. /\ down # <<>> /\ sock[back.id] = "open" /\ mounted /\ down' = Tail(down)
      /\ UNCHANGED <<sock, mounted, back>>
      /\ \/ pc.of = 0 /\ pending' = Append(pending, m) /\ UNCHANGED pc
         \/ pc.of # 0 /\ pc' = [pc EXCEPT !.chain = Append(pc.chain, m)] /\ UNCHANGED pending
  BY DEF Deliver, Listens
<1>2. /\ pc \in Peer /\ pc.chain \in Seq(Message) /\ pc.handled \in Nat
      /\ pending \in Seq(Message) /\ Len(pending) \in Nat
      /\ down \in Seq(Message) /\ Len(down) \in Nat
      /\ back \in Backend /\ back.out \in Nat /\ back.id \in 0..MaxSocket
      /\ back.out - Len(down) \in Int
  BY SessionTypes
<1>3. m \in Message
  BY <1>1, <1>2, TailOf
<1> HIDE DEF m
<1>4. m.of \in Sockets /\ m.of = back.id
  <2>1. m = down[1] /\ 1 \in 1..Len(down)
    BY <1>1, <1>2, TailOf DEF m
  <2> QED BY <1>3, <2>1 DEF Message, PageInv, Addressed
<1>5. Serving
  BY <1>1, <1>4, SocketNumbers DEF Serving
<1>6. /\ Numbered(down, back.out) /\ Numbered(pending, back.out - Len(down))
      /\ Told(pc.chain, pc.handled, back.out - Len(down) - Len(pending))
  BY <1>1, <1>5 DEF InOrder
<1>7. /\ Numbered(down', back.out) /\ Len(down') = Len(down) - 1
      /\ Spoken(m) /\ m.n = back.out - Len(down) + 1
  BY <1>1, <1>2, <1>6, NumberedTail DEF m
<1>8. CASE pc.of = 0
  <2>1. /\ Numbered(pending', back.out - Len(down) + 1) /\ Len(pending') = Len(pending) + 1
    BY <1>1, <1>2, <1>3, <1>6, <1>7, <1>8, NumberedAppend
  <2>2. /\ back.out - Len(down') = back.out - Len(down) + 1
        /\ back.out - Len(down') - Len(pending') = back.out - Len(down) - Len(pending)
    <3>1. Len(down') = Len(down) - 1 /\ Len(pending') = Len(pending) + 1
      BY <1>7, <2>1
    <3>2. Len(down) \in Nat /\ Len(pending) \in Nat /\ back.out \in Nat
      BY <1>2
    <3> QED BY <3>1, <3>2
  <2> QED BY <1>1, <1>6, <1>7, <1>8, <2>1, <2>2 DEF InOrder
<1>9. CASE pc.of # 0
  <2>1. pending = <<>> /\ pending' = <<>> /\ Len(pending) = 0
    BY <1>1, <1>9, EmptyOf DEF InOrder
  <2>2. Told(pc.chain, pc.handled, back.out - Len(down))
    BY <1>2, <1>6, <2>1
  <2>3. Told(Append(pc.chain, m), pc.handled, back.out - Len(down) + 1)
    BY <1>2, <1>3, <1>7, <2>2, ToldAppend
  <2>4. pc'.of = pc.of /\ pc'.chain = Append(pc.chain, m) /\ pc'.handled = pc.handled
    BY <1>1, <1>2, <1>9 DEF Peer
  <2>5. /\ Len(pending') = 0 /\ Numbered(pending', back.out - Len(down'))
        /\ back.out - Len(down') - Len(pending') = back.out - Len(down) + 1
    BY <1>2, <1>7, <2>1 DEF Numbered
  <2> QED BY <1>1, <1>7, <1>9, <2>1, <2>3, <2>4, <2>5 DEF InOrder
<1> QED BY <1>8, <1>9

(* A commit hands the pending messages to the peer it makes. *)
LEMMA RenderOrder == PageInv /\ InOrder /\ Render => InOrder'
<1> SUFFICES ASSUME PageInv, InOrder, Render PROVE InOrder'
  OBVIOUS
<1> DEFINE p == AfterPeerEffect
<1>1. /\ mounted /\ pending' = IF Opening THEN <<>> ELSE pending
      /\ pc' = p \/ pc' = [p EXCEPT !.mic = Shown.stream]
      /\ UNCHANGED <<sock, current, mounted, status, down, back>>
  BY DEF Render
<1>2. /\ pc \in Peer /\ pending \in Seq(Message) /\ current \in 0..MaxSocket /\ Phases
      /\ back.out - Len(down) \in Int /\ TypeOK
  BY <1>1, SessionTypes DEF PageInv, TypeOK
<1>3. \/ Opening /\ p = PeerFor(current, pending)
      \/ ~Opening /\ Closing /\ p = NoPeer
      \/ ~Opening /\ ~Closing /\ p = pc
  BY DEF AfterPeerEffect
<1>4. p \in Peer
  <2>1. PeerFor(current, pending) \in Peer
    BY <1>2, NewPeer
  <2>2. NoPeer \in Peer
    BY NewPeer, EmptyOf, SocketNumbers DEF NoPeer
  <2> QED BY <1>2, <1>3, <2>1, <2>2
<1> HIDE DEF p
<1>5. pc'.of = p.of /\ pc'.chain = p.chain /\ pc'.handled = p.handled
  BY <1>1, <1>4 DEF Peer
<1>6. CASE Opening /\ p = PeerFor(current, pending)
  <2>1. p.of = current /\ p.chain = pending /\ p.handled = 0
    BY <1>6 DEF PeerFor
  <2>2. status = "connected" /\ pc.of = 0
    BY <1>2, <1>6 DEF Opening, Phases
  <2>3. Serving /\ current # 0
    BY <1>2, <2>2 DEF Phases, Serving
  <2>4. /\ Numbered(down, back.out) /\ Numbered(pending, back.out - Len(down))
        /\ Told(<<>>, 0, back.out - Len(down) - Len(pending))
    BY <1>1, <2>2, <2>3 DEF InOrder
  <2>5. Told(pending, 0, back.out - Len(down))
    BY <1>2, <2>4, ToldFromStart
  <2>6. pending' = <<>> /\ Len(pending') = 0
    BY <1>1, <1>6, EmptyOf
  <2>7. Numbered(pending', back.out - Len(down))
    BY <2>6 DEF Numbered
  <2>8. back.out - Len(down) - Len(pending') = back.out - Len(down)
    BY <1>2, <2>6
  <2> QED BY <1>1, <1>5, <2>1, <2>3, <2>4, <2>5, <2>6, <2>7, <2>8 DEF InOrder
<1>7. CASE ~Opening /\ Closing /\ p = NoPeer
  <2>1. p.of = 0 /\ p.chain = <<>> /\ p.handled = 0
    BY <1>7 DEF NoPeer, PeerFor
  <2>2. back.id = 0
    BY <1>2, <1>7 DEF Closing, Phases, TypeOK
  <2> QED BY <1>1, <1>5, <2>1, <2>2 DEF InOrder, Serving
<1>8. CASE ~Opening /\ ~Closing /\ p = pc
  BY <1>1, <1>5, <1>8 DEF InOrder, Serving
<1> QED BY <1>3, <1>6, <1>7, <1>8

LEMMA RestOrder ==
  /\ PageInv /\ InOrder /\ Unmount => InOrder'
  /\ InOrder /\ (MicrophoneStarts \/ MicrophoneAnswers \/ MicrophoneStops) => InOrder'
  /\ InOrder /\ UNCHANGED vars => InOrder'
<1>1. ASSUME Unmount PROVE InOrder'
  <2>1. ~mounted' /\ pc' = NoPeer /\ pending' = <<>>
    BY <1>1 DEF Unmount
  <2>2. pc'.chain = <<>> /\ pc'.handled = 0
    BY <2>1 DEF NoPeer, PeerFor
  <2> QED BY <2>1, <2>2 DEF InOrder
<1>2. ASSUME InOrder, MicrophoneStarts \/ MicrophoneAnswers \/ MicrophoneStops PROVE InOrder'
  <2>1. UNCHANGED <<pc, pending, mounted, sock, back, down>>
    BY <1>2 DEF MicrophoneStarts, MicrophoneAnswers, MicrophoneStops, MicrophoneOnly
  <2> QED BY <1>2, <2>1 DEF InOrder, Serving
<1>3. ASSUME InOrder, UNCHANGED vars PROVE InOrder'
  BY <1>3 DEF InOrder, Serving, vars, pageVars
<1> QED BY <1>1, <1>2, <1>3

LEMMA OrderInductive == PageInv /\ InOrder /\ [Next]_vars => InOrder'
<1> SUFFICES ASSUME PageInv, InOrder, [Next]_vars PROVE InOrder'
  OBVIOUS
<1>1. CASE Page
  BY <1>1, DeliverOrder, RenderOrder, RestOrder, SocketOrder DEF Page
<1>2. CASE ChainStep
  BY <1>2, ChainOrder
<1>3. CASE Browser
  BY <1>3, BrowserOrder, SocketOrder DEF Browser
<1>4. CASE Library
  BY <1>4, LibraryOrder
<1>5. CASE UNCHANGED vars
  BY <1>5, RestOrder
<1> QED BY <1>1, <1>2, <1>3, <1>4, <1>5 DEF Next

LEMMA OrderInitially == Init => InOrder
<1> SUFFICES ASSUME Init PROVE InOrder
  OBVIOUS
<1>1. pc.of = 0 /\ pc.chain = <<>> /\ pc.handled = 0
  BY DEF Init, NoPeer, PeerFor
<1>2. back.id = 0
  BY DEF Init, SessionFor
<1> QED BY <1>1, <1>2 DEF InOrder, Serving

(* The pieces, one behind the other, are what SignalsInOrder says of the whole. *)
LEMMA PiecesInOrder == PageInv /\ InOrder => SignalsInOrder
<1> SUFFICES ASSUME PageInv, InOrder, Serving, mounted
             PROVE  /\ {Unheard[i].n : i \in SpokenAt} = (pc.handled + 1)..back.out
                    /\ \A i, j \in SpokenAt : i < j => Unheard[i].n < Unheard[j].n
  BY DEF SignalsInOrder
<1> DEFINE c == Len(pc.chain)
           p == Len(pending)
           d == Len(down)
           h == pc.handled
<1>1. /\ pc.chain \in Seq(Message) /\ pending \in Seq(Message) /\ down \in Seq(Message)
      /\ c \in Nat /\ p \in Nat /\ d \in Nat /\ h \in Nat /\ back.out \in Nat
  BY SessionTypes
<1>2. /\ Len(Unheard) = c + p + d
      /\ \A i \in 1..c : Unheard[i] = pc.chain[i]
      /\ \A i \in 1..p : Unheard[c + i] = pending[i]
      /\ \A i \in 1..d : Unheard[c + p + i] = down[i]
  BY <1>1 DEF Unheard
<1>3. /\ Numbered(down, back.out) /\ Numbered(pending, back.out - d)
      /\ Told(pc.chain, h, back.out - d - p)
  BY DEF InOrder
<1>4. \A i \in 1..c : pc.chain[i].n \in Nat
  <2>1. \A i \in 1..c : pc.chain[i] \in Message
    BY <1>1
  <2> QED BY <2>1 DEF Message
<1>5. /\ h <= back.out - d - p
      /\ \A i \in 1..c : Spoken(pc.chain[i]) => h < pc.chain[i].n /\ pc.chain[i].n <= back.out - d - p
      /\ \A i, j \in 1..c : Spoken(pc.chain[i]) /\ Spoken(pc.chain[j]) /\ i < j
                              => pc.chain[i].n < pc.chain[j].n
      /\ \A k \in (h + 1)..(back.out - d - p) : \E i \in 1..c : Spoken(pc.chain[i]) /\ pc.chain[i].n = k
  BY <1>3 DEF Told
<1> HIDE DEF c, p, d, h
<1>6. ASSUME NEW i \in 1..(c + p + d), i > c
      PROVE  Spoken(Unheard[i]) /\ Unheard[i].n = back.out - d - p + (i - c)
  <2>1. CASE i <= c + p
    <3>1. i - c \in 1..p /\ Unheard[c + (i - c)] = pending[i - c] /\ c + (i - c) = i
      BY <1>1, <1>2, <1>6, <2>1
    <3>2. Spoken(pending[i - c]) /\ pending[i - c].n = back.out - d - p + (i - c)
      BY <1>3, <3>1 DEF Numbered, p
    <3> QED BY <3>1, <3>2
  <2>2. CASE i > c + p
    <3>1. i - c - p \in 1..d /\ Unheard[c + p + (i - c - p)] = down[i - c - p]
          /\ c + p + (i - c - p) = i
      BY <1>1, <1>2, <2>2
    <3>2. Spoken(down[i - c - p]) /\ down[i - c - p].n = back.out - d + (i - c - p)
      BY <1>3, <3>1 DEF Numbered, d
    <3>3. back.out - d + (i - c - p) = back.out - d - p + (i - c)
      BY <1>1
    <3> QED BY <3>1, <3>2, <3>3
  <2> QED BY <1>1, <2>1, <2>2
<1>7. ASSUME NEW i \in 1..(c + p + d), i <= c
      PROVE  i \in 1..c /\ Unheard[i] = pc.chain[i] /\ Unheard[i].n \in Nat
  BY <1>1, <1>2, <1>4, <1>7
<1>8. SpokenAt = {i \in 1..(c + p + d) : Spoken(Unheard[i])}
  BY <1>2 DEF SpokenAt
<1>9. ASSUME NEW i \in SpokenAt PROVE Unheard[i].n \in (h + 1)..back.out
  <2>1. i \in 1..(c + p + d) /\ Spoken(Unheard[i])
    BY <1>8
  <2>2. CASE i <= c
    <3>1. i \in 1..c /\ Unheard[i] = pc.chain[i] /\ Unheard[i].n \in Nat
      BY <1>7, <2>1, <2>2
    <3>2. h < Unheard[i].n /\ Unheard[i].n <= back.out - d - p
      BY <1>5, <2>1, <3>1
    <3>3. PICK m : m = Unheard[i].n
      OBVIOUS
    <3>4. m \in Nat /\ h < m /\ m <= back.out - d - p
      BY <3>1, <3>2, <3>3, Zenon
    <3>5. m \in (h + 1)..back.out
      BY <1>1, <3>4
    <3> QED BY <3>3, <3>5, Zenon
  <2>3. CASE i > c
    <3>1. Unheard[i].n = back.out - d - p + (i - c) /\ h <= back.out - d - p
      BY <1>5, <1>6, <2>1, <2>3
    <3> QED BY <1>1, <2>1, <2>3, <3>1, SMTT(60)
  <2> QED BY <1>1, <2>1, <2>2, <2>3
<1>10. ASSUME NEW k \in (h + 1)..back.out PROVE \E i \in SpokenAt : Unheard[i].n = k
  <2>1. CASE k <= back.out - d - p
    <3>0. k \in (h + 1)..(back.out - d - p)
      BY <1>1, <2>1
    <3>1. PICK i \in 1..c : Spoken(pc.chain[i]) /\ pc.chain[i].n = k
      BY <1>5, <3>0
    <3>2. i \in 1..(c + p + d) /\ Unheard[i] = pc.chain[i]
      BY <1>1, <1>2
    <3> QED BY <1>8, <3>1, <3>2
  <2>2. CASE k > back.out - d - p
    <3> DEFINE i == c + (k - (back.out - d - p))
    <3>1. i \in 1..(c + p + d) /\ i > c /\ back.out - d - p + (i - c) = k
      BY <1>1, <2>2, SMTT(60)
    <3>2. Spoken(Unheard[i]) /\ Unheard[i].n = k
      BY <1>6, <3>1
    <3> QED BY <1>8, <3>1, <3>2
  <2> QED BY <1>1, <2>1, <2>2
<1>11. ASSUME NEW i \in SpokenAt, NEW j \in SpokenAt, i < j PROVE Unheard[i].n < Unheard[j].n
  <2>1. i \in 1..(c + p + d) /\ Spoken(Unheard[i]) /\ j \in 1..(c + p + d) /\ Spoken(Unheard[j])
    BY <1>8
  <2>2. CASE j <= c
    <3>1. /\ i \in 1..c /\ Unheard[i] = pc.chain[i] /\ j \in 1..c /\ Unheard[j] = pc.chain[j]
      BY <1>1, <1>7, <1>11, <2>1, <2>2
    <3> QED BY <1>5, <1>11, <2>1, <3>1
  <2>3. CASE i <= c /\ j > c
    <3>1. Unheard[i].n <= back.out - d - p /\ Unheard[i].n \in Nat
      BY <1>5, <1>7, <2>1, <2>3
    <3>2. Unheard[j].n = back.out - d - p + (j - c)
      BY <1>6, <2>1, <2>3
    <3> QED BY <1>1, <2>1, <2>3, <3>1, <3>2, SMTT(60)
  <2>4. CASE i > c /\ j > c
    <3>1. /\ Unheard[i].n = back.out - d - p + (i - c)
          /\ Unheard[j].n = back.out - d - p + (j - c)
      BY <1>6, <2>1, <2>4
    <3> QED BY <1>1, <1>11, <2>1, <3>1
  <2> QED BY <1>1, <1>11, <2>1, <2>2, <2>3, <2>4
<1> QED BY <1>9, <1>10, <1>11 DEF h
-----------------------------------------------------------------------------
(* The inductive invariant. *)
THEOREM Invariance == Spec => []PageInv
BY InitInv, NextInv, PTL DEF Spec

(* Every variable is of its type: each message names a socket the page has opened
   and a peer stays within what it was made with. *)
THEOREM TypeCorrect == Spec => []TypeOK
<1>1. PageInv => TypeOK
  BY DEF PageInv
<1>2. QED
  BY <1>1, Invariance, PTL

(* The page never has two live sockets, nor one it has forgotten, whichever of
   timers, close events and the cleanup comes first. *)
THEOREM AtMostOneSocket == Spec => []OneSocket
<1>1. PageInv => OneSocket
  BY DEF PageInv
<1>2. QED
  BY <1>1, Invariance, PTL

(* However often the page reconnects, nothing of one session is taken for
   another's. *)
THEOREM NothingMixedUp == Spec => []SessionsKeptApart
<1>1. PageInv => SessionsKeptApart
  <2> SUFFICES ASSUME PageInv, mounted
               PROVE  /\ session # 0 => session = current
                      /\ \A i \in 1..Len(pc.chain) : pc.chain[i].of = pc.of
                      /\ \A i \in 1..Len(up) : up[i].of = back.id
    BY DEF SessionsKeptApart
  <2>1. session # 0 => session = current
    BY DEF PageInv, Phases, TypeOK
  <2>2. QED
    BY <2>1 DEF PageInv, Addressed
<1>2. QED
  BY <1>1, Invariance, PTL

(* The backend never loses a candidate of a description it applies, also when the
   page's offer and the backend's cross. *)
THEOREM CandidatesArrive == Spec => []NoCandidateLost
<1>1. PageInv => NoCandidateLost
  BY DEF PageInv
<1>2. QED
  BY <1>1, Invariance, PTL

(* A reconnecting page, or one whose peer is made late, handles what the backend
   says in the order it is said, with nothing left out and nothing twice. *)
THEOREM NothingSkipped == Spec => []SignalsInOrder
<1>1. Init => PageInv /\ InOrder
  BY InitInv, OrderInitially
<1>2. PageInv /\ InOrder /\ [Next]_vars => (PageInv /\ InOrder)'
  BY NextInv, OrderInductive
<1> QED BY <1>1, <1>2, PiecesInOrder, PTL DEF Spec
=============================================================================
