--------------------------- MODULE SignalingProofs ---------------------------
(***************************************************************************)
(* Signaling keeps the signaling messages in order and the sockets         *)
(* observed, and implements Lifetimes, for any number of sockets and of    *)
(* messages.                                                               *)
(***************************************************************************)
EXTENDS Signaling, TLAPS

USE MaxRtcAssumption

(* How the two ends of a sequence of messages move. *)
LEMMA AppendFacts ==
  ASSUME NEW q \in Seq(0..MaxRtc), NEW m \in 0..MaxRtc
  PROVE  /\ Append(q, m) \in Seq(0..MaxRtc)
         /\ Append(q, m) # <<>>
         /\ Len(Append(q, m)) = Len(q) + 1
         /\ \A i \in 1..Len(q) : Append(q, m)[i] = q[i]
         /\ Append(q, m)[Len(q) + 1] = m
         /\ Len(q) \in Nat
OBVIOUS

LEMMA TailFacts ==
  ASSUME NEW q \in Seq(0..MaxRtc), q # <<>>
  PROVE  /\ Tail(q) \in Seq(0..MaxRtc)
         /\ Len(q) \in Nat \ {0}
         /\ Len(Tail(q)) = Len(q) - 1
         /\ \A i \in 1..Len(q) - 1 : Tail(q)[i] = q[i + 1]
         /\ Head(q) = q[1]
         /\ q[1] \in 0..MaxRtc
OBVIOUS

(* A queue of consecutive numbers stays one when the next is appended or the
   first is taken. *)
LEMMA AppendInOrder ==
  ASSUME NEW q \in Seq(0..MaxRtc), NEW n \in Int, NEW m \in 0..MaxRtc, NEW k,
         \A i \in 1..Len(q) : q[i] = n + i,
         m = n + Len(q) + 1, k = Append(q, m)
  PROVE  \A i \in 1..Len(k) : k[i] = n + i
<1> SUFFICES ASSUME NEW i \in 1..Len(k)
             PROVE  k[i] = n + i
  OBVIOUS
<1>1. Len(k) = Len(q) + 1 /\ Len(q) \in Nat
  BY AppendFacts
<1>2. CASE i \in 1..Len(q)
  BY <1>2, AppendFacts
<1>3. CASE i = Len(q) + 1
  BY <1>1, <1>3, AppendFacts
<1> QED
  BY <1>1, <1>2, <1>3

LEMMA TailInOrder ==
  ASSUME NEW q \in Seq(0..MaxRtc), NEW n \in Int, NEW k,
         \A i \in 1..Len(q) : q[i] = n + i,
         q # <<>>, k = Tail(q)
  PROVE  \A i \in 1..Len(k) : k[i] = n + 1 + i
<1> SUFFICES ASSUME NEW i \in 1..Len(k)
             PROVE  k[i] = n + 1 + i
  OBVIOUS
<1>1. Len(k) = Len(q) - 1 /\ Len(q) \in Nat
  BY TailFacts
<1>2. i \in 1..Len(q) - 1 /\ i + 1 \in 1..Len(q)
  BY <1>1
<1>3. k[i] = q[i + 1]
  BY <1>2, TailFacts
<1> QED
  BY <1>2, <1>3

(* The count of a session's messages as they move along. *)
LEMMA MoveOne ==
  ASSUME NEW a \in Nat, NEW b \in Nat
  PROVE  (a + 1) + (b - 1) = a + b
OBVIOUS

LEMMA TakeOne ==
  ASSUME NEW a \in Nat, NEW b \in Nat, NEW c \in Nat
  PROVE  a + (b + 1) + (c - 1) = a + b + c
OBVIOUS

LEMMA AddOne ==
  ASSUME NEW a \in Nat, NEW b \in Nat, NEW c \in Nat
  PROVE  a + b + (c + 1) = a + b + c + 1
OBVIOUS

LEMMA Remaining ==
  ASSUME NEW w \in Seq(0..MaxRtc), NEW q \in Seq(0..MaxRtc), NEW p \in Seq(0..MaxRtc), NEW r \in Nat,
         Len(w) + Len(q) + Len(p) = r + 1
  PROVE  r - Len(p) + 1 = Len(w) + Len(q)
OBVIOUS

(* What is posted, seen from its newest message. *)
LEMMA PostedTail ==
  ASSUME NEW p \in Seq(0..MaxRtc), NEW k, NEW r \in Nat,
         p # <<>>, k = Tail(p),
         \A i \in 1..Len(p) : p[i] = r - Len(p) + i
  PROVE  /\ \A i \in 1..Len(k) : k[i] = r - Len(k) + i
         /\ Head(p) = r - Len(p) + 1
<1>1. Len(p) \in Nat \ {0} /\ Len(k) = Len(p) - 1 /\ Head(p) = p[1]
  BY TailFacts
<1>2. ASSUME NEW n \in Int, n = r - Len(p)
      PROVE  \A i \in 1..Len(k) : k[i] = n + 1 + i
  BY <1>2, TailInOrder
<1>3. r - Len(p) \in Int /\ r - Len(k) = (r - Len(p)) + 1
  BY <1>1
<1>4. 1 \in 1..Len(p)
  BY <1>1
<1> QED
  BY <1>1, <1>2, <1>3, <1>4

LEMMA PostedAppend ==
  ASSUME NEW p \in Seq(0..MaxRtc), NEW k, NEW r \in Nat, NEW m \in 0..MaxRtc,
         m = r + 1, k = Append(p, m),
         \A i \in 1..Len(p) : p[i] = r - Len(p) + i
  PROVE  \A i \in 1..Len(k) : k[i] = m - Len(k) + i
<1>1. Len(p) \in Nat /\ Len(k) = Len(p) + 1
  BY AppendFacts
<1>2. ASSUME NEW n \in Int, n = r - Len(p)
      PROVE  \A i \in 1..Len(k) : k[i] = n + i
  <2>1. m = n + Len(p) + 1
    BY <1>1, <1>2
  <2> QED
    BY <1>2, <2>1, AppendInOrder
<1>3. r - Len(p) \in Int /\ m - Len(k) = r - Len(p)
  BY <1>1
<1> QED
  BY <1>2, <1>3

LEMMA InitInv == Init => SignalingInv
BY DEF Init, SignalingInv, TypeOK, TablesAgree, EndIsNoticed, HandshakeFirst, Untouched,
   QueueInUse, WithinBound, OneWriteAtATime, WireInOrder, InOrder

LEMMA AttachInv ==
  ASSUME SignalingInv, NEW x \in Session, Attach(x)
  PROVE  SignalingInv'
<1> USE DEF SignalingInv, Attach, rtcVars
<1>1. TypeOK'
  BY DEF TypeOK
<1>2. TablesAgree' /\ EndIsNoticed'
  BY DEF TypeOK, TablesAgree, EndIsNoticed
<1>3. HandshakeFirst'
  BY DEF HandshakeFirst, Untouched
<1>4. QueueInUse' /\ WithinBound' /\ OneWriteAtATime' /\ WireInOrder'
  BY DEF QueueInUse, WithinBound, OneWriteAtATime, WireInOrder
<1>5. InOrder'
  BY DEF InOrder, Held
<1> QED
  BY <1>1, <1>2, <1>3, <1>4, <1>5

(* What a queue looks like after WebSocketSession::write of the next message. *)
LEMMA WriteInv ==
  ASSUME SignalingInv, NEW x \in Session, NEW m \in 0..MaxRtc, Write(x, m),
         m = Len(wire[x]) + Len(queue[x]), UNCHANGED wire
  PROVE  /\ queue' \in [Session -> Seq(0..MaxRtc)]
         /\ writing' \in [Session -> Nat]
         /\ OneWriteAtATime' /\ QueueInUse'
         /\ Len(queue'[x]) = Len(queue[x]) + 1
         /\ \A s \in Session \ {x} : queue'[s] = queue[s] /\ writing'[s] = writing[s]
         /\ \A s \in Session : \A i \in 1..Len(queue'[s]) : queue'[s][i] = Len(wire'[s]) - 1 + i
<1>1. /\ queue \in [Session -> Seq(0..MaxRtc)]
      /\ wire \in [Session -> Seq(0..MaxRtc)]
      /\ writing \in [Session -> Nat]
  BY DEF SignalingInv, TypeOK
<1>2. /\ queue' = [queue EXCEPT ![x] = Append(queue[x], m)]
      /\ writing' = [writing EXCEPT ![x] = IF x \in isWriting THEN writing[x] ELSE writing[x] + 1]
      /\ isWriting' = isWriting \cup {x}
  BY DEF Write
<1>3. \A s \in Session \ {x} : queue'[s] = queue[s] /\ writing'[s] = writing[s]
  BY <1>1, <1>2
<1>4. /\ queue'[x] = Append(queue[x], m)
      /\ queue'[x] \in Seq(0..MaxRtc)
      /\ queue'[x] # <<>>
      /\ Len(queue'[x]) = Len(queue[x]) + 1
      /\ Len(queue[x]) \in Nat
  BY <1>1, <1>2, AppendFacts
<1>5. queue' \in [Session -> Seq(0..MaxRtc)]
  BY <1>1, <1>2, <1>4
<1>6. writing' \in [Session -> Nat]
  BY <1>1, <1>2
<1>7. OneWriteAtATime' /\ QueueInUse'
  BY <1>1, <1>2, <1>3, <1>4 DEF SignalingInv, OneWriteAtATime, QueueInUse
<1>8. \A i \in 1..Len(queue'[x]) : queue'[x][i] = Len(wire[x]) - 1 + i
  <2>1. /\ Len(wire[x]) - 1 \in Int
        /\ queue[x] \in Seq(0..MaxRtc)
    BY <1>1
  <2>2. ASSUME NEW n \in Int, n = Len(wire[x]) - 1
        PROVE  \A i \in 1..Len(queue'[x]) : queue'[x][i] = n + i
    <3>1. m = n + Len(queue[x]) + 1
      BY <1>1, <1>4, <2>2
    <3>2. \A i \in 1..Len(queue[x]) : queue[x][i] = n + i
      BY <2>2 DEF SignalingInv, InOrder
    <3>3. queue'[x] = Append(queue[x], m)
      BY <1>4
    <3> QED
      BY SMTT(40), <2>1, <3>1, <3>2, <3>3, AppendInOrder
  <2> QED
    BY ZenonT(40), <2>1, <2>2
<1>9. ASSUME NEW s \in Session
      PROVE  \A i \in 1..Len(queue'[s]) : queue'[s][i] = Len(wire'[s]) - 1 + i
  <2>1. CASE s = x
    BY <1>8, <2>1
  <2>2. CASE s # x
    <3>1. queue'[s] = queue[s] /\ wire'[s] = wire[s]
      BY <1>3, <2>2
    <3>2. \A i \in 1..Len(queue[s]) : queue[s][i] = Len(wire[s]) - 1 + i
      BY DEF SignalingInv, InOrder
    <3> QED
      BY <3>1, <3>2
  <2> QED
    BY <2>1, <2>2
<1> QED
  BY <1>3, <1>4, <1>5, <1>6, <1>7, <1>9

LEMMA AcceptedInv ==
  ASSUME SignalingInv, NEW x \in Session, Accepted(x)
  PROVE  SignalingInv'
<1>1. x \in created /\ Untouched(x)
  BY DEF SignalingInv, TypeOK, HandshakeFirst, Accepted
<1>2. /\ 0 \in 0..MaxRtc /\ 0 = Len(wire[x]) + Len(queue[x])
      /\ Write(x, 0) /\ UNCHANGED wire
  BY <1>1 DEF Accepted, Untouched
<1>3. /\ queue' \in [Session -> Seq(0..MaxRtc)]
      /\ writing' \in [Session -> Nat]
      /\ OneWriteAtATime' /\ QueueInUse'
      /\ Len(queue'[x]) = Len(queue[x]) + 1
      /\ \A s \in Session \ {x} : queue'[s] = queue[s] /\ writing'[s] = writing[s]
      /\ \A s \in Session : \A i \in 1..Len(queue'[s]) : queue'[s][i] = Len(wire'[s]) - 1 + i
  BY <1>2, WriteInv
<1>4. /\ accepting' = accepting \ {x} /\ reading' = reading \cup {x}
      /\ isWriting' = isWriting \cup {x}
      /\ UNCHANGED <<isDisconnected, wire, tableVars, rtcVars, down, described>>
  BY DEF Accepted, Write
<1>5. TypeOK'
  BY <1>1, <1>3, <1>4 DEF SignalingInv, TypeOK, tableVars, rtcVars
<1>6. TablesAgree' /\ EndIsNoticed' /\ WithinBound' /\ WireInOrder'
  BY <1>4 DEF SignalingInv, TablesAgree, EndIsNoticed, WithinBound, WireInOrder, tableVars, rtcVars
<1>7. HandshakeFirst'
  BY <1>1, <1>3, <1>4 DEF SignalingInv, HandshakeFirst, Untouched, tableVars, rtcVars
<1>8. InOrder'
  <2>1. \A s \in Session : \A i \in 1..Len(posted'[s]) :
          posted'[s][i] = reported'[s] - Len(posted'[s]) + i
    BY <1>4 DEF SignalingInv, InOrder, rtcVars
  <2>2. Len(wire'[x]) + Len(queue'[x]) + Len(posted'[x]) = reported'[x] + 1
    <3>1. /\ wire'[x] = <<>> /\ queue[x] = <<>> /\ posted'[x] = <<>>
          /\ reported'[x] = 0
      BY <1>1, <1>4 DEF Untouched, rtcVars
    <3>2. Len(queue[x]) = 0 /\ Len(wire'[x]) = 0 /\ Len(posted'[x]) = 0
      BY <3>1
    <3> QED
      BY <1>3, <3>1, <3>2
  <2>3. ASSUME NEW s \in Session \ {x}, s \in created' \ accepting', Held(s)'
        PROVE  Len(wire'[s]) + Len(queue'[s]) + Len(posted'[s]) = reported'[s] + 1
    <3>1. s \in created \ accepting /\ Held(s)
      BY <1>3, <1>4, <2>3 DEF Held, tableVars, rtcVars
    <3> QED
      BY <1>3, <1>4, <3>1 DEF SignalingInv, InOrder, rtcVars
  <2> QED
    BY <1>3, <2>1, <2>2, <2>3 DEF InOrder
<1> QED
  BY <1>3, <1>5, <1>6, <1>7, <1>8 DEF SignalingInv

(* A first disconnect takes the session off both tables; a later one changes
   nothing in them. *)
LEMMA DisconnectFacts ==
  ASSUME SignalingInv, NEW x \in Session, Disconnect(x), UNCHANGED created, x \in created
  PROVE  /\ isDisconnected' = isDisconnected \cup {x}
         /\ registered' = registered \ {x}
         /\ sessions' = registered \ {x}
         /\ isDisconnected' \subseteq created' /\ registered' \subseteq created'
         /\ sessions' \subseteq created' /\ TablesAgree'
BY DEF SignalingInv, TypeOK, TablesAgree, Disconnect

LEMMA AcceptFailedInv ==
  ASSUME SignalingInv, NEW x \in Session, AcceptFailed(x)
  PROVE  SignalingInv'
<1>1. x \in created /\ Untouched(x)
  BY DEF SignalingInv, TypeOK, HandshakeFirst, AcceptFailed
<1>2. /\ isDisconnected' = isDisconnected \cup {x}
      /\ registered' = registered \ {x}
      /\ sessions' = registered \ {x}
      /\ isDisconnected' \subseteq created' /\ registered' \subseteq created'
      /\ sessions' \subseteq created' /\ TablesAgree'
  BY <1>1, DisconnectFacts DEF AcceptFailed
<1>3. /\ accepting' = accepting \ {x}
      /\ UNCHANGED <<created, reading, writing, isWriting, queue, wire, rtcVars, down, described>>
  BY DEF AcceptFailed
<1>4. TypeOK'
  BY <1>2, <1>3 DEF SignalingInv, TypeOK, rtcVars
<1>5. /\ EndIsNoticed' /\ HandshakeFirst' /\ QueueInUse' /\ WithinBound'
      /\ OneWriteAtATime' /\ WireInOrder'
  BY <1>2, <1>3 DEF SignalingInv, EndIsNoticed, HandshakeFirst, Untouched, QueueInUse, WithinBound,
     OneWriteAtATime, WireInOrder, rtcVars
<1>6. InOrder'
  <2>1. ~Held(x)'
    BY <1>1, <1>2, <1>3 DEF Held, Untouched, rtcVars
  <2>2. ASSUME NEW s \in Session \ {x}, Held(s)'
        PROVE  Held(s)
    BY <1>2, <1>3, <2>2 DEF Held, SignalingInv, TablesAgree, rtcVars
  <2> QED
    BY <1>3, <2>1, <2>2 DEF SignalingInv, InOrder, rtcVars
<1> QED
  BY <1>2, <1>4, <1>5, <1>6 DEF SignalingInv

LEMMA ReadDescriptionInv ==
  ASSUME SignalingInv, NEW x \in Session, ReadDescription(x)
  PROVE  SignalingInv'
<1> USE DEF SignalingInv, ReadDescription, socketVars, tableVars, rtcVars
<1>1. TypeOK' /\ TablesAgree' /\ EndIsNoticed'
  BY DEF TypeOK, TablesAgree, EndIsNoticed
<1>2. HandshakeFirst'
  BY DEF HandshakeFirst, Untouched
<1>3. QueueInUse' /\ WithinBound' /\ OneWriteAtATime' /\ WireInOrder' /\ InOrder'
  BY DEF QueueInUse, WithinBound, OneWriteAtATime, WireInOrder, InOrder, Held
<1> QED
  BY <1>1, <1>2, <1>3

LEMMA ReadFailedInv ==
  ASSUME SignalingInv, NEW x \in Session, ReadFailed(x)
  PROVE  SignalingInv'
<1>1. x \in created
  BY DEF SignalingInv, TypeOK, ReadFailed
<1>2. /\ isDisconnected' = isDisconnected \cup {x}
      /\ registered' = registered \ {x}
      /\ sessions' = registered \ {x}
      /\ isDisconnected' \subseteq created' /\ registered' \subseteq created'
      /\ sessions' \subseteq created' /\ TablesAgree'
  BY <1>1, DisconnectFacts DEF ReadFailed
<1>3. /\ reading' = reading \ {x}
      /\ UNCHANGED <<created, accepting, writing, isWriting, queue, wire, rtcVars, down, described>>
  BY DEF ReadFailed
<1>4. TypeOK'
  BY <1>2, <1>3 DEF SignalingInv, TypeOK, rtcVars
<1>5. /\ EndIsNoticed' /\ HandshakeFirst' /\ QueueInUse' /\ WithinBound'
      /\ OneWriteAtATime' /\ WireInOrder'
  BY <1>2, <1>3 DEF SignalingInv, EndIsNoticed, HandshakeFirst, Untouched, QueueInUse, WithinBound,
     OneWriteAtATime, WireInOrder, rtcVars
<1>6. InOrder'
  <2>1. ASSUME NEW s \in Session, Held(s)'
        PROVE  Held(s)
    BY <1>2, <1>3, <2>1 DEF Held, SignalingInv, TablesAgree, rtcVars
  <2> QED
    BY <1>3, <2>1 DEF SignalingInv, InOrder, rtcVars
<1> QED
  BY <1>2, <1>4, <1>5, <1>6 DEF SignalingInv

LEMMA WriteFailedInv ==
  ASSUME SignalingInv, NEW x \in Session, WriteFailed(x)
  PROVE  SignalingInv'
<1>1. x \in created
  BY DEF SignalingInv, TypeOK, WriteFailed
<1>2. /\ isDisconnected' = isDisconnected \cup {x}
      /\ registered' = registered \ {x}
      /\ sessions' = registered \ {x}
      /\ isDisconnected' \subseteq created' /\ registered' \subseteq created'
      /\ sessions' \subseteq created' /\ TablesAgree'
  BY <1>1, DisconnectFacts DEF WriteFailed
<1>3. /\ writing' = [writing EXCEPT ![x] = writing[x] - 1]
      /\ writing[x] > 0
      /\ writing \in [Session -> Nat]
      /\ UNCHANGED <<created, accepting, reading, isWriting, queue, wire, rtcVars, down, described>>
  BY DEF WriteFailed, SignalingInv, TypeOK
<1>4. TypeOK'
  BY <1>2, <1>3 DEF SignalingInv, TypeOK, rtcVars
<1>5. EndIsNoticed' /\ HandshakeFirst' /\ WithinBound' /\ WireInOrder'
  BY <1>2, <1>3 DEF SignalingInv, EndIsNoticed, WithinBound, HandshakeFirst, Untouched, WireInOrder, rtcVars
<1>6. QueueInUse' /\ OneWriteAtATime'
  BY <1>3 DEF SignalingInv, QueueInUse, OneWriteAtATime
<1>7. InOrder'
  <2>1. ASSUME NEW s \in Session, Held(s)'
        PROVE  Held(s)
    BY <1>2, <1>3, <2>1 DEF Held, SignalingInv, TablesAgree, rtcVars
  <2> QED
    BY <1>3, <2>1 DEF SignalingInv, InOrder, rtcVars
<1> QED
  BY <1>2, <1>4, <1>5, <1>6, <1>7 DEF SignalingInv

(* A completed write moves the first message of the queue to the wire. *)
LEMMA WrittenInv ==
  ASSUME SignalingInv, NEW x \in Session, Written(x)
  PROVE  SignalingInv'
<1>1. /\ queue \in [Session -> Seq(0..MaxRtc)] /\ wire \in [Session -> Seq(0..MaxRtc)]
      /\ writing \in [Session -> Nat] /\ writing[x] = 1 /\ queue[x] # <<>>
      /\ x \in isWriting /\ isWriting \subseteq created
  BY DEF SignalingInv, TypeOK, OneWriteAtATime, QueueInUse, Written
<1>2. UNCHANGED <<accepting, reading, isDisconnected, created, registered, sessions,
                  rtc, posted, reported, down, described>>
  BY DEF Written, tableVars, rtcVars
<1>3. /\ \A s \in Session \ {x} : queue'[s] = queue[s] /\ wire'[s] = wire[s]
                                   /\ writing'[s] = writing[s] /\ (s \in isWriting' <=> s \in isWriting)
      /\ queue'[x] = Tail(queue[x])
      /\ wire'[x] = Append(wire[x], Head(queue[x]))
      /\ isWriting' \subseteq isWriting
  BY <1>1 DEF Written
<1>4. /\ Head(queue[x]) \in 0..MaxRtc
      /\ Head(queue[x]) = Len(wire[x])
      /\ Len(queue[x]) \in Nat \ {0}
  <2>1. /\ Len(queue[x]) \in Nat \ {0} /\ Head(queue[x]) = queue[x][1]
        /\ queue[x][1] \in 0..MaxRtc
    BY <1>1, TailFacts
  <2>2. queue[x][1] = Len(wire[x]) - 1 + 1
    <3>1. 1 \in 1..Len(queue[x])
      BY <2>1
    <3>2. \A i \in 1..Len(queue[x]) : queue[x][i] = Len(wire[x]) - 1 + i
      BY DEF SignalingInv, InOrder
    <3> QED
      BY <3>1, <3>2
  <2>3. Len(wire[x]) \in Nat
    BY <1>1
  <2> QED
    BY <2>1, <2>2, <2>3
<1>5. /\ queue'[x] \in Seq(0..MaxRtc) /\ wire'[x] \in Seq(0..MaxRtc)
      /\ Len(queue'[x]) = Len(queue[x]) - 1
      /\ Len(wire'[x]) = Len(wire[x]) + 1
      /\ Len(wire[x]) \in Nat
  BY <1>1, <1>3, <1>4, AppendFacts, TailFacts
<1>6. /\ queue' \in [Session -> Seq(0..MaxRtc)] /\ wire' \in [Session -> Seq(0..MaxRtc)]
      /\ writing' \in [Session -> Nat]
  <2>1. /\ queue' = [queue EXCEPT ![x] = Tail(queue[x])]
        /\ wire' = [wire EXCEPT ![x] = Append(wire[x], Head(queue[x]))]
        /\ writing' = writing \/ writing' = [writing EXCEPT ![x] = writing[x] - 1]
    BY DEF Written
  <2>2. Tail(queue[x]) \in Seq(0..MaxRtc) /\ Append(wire[x], Head(queue[x])) \in Seq(0..MaxRtc)
    BY <1>3, <1>5
  <2> QED
    BY <1>1, <2>1, <2>2
<1>7. TypeOK'
  BY <1>1, <1>2, <1>3, <1>6 DEF SignalingInv, TypeOK
<1>8. TablesAgree' /\ EndIsNoticed' /\ WithinBound'
  BY <1>2 DEF SignalingInv, TablesAgree, EndIsNoticed, WithinBound
<1>9. HandshakeFirst'
  <2>1. ~(x \notin created \/ x \in accepting)
    BY <1>1 DEF SignalingInv, HandshakeFirst, Untouched
  <2> QED
    BY <1>2, <1>3, <2>1 DEF SignalingInv, HandshakeFirst, Untouched
<1>10. QueueInUse' /\ OneWriteAtATime'
  <2>1. writing'[x] <= 1 /\ (writing'[x] = 1 => x \in isWriting' /\ queue'[x] # <<>>)
    <3>1. CASE Len(queue[x]) > 1
      <4>1. Len(queue'[x]) = Len(queue[x]) - 1 /\ Len(queue[x]) \in Nat
        BY <1>4, <1>5
      <4>2. Len(queue'[x]) > 0
        BY <3>1, <4>1
      <4>3. queue'[x] # <<>>
        BY <4>2
      <4> QED
        BY <1>1, <3>1, <4>3 DEF Written
    <3>2. CASE ~(Len(queue[x]) > 1)
      BY <1>1, <3>2 DEF Written
    <3> QED
      BY <3>1, <3>2
  <2> QED
    BY <1>3, <2>1 DEF SignalingInv, QueueInUse, OneWriteAtATime
<1>11. WireInOrder'
  <2>1. \A i \in 1..Len(wire'[x]) : wire'[x][i] = -1 + i
    <3>1. \A i \in 1..Len(wire[x]) : wire[x][i] = -1 + i
      BY DEF SignalingInv, WireInOrder
    <3>2. wire[x] \in Seq(0..MaxRtc) /\ Head(queue[x]) = -1 + Len(wire[x]) + 1 /\ -1 \in Int
      BY <1>1, <1>4, <1>5
    <3> QED
      BY <1>3, <1>4, <3>1, <3>2, AppendInOrder
  <2>2. ASSUME NEW s \in Session, NEW i \in 1..Len(wire'[s])
        PROVE  wire'[s][i] = i - 1
    <3>1. CASE s = x
      BY <2>1, <3>1, <1>5
    <3>2. CASE s # x
      <4>1. wire'[s] = wire[s]
        BY <1>3, <3>2
      <4> QED
        BY <4>1 DEF SignalingInv, WireInOrder
    <3> QED
      BY <3>1, <3>2
  <2> QED
    BY <2>2 DEF WireInOrder
<1>12. InOrder'
  <2>1. \A i \in 1..Len(queue'[x]) : queue'[x][i] = Len(wire'[x]) - 1 + i
    <3>1. ASSUME NEW n \in Int, n = Len(wire[x]) - 1
          PROVE  \A i \in 1..Len(queue'[x]) : queue'[x][i] = n + 1 + i
      <4>1. \A i \in 1..Len(queue[x]) : queue[x][i] = n + i
        BY <3>1 DEF SignalingInv, InOrder
      <4> QED
        BY <1>1, <1>3, <4>1, TailInOrder
    <3>2. Len(wire[x]) - 1 \in Int /\ Len(wire'[x]) - 1 = (Len(wire[x]) - 1) + 1
      BY <1>5
    <3> QED
      BY <3>1, <3>2
  <2>2. ASSUME NEW s \in Session
        PROVE  \A i \in 1..Len(queue'[s]) : queue'[s][i] = Len(wire'[s]) - 1 + i
    <3>1. CASE s = x
      BY <2>1, <3>1
    <3>2. CASE s # x
      <4>1. queue'[s] = queue[s] /\ wire'[s] = wire[s]
        BY <1>3, <3>2
      <4> QED
        BY ZenonT(40), <4>1 DEF SignalingInv, InOrder
    <3> QED
      BY <3>1, <3>2
  <2>3. \A s \in Session : \A i \in 1..Len(posted'[s]) :
          posted'[s][i] = reported'[s] - Len(posted'[s]) + i
    BY <1>2 DEF SignalingInv, InOrder
  <2>4. ASSUME NEW s \in Session, s \in created' \ accepting', Held(s)'
        PROVE  Len(wire'[s]) + Len(queue'[s]) + Len(posted'[s]) = reported'[s] + 1
    <3>1. s \in created \ accepting
      BY <1>2, <2>4
    <3>2. Held(s)
      <4>1. CASE s = x
        BY <1>1, <4>1 DEF Held
      <4>2. CASE s # x
        BY <1>2, <1>3, <2>4, <4>2 DEF Held
      <4> QED
        BY <4>1, <4>2
    <3>3. Len(wire[s]) + Len(queue[s]) + Len(posted[s]) = reported[s] + 1
      BY <3>1, <3>2 DEF SignalingInv, InOrder
    <3>4. CASE s = x
      <4>1. Len(posted[x]) \in Nat /\ reported[x] \in Nat
        BY DEF SignalingInv, TypeOK
      <4>2. /\ Len(wire'[x]) = Len(wire[x]) + 1 /\ Len(wire[x]) \in Nat
            /\ Len(queue'[x]) = Len(queue[x]) - 1 /\ Len(queue[x]) \in Nat
        BY <1>4, <1>5
      <4>3. Len(wire'[x]) + Len(queue'[x]) = Len(wire[x]) + Len(queue[x])
        BY <4>2, MoveOne, Zenon
      <4>4. (Len(wire[x]) + Len(queue[x])) + Len(posted[x]) = reported[x] + 1
        BY <3>3, <3>4
      <4>5. (Len(wire'[x]) + Len(queue'[x])) + Len(posted[x]) = reported[x] + 1
        BY <4>1, <4>2, <4>3, <4>4
      <4> QED
        BY <1>2, <3>4, <4>5
    <3>5. CASE s # x
      BY <1>2, <1>3, <3>3, <3>5
    <3> QED
      BY <3>4, <3>5
  <2> QED
    BY <2>2, <2>3, <2>4 DEF InOrder
<1> QED
  BY <1>7, <1>8, <1>9, <1>10, <1>11, <1>12 DEF SignalingInv

LEMMA RunPostedInv ==
  ASSUME SignalingInv, NEW x \in Session, RunPosted(x)
  PROVE  SignalingInv'
<1>1. /\ posted \in [Session -> Seq(0..MaxRtc)] /\ posted[x] # <<>>
      /\ wire \in [Session -> Seq(0..MaxRtc)] /\ queue \in [Session -> Seq(0..MaxRtc)]
      /\ reported \in [Session -> 0..MaxRtc]
  BY DEF SignalingInv, TypeOK, RunPosted
<1>2. /\ UNCHANGED <<accepting, reading, isDisconnected, wire, created, registered, sessions,
                     rtc, reported, down, described>>
      /\ posted' = [posted EXCEPT ![x] = Tail(posted[x])]
  BY DEF RunPosted, tableVars
<1>3. x \in created \ accepting
  BY <1>1 DEF SignalingInv, HandshakeFirst, Untouched
<1>4. /\ posted'[x] = Tail(posted[x])
      /\ \A s \in Session \ {x} : posted'[s] = posted[s]
      /\ Tail(posted[x]) \in Seq(0..MaxRtc)
      /\ Len(posted[x]) \in Nat \ {0}
      /\ Len(posted'[x]) = Len(posted[x]) - 1
      /\ Head(posted[x]) \in 0..MaxRtc
  BY <1>1, <1>2, TailFacts
<1>5. posted' \in [Session -> Seq(0..MaxRtc)]
  BY <1>1, <1>2, <1>4
<1>6. /\ \A i \in 1..Len(posted'[x]) : posted'[x][i] = reported[x] - Len(posted'[x]) + i
      /\ Head(posted[x]) = reported[x] - Len(posted[x]) + 1
  <2>1. \A i \in 1..Len(posted[x]) : posted[x][i] = reported[x] - Len(posted[x]) + i
    BY DEF SignalingInv, InOrder
  <2>2. posted[x] \in Seq(0..MaxRtc) /\ reported[x] \in Nat
    BY <1>1
  <2> QED
    BY <1>1, <1>4, <2>1, <2>2, PostedTail
<1>7. TablesAgree' /\ EndIsNoticed' /\ WithinBound' /\ WireInOrder'
  BY <1>2 DEF SignalingInv, TablesAgree, EndIsNoticed, WithinBound, WireInOrder
<1>8. \A s \in Session : \A i \in 1..Len(posted'[s]) :
        posted'[s][i] = reported'[s] - Len(posted'[s]) + i
  <2>1. ASSUME NEW s \in Session \ {x}
        PROVE  \A i \in 1..Len(posted'[s]) : posted'[s][i] = reported'[s] - Len(posted'[s]) + i
    <3>1. posted'[s] = posted[s] /\ reported'[s] = reported[s]
      BY <1>2, <1>4
    <3> QED
      BY ZenonT(40), <3>1 DEF SignalingInv, InOrder
  <2>2. reported'[x] = reported[x]
    BY <1>2
  <2> QED
    BY <1>6, <2>1, <2>2
<1>9. CASE ~Held(x)
  <2>1. UNCHANGED <<queue, writing, isWriting>>
    BY <1>9 DEF RunPosted
  <2>2. TypeOK'
    BY <1>2, <1>5, <2>1 DEF SignalingInv, TypeOK
  <2>3. HandshakeFirst' /\ QueueInUse' /\ OneWriteAtATime'
    BY <1>2, <1>3, <1>4, <2>1 DEF SignalingInv, HandshakeFirst, Untouched, QueueInUse, OneWriteAtATime
  <2>4. \A s \in Session : Held(s)' <=> Held(s)
    BY <1>2, <2>1 DEF Held
  <2>5. InOrder'
    BY <1>2, <1>4, <1>8, <1>9, <2>1, <2>4 DEF SignalingInv, InOrder
  <2> QED
    BY <1>7, <2>2, <2>3, <2>5 DEF SignalingInv
<1>10. CASE Held(x)
  <2>1. Write(x, Head(posted[x]))
    BY <1>10 DEF RunPosted
  <2>2. Len(wire[x]) + Len(queue[x]) + Len(posted[x]) = reported[x] + 1
    BY <1>3, <1>10 DEF SignalingInv, InOrder
  <2>3. /\ Len(wire[x]) \in Nat /\ Len(queue[x]) \in Nat /\ reported[x] \in Nat
    BY <1>1
  <2>4. Head(posted[x]) = Len(wire[x]) + Len(queue[x])
    <3>1. reported[x] - Len(posted[x]) + 1 = Len(wire[x]) + Len(queue[x])
      BY <1>1, <2>2, <2>3, Remaining
    <3> QED
      BY <1>6, <3>1, Zenon
  <2>5. /\ queue' \in [Session -> Seq(0..MaxRtc)]
        /\ writing' \in [Session -> Nat]
        /\ OneWriteAtATime' /\ QueueInUse'
        /\ Len(queue'[x]) = Len(queue[x]) + 1
        /\ \A s \in Session \ {x} : queue'[s] = queue[s] /\ writing'[s] = writing[s]
        /\ \A s \in Session : \A i \in 1..Len(queue'[s]) : queue'[s][i] = Len(wire'[s]) - 1 + i
    BY <1>2, <1>4, <2>1, <2>4, WriteInv
  <2>6. isWriting' = isWriting \cup {x}
    BY <2>1 DEF Write
  <2>7. TypeOK'
    BY <1>2, <1>3, <1>5, <2>5, <2>6 DEF SignalingInv, TypeOK
  <2>8. HandshakeFirst'
    BY <1>2, <1>3, <1>4, <2>5, <2>6 DEF SignalingInv, HandshakeFirst, Untouched
  <2>9. ASSUME NEW s \in Session, s \in created' \ accepting', Held(s)'
        PROVE  Len(wire'[s]) + Len(queue'[s]) + Len(posted'[s]) = reported'[s] + 1
    <3>1. CASE s = x
      <4>1. Len(posted[x]) \in Nat
        BY <1>4
      <4>2. /\ wire'[s] = wire[x] /\ reported'[s] = reported[x]
            /\ Len(queue'[s]) = Len(queue[x]) + 1 /\ Len(posted'[s]) = Len(posted[x]) - 1
        BY <1>2, <1>4, <2>5, <3>1
      <4>3. Len(wire[x]) + (Len(queue[x]) + 1) + (Len(posted[x]) - 1)
              = Len(wire[x]) + Len(queue[x]) + Len(posted[x])
        BY <2>3, <4>1, TakeOne, ZenonT(60)
      <4> QED
        BY <2>2, <4>2, <4>3, Zenon
    <3>2. CASE s # x
      <4>1. Held(s)
        BY <1>2, <2>5, <2>9, <3>2 DEF Held
      <4>2. Len(wire[s]) + Len(queue[s]) + Len(posted[s]) = reported[s] + 1
        BY <1>2, <2>9, <4>1 DEF SignalingInv, InOrder
      <4> QED
        BY <1>2, <1>4, <2>5, <3>2, <4>2
    <3> QED
      BY <3>1, <3>2
  <2>10. InOrder'
    BY <1>8, <2>5, <2>9 DEF InOrder
  <2> QED
    BY <1>7, <2>5, <2>7, <2>8, <2>10 DEF SignalingInv
<1> QED
  BY <1>9, <1>10

LEMMA RtcLockInv ==
  ASSUME SignalingInv, NEW x \in Session, RtcLock(x)
  PROVE  SignalingInv'
<1>1. /\ rtc' = [rtc EXCEPT ![x] = "locked"] /\ x \in described /\ Held(x)
      /\ UNCHANGED <<socketVars, tableVars, posted, reported, down, described>>
  BY DEF RtcLock
<1>2. x \notin accepting /\ x \in created
  BY <1>1 DEF SignalingInv, HandshakeFirst, Untouched
<1>3. /\ TypeOK' /\ TablesAgree' /\ EndIsNoticed' /\ QueueInUse' /\ WithinBound'
      /\ OneWriteAtATime' /\ WireInOrder'
  BY <1>1 DEF RtcLock, SignalingInv, TypeOK, TablesAgree, EndIsNoticed, QueueInUse, WithinBound,
     OneWriteAtATime, WireInOrder, socketVars, tableVars
<1>4. HandshakeFirst'
  BY <1>1, <1>2 DEF SignalingInv, TypeOK, HandshakeFirst, Untouched, socketVars, tableVars
<1>5. \A s \in Session : Held(s)' => Held(s)
  BY <1>1 DEF SignalingInv, TypeOK, Held, socketVars, tableVars
<1>6. InOrder'
  BY <1>1, <1>5 DEF SignalingInv, InOrder, socketVars, tableVars
<1> QED
  BY <1>3, <1>4, <1>6 DEF SignalingInv

LEMMA RtcPostInv ==
  ASSUME SignalingInv, NEW x \in Session, RtcPost(x)
  PROVE  SignalingInv'
<1> DEFINE m == reported[x] + 1
<1>1. /\ rtc \in [Session -> {"idle", "locked", "posted"}]
      /\ reported \in [Session -> 0..MaxRtc]
      /\ posted \in [Session -> Seq(0..MaxRtc)]
  BY DEF SignalingInv, TypeOK
<1>2. /\ rtc[x] = "locked" /\ rtc' = [rtc EXCEPT ![x] = "posted"]
      /\ reported' = [reported EXCEPT ![x] = m]
      /\ posted' = [posted EXCEPT ![x] = Append(posted[x], m)]
      /\ UNCHANGED <<socketVars, tableVars, down, described>>
  BY <1>1 DEF RtcPost
<1>3. m \in 0..MaxRtc /\ reported[x] \in Nat
  BY <1>1, <1>2 DEF SignalingInv, WithinBound
<1>4. /\ posted'[x] = Append(posted[x], m) /\ reported'[x] = m
      /\ posted'[x] \in Seq(0..MaxRtc)
      /\ Len(posted'[x]) = Len(posted[x]) + 1 /\ Len(posted[x]) \in Nat
      /\ \A s \in Session \ {x} : posted'[s] = posted[s] /\ reported'[s] = reported[s]
  BY <1>1, <1>2, <1>3, AppendFacts
<1>5. /\ posted' \in [Session -> Seq(0..MaxRtc)] /\ reported' \in [Session -> 0..MaxRtc]
      /\ rtc' \in [Session -> {"idle", "locked", "posted"}]
  BY <1>1, <1>2, <1>3, <1>4
<1>6. x \in created \ accepting /\ Held(x)
  BY <1>2 DEF SignalingInv, HandshakeFirst, Untouched, Held
<1>7. TypeOK'
  BY <1>2, <1>5 DEF SignalingInv, TypeOK, socketVars, tableVars
<1>8. /\ TablesAgree' /\ EndIsNoticed' /\ QueueInUse' /\ WithinBound'
      /\ OneWriteAtATime' /\ WireInOrder'
  BY <1>1, <1>2 DEF SignalingInv, TablesAgree, EndIsNoticed, QueueInUse, WithinBound,
     OneWriteAtATime, WireInOrder, socketVars, tableVars
<1>9. HandshakeFirst'
  BY <1>1, <1>2, <1>4, <1>6 DEF SignalingInv, HandshakeFirst, Untouched, socketVars, tableVars
<1>10. InOrder'
  <2>1. \A i \in 1..Len(posted'[x]) : posted'[x][i] = reported'[x] - Len(posted'[x]) + i
    <3>1. \A i \in 1..Len(posted[x]) : posted[x][i] = reported[x] - Len(posted[x]) + i
      BY DEF SignalingInv, InOrder
    <3> QED
      BY <1>1, <1>3, <1>4, <3>1, PostedAppend
  <2>2. \A s \in Session : \A i \in 1..Len(posted'[s]) :
          posted'[s][i] = reported'[s] - Len(posted'[s]) + i
    <3>1. ASSUME NEW s \in Session \ {x}
          PROVE  \A i \in 1..Len(posted'[s]) : posted'[s][i] = reported'[s] - Len(posted'[s]) + i
      <4>1. posted'[s] = posted[s] /\ reported'[s] = reported[s]
        BY <1>4
      <4> QED
        BY ZenonT(40), <4>1 DEF SignalingInv, InOrder
    <3> QED
      BY <2>1, <3>1
  <2>3. \A s \in Session : \A i \in 1..Len(queue'[s]) : queue'[s][i] = Len(wire'[s]) - 1 + i
    BY <1>2 DEF SignalingInv, InOrder, socketVars
  <2>4. ASSUME NEW s \in Session, s \in created' \ accepting', Held(s)'
        PROVE  Len(wire'[s]) + Len(queue'[s]) + Len(posted'[s]) = reported'[s] + 1
    <3>1. s \in created \ accepting /\ Held(s)
      BY <1>1, <1>2, <1>6, <2>4 DEF Held, socketVars, tableVars
    <3>2. Len(wire[s]) + Len(queue[s]) + Len(posted[s]) = reported[s] + 1
      BY <3>1 DEF SignalingInv, InOrder
    <3>3. wire'[s] = wire[s] /\ queue'[s] = queue[s]
      BY <1>2 DEF socketVars
    <3>4. Len(wire[s]) \in Nat /\ Len(queue[s]) \in Nat
      BY DEF SignalingInv, TypeOK
    <3>5. CASE s = x
      <4>1. /\ Len(posted'[s]) = Len(posted[s]) + 1 /\ Len(posted[s]) \in Nat
            /\ reported'[s] = reported[s] + 1
        BY <1>4, <3>5
      <4>2. Len(wire[s]) + Len(queue[s]) + (Len(posted[s]) + 1)
              = Len(wire[s]) + Len(queue[s]) + Len(posted[s]) + 1
        BY <3>4, <4>1, AddOne, Zenon
      <4> QED
        BY <3>2, <3>3, <4>1, <4>2, Zenon
    <3>6. CASE s # x
      BY <1>4, <3>2, <3>3, <3>6
    <3> QED
      BY <3>5, <3>6
  <2> QED
    BY <2>2, <2>3, <2>4 DEF InOrder
<1> QED
  BY <1>7, <1>8, <1>9, <1>10 DEF SignalingInv

LEMMA RtcReturnInv ==
  ASSUME SignalingInv, NEW x \in Session, RtcReturn(x)
  PROVE  SignalingInv'
<1>1. /\ rtc' = [rtc EXCEPT ![x] = "idle"]
      /\ UNCHANGED <<socketVars, tableVars, posted, reported, down, described>>
  BY DEF RtcReturn
<1>2. /\ TypeOK' /\ TablesAgree' /\ EndIsNoticed' /\ QueueInUse' /\ WithinBound'
      /\ OneWriteAtATime' /\ WireInOrder'
  BY <1>1 DEF SignalingInv, TypeOK, TablesAgree, EndIsNoticed, QueueInUse, WithinBound,
     OneWriteAtATime, WireInOrder, socketVars, tableVars
<1>3. HandshakeFirst'
  BY <1>1 DEF SignalingInv, TypeOK, HandshakeFirst, Untouched, socketVars, tableVars
<1>4. \A s \in Session : Held(s)' => Held(s)
  BY <1>1 DEF SignalingInv, TypeOK, Held, socketVars, tableVars
<1>5. InOrder'
  BY <1>1, <1>4 DEF SignalingInv, InOrder, socketVars, tableVars
<1> QED
  BY <1>2, <1>3, <1>5 DEF SignalingInv

LEMMA ConnectionEndsInv ==
  ASSUME SignalingInv, NEW x \in Session, ConnectionEnds(x)
  PROVE  SignalingInv'
<1> USE DEF SignalingInv, ConnectionEnds, socketVars, tableVars, rtcVars
<1>1. TypeOK' /\ TablesAgree' /\ EndIsNoticed' /\ HandshakeFirst'
  BY DEF TypeOK, TablesAgree, EndIsNoticed, HandshakeFirst, Untouched
<1>2. QueueInUse' /\ WithinBound' /\ OneWriteAtATime' /\ WireInOrder' /\ InOrder'
  BY DEF QueueInUse, WithinBound, OneWriteAtATime, WireInOrder, InOrder, Held
<1> QED
  BY <1>1, <1>2

LEMMA StepInv == SignalingInv /\ [Next]_vars => SignalingInv'
<1> SUFFICES ASSUME SignalingInv, [Next]_vars
             PROVE  SignalingInv'
  OBVIOUS
<1>1. ASSUME NEW s \in Session,
             \/ Attach(s) \/ Handshake(s) \/ ReadDescription(s) \/ ReadFailed(s) \/ WriteHandler(s)
             \/ RunPosted(s) \/ RtcLock(s) \/ RtcThread(s) \/ ConnectionEnds(s)
      PROVE  SignalingInv'
  BY <1>1, AttachInv, AcceptedInv, AcceptFailedInv, ReadDescriptionInv, ReadFailedInv, WrittenInv,
     WriteFailedInv, RunPostedInv, RtcLockInv, RtcPostInv, RtcReturnInv, ConnectionEndsInv
     DEF Handshake, WriteHandler, RtcThread
<1>2. CASE UNCHANGED vars
  <2> USE <1>2 DEF SignalingInv, vars, socketVars, tableVars, rtcVars
  <2>1. TypeOK' /\ TablesAgree' /\ EndIsNoticed' /\ HandshakeFirst'
    BY DEF TypeOK, TablesAgree, EndIsNoticed, HandshakeFirst, Untouched
  <2>2. QueueInUse' /\ WithinBound' /\ OneWriteAtATime' /\ WireInOrder' /\ InOrder'
    BY DEF QueueInUse, WithinBound, OneWriteAtATime, WireInOrder, InOrder, Held
  <2> QED
    BY <2>1, <2>2
<1> QED
  BY <1>1, <1>2 DEF Next

(* The invariant holds in every reachable state: in particular the messages of
   a session lie in order along the posted handlers, the write queue and the
   wire. *)
THEOREM Invariance == Spec => []SignalingInv
<1>1. Init => SignalingInv
  BY InitInv
<1>2. SignalingInv /\ [Next]_vars => SignalingInv'
  BY StepInv
<1> QED
  BY <1>1, <1>2, PTL DEF Spec

(* Every variable keeps its type. *)
THEOREM TypeCorrect == Spec => []TypeOK
<1>1. SignalingInv => TypeOK
  BY DEF SignalingInv
<1> QED
  BY <1>1, Invariance, PTL

(* A stream never has two writes outstanding. *)
THEOREM NoConcurrentWrites == Spec => []OneWriteAtATime
<1>1. SignalingInv => OneWriteAtATime
  BY DEF SignalingInv
<1> QED
  BY <1>1, Invariance, PTL

(* The client receives session_created and then every message once, in order. *)
THEOREM NothingReordered == Spec => []WireInOrder
<1>1. SignalingInv => WireInOrder
  BY DEF SignalingInv
<1> QED
  BY <1>1, Invariance, PTL

(* The socket of every registered session is being observed. *)
THEOREM NobodyForgotten == Spec => []EndIsNoticed
<1>1. SignalingInv => EndIsNoticed
  BY DEF SignalingInv
<1> QED
  BY <1>1, Invariance, PTL

-----------------------------------------------------------------------------
(* Signaling implements Lifetimes. *)

LEMMA InitRefines == Init => Lifetime!Init
BY DEF Init, Lifetime!Init, Held

(* A step that neither attaches nor detaches can only drop references of
   sessions that are no longer registered. *)
LEMMA DropRefines ==
  ASSUME SignalingInv', NEW x \in Session, UNCHANGED <<created, registered>>,
         Held(x)' => Held(x),
         \A s \in Session \ {x} : Held(s)' <=> Held(s)
  PROVE  [Lifetime!Next]_(Lifetime!vars)
<1> DEFINE refs == {s \in Session : Held(s)}
<1>1. CASE Held(x) /\ ~Held(x)'
  <2>1. refs' = refs \ {x} /\ x \in refs
    BY <1>1
  <2>2. x \notin registered
    BY <1>1 DEF SignalingInv, TablesAgree, Held
  <2> QED
    BY <2>1, <2>2 DEF Lifetime!Next, Lifetime!Release
<1>2. CASE Held(x) <=> Held(x)'
  <2>1. refs' = refs
    BY <1>2
  <2> QED
    BY <2>1 DEF Lifetime!vars
<1> QED
  BY <1>1, <1>2

(* A disconnect is a Detach the first time. *)
LEMMA DisconnectRefines ==
  ASSUME SignalingInv, SignalingInv', NEW x \in Session, Disconnect(x), UNCHANGED created,
         x \in created, Held(x)' => Held(x), Held(x),
         \A s \in Session \ {x} : Held(s)' <=> Held(s)
  PROVE  [Lifetime!Next]_(Lifetime!vars)
<1>1. CASE x \in registered
  <2>1. registered' = registered \ {x}
    BY DisconnectFacts
  <2>2. {s \in Session : Held(s)}' \in {{s \in Session : Held(s)}, {s \in Session : Held(s)} \ {x}}
    BY Zenon
  <2> QED
    BY <1>1, <2>1, <2>2 DEF Lifetime!Next, Lifetime!Detach
<1>2. CASE x \notin registered
  <2>1. registered' = registered
    BY <1>2, DisconnectFacts
  <2> QED
    BY <2>1, DropRefines
<1> QED
  BY <1>1, <1>2

(* Every step of a socket is a step of Lifetimes, or none. *)
LEMMA StepRefines ==
  ASSUME SignalingInv, SignalingInv', [Next]_vars
  PROVE  [Lifetime!Next]_(Lifetime!vars)
<1> USE DEF tableVars, rtcVars, socketVars
<1>1. ASSUME NEW x \in Session, Attach(x)
      PROVE  [Lifetime!Next]_(Lifetime!vars)
  <2>1. {s \in Session : Held(s)}' = {s \in Session : Held(s)} \cup {x}
    BY <1>1 DEF Attach, Held
  <2> QED
    BY <1>1, <2>1 DEF Attach, Lifetime!Next, Lifetime!Attach
<1>2. ASSUME NEW x \in Session, Accepted(x)
      PROVE  [Lifetime!Next]_(Lifetime!vars)
  <2>1. /\ writing \in [Session -> Nat]
        /\ writing' = [writing EXCEPT ![x] = IF x \in isWriting THEN @ ELSE @ + 1]
    BY <1>2 DEF SignalingInv, TypeOK, Accepted, Write
  <2>2. \A s \in Session : Held(s)' <=> Held(s)
    BY <1>2, <2>1 DEF Accepted, Held
  <2> QED
    BY <1>2, <2>2, DropRefines DEF Accepted
<1>3. ASSUME NEW x \in Session, AcceptFailed(x) \/ ReadFailed(x) \/ WriteFailed(x)
      PROVE  [Lifetime!Next]_(Lifetime!vars)
  <2>1. Disconnect(x) /\ UNCHANGED created /\ x \in created /\ Held(x)
    BY <1>3 DEF AcceptFailed, ReadFailed, WriteFailed, SignalingInv, TypeOK, Held
  <2>2. \A s \in Session \ {x} : s \in sessions' <=> s \in sessions
    BY <2>1, DisconnectFacts DEF SignalingInv, TablesAgree
  <2>3. \A s \in Session \ {x} : Held(s)' <=> Held(s)
    <3>1. \A s \in Session \ {x} : writing'[s] = writing[s]
      BY ZenonT(40), <1>3 DEF AcceptFailed, ReadFailed, WriteFailed, SignalingInv, TypeOK
    <3>2. \A s \in Session \ {x} : /\ s \in accepting' <=> s \in accepting
                                   /\ s \in reading' <=> s \in reading
                                   /\ rtc'[s] = rtc[s]
      BY <1>3 DEF AcceptFailed, ReadFailed, WriteFailed, rtcVars
    <3> QED
      BY <2>2, <3>1, <3>2 DEF Held
  <2> QED
    BY <2>1, <2>3, DisconnectRefines
<1>4. ASSUME NEW x \in Session, ReadDescription(x) \/ ConnectionEnds(x) \/ RtcLock(x) \/ RtcPost(x)
      PROVE  [Lifetime!Next]_(Lifetime!vars)
  <2>1. \A s \in Session : Held(s)' <=> Held(s)
    <3>1. CASE ReadDescription(x) \/ ConnectionEnds(x)
      BY <3>1 DEF ReadDescription, ConnectionEnds, Held
    <3>2. CASE RtcLock(x) \/ RtcPost(x)
      <4>1. /\ \A s \in Session \ {x} : rtc'[s] = rtc[s]
            /\ rtc'[x] # "idle"
            /\ Held(x)
            /\ UNCHANGED <<socketVars, tableVars>>
        BY <3>2 DEF RtcLock, RtcPost, Held, SignalingInv, TypeOK
      <4> QED
        BY <4>1 DEF Held
    <3> QED
      BY <1>4, <3>1, <3>2
  <2> QED
    BY <1>4, <2>1, DropRefines DEF ReadDescription, ConnectionEnds, RtcLock, RtcPost
<1>5. ASSUME NEW x \in Session, Written(x) \/ RtcReturn(x)
      PROVE  [Lifetime!Next]_(Lifetime!vars)
  <2>1. Held(x)
    BY <1>5 DEF Written, RtcReturn, Held
  <2>2. \A s \in Session \ {x} : Held(s)' <=> Held(s)
    <3>1. CASE Written(x)
      <4>1. \A s \in Session \ {x} : writing'[s] = writing[s]
        BY ZenonT(120), <3>1 DEF Written, SignalingInv, TypeOK
      <4>2. UNCHANGED <<sessions, accepting, reading, rtc>>
        BY <3>1 DEF Written, tableVars, rtcVars
      <4> QED
        BY <4>1, <4>2 DEF Held
    <3>2. CASE RtcReturn(x)
      <4>1. \A s \in Session \ {x} : rtc'[s] = rtc[s]
        BY <3>2 DEF RtcReturn, SignalingInv, TypeOK
      <4> QED
        BY <3>2, <4>1 DEF RtcReturn, Held
    <3> QED
      BY <1>5, <3>1, <3>2
  <2> QED
    BY <1>5, <2>1, <2>2, DropRefines DEF Written, RtcReturn
<1>6. ASSUME NEW x \in Session, RunPosted(x)
      PROVE  [Lifetime!Next]_(Lifetime!vars)
  <2>1. CASE Held(x)
    <3>1. /\ writing \in [Session -> Nat]
          /\ writing' = [writing EXCEPT ![x] = IF x \in isWriting THEN @ ELSE @ + 1]
      BY <1>6, <2>1 DEF SignalingInv, TypeOK, RunPosted, Write
    <3>2. \A s \in Session \ {x} : Held(s)' <=> Held(s)
      BY <1>6, <3>1 DEF RunPosted, Held
    <3> QED
      BY <1>6, <2>1, <3>2, DropRefines DEF RunPosted
  <2>2. CASE ~Held(x)
    <3>1. \A s \in Session : Held(s)' <=> Held(s)
      BY <1>6, <2>2 DEF RunPosted, Held
    <3> QED
      BY <1>6, <3>1, DropRefines DEF RunPosted
  <2> QED
    BY <2>1, <2>2
<1>7. CASE UNCHANGED vars
  BY <1>7 DEF vars, Lifetime!vars, Held
<1> QED
  BY <1>1, <1>2, <1>3, <1>4, <1>5, <1>6, <1>7 DEF Next, Handshake, WriteHandler, RtcThread

(* A session is registered when it is attached, leaves the register once, and
   is gone only after that: what Bridges assumes of it. *)
THEOREM LifetimesHold == Spec => ImplementsLifetimes
<1>1. Init => Lifetime!Init
  BY InitRefines
<1>2. SignalingInv /\ SignalingInv' /\ [Next]_vars => [Lifetime!Next]_(Lifetime!vars)
  BY StepRefines
<1> QED
  BY <1>1, <1>2, Invariance, PTL DEF Spec, ImplementsLifetimes, Lifetime!Spec
=============================================================================
