--------------------------- MODULE HttpServerProofs ---------------------------
(***************************************************************************)
(* Safety of HttpServer for any set of connections and any number of       *)
(* requests: one operation at a time, no Session lost, and answers one for *)
(* one and in order, as Exchange promises.                                 *)
(***************************************************************************)
EXTENDS HttpServer, TLAPS

(* Only what the client has sent is read, and nothing before the accept. *)
TakenIsSent ==
  \A c \in Conn : /\ taken[c] <= Len(sent[c])
                  /\ c \notin accepted => taken[c] = 0

(* An outstanding answer is that of the request read last. *)
AnswersLast ==
  /\ \A w \in writes : w.req = taken[w.conn]
  /\ \A t \in speech : t.req = taken[t.conn]

(* A Session exists after the accept, in a process that runs. *)
ServedShape ==
  \A c \in Conn : Served(c) => c \in accepted /\ up

(* Every request read has been answered, but for the one being answered. *)
Answered ==
  \A c \in Conn \ left :
    /\ c \notin accepted => Len(wire[c]) = 0
    /\ c \in reading => Len(wire[c]) = taken[c]
    /\ c \in accepted /\ Served(c) /\ c \notin reading => Len(wire[c]) + 1 = taken[c]

HttpInv == TypeOK /\ TakenIsSent /\ AnswersLast /\ ServedShape /\ Answered /\ OneOperation /\ NoSessionLost
-----------------------------------------------------------------------------
(* Records and sequences. *)

WriteRec  == [conn : Conn, req : Number]
SpeechRec == [conn : Conn, req : Number, stage : Stage]

LEMMA NewRecords ==
  ASSUME NEW c \in Conn, NEW n \in Number, NEW st \in Stage
  PROVE  /\ [conn |-> c, req |-> n] \in WriteRec
         /\ [conn |-> c, req |-> n].conn = c /\ [conn |-> c, req |-> n].req = n
         /\ [conn |-> c, req |-> n, stage |-> st] \in SpeechRec
         /\ [conn |-> c, req |-> n, stage |-> st].conn = c
         /\ [conn |-> c, req |-> n, stage |-> st].req = n
BY DEF WriteRec, SpeechRec

LEMMA Appended ==
  ASSUME NEW S, NEW q \in Seq(S), NEW x \in S
  PROVE  /\ Append(q, x) \in Seq(S) /\ Len(Append(q, x)) = Len(q) + 1
         /\ Len(q) \in Nat
         /\ \A i \in 1..Len(q) : Append(q, x)[i] = q[i]
OBVIOUS

LEMMA LengthsAreNumbers ==
  ASSUME HttpInv
  PROVE  \A c \in Conn : Len(sent[c]) \in Nat /\ Len(wire[c]) \in Nat /\ taken[c] \in Nat
<1> SUFFICES ASSUME NEW c \in Conn
             PROVE  Len(sent[c]) \in Nat /\ Len(wire[c]) \in Nat /\ taken[c] \in Nat
  OBVIOUS
<1>1. sent[c] \in Seq(Sent) /\ wire[c] \in Seq(Number) /\ taken[c] \in Nat
  BY DEF HttpInv, TypeOK
<1> QED BY <1>1, MaxRequestsAssumption
-----------------------------------------------------------------------------
(* Every action preserves the invariant. *)

LEMMA SendKeeps ==
  ASSUME HttpInv, NEW c \in Conn, NEW r \in Sent, Send(c, r)
  PROVE  HttpInv'
<1> USE MaxRequestsAssumption, LengthsAreNumbers DEF HttpInv, world
<1>a. /\ UNCHANGED <<up, listening, accepted, taken, reading, writes, speech, wire, arrived, left>>
      /\ sent' = [sent EXCEPT ![c] = Append(@, r)] /\ Len(sent[c]) < MaxRequests[c]
  BY DEF Send
<1>b. /\ Append(sent[c], r) \in Seq(Sent) /\ Len(Append(sent[c], r)) = Len(sent[c]) + 1
      /\ \A i \in 1..Len(sent[c]) : Append(sent[c], r)[i] = sent[c][i]
  BY Appended DEF TypeOK
<1>c. /\ \A d \in Conn : Len(sent'[d]) \in Nat /\ Len(sent[d]) <= Len(sent'[d]) /\ Len(sent'[d]) <= MaxRequests[d]
      /\ \A d \in Conn : \A i \in 1..Len(sent[d]) : sent'[d][i] = sent[d][i]
      /\ sent' \in [Conn -> Seq(Sent)]
  <2>1. sent \in [Conn -> Seq(Sent)]
    BY DEF TypeOK
  <2>2. sent'[c] = Append(sent[c], r) /\ \A d \in Conn \ {c} : sent'[d] = sent[d]
    BY <1>a, <2>1
  <2>3. sent' \in [Conn -> Seq(Sent)]
    BY <1>a, <1>b, <2>1
  <2>4. ASSUME NEW d \in Conn
        PROVE  /\ Len(sent'[d]) \in Nat /\ Len(sent[d]) <= Len(sent'[d])
               /\ Len(sent'[d]) <= MaxRequests[d]
               /\ \A i \in 1..Len(sent[d]) : sent'[d][i] = sent[d][i]
    <3>1. MaxRequests[d] \in Nat /\ Len(sent[d]) \in Nat /\ Len(sent[d]) <= MaxRequests[d]
      BY DEF TypeOK
    <3>2. CASE d = c
      BY <1>a, <1>b, <2>2, <3>1, <3>2
    <3>3. CASE d # c
      BY <2>2, <3>1, <3>3
    <3> QED BY <3>2, <3>3
  <2> QED BY <2>3, <2>4
<1>d. \A d \in Conn : taken[d] > 0 => sent'[d][taken[d]] = sent[d][taken[d]]
  BY <1>c DEF TakenIsSent
<1>1. TypeOK'
  BY <1>a, <1>c, <1>d DEF TypeOK, Number
<1>2. TakenIsSent'
  BY <1>a, <1>c, <1>d DEF TakenIsSent
<1>3. AnswersLast'
  BY <1>a, <1>c, <1>d DEF AnswersLast
<1>4. ServedShape'
  BY <1>a, <1>c, <1>d DEF ServedShape, Served, WritesOf, SpeechOf
<1>5. Answered'
  BY <1>a, <1>c, <1>d DEF Answered, Served, WritesOf, SpeechOf
<1>6. OneOperation'
  BY <1>a DEF OneOperation, WritesOf, SpeechOf
<1>7. NoSessionLost'
  BY <1>a, <1>d DEF NoSessionLost, TypeOK, Served, WritesOf, SpeechOf
<1> QED BY <1>1, <1>2, <1>3, <1>4, <1>5, <1>6, <1>7

LEMMA ArriveKeeps ==
  ASSUME HttpInv, NEW c \in Conn, Arrive(c)
  PROVE  HttpInv'
<1> USE MaxRequestsAssumption, LengthsAreNumbers DEF HttpInv, world
<1>1. TypeOK'
  BY DEF TypeOK, Number, Arrive
<1>2. TakenIsSent'
  BY DEF TakenIsSent, Arrive
<1>3. AnswersLast'
  BY DEF AnswersLast, Arrive
<1>4. ServedShape'
  BY DEF ServedShape, Served, WritesOf, SpeechOf, Arrive
<1>5. Answered'
  BY DEF Answered, Served, WritesOf, SpeechOf, Arrive
<1>6. OneOperation'
  BY DEF OneOperation, WritesOf, SpeechOf, Arrive
<1>7. NoSessionLost'
  BY DEF NoSessionLost, TypeOK, TakenIsSent, Served, WritesOf, SpeechOf, Arrive
<1> QED BY <1>1, <1>2, <1>3, <1>4, <1>5, <1>6, <1>7

LEMMA LeaveKeeps ==
  ASSUME HttpInv, NEW c \in Conn, Leave(c)
  PROVE  HttpInv'
<1> USE MaxRequestsAssumption, LengthsAreNumbers DEF HttpInv, world
<1>1. TypeOK'
  BY DEF TypeOK, Number, Leave
<1>2. TakenIsSent'
  BY DEF TakenIsSent, Leave
<1>3. AnswersLast'
  BY DEF AnswersLast, Leave
<1>4. ServedShape'
  BY DEF ServedShape, Served, WritesOf, SpeechOf, Leave
<1>5. Answered'
  BY DEF Answered, Served, WritesOf, SpeechOf, Leave
<1>6. OneOperation'
  BY DEF OneOperation, WritesOf, SpeechOf, Leave
<1>7. NoSessionLost'
  BY DEF NoSessionLost, TypeOK, TakenIsSent, Served, WritesOf, SpeechOf, Leave
<1> QED BY <1>1, <1>2, <1>3, <1>4, <1>5, <1>6, <1>7

LEMMA AcceptFailsKeeps ==
  ASSUME HttpInv, AcceptFails
  PROVE  HttpInv'
<1> USE MaxRequestsAssumption, LengthsAreNumbers DEF HttpInv, world
<1>1. TypeOK'
  BY DEF TypeOK, Number, AcceptFails
<1>2. TakenIsSent'
  BY DEF TakenIsSent, AcceptFails
<1>3. AnswersLast'
  BY DEF AnswersLast, AcceptFails
<1>4. ServedShape'
  BY DEF ServedShape, Served, WritesOf, SpeechOf, AcceptFails
<1>5. Answered'
  BY DEF Answered, Served, WritesOf, SpeechOf, AcceptFails
<1>6. OneOperation'
  BY DEF OneOperation, WritesOf, SpeechOf, AcceptFails
<1>7. NoSessionLost'
  BY DEF NoSessionLost, TypeOK, TakenIsSent, Served, WritesOf, SpeechOf, AcceptFails
<1> QED BY <1>1, <1>2, <1>3, <1>4, <1>5, <1>6, <1>7

LEMMA AcceptThrowsKeeps ==
  ASSUME HttpInv, NEW c \in Conn, AcceptThrows(c)
  PROVE  HttpInv'
<1> USE MaxRequestsAssumption, LengthsAreNumbers DEF HttpInv, world
<1>1. TypeOK'
  BY DEF TypeOK, Number, AcceptThrows, ProcessEnds
<1>2. TakenIsSent'
  BY DEF TakenIsSent, AcceptThrows, ProcessEnds
<1>3. AnswersLast'
  BY DEF AnswersLast, AcceptThrows, ProcessEnds
<1>4. ServedShape'
  BY DEF ServedShape, Served, WritesOf, SpeechOf, AcceptThrows, ProcessEnds
<1>5. Answered'
  BY DEF Answered, Served, WritesOf, SpeechOf, AcceptThrows, ProcessEnds
<1>6. OneOperation'
  BY DEF OneOperation, WritesOf, SpeechOf, AcceptThrows, ProcessEnds
<1>7. NoSessionLost'
  BY DEF NoSessionLost, TypeOK, TakenIsSent, Served, WritesOf, SpeechOf, AcceptThrows, ProcessEnds
<1> QED BY <1>1, <1>2, <1>3, <1>4, <1>5, <1>6, <1>7

LEMMA UpgradeThrowsKeeps ==
  ASSUME HttpInv, NEW c \in Conn, UpgradeThrows(c)
  PROVE  HttpInv'
<1> USE MaxRequestsAssumption, LengthsAreNumbers DEF HttpInv, world
<1>a. /\ taken' = [taken EXCEPT ![c] = taken[c] + 1] /\ taken[c] < Len(sent[c])
      /\ c \in reading /\ UNCHANGED <<accepted, wire, arrived, left, sent>>
      /\ up' = FALSE /\ listening' = FALSE /\ reading' = {} /\ writes' = {} /\ speech' = {}
  BY DEF UpgradeThrows, ProcessEnds
<1>b. /\ taken[c] + 1 \in Nat /\ taken[c] + 1 <= Len(sent[c])
      /\ taken \in [Conn -> Nat] /\ c \in accepted
  BY <1>a DEF TypeOK, ServedShape, Served
<1>1. TypeOK'
  BY <1>a, <1>b DEF TypeOK
<1>2. TakenIsSent'
  <2>1. \A d \in Conn : taken'[d] = IF d = c THEN taken[c] + 1 ELSE taken[d]
    BY <1>a, <1>b
  <2> QED BY <1>a, <1>b, <2>1 DEF TakenIsSent
<1>3. AnswersLast'
  BY DEF AnswersLast, UpgradeThrows, ProcessEnds
<1>4. ServedShape'
  BY DEF ServedShape, Served, WritesOf, SpeechOf, UpgradeThrows, ProcessEnds
<1>5. Answered'
  BY DEF Answered, Served, WritesOf, SpeechOf, UpgradeThrows, ProcessEnds
<1>6. OneOperation'
  BY DEF OneOperation, WritesOf, SpeechOf, UpgradeThrows, ProcessEnds
<1>7. NoSessionLost'
  BY DEF NoSessionLost, TypeOK, TakenIsSent, Served, WritesOf, SpeechOf, UpgradeThrows, ProcessEnds
<1> QED BY <1>1, <1>2, <1>3, <1>4, <1>5, <1>6, <1>7

LEMMA ReadFailsKeeps ==
  ASSUME HttpInv, NEW c \in Conn, ReadFails(c)
  PROVE  HttpInv'
<1> USE MaxRequestsAssumption, LengthsAreNumbers DEF HttpInv, world
<1>1. TypeOK'
  BY DEF TypeOK, Number, ReadFails, ReadEnds
<1>2. TakenIsSent'
  BY DEF TakenIsSent, ReadFails, ReadEnds
<1>3. AnswersLast'
  BY DEF AnswersLast, ReadFails, ReadEnds
<1>4. ServedShape'
  BY DEF ServedShape, Served, WritesOf, SpeechOf, ReadFails, ReadEnds
<1>5. Answered'
  BY DEF Answered, Served, WritesOf, SpeechOf, ReadFails, ReadEnds
<1>6. OneOperation'
  BY DEF OneOperation, WritesOf, SpeechOf, ReadFails, ReadEnds
<1>7. NoSessionLost'
  BY DEF NoSessionLost, TypeOK, TakenIsSent, Served, WritesOf, SpeechOf, ReadFails, ReadEnds
<1> QED BY <1>1, <1>2, <1>3, <1>4, <1>5, <1>6, <1>7

LEMMA WriteFailsKeeps ==
  ASSUME HttpInv, NEW w \in writes, WriteFails(w)
  PROVE  HttpInv'
<1> USE MaxRequestsAssumption, LengthsAreNumbers DEF HttpInv, world
<1>1. TypeOK'
  BY DEF TypeOK, Number, WriteFails
<1>2. TakenIsSent'
  BY DEF TakenIsSent, WriteFails
<1>3. AnswersLast'
  BY DEF AnswersLast, WriteFails
<1>4. ServedShape'
  BY DEF ServedShape, Served, WritesOf, SpeechOf, WriteFails
<1>5. Answered'
  BY DEF Answered, Served, WritesOf, SpeechOf, WriteFails
<1>6. OneOperation'
  BY DEF OneOperation, WritesOf, SpeechOf, WriteFails
<1>7. NoSessionLost'
  BY DEF NoSessionLost, TypeOK, TakenIsSent, Served, WritesOf, SpeechOf, WriteFails
<1> QED BY <1>1, <1>2, <1>3, <1>4, <1>5, <1>6, <1>7

LEMMA AcceptKeeps ==
  ASSUME HttpInv, NEW c \in Conn, Accept(c)
  PROVE  HttpInv'
<1> USE MaxRequestsAssumption, LengthsAreNumbers DEF HttpInv, world
<1>a. /\ up /\ listening /\ c \in arrived \ accepted
      /\ accepted' = accepted \cup {c} /\ reading' = reading \cup {c}
      /\ UNCHANGED <<up, listening, taken, writes, speech, wire, arrived, left, sent>>
  BY DEF Accept
<1>b. /\ c \notin reading /\ WritesOf(c) = {} /\ SpeechOf(c) = {} /\ taken[c] = 0
      /\ c \notin left => Len(wire[c]) = 0
  BY <1>a DEF ServedShape, Served, TakenIsSent, Answered
<1>c. \A d \in Conn : WritesOf(d)' = WritesOf(d) /\ SpeechOf(d)' = SpeechOf(d)
  BY <1>a DEF WritesOf, SpeechOf
<1>1. TypeOK'
  BY <1>a, <1>b, <1>c DEF TypeOK, Number
<1>2. TakenIsSent'
  BY <1>a, <1>b, <1>c DEF TakenIsSent
<1>3. AnswersLast'
  BY <1>a, <1>b, <1>c DEF AnswersLast
<1>4. ServedShape'
  BY <1>a, <1>b, <1>c DEF ServedShape, Served
<1>5. Answered'
  BY <1>a, <1>b, <1>c DEF Answered, Served
<1>6. OneOperation'
  BY <1>a, <1>b, <1>c DEF OneOperation
<1>7. NoSessionLost'
  BY <1>a, <1>b, <1>c DEF NoSessionLost, TypeOK, TakenIsSent, Served
<1> QED BY <1>1, <1>2, <1>3, <1>4, <1>5, <1>6, <1>7

LEMMA ReadRequestKeeps ==
  ASSUME HttpInv, NEW c \in Conn, ReadRequest(c)
  PROVE  HttpInv'
<1> USE MaxRequestsAssumption, LengthsAreNumbers DEF HttpInv, world
<1> DEFINE n == taken[c] + 1
<1>a. /\ c \in reading /\ taken[c] < Len(sent[c])
      /\ taken' = [taken EXCEPT ![c] = n] /\ reading' = reading \ {c}
      /\ UNCHANGED <<up, listening, accepted, wire, arrived, left, sent>>
      /\ \/ writes' = writes \cup {[conn |-> c, req |-> n]} /\ UNCHANGED speech
         \/ /\ speech' = speech \cup {[conn |-> c, req |-> n, stage |-> "connect"]}
            /\ UNCHANGED writes
         \/ sent[c][n].kind \in {"malformed", "upgrade"} /\ UNCHANGED <<writes, speech>>
  BY DEF ReadRequest, ReadEnds, Write, Transcribe
<1>b. n \in Number /\ n \in 1..Len(sent[c]) /\ "connect" \in Stage
  <2>1. /\ taken[c] \in Nat /\ Len(sent[c]) \in Nat
        /\ taken[c] < Len(sent[c]) 
    BY <1>a DEF TypeOK
  <2> QED BY <2>1 DEF Number, Stage
<1>c. PICK w \in WriteRec, t \in SpeechRec :
        /\ w = [conn |-> c, req |-> n] /\ w.conn = c /\ w.req = n
        /\ t = [conn |-> c, req |-> n, stage |-> "connect"] /\ t.conn = c /\ t.req = n
  <2>1. /\ [conn |-> c, req |-> n] \in WriteRec
        /\ [conn |-> c, req |-> n, stage |-> "connect"] \in SpeechRec
    BY <1>b DEF WriteRec, SpeechRec
  <2> QED BY <2>1
<1>d. /\ taken'[c] = n /\ \A d \in Conn \ {c} : taken'[d] = taken[d]
      /\ sent' = sent /\ wire' = wire /\ taken[c] \in Nat
  BY <1>a DEF TypeOK
<1>e. /\ c \in accepted /\ up /\ WritesOf(c) = {} /\ SpeechOf(c) = {}
  BY <1>a DEF ServedShape, OneOperation, Served
<1>f. sent[c][n].kind \in {"malformed", "upgrade"} => ~sent[c][n].keep
  <2>1. sent[c] \in Seq(Sent)
    BY DEF TypeOK
  <2>2. sent[c][n] \in Sent
    BY <2>1, <1>b
  <2> QED BY <2>2 DEF Sent, Routes
<1>g. \/ writes' = writes \cup {w} /\ speech' = speech
      \/ speech' = speech \cup {t} /\ writes' = writes
      \/ sent[c][n].kind \in {"malformed", "upgrade"} /\ writes' = writes /\ speech' = speech
  BY <1>a, <1>c
<1>h. /\ \A d \in Conn \ {c} : WritesOf(d)' = WritesOf(d) /\ SpeechOf(d)' = SpeechOf(d)
      /\ \/ WritesOf(c)' = {w} /\ SpeechOf(c)' = {}
         \/ WritesOf(c)' = {} /\ SpeechOf(c)' = {t}
         \/ ~sent[c][n].keep /\ WritesOf(c)' = {} /\ SpeechOf(c)' = {}
  BY <1>c, <1>e, <1>f, <1>g DEF WritesOf, SpeechOf
<1>i. /\ n > 0 /\ c \notin reading'
      /\ c \notin left => Len(wire[c]) + 1 = n
  BY <1>a, <1>d DEF Answered
<1>j. \A v \in writes : v.conn # c
  BY <1>e DEF WritesOf
<1>k. \A v \in speech : v.conn # c
  BY <1>e DEF SpeechOf
<1> HIDE DEF n
<1>1. TypeOK'
  BY <1>a, <1>b, <1>c, <1>d, <1>g, SMTT(120) DEF TypeOK, Number, WriteRec, SpeechRec
<1>2. TakenIsSent'
  BY <1>a, <1>b, <1>d, <1>e DEF TakenIsSent
<1>3. AnswersLast'
  BY <1>c, <1>d, <1>g, <1>j, <1>k DEF AnswersLast, TypeOK
<1>4. ServedShape'
  BY <1>a, <1>d, <1>e, <1>h, <1>i DEF ServedShape, Served
<1>5. Answered'
  BY <1>a, <1>d, <1>e, <1>h, <1>i DEF Answered, Served
<1>6. OneOperation'
  BY <1>a, <1>d, <1>e, <1>h, <1>i DEF OneOperation
<1>7. NoSessionLost'
  BY <1>a, <1>d, <1>e, <1>h, <1>i, ZenonT(60) DEF NoSessionLost, TypeOK, TakenIsSent, Served
<1> QED BY <1>1, <1>2, <1>3, <1>4, <1>5, <1>6, <1>7

LEMMA WrittenKeeps ==
  ASSUME HttpInv, NEW w \in writes, Written(w)
  PROVE  HttpInv'
<1> USE MaxRequestsAssumption, LengthsAreNumbers DEF HttpInv, world
<1>a. /\ writes' = writes \ {w}
      /\ wire' = IF w.conn \in left THEN wire ELSE [wire EXCEPT ![w.conn] = Append(@, w.req)]
      /\ reading' = IF sent[w.conn][w.req].keep THEN reading \cup {w.conn} ELSE reading
      /\ UNCHANGED <<up, listening, accepted, taken, speech, arrived, left, sent>>
  BY DEF Written
<1>b. w.conn \in Conn /\ w.req \in Number /\ w.req = taken[w.conn]
  BY DEF TypeOK, AnswersLast
<1>c. /\ wire' \in [Conn -> Seq(Number)]
      /\ \A d \in Conn : d # w.conn => wire'[d] = wire[d]
      /\ w.conn \notin left => Len(wire'[w.conn]) = Len(wire[w.conn]) + 1
  BY <1>a, <1>b, Appended DEF TypeOK
<1>d. /\ w.conn \in accepted /\ up /\ w.conn \notin reading /\ SpeechOf(w.conn) = {}
      /\ WritesOf(w.conn) = {w} /\ WritesOf(w.conn)' = {}
  BY <1>a, <1>b DEF ServedShape, OneOperation, Served, WritesOf
<1>e. taken[w.conn] > 0 /\ sent' = sent /\ taken' = taken
  BY <1>a, <1>b DEF Number
<1>f. \A d \in Conn : /\ d # w.conn => WritesOf(d)' = WritesOf(d)
                     /\ SpeechOf(d)' = SpeechOf(d)
  BY <1>a DEF WritesOf, SpeechOf
<1>g. /\ \A d \in Conn : d # w.conn => (d \in reading' <=> d \in reading)
      /\ w.conn \in reading' <=> sent[w.conn][w.req].keep
      /\ UNCHANGED <<up, accepted, left, taken, sent>>
  BY <1>a, <1>d
<1>h. w.conn \notin left => Len(wire'[w.conn]) = taken[w.conn]
  BY <1>b, <1>c, <1>d DEF Answered, Served
<1>1. TypeOK'
  BY <1>a, <1>b, <1>c DEF TypeOK, Number
<1>2. TakenIsSent'
  BY <1>a DEF TakenIsSent
<1>3. AnswersLast'
  BY <1>a DEF AnswersLast
<1>4. ServedShape'
  BY <1>b, <1>c, <1>d, <1>f, <1>g DEF ServedShape, Served
<1>5. Answered'
  <2>1. ASSUME NEW d \in Conn \ left
        PROVE  /\ d \notin accepted => Len(wire'[d]) = 0
               /\ d \in reading' => Len(wire'[d]) = taken[d]
               /\ d \in accepted /\ Served(d)' /\ d \notin reading' => Len(wire'[d]) + 1 = taken[d]
    <3>1. CASE d = w.conn
      BY <1>d, <1>f, <1>h, <3>1 DEF Served
    <3>2. CASE d # w.conn
      <4>1. wire'[d] = wire[d] /\ (Served(d)' <=> Served(d)) /\ (d \in reading' <=> d \in reading)
        BY <1>c, <1>f, <1>g, <3>2 DEF Served
      <4> QED BY <4>1 DEF Answered
    <3> QED BY <3>1, <3>2
  <2> QED BY <1>g, <2>1 DEF Answered
<1>6. OneOperation'
  BY <1>b, <1>d, <1>f, <1>g, SMTT(40) DEF OneOperation
<1>7. NoSessionLost'
  <2>1. ASSUME NEW d \in accepted, up
        PROVE  Served(d)' \/ d \in left \/ (taken[d] > 0 /\ ~sent[d][taken[d]].keep)
    <3>1. d \in Conn
      BY DEF TypeOK
    <3>2. CASE d = w.conn
      BY <1>b, <1>e, <1>g, <3>1, <3>2 DEF Served
    <3>3. CASE d # w.conn
      <4>1. Served(d) \/ d \in left \/ (taken[d] > 0 /\ ~sent[d][taken[d]].keep)
        BY <2>1 DEF NoSessionLost
      <4>2. Served(d)' <=> Served(d)
        BY <1>f, <1>g, <3>1, <3>3 DEF Served
      <4> QED BY <4>1, <4>2
    <3> QED BY <3>2, <3>3
  <2> QED BY <1>a, <2>1 DEF NoSessionLost
<1> QED BY <1>1, <1>2, <1>3, <1>4, <1>5, <1>6, <1>7

LEMMA SpeechAdvancesKeeps ==
  ASSUME HttpInv, NEW t \in speech, SpeechAdvances(t)
  PROVE  HttpInv'
<1> USE MaxRequestsAssumption, LengthsAreNumbers DEF HttpInv, world
<1>a. /\ t.stage # "read"
      /\ speech' = (speech \ {t}) \cup {[t EXCEPT !.stage = NextStage(t.stage)]}
      /\ UNCHANGED <<up, listening, accepted, taken, reading, writes, wire, arrived, left, sent>>
  BY DEF SpeechAdvances
<1>b. PICK u \in SpeechRec : /\ u = [t EXCEPT !.stage = NextStage(t.stage)]
                            /\ u.conn = t.conn /\ u.req = t.req
  <2> DEFINE v == [t EXCEPT !.stage = NextStage(t.stage)]
  <2>1. t \in SpeechRec /\ NextStage(t.stage) \in Stage
    BY DEF TypeOK, SpeechRec, NextStage, Stage
  <2>2. v \in SpeechRec /\ v.conn = t.conn /\ v.req = t.req
    BY <2>1 DEF SpeechRec
  <2> QED BY <2>2
<1>c. speech' = (speech \ {t}) \cup {u} /\ t.conn \in Conn
  BY <1>a, <1>b DEF TypeOK
<1>d. SpeechOf(t.conn) = {t} /\ SpeechOf(t.conn)' = {u}
  <2>1. t \in SpeechOf(t.conn)
    BY DEF SpeechOf
  <2>2. SpeechOf(t.conn) = {t}
    BY <2>1, <1>c DEF OneOperation
  <2>3. \A v \in speech : v.conn = t.conn => v = t
    BY <2>2 DEF SpeechOf
  <2> QED BY <2>2, <2>3, <1>b, <1>c DEF SpeechOf
<1>e. \A d \in Conn : /\ d # t.conn => SpeechOf(d)' = SpeechOf(d)
                     /\ WritesOf(d)' = WritesOf(d)
  BY <1>a, <1>b, <1>c DEF WritesOf, SpeechOf
<1>1. TypeOK'
  BY <1>a, <1>b, <1>c DEF TypeOK, SpeechRec
<1>2. TakenIsSent'
  BY <1>a, <1>c, <1>d, <1>e DEF TakenIsSent
<1>3. AnswersLast'
  BY <1>a, <1>b, <1>c DEF AnswersLast
<1>4. ServedShape'
  BY <1>a, <1>c, <1>d, <1>e DEF ServedShape, Served
<1>5. Answered'
  BY <1>a, <1>c, <1>d, <1>e DEF Answered, Served
<1>6. OneOperation'
  <2>1. ASSUME NEW d \in Conn
        PROVE  /\ d \in reading => WritesOf(d)' = {} /\ SpeechOf(d)' = {}
               /\ WritesOf(d)' # {} => SpeechOf(d)' = {}
               /\ \A v, x \in WritesOf(d)' : v = x
               /\ \A v, x \in SpeechOf(d)' : v = x
    <3>1. CASE d = t.conn
      <4>1. WritesOf(d)' = WritesOf(d) /\ SpeechOf(d) # {} /\ \A v, x \in SpeechOf(d)' : v = x
        BY <1>d, <1>e, <3>1
      <4> QED BY <4>1 DEF OneOperation
    <3>2. CASE d # t.conn
      BY <1>e, <3>2 DEF OneOperation
    <3> QED BY <3>1, <3>2
  <2> QED BY <1>a, <2>1 DEF OneOperation
<1>7. NoSessionLost'
  BY <1>a, <1>c, <1>d, <1>e DEF NoSessionLost, TypeOK, TakenIsSent, Served
<1> QED BY <1>1, <1>2, <1>3, <1>4, <1>5, <1>6, <1>7

LEMMA SpeechEndsKeeps ==
  ASSUME HttpInv, NEW t \in speech, SpeechEnds(t)
  PROVE  HttpInv'
<1> USE MaxRequestsAssumption, LengthsAreNumbers DEF HttpInv, world
<1>a. /\ speech' = speech \ {t} /\ writes' = writes \cup {[conn |-> t.conn, req |-> t.req]}
      /\ UNCHANGED <<up, listening, accepted, taken, reading, wire, arrived, left, sent>>
  BY DEF SpeechEnds, Write
<1>b. t.conn \in Conn /\ t.req \in Number /\ t.req = taken[t.conn]
  BY DEF TypeOK, AnswersLast
<1>c. PICK w \in WriteRec : /\ w = [conn |-> t.conn, req |-> t.req]
                           /\ w.conn = t.conn /\ w.req = t.req
  <2> DEFINE v == [conn |-> t.conn, req |-> t.req]
  <2>1. v \in WriteRec /\ v.conn = t.conn /\ v.req = t.req
    BY <1>b DEF WriteRec
  <2> QED BY <2>1
<1>d. writes' = writes \cup {w}
  BY <1>a, <1>c
<1>e. /\ t.conn \in accepted /\ up /\ t.conn \notin reading /\ WritesOf(t.conn) = {}
      /\ SpeechOf(t.conn) = {t} /\ SpeechOf(t.conn)' = {}
  BY <1>a, <1>b DEF ServedShape, OneOperation, Served, WritesOf, SpeechOf
<1>f. WritesOf(t.conn)' = {w}
  BY <1>c, <1>d, <1>e DEF WritesOf
<1>g. \A d \in Conn : d # t.conn => WritesOf(d)' = WritesOf(d) /\ SpeechOf(d)' = SpeechOf(d)
  BY <1>a, <1>c, <1>d DEF WritesOf, SpeechOf
<1>1. TypeOK'
  BY <1>a, <1>c, <1>d DEF TypeOK, WriteRec
<1>2. TakenIsSent'
  BY <1>a, <1>b, <1>e, <1>f, <1>g DEF TakenIsSent
<1>3. AnswersLast'
  BY <1>a, <1>b, <1>c, <1>d DEF AnswersLast
<1>4. ServedShape'
  BY <1>a, <1>b, <1>e, <1>f, <1>g DEF ServedShape, Served
<1>5. Answered'
  BY <1>a, <1>b, <1>e, <1>f, <1>g DEF Answered, Served
<1>6. OneOperation'
  BY <1>a, <1>b, <1>e, <1>f, <1>g DEF OneOperation
<1>7. NoSessionLost'
  BY <1>a, <1>b, <1>e, <1>f, <1>g DEF NoSessionLost, TypeOK, TakenIsSent, Served
<1> QED BY <1>1, <1>2, <1>3, <1>4, <1>5, <1>6, <1>7

LEMMA StutterKeeps ==
  ASSUME HttpInv, UNCHANGED vars
  PROVE  HttpInv'
<1> USE MaxRequestsAssumption, LengthsAreNumbers DEF HttpInv, world
<1>1. TypeOK'
  BY DEF TypeOK, Number, vars
<1>2. TakenIsSent'
  BY DEF TakenIsSent, vars
<1>3. AnswersLast'
  BY DEF AnswersLast, vars
<1>4. ServedShape'
  BY DEF ServedShape, Served, WritesOf, SpeechOf, vars
<1>5. Answered'
  BY DEF Answered, Served, WritesOf, SpeechOf, vars
<1>6. OneOperation'
  BY DEF OneOperation, WritesOf, SpeechOf, vars
<1>7. NoSessionLost'
  BY DEF NoSessionLost, TypeOK, TakenIsSent, Served, WritesOf, SpeechOf, vars
<1> QED BY <1>1, <1>2, <1>3, <1>4, <1>5, <1>6, <1>7

LEMMA Initially == Init => HttpInv
<1> SUFFICES ASSUME Init PROVE HttpInv
  OBVIOUS
<1>1. TypeOK /\ TakenIsSent /\ Answered
  BY MaxRequestsAssumption DEF Init, TypeOK, TakenIsSent, Answered
<1>2. AnswersLast /\ ServedShape /\ OneOperation /\ NoSessionLost
  BY DEF Init, AnswersLast, ServedShape, OneOperation, NoSessionLost, Served, WritesOf, SpeechOf
<1> QED BY <1>1, <1>2 DEF HttpInv

LEMMA Inductive == HttpInv /\ [Next]_vars => HttpInv'
<1> SUFFICES ASSUME HttpInv, [Next]_vars PROVE HttpInv'
  OBVIOUS
<1>1. CASE Clients
  BY <1>1, ArriveKeeps, LeaveKeeps, SendKeeps DEF Clients
<1>2. CASE Listener
  BY <1>2, AcceptKeeps, AcceptFailsKeeps, AcceptThrowsKeeps DEF Listener
<1>3. ASSUME NEW c \in Conn, Session(c) PROVE HttpInv'
  BY <1>3, ReadRequestKeeps, ReadFailsKeeps, WrittenKeeps, WriteFailsKeeps DEF Session, WritesOf
<1>4. ASSUME NEW c \in Conn, Speech(c) PROVE HttpInv'
  BY <1>4, SpeechAdvancesKeeps, SpeechEndsKeeps DEF Speech, SpeechOf
<1>5. CASE UNCHANGED vars
  BY <1>5, StutterKeeps
<1>6. ASSUME NEW c \in Conn, UpgradeThrows(c) PROVE HttpInv'
  BY <1>6, UpgradeThrowsKeeps
<1> QED BY <1>1, <1>2, <1>3, <1>4, <1>5, <1>6 DEF Next

THEOREM Invariance == Spec => []HttpInv
BY Initially, Inductive, PTL DEF Spec
-----------------------------------------------------------------------------
(* HttpServer implements Exchange. *)

LEMMA StepCases ==
  ASSUME HttpInv, [Next]_vars
  PROVE  \/ UNCHANGED <<sent, wire>>
         \/ \E c \in Conn, r \in Sent : Send(c, r)
         \/ \E w \in writes : Written(w)
<1> USE DEF world
<1>1. CASE Clients
  BY <1>1 DEF Clients, Arrive, Leave
<1>2. CASE Listener
  BY <1>2 DEF Listener, Accept, AcceptFails, AcceptThrows, ProcessEnds
<1>3. ASSUME NEW c \in Conn, Session(c)
      PROVE  UNCHANGED <<sent, wire>> \/ \E w \in writes : Written(w)
  BY <1>3 DEF Session, WritesOf, ReadRequest, ReadFails, WriteFails
<1>4. ASSUME NEW c \in Conn, Speech(c)
      PROVE  UNCHANGED <<sent, wire>>
  BY <1>4 DEF Speech, SpeechAdvances, SpeechEnds
<1>5. CASE UNCHANGED vars
  BY <1>5 DEF vars
<1>6. ASSUME NEW c \in Conn, UpgradeThrows(c)
      PROVE  UNCHANGED <<sent, wire>>
  BY <1>6 DEF UpgradeThrows, ProcessEnds
<1> QED BY <1>1, <1>2, <1>3, <1>4, <1>5, <1>6 DEF Next

(* Nobody gets a Session again. *)
LEMMA ServedStaysOver ==
  ASSUME HttpInv, [Next]_vars, NEW d \in accepted, ~Served(d)
  PROVE  d \in accepted' /\ ~Served(d)'
<1> USE DEF world, Served, WritesOf, SpeechOf
<1>1. CASE Clients
  BY <1>1 DEF Clients, Arrive, Leave, Send
<1>2. CASE Listener
  BY <1>2 DEF Listener, Accept, AcceptFails, AcceptThrows, ProcessEnds
<1>3. ASSUME NEW c \in Conn, Session(c)
      PROVE  d \in accepted' /\ ~Served(d)'
  <2>1. CASE ReadRequest(c)
    BY <2>1 DEF ReadRequest, ReadEnds, Write, Transcribe
  <2>2. CASE ReadFails(c)
    BY <2>2 DEF ReadFails, ReadEnds
  <2>3. ASSUME NEW w \in writes, Written(w)
        PROVE  d \in accepted' /\ ~Served(d)'
    BY <2>3 DEF Written
  <2>4. ASSUME NEW w \in writes, WriteFails(w)
        PROVE  d \in accepted' /\ ~Served(d)'
    BY <2>4 DEF WriteFails
  <2> QED BY <1>3, <2>1, <2>2, <2>3, <2>4 DEF Session
<1>4. ASSUME NEW c \in Conn, Speech(c)
      PROVE  d \in accepted' /\ ~Served(d)'
  <2>1. ASSUME NEW t \in speech, SpeechAdvances(t)
        PROVE  d \in accepted' /\ ~Served(d)'
    <3> DEFINE u == [t EXCEPT !.stage = NextStage(t.stage)]
    <3>1. t \in SpeechRec
      BY DEF HttpInv, TypeOK, SpeechRec
    <3>2. u.conn = t.conn
      BY <3>1 DEF SpeechRec
    <3>3. speech' = (speech \ {t}) \cup {u}
      BY <2>1 DEF SpeechAdvances
    <3> HIDE DEF u
    <3> QED BY <2>1, <3>2, <3>3 DEF SpeechAdvances
  <2>2. ASSUME NEW t \in speech, SpeechEnds(t)
        PROVE  d \in accepted' /\ ~Served(d)'
    BY <2>2 DEF SpeechEnds, Write
  <2> QED BY <1>4, <2>1, <2>2 DEF Speech
<1>5. CASE UNCHANGED vars
  BY <1>5 DEF vars
<1>6. ASSUME NEW c \in Conn, UpgradeThrows(c)
      PROVE  d \in accepted' /\ ~Served(d)'
  BY <1>6 DEF UpgradeThrows, ProcessEnds
<1> QED BY <1>1, <1>2, <1>3, <1>4, <1>5, <1>6 DEF Next

LEMMA FlagsStay ==
  ASSUME [Next]_vars
  PROVE  /\ left \subseteq left'
         /\ ~up => ~up'
         /\ ~listening => ~listening' /\ accepted' = accepted
<1> USE DEF world
<1>1. CASE Clients
  BY <1>1 DEF Clients, Arrive, Leave, Send
<1>2. CASE Listener
  BY <1>2 DEF Listener, Accept, AcceptFails, AcceptThrows, ProcessEnds
<1>3. ASSUME NEW c \in Conn, Session(c)
      PROVE  UNCHANGED <<left, up, listening, accepted>>
  BY <1>3 DEF Session, ReadRequest, ReadFails, Written, WriteFails
<1>4. ASSUME NEW c \in Conn, Speech(c)
      PROVE  UNCHANGED <<left, up, listening, accepted>>
  BY <1>4 DEF Speech, SpeechAdvances, SpeechEnds
<1>5. CASE UNCHANGED vars
  BY <1>5 DEF vars
<1>6. ASSUME NEW c \in Conn, UpgradeThrows(c)
      PROVE  UNCHANGED <<left, accepted>> /\ ~up' /\ ~listening'
  BY <1>6 DEF UpgradeThrows, ProcessEnds
<1> QED BY <1>1, <1>2, <1>3, <1>4, <1>5, <1>6 DEF Next

LEMMA OverStays ==
  ASSUME HttpInv, [Next]_vars
  PROVE  Over \subseteq Over'
<1> SUFFICES ASSUME NEW d \in Over PROVE d \in Over'
  OBVIOUS
<1>1. CASE d \in left \/ ~up
  BY <1>1, FlagsStay DEF Over
<1>2. CASE d \in accepted /\ ~Served(d)
  BY <1>2, ServedStaysOver DEF Over
<1>3. CASE d \notin accepted /\ ~listening
  BY <1>3, FlagsStay DEF Over
<1> QED BY <1>1, <1>2, <1>3 DEF Over

LEMMA InitMaps == Init => E!Init
<1> SUFFICES ASSUME Init PROVE E!Init
  OBVIOUS
<1>1. Over = {}
  BY DEF Init, Over
<1>2. [c \in Conn |-> Len(sent[c])] = [c \in Conn |-> 0]
  BY DEF Init
<1> QED BY <1>1, <1>2 DEF Init, E!Init

(* An answer reaches its client as the next one, and the exchange goes on or is
   over with it. *)
LEMMA WrittenMaps ==
  ASSUME HttpInv, [Next]_vars, NEW w \in writes, Written(w), w.conn \notin left
  PROVE  E!Answer(w.conn)
<1> DEFINE c == w.conn
<1>1. /\ wire' = [wire EXCEPT ![c] = Append(@, w.req)] /\ sent' = sent
      /\ UNCHANGED <<left, up, listening, accepted>>
  BY DEF Written, world
<1>2. c \in Conn /\ w.req = taken[c] /\ w.req \in Number
  BY DEF HttpInv, TypeOK, AnswersLast
<1>3. /\ c \in accepted /\ up /\ Served(c) /\ c \notin reading
  BY <1>2 DEF HttpInv, ServedShape, OneOperation, Served, WritesOf
<1>4. w.req = Len(wire[c]) + 1 /\ Len(wire[c]) < Len(sent[c])
  BY <1>2, <1>3, LengthsAreNumbers DEF HttpInv, Answered, TakenIsSent
<1>5. c \notin Over
  BY <1>3 DEF Over
<1>6. \A d \in Conn \ {c} : Served(d)' = Served(d)
  BY <1>2 DEF Written, Served, WritesOf, SpeechOf, world
<1>7. Over' \in {Over, Over \cup {c}}
  <2>1. \A d \in Conn \ {c} : d \in Over' <=> d \in Over
    BY <1>1, <1>6 DEF Over
  <2>2. Over \subseteq Conn /\ Over' \subseteq Conn
    BY DEF Over
  <2> QED BY <1>2, <1>5, <2>1, <2>2
<1>8. wire' = [wire EXCEPT ![c] = Append(wire[c], Len(wire[c]) + 1)]
  BY <1>1, <1>4
<1>9. [x \in Conn |-> Len(sent[x])][c] = Len(sent[c])
  BY <1>2
<1>10. [x \in Conn |-> Len(sent[x])]' = [x \in Conn |-> Len(sent[x])]
  BY <1>1
<1> QED BY <1>4, <1>5, <1>7, <1>8, <1>9, <1>10 DEF E!Answer

LEMMA SendMaps ==
  ASSUME HttpInv, NEW c \in Conn, NEW r \in Sent, Send(c, r)
  PROVE  E!Ask(c)
<1> DEFINE asked == [x \in Conn |-> Len(sent[x])]
<1>1. /\ sent' = [sent EXCEPT ![c] = Append(@, r)]
      /\ UNCHANGED <<up, listening, accepted, reading, writes, speech, wire, left>>
  BY DEF Send
<1>2. sent \in [Conn -> Seq(Sent)]
  BY DEF HttpInv, TypeOK
<1>3. Len(Append(sent[c], r)) = Len(sent[c]) + 1
  BY <1>2, Appended
<1>4. asked' = [asked EXCEPT ![c] = asked[c] + 1]
  BY <1>1, <1>2, <1>3
<1>5. Over' = Over
  BY <1>1 DEF Over, Served, WritesOf, SpeechOf
<1> QED BY <1>1, <1>4, <1>5 DEF E!Ask

LEMMA StepMaps == HttpInv /\ [Next]_vars => [E!Next]_E!exchange
<1> SUFFICES ASSUME HttpInv, [Next]_vars PROVE [E!Next]_E!exchange
  OBVIOUS
<1>1. Over' = Over \cup Over' /\ Over' \in SUBSET Conn
  BY OverStays DEF Over
<1>2. CASE UNCHANGED <<sent, wire>>
  <2>1. [x \in Conn |-> Len(sent[x])]' = [x \in Conn |-> Len(sent[x])]
    BY <1>2
  <2>2. E!End(Over')
    BY <1>1, <1>2, <2>1 DEF E!End
  <2> QED BY <1>1, <2>2 DEF E!Next
<1>3. ASSUME NEW c \in Conn, NEW r \in Sent, Send(c, r) PROVE E!Next
  BY <1>3, SendMaps DEF E!Next
<1>4. ASSUME NEW w \in writes, Written(w) PROVE E!Next
  <2>1. CASE w.conn \in left
    <3>1. UNCHANGED <<sent, wire>>
      BY <1>4, <2>1 DEF Written, world
    <3>2. [x \in Conn |-> Len(sent[x])]' = [x \in Conn |-> Len(sent[x])]
      BY <3>1
    <3>3. E!End(Over')
      BY <1>1, <3>1, <3>2 DEF E!End
    <3> QED BY <1>1, <3>3 DEF E!Next
  <2>2. CASE w.conn \notin left
    <3>1. w.conn \in Conn
      BY DEF HttpInv, TypeOK
    <3> QED BY <1>4, <2>2, <3>1, WrittenMaps DEF E!Next
  <2> QED BY <2>1, <2>2
<1> QED BY <1>2, <1>3, <1>4, StepCases

(* Answers come one for one and in order, for any number of requests. *)
THEOREM Refinement == Spec => ImplementsExchange
<1>1. Spec => []HttpInv
  BY Invariance
<1> QED BY <1>1, InitMaps, StepMaps, PTL DEF Spec, ImplementsExchange, E!Spec
-----------------------------------------------------------------------------
(* HttpServer keeps its types. *)
THEOREM TypeCorrect == Spec => []TypeOK
<1>1. HttpInv => TypeOK
  BY DEF HttpInv
<1> QED BY <1>1, Invariance, PTL

(* A Session has one operation outstanding at a time (Session.cpp, do_read and
   do_write), the wait for the speech service included. *)
THEOREM OneAtATime == Spec => []OneOperation
<1>1. HttpInv => OneOperation
  BY DEF HttpInv
<1> QED BY <1>1, Invariance, PTL

(* Every handler starts another operation unless the connection is finished. *)
THEOREM SessionsGoOn == Spec => []NoSessionLost
<1>1. HttpInv => NoSessionLost
  BY DEF HttpInv
<1> QED BY <1>1, Invariance, PTL
=============================================================================
