------------------------------ MODULE HttpServer ------------------------------
(***************************************************************************)
(* The HTTP side of the backend: Listener, the Session of each connection, *)
(* Router, and Stt::Client, on whose answer that of ptt_stop waits.        *)
(*                                                                         *)
(* Everything runs on the io thread.  A Session is kept by the operation   *)
(* it has outstanding - a read, a write, or a transcription - and by       *)
(* nothing else; when a completion handler starts no other operation, the  *)
(* Session goes and its socket is closed.                                  *)
(***************************************************************************)
EXTENDS Naturals, Sequences

CONSTANTS
  Conn,         \* connections of clients, each used once
  MaxRequests   \* bound on the requests a client sends on each

ASSUME MaxRequestsAssumption == MaxRequests \in [Conn -> Nat]

(* The routes: all are answered at once ("plain"), but that of ptt_stop, when
   there is audio, later ("stop"). *)
Routes == {"plain", "stop"}

(* A request without a route is answered at once, too; one that does not parse
   gets no answer, and an upgrade hands the socket to the Coordinator: neither
   keeps the connection here. *)
Sent == [kind : Routes, keep : BOOLEAN]
          \cup [kind : {"malformed", "upgrade"}, keep : {FALSE}]

VARIABLES
  up,          \* the process runs
  listening,   \* an accept is outstanding
  arrived,     \* connections made
  left,        \* connections closed by their client
  accepted,    \* connections with, or once with, a Session
  sent,        \* what each client has sent
  taken,       \* number of requests the Session has read
  reading,     \* connections with a read outstanding
  writes,      \* writes outstanding, and the request each answers
  speech,      \* transcriptions outstanding, and how far each is
  wire         \* the requests answered, in the order of their answers

world == <<arrived, left, sent>>
vars  == <<up, listening, accepted, taken, reading, writes, speech, wire, world>>

Number == Nat \ {0}
Stage  == {"connect", "write", "read"}

TypeOK ==
  /\ up \in BOOLEAN /\ listening \in BOOLEAN
  /\ arrived \subseteq Conn /\ left \subseteq arrived /\ accepted \subseteq arrived
  /\ sent \in [Conn -> Seq(Sent)] /\ \A c \in Conn : Len(sent[c]) <= MaxRequests[c]
  /\ taken \in [Conn -> Nat]
  /\ reading \subseteq Conn
  /\ writes \subseteq [conn : Conn, req : Number]
  /\ speech \subseteq [conn : Conn, req : Number, stage : Stage]
  /\ wire \in [Conn -> Seq(Number)]

Init ==
  /\ up = TRUE /\ listening = TRUE
  /\ arrived = {} /\ left = {} /\ accepted = {}
  /\ sent = [c \in Conn |-> <<>>] /\ taken = [c \in Conn |-> 0]
  /\ reading = {} /\ writes = {} /\ speech = {}
  /\ wire = [c \in Conn |-> <<>>]

(* The operations that keep the Session of c. *)
WritesOf(c) == {w \in writes : w.conn = c}
SpeechOf(c) == {t \in speech : t.conn = c}
Served(c)   == c \in reading \/ WritesOf(c) # {} \/ SpeechOf(c) # {}

-----------------------------------------------------------------------------
(* The clients. *)

Arrive(c) ==
  /\ c \notin arrived
  /\ arrived' = arrived \cup {c}
  /\ UNCHANGED <<up, listening, accepted, taken, reading, writes, speech, wire, left, sent>>

(* A client may send a request before it has the answer to the last. *)
Send(c, r) ==
  /\ c \in arrived \ left
  /\ Len(sent[c]) < MaxRequests[c]
  /\ sent' = [sent EXCEPT ![c] = Append(@, r)]
  /\ UNCHANGED <<up, listening, accepted, taken, reading, writes, speech, wire, arrived, left>>

Leave(c) ==
  /\ c \in arrived \ left
  /\ left' = left \cup {c}
  /\ UNCHANGED <<up, listening, accepted, taken, reading, writes, speech, wire, arrived, sent>>

-----------------------------------------------------------------------------
(* Listener::listen. *)

(* Mutant: the handler does not look at the error, and makes a Session of a
   socket that is not connected. *)
AcceptAnything(c) ==
  /\ up /\ listening
  /\ c \notin accepted
  /\ accepted' = accepted \cup {c}
  /\ reading' = reading \cup {c}
  /\ UNCHANGED <<up, listening, taken, writes, speech, wire, world>>

Accept(c) ==
  /\ up /\ listening
  /\ c \in arrived \ accepted
  /\ accepted' = accepted \cup {c}
  /\ reading' = reading \cup {c}
  /\ UNCHANGED <<up, listening, taken, writes, speech, wire, world>>

(* The handler returns without another accept. *)
AcceptFails ==
  /\ up /\ listening
  /\ listening' = FALSE
  /\ UNCHANGED <<up, accepted, taken, reading, writes, speech, wire, world>>

(* Nothing catches what a handler throws. *)
ProcessEnds ==
  /\ up' = FALSE /\ listening' = FALSE
  /\ reading' = {} /\ writes' = {} /\ speech' = {}
  /\ UNCHANGED <<accepted, wire, world>>

(* remote_endpoint() of a connection its client has reset throws. *)
AcceptThrows(c) ==
  /\ up /\ listening
  /\ c \in left \ accepted
  /\ ProcessEnds
  /\ UNCHANGED taken

-----------------------------------------------------------------------------
(* Session. *)

Write(c, n) == writes' = writes \cup {[conn |-> c, req |-> n]}

(* Mutant: one connection to the speech service for all. *)
TranscribeShared(c, n) == speech' = {[conn |-> c, req |-> n, stage |-> "connect"]}

(* Stt::Client::transcribe: an operation of its own for every request. *)
Transcribe(c, n) == speech' = speech \cup {[conn |-> c, req |-> n, stage |-> "connect"]}

(* Mutant: the next read starts before the answer is written. *)
ReadAhead(c) == reading' = reading

(* The read that has ended is the only one: do_write starts the next. *)
ReadEnds(c) == reading' = reading \ {c}

(* The handler of do_read: the next request, whether its client is still there
   or not. *)
ReadRequest(c) ==
  /\ c \in reading
  /\ taken[c] < Len(sent[c])
  /\ taken' = [taken EXCEPT ![c] = @ + 1]
  /\ ReadEnds(c)
  /\ LET n    == taken[c] + 1
         kind == sent[c][n].kind
     IN  \/ kind = "plain" /\ Write(c, n) /\ UNCHANGED speech
         \/ kind = "stop" /\ Transcribe(c, n) /\ UNCHANGED writes
         \/ kind \in {"malformed", "upgrade"} /\ UNCHANGED <<writes, speech>>
  /\ UNCHANGED <<up, listening, accepted, wire, world>>

(* Mutant: an error is taken for a moment's. *)
ReadFailsAgain(c) ==
  /\ c \in reading /\ c \in left
  /\ UNCHANGED vars

(* So does that of the WebSocketSession made of a connection that asks for an
   upgrade, if its client has reset it in the meantime. *)
UpgradeThrows(c) ==
  /\ c \in reading /\ c \in left
  /\ taken[c] < Len(sent[c]) /\ sent[c][taken[c] + 1].kind = "upgrade"
  /\ taken' = [taken EXCEPT ![c] = @ + 1]
  /\ ProcessEnds

(* The client has closed or reset the connection. *)
ReadFails(c) ==
  /\ c \in reading /\ c \in left
  /\ ReadEnds(c)
  /\ UNCHANGED <<up, listening, accepted, taken, writes, speech, wire, world>>

(* Mutant: a write that may not have arrived is repeated. *)
WrittenTwice(w) ==
  /\ w \in writes
  /\ writes' = IF \E n \in DOMAIN wire[w.conn] : wire[w.conn][n] = w.req THEN writes \ {w} ELSE writes
  /\ wire' = IF w.conn \in left THEN wire ELSE [wire EXCEPT ![w.conn] = Append(@, w.req)]
  /\ UNCHANGED <<up, listening, accepted, taken, reading, speech, world>>

(* The handler of do_write; an answer to a client that has left is lost. *)
Written(w) ==
  /\ w \in writes
  /\ writes' = writes \ {w}
  /\ wire' = IF w.conn \in left THEN wire ELSE [wire EXCEPT ![w.conn] = Append(@, w.req)]
  /\ reading' = IF sent[w.conn][w.req].keep THEN reading \cup {w.conn} ELSE reading
  /\ UNCHANGED <<up, listening, accepted, taken, speech, world>>

WriteFails(w) ==
  /\ w \in writes
  /\ w.conn \in left
  /\ writes' = writes \ {w}
  /\ UNCHANGED <<up, listening, accepted, taken, reading, speech, wire, world>>

-----------------------------------------------------------------------------
(* Stt::Client and its handler, which writes the answer. *)

NextStage(stage) == IF stage = "connect" THEN "write" ELSE "read"

SpeechAdvances(t) ==
  /\ t \in speech /\ t.stage # "read"
  /\ speech' = (speech \ {t}) \cup {[t EXCEPT !.stage = NextStage(t.stage)]}
  /\ UNCHANGED <<up, listening, accepted, taken, reading, writes, wire, world>>

(* Mutant: an operation that fails forgets its handler. *)
SpeechEndsSilently(t) ==
  /\ t \in speech
  /\ speech' = speech \ {t}
  /\ IF t.stage = "read" THEN Write(t.conn, t.req) ELSE UNCHANGED writes
  /\ UNCHANGED <<up, listening, accepted, taken, reading, wire, world>>

(* Any stage may fail; the last may bring a transcript or an error. *)
SpeechEnds(t) ==
  /\ t \in speech
  /\ speech' = speech \ {t}
  /\ Write(t.conn, t.req)
  /\ UNCHANGED <<up, listening, accepted, taken, reading, wire, world>>

Clients  == \E c \in Conn : Arrive(c) \/ Leave(c) \/ \E r \in Sent : Send(c, r)
Listener == AcceptFails \/ \E c \in Conn : Accept(c) \/ AcceptThrows(c)
Session(c) == \/ ReadRequest(c) \/ ReadFails(c)
              \/ \E w \in WritesOf(c) : Written(w) \/ WriteFails(w)
Speech(c) == \E t \in SpeechOf(c) : SpeechAdvances(t) \/ SpeechEnds(t)

Next == Clients \/ Listener \/ \E c \in Conn : Session(c) \/ UpgradeThrows(c) \/ Speech(c)

Spec == Init /\ [][Next]_vars

(* The io thread runs every handler that is ready, a write ends, and the speech
   service answers or its connection ends: no step of a transcription has a
   timeout.  The listener owes nothing. *)
Fairness == \A c \in Conn : WF_vars(Session(c)) /\ WF_vars(Speech(c))
FairSpec == Spec /\ Fairness
-----------------------------------------------------------------------------
(* Properties. *)

(* A Session never has two operations outstanding on its socket, request and
   response, which it uses unprotected: no request is read before the answer to
   the last has been written, even when that waits for the speech service. *)
OneOperation ==
  \A c \in Conn :
    /\ c \in reading => WritesOf(c) = {} /\ SpeechOf(c) = {}
    /\ WritesOf(c) # {} => SpeechOf(c) = {}
    /\ \A v, w \in WritesOf(c) : v = w
    /\ \A t, u \in SpeechOf(c) : t = u

(* A Session that is gone had a reason: the client left, or the last request
   read was not one to keep the connection after. *)
NoSessionLost ==
  up => \A c \in accepted :
          Served(c) \/ c \in left \/ (taken[c] > 0 /\ ~sent[c][taken[c]].keep)

(* Over, for the client: it has left, or the Session has gone, or will never
   be made. *)
Over == {c \in Conn : c \in left \/ ~up
                      \/ (IF c \in accepted THEN ~Served(c) ELSE ~listening)}

E == INSTANCE Exchange WITH asked <- [c \in Conn |-> Len(sent[c])], answers <- wire, over <- Over

(* Answers come one for one and in order, and none after the end. *)
ImplementsExchange == E!Spec

(* A request on an accepted connection is answered if all before it kept the
   connection and it has an answer: whether the speech service answers or
   fails, the one handler it was given runs. *)
Due(c, n) ==
  /\ c \in accepted /\ Len(sent[c]) >= n
  /\ \A m \in 1..(n - 1) : sent[c][m].keep
  /\ sent[c][n].kind \in {"plain", "stop"}

EveryRequestAnswered ==
  \A c \in Conn : \A n \in 1..MaxRequests[c] :
    Due(c, n) ~> Len(wire[c]) >= n \/ c \in left \/ ~up

(* When its client has left, nothing keeps a Session. *)
LeftIsReleased == \A c \in Conn : c \in left ~> ~Served(c)
=============================================================================
