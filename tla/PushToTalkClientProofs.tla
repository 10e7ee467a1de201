------------------------ MODULE PushToTalkClientProofs ------------------------
(***************************************************************************)
(* Safety of PushToTalkClient for any set of bridges and any bounds: the   *)
(* stops of a run are covered by its accepted starts, a command the        *)
(* backend is buffering is always on somebody's way to be stopped, and the *)
(* requests are never more than twice the presses of the key.              *)
(***************************************************************************)
EXTENDS PushToTalkClient, FiniteSetTheorems, TLAPS

(* The types the argument needs; the bounds of the counters follow below. *)
Types ==
  /\ run \in 0..MaxEffect
  /\ ranFor \in [Runs -> Bridge \cup {None}]
  /\ requests \subseteq [id : Nat, kind : {"start", "stop"}, by : Runs,
                         state : {"sent", "accepted", "failed"}]
  /\ sent \in Nat
  /\ opened \subseteq Bridge
  /\ accepted \in [Runs -> Nat] /\ stops \in [Runs -> Nat]

(* Only the latest run can be pressed, and only if it has a bridge. *)
RunShape ==
  /\ bridgeOf = IF run = 0 THEN None ELSE ranFor[run]
  /\ bridgeOf \in opened \cup {None}
  /\ pressed \subseteq {run}
  /\ pressed # {} => Mounted

(* Requests come from runs that had a bridge; the flag is set for one. *)
BridgesKnown ==
  /\ \A r \in requests : r.by <= run /\ ranFor[r.by] \in opened
  /\ open \in opened \cup {None}
  /\ flagBy \in opened \cup {None}
  /\ flag => flagBy # None

(* Without losses a start fails only because its bridge has closed. *)
FailedIsClosed ==
  ~lost => \A r \in requests :
             r.kind = "start" /\ r.state = "failed" => ranFor[r.by] # open

(* What will stop a command: its start is about to be acknowledged, its stop is
   about to be handled, or its key is down and acknowledged. *)
Coming(r) == /\ ranFor[r.by] = open
             /\ \/ r.kind = "start" /\ r.state = "accepted"
                \/ r.kind = "stop" /\ r.state = "sent"

WillBeStopped ==
  ~lost /\ flag /\ flagBy = open =>
    \/ \E r \in requests : Coming(r)
    \/ run \in pressed /\ run \in started /\ bridgeOf = open

ClientInv == Types /\ RunShape /\ BridgesKnown /\ FailedIsClosed /\ WillBeStopped /\ StopsMatchStarts
-----------------------------------------------------------------------------
(* Records of requests. *)

Requests == [id : Nat, kind : {"start", "stop"}, by : Runs, state : {"sent", "accepted", "failed"}]

LEMMA NewRequest ==
  ASSUME sent \in Nat, NEW e \in Runs, NEW k \in {"start", "stop"}
  PROVE  /\ New(k, e) \in Requests
         /\ New(k, e).kind = k /\ New(k, e).by = e /\ New(k, e).state = "sent"
BY DEF New, Requests

LEMMA AnsweredRequest ==
  ASSUME requests \subseteq Requests, NEW r \in requests, NEW x \in {"accepted", "failed"},
         Answered(r, x)
  PROVE  /\ requests' \subseteq Requests
         /\ requests \ {r} \subseteq requests'
         /\ \E q \in requests' : q.kind = r.kind /\ q.by = r.by /\ q.state = x
         /\ \A q \in requests' : \/ q \in requests
                                 \/ q.kind = r.kind /\ q.by = r.by /\ q.state = x
<1> DEFINE a == [r EXCEPT !.state = x]
<1>1. r \in Requests
  OBVIOUS
<1>2. a \in Requests /\ a.kind = r.kind /\ a.by = r.by /\ a.state = x
  BY <1>1 DEF Requests
<1>3. requests' = (requests \ {r}) \cup {a}
  BY DEF Answered
<1> HIDE DEF a
<1> QED BY <1>2, <1>3

(* Whatever ends a press, the command it started is on its way to be stopped. *)
LEMMA StopEnds ==
  ASSUME ClientInv, Mounted, Stop
  PROVE  /\ pressed' = {}
         /\ requests' \subseteq Requests /\ sent' \in Nat /\ stops' \in [Runs -> Nat]
         /\ requests \subseteq requests'
         /\ \A q \in requests' : q \in requests \/ (q.kind = "stop" /\ q.by = run)
         /\ ~lost /\ flag /\ flagBy = open => \E q \in requests' : Coming(q)
         /\ \A e \in Runs : stops'[e] + (IF e \in started' THEN 1 ELSE 0) <= accepted[e]
<1> USE NoneAssumption, BoundsAssumption
<1>0. /\ run \in Runs /\ requests \subseteq Requests /\ sent \in Nat /\ stops \in [Runs -> Nat]
      /\ ranFor[run] = bridgeOf /\ accepted \in [Runs -> Nat]
  BY DEF ClientInv, Types, Runs, RunShape, Mounted, Requests
<1>1. pressed' = {}
  BY DEF Stop, ClientInv, RunShape
<1>2. CASE run \in pressed /\ run \in started
  <2> DEFINE n == New("stop", run)
  <2>1. n \in Requests /\ n.kind = "stop" /\ n.by = run /\ n.state = "sent"
    BY <1>0, NewRequest
  <2>2. /\ requests' = requests \cup {n} /\ sent' = sent + 1
        /\ stops' = [stops EXCEPT ![run] = @ + 1] /\ started' = started \ {run}
    BY <1>2 DEF Stop, SendStop
  <2> HIDE DEF n
  <2>3. ~lost /\ flag /\ flagBy = open => \E q \in requests' : Coming(q)
    BY <1>0, <2>1, <2>2 DEF ClientInv, WillBeStopped, Coming
  <2>4. stops' \in [Runs -> Nat]
    BY <1>0, <2>2
  <2>5. ASSUME NEW e \in Runs
        PROVE  stops'[e] + (IF e \in started' THEN 1 ELSE 0) <= accepted[e]
    BY <1>0, <1>2, <2>2 DEF ClientInv, StopsMatchStarts
  <2> QED BY <1>0, <1>1, <2>1, <2>2, <2>3, <2>4, <2>5
<1>3. CASE ~(run \in pressed /\ run \in started)
  <2>1. UNCHANGED <<requests, sent, stops>> /\ started' \subseteq started
    BY <1>3 DEF Stop
  <2>2. ~lost /\ flag /\ flagBy = open => \E q \in requests' : Coming(q)
    BY <1>3, <2>1 DEF ClientInv, WillBeStopped
  <2>3. ASSUME NEW e \in Runs
        PROVE  stops'[e] + (IF e \in started' THEN 1 ELSE 0) <= accepted[e]
    BY <1>0, <2>1 DEF ClientInv, StopsMatchStarts
  <2> QED BY <1>0, <1>1, <2>1, <2>2, <2>3
<1> QED BY <1>2, <1>3

LEMMA PressKeeps ==
  ASSUME ClientInv, Press
  PROVE  ClientInv'
<1> USE NoneAssumption, BoundsAssumption DEF ClientInv, Press, pageVars, backendVars
<1>a. requests \subseteq Requests /\ run \in Runs /\ sent \in Nat
  BY DEF Types, Requests, RunShape, Mounted, Runs
<1> DEFINE n == New("start", run)
<1>b. n \in Requests /\ n.kind = "start" /\ n.by = run /\ n.state = "sent"
  BY <1>a, NewRequest
<1>c. requests' = requests \cup {n}
  OBVIOUS
<1> HIDE DEF n
<1>1. Types'
  BY <1>a, <1>b, <1>c DEF Types, Requests
<1>2. RunShape'
  BY <1>a, <1>b, <1>c DEF RunShape, Mounted, Types, Runs
<1>3. BridgesKnown'
  BY <1>a, <1>b, <1>c DEF BridgesKnown, RunShape, Mounted, Types, Runs
<1>4. FailedIsClosed'
  BY <1>a, <1>b, <1>c DEF FailedIsClosed, BridgesKnown, Types, Runs, RunShape
<1>5. WillBeStopped'
  BY <1>a, <1>b, <1>c DEF WillBeStopped, Coming, BridgesKnown, FailedIsClosed, RunShape, Mounted, Types, Runs
<1>6. StopsMatchStarts'
  BY <1>a, <1>b, <1>c DEF StopsMatchStarts, Types, Runs
<1> QED BY <1>1, <1>2, <1>3, <1>4, <1>5, <1>6

LEMMA ReleaseKeeps ==
  ASSUME ClientInv, Release
  PROVE  ClientInv'
<1>a. /\ pressed' = {}
      /\ requests' \subseteq Requests /\ sent' \in Nat /\ stops' \in [Runs -> Nat]
      /\ requests \subseteq requests'
      /\ \A q \in requests' : q \in requests \/ (q.kind = "stop" /\ q.by = run)
      /\ ~lost /\ flag /\ flagBy = open => \E q \in requests' : Coming(q)
      /\ \A e \in Runs : stops'[e] + (IF e \in started' THEN 1 ELSE 0) <= accepted[e]
  BY StopEnds DEF Release
<1>b. Mounted /\ UNCHANGED <<bridgeOf, run, ranFor, backendVars, presses, lost, accepted>>
  BY DEF Release
<1> USE NoneAssumption, BoundsAssumption, <1>a, <1>b DEF ClientInv, backendVars
<1>1. Types'
  BY DEF Types, Requests, Runs
<1>2. RunShape'
  BY DEF RunShape
<1>3. BridgesKnown'
  BY DEF BridgesKnown, RunShape, Mounted, Types
<1>4. FailedIsClosed'
  BY DEF FailedIsClosed
<1>5. WillBeStopped'
  BY DEF WillBeStopped, Coming
<1>6. StopsMatchStarts'
  BY DEF StopsMatchStarts, Runs
<1> QED BY <1>1, <1>2, <1>3, <1>4, <1>5, <1>6

LEMMA RerunKeeps ==
  ASSUME ClientInv, NEW b \in opened \cup {None}, Rerun(b)
  PROVE  ClientInv'
<1>a. /\ pressed' = {}
      /\ requests' \subseteq Requests /\ sent' \in Nat /\ stops' \in [Runs -> Nat]
      /\ requests \subseteq requests'
      /\ \A q \in requests' : q \in requests \/ (Mounted /\ q.kind = "stop" /\ q.by = run)
      /\ ~lost /\ flag /\ flagBy = open => \E q \in requests' : Coming(q)
      /\ \A e \in Runs : stops'[e] + (IF e \in started' THEN 1 ELSE 0) <= accepted[e]
  <2>1. CASE Mounted
    BY <2>1, StopEnds DEF Rerun
  <2>2. CASE ~Mounted
    BY <2>2 DEF Rerun, ClientInv, RunShape, Types, Requests, StopsMatchStarts, WillBeStopped
  <2> QED BY <2>1, <2>2
<1>b. /\ bridgeOf' = b /\ run' = run + 1 /\ ranFor' = [ranFor EXCEPT ![run + 1] = b]
      /\ run < MaxEffect
      /\ UNCHANGED <<backendVars, presses, lost, accepted>>
  BY DEF Rerun
<1>c. /\ run \in Nat /\ run + 1 \in Runs /\ run' \in 0..MaxEffect
      /\ ranFor' \in [Runs -> Bridge \cup {None}] /\ ranFor'[run'] = b
      /\ \A e \in Runs : e <= run => ranFor'[e] = ranFor[e]
  BY <1>b, BoundsAssumption DEF ClientInv, Types, Runs
<1>d. \A q \in requests' : q.by \in Runs /\ q.by <= run /\ ranFor'[q.by] = ranFor[q.by]
  BY <1>a, <1>c DEF ClientInv, BridgesKnown, Requests
<1> USE NoneAssumption, BoundsAssumption, <1>a, <1>b, <1>c, <1>d DEF ClientInv, backendVars
<1>1. Types'
  BY DEF Types, Requests, Runs
<1>2. RunShape'
  BY DEF RunShape, Mounted
<1>3. BridgesKnown'
  <2>1. ASSUME NEW q \in requests'
        PROVE  q.by <= run' /\ ranFor'[q.by] \in opened
    <3>1. CASE q \in requests
      BY <3>1 DEF BridgesKnown, Runs
    <3>2. CASE Mounted /\ q.by = run
      BY <3>2 DEF RunShape, Mounted, Runs
    <3> QED BY <3>1, <3>2
  <2> QED BY <2>1 DEF BridgesKnown
<1>4. FailedIsClosed'
  BY DEF FailedIsClosed
<1>5. WillBeStopped'
  BY DEF WillBeStopped, Coming
<1>6. StopsMatchStarts'
  BY DEF StopsMatchStarts, Runs
<1> QED BY <1>1, <1>2, <1>3, <1>4, <1>5, <1>6

LEMMA StartAcknowledgedKeeps ==
  ASSUME ClientInv, NEW r \in requests, StartAcknowledged(r)
  PROVE  ClientInv'
<1>a. /\ r.by \in Runs /\ requests \subseteq Requests /\ sent \in Nat
      /\ accepted \in [Runs -> Nat] /\ stops \in [Runs -> Nat]
      /\ r.by <= run /\ ranFor[r.by] \in opened
  BY DEF ClientInv, Types, Requests, BridgesKnown
<1>b. PICK n \in Requests : /\ n = New("stop", r.by)
                            /\ n.kind = "stop" /\ n.by = r.by /\ n.state = "sent"
  BY <1>a, NewRequest
<1>c. /\ accepted' = [accepted EXCEPT ![r.by] = @ + 1]
      /\ UNCHANGED <<bridgeOf, run, ranFor, pressed, isPressed, backendVars, presses, lost>>
      /\ \/ /\ r.by \in pressed /\ started' = started \cup {r.by} /\ requests' = requests \ {r}
            /\ UNCHANGED <<sent, stops>>
         \/ /\ started' = started \ {r.by} /\ requests' = (requests \ {r}) \cup {n}
            /\ sent' = sent + 1 /\ stops' = [stops EXCEPT ![r.by] = @ + 1]
  BY <1>b DEF StartAcknowledged, SendStop
<1>d. /\ requests' \subseteq Requests
      /\ \A q \in requests' : q \in requests \/ (q.kind = "stop" /\ q.by = r.by)
      /\ accepted' \in [Runs -> Nat] /\ stops' \in [Runs -> Nat] /\ sent' \in Nat
  BY <1>a, <1>b, <1>c
<1> USE NoneAssumption, BoundsAssumption DEF ClientInv, backendVars
<1>1. Types'
  BY <1>c, <1>d DEF Types, Requests, Runs
<1>2. RunShape'
  BY <1>c DEF RunShape, Mounted
<1>3. BridgesKnown'
  BY <1>a, <1>c, <1>d DEF BridgesKnown
<1>4. FailedIsClosed'
  BY <1>c, <1>d DEF FailedIsClosed
<1>5. WillBeStopped'
  <2>1. CASE r.by \in pressed /\ started' = started \cup {r.by} /\ requests' = requests \ {r}
    <3>1. r.by = run /\ ranFor[r.by] = bridgeOf
      BY <1>a, <2>1, BoundsAssumption DEF RunShape, Runs
    <3> QED BY <1>c, <2>1, <3>1 DEF WillBeStopped, Coming
  <2>2. CASE started' = started \ {r.by} /\ requests' = (requests \ {r}) \cup {n}
    <3>1. ranFor[r.by] = open => n \in requests' /\ Coming(n)'
      BY <1>b, <1>c, <2>2 DEF Coming
    <3>2. ASSUME r.by = run, bridgeOf = open, run \in pressed PROVE ranFor[r.by] = open
      BY <1>a, <3>2 DEF RunShape, Runs
    <3> QED BY <1>c, <2>2, <3>1, <3>2 DEF WillBeStopped, Coming
  <2> QED BY <1>c, <2>1, <2>2
<1>6. StopsMatchStarts'
  <2>1. ASSUME NEW e \in Runs
        PROVE  stops'[e] + (IF e \in started' THEN 1 ELSE 0) <= accepted'[e]
    BY <1>a, <1>c DEF StopsMatchStarts
  <2> QED BY <1>c, <2>1 DEF StopsMatchStarts, Runs
<1> QED BY <1>1, <1>2, <1>3, <1>4, <1>5, <1>6

LEMMA StartFailedKeeps ==
  ASSUME ClientInv, NEW r \in requests, StartFailed(r)
  PROVE  ClientInv'
<1> USE NoneAssumption, BoundsAssumption DEF ClientInv, StartFailed, pageVars, backendVars
<1>1. Types'
  BY DEF Types
<1>2. RunShape'
  BY DEF RunShape, Mounted, Types, Runs
<1>3. BridgesKnown'
  BY DEF BridgesKnown, RunShape, Mounted, Types, Runs
<1>4. FailedIsClosed'
  BY DEF FailedIsClosed, BridgesKnown, Types, Runs, RunShape
<1>5. WillBeStopped'
  BY DEF WillBeStopped, Coming, BridgesKnown, FailedIsClosed, RunShape, Mounted, Types, Runs
<1>6. StopsMatchStarts'
  BY DEF StopsMatchStarts, Types, Runs
<1> QED BY <1>1, <1>2, <1>3, <1>4, <1>5, <1>6

LEMMA StopAnsweredKeeps ==
  ASSUME ClientInv, NEW r \in requests, StopAnswered(r)
  PROVE  ClientInv'
<1> USE NoneAssumption, BoundsAssumption DEF ClientInv, StopAnswered, pageVars, backendVars
<1>1. Types'
  BY DEF Types
<1>2. RunShape'
  BY DEF RunShape, Mounted, Types, Runs
<1>3. BridgesKnown'
  BY DEF BridgesKnown, RunShape, Mounted, Types, Runs
<1>4. FailedIsClosed'
  BY DEF FailedIsClosed, BridgesKnown, Types, Runs, RunShape
<1>5. WillBeStopped'
  BY DEF WillBeStopped, Coming, BridgesKnown, FailedIsClosed, RunShape, Mounted, Types, Runs
<1>6. StopsMatchStarts'
  BY DEF StopsMatchStarts, Types, Runs
<1> QED BY <1>1, <1>2, <1>3, <1>4, <1>5, <1>6

LEMMA HandleStartKeeps ==
  ASSUME ClientInv, NEW r \in requests, HandleStart(r)
  PROVE  ClientInv'
<1> USE NoneAssumption, BoundsAssumption DEF ClientInv, Runs, pageVars, backendVars
<1>a. requests \subseteq Requests /\ r \in Requests
  BY DEF Types, Requests
<1>b. PICK x \in {"accepted", "failed"} : Answered(r, x) /\ (x = "accepted" <=> ranFor[r.by] = open)
  BY DEF HandleStart
<1>c. /\ requests' \subseteq Requests
      /\ requests \ {r} \subseteq requests'
      /\ \E q \in requests' : q.kind = r.kind /\ q.by = r.by /\ q.state = x
      /\ \A q \in requests' : \/ q \in requests
                              \/ q.kind = r.kind /\ q.by = r.by /\ q.state = x
  BY <1>a, <1>b, AnsweredRequest
<1>1. Types'
  BY <1>a, <1>b, <1>c DEF Types, HandleStart, Requests
<1>2. RunShape'
  BY <1>a, <1>b, <1>c DEF RunShape, Mounted, Types, Runs, HandleStart
<1>3. BridgesKnown'
  BY <1>a, <1>b, <1>c DEF BridgesKnown, RunShape, Mounted, Types, Runs, HandleStart
<1>4. FailedIsClosed'
  BY <1>a, <1>b, <1>c DEF FailedIsClosed, BridgesKnown, Types, Runs, RunShape, HandleStart
<1>5. WillBeStopped'
  BY <1>a, <1>b, <1>c DEF WillBeStopped, Coming, BridgesKnown, FailedIsClosed, RunShape, Mounted, Types, Runs, HandleStart
<1>6. StopsMatchStarts'
  BY <1>a, <1>b, <1>c DEF StopsMatchStarts, Types, Runs, HandleStart
<1> QED BY <1>1, <1>2, <1>3, <1>4, <1>5, <1>6

LEMMA HandleStopKeeps ==
  ASSUME ClientInv, NEW r \in requests, HandleStop(r)
  PROVE  ClientInv'
<1> USE NoneAssumption, BoundsAssumption DEF ClientInv, Runs, pageVars, backendVars
<1>a. requests \subseteq Requests /\ r \in Requests
  BY DEF Types, Requests
<1>b. PICK x \in {"accepted", "failed"} : Answered(r, x)
  BY DEF HandleStop
<1>c. /\ requests' \subseteq Requests
      /\ requests \ {r} \subseteq requests'
      /\ \E q \in requests' : q.kind = r.kind /\ q.by = r.by /\ q.state = x
      /\ \A q \in requests' : \/ q \in requests
                              \/ q.kind = r.kind /\ q.by = r.by /\ q.state = x
  BY <1>a, <1>b, AnsweredRequest
<1>1. Types'
  BY <1>a, <1>b, <1>c DEF Types, HandleStop, Requests
<1>2. RunShape'
  BY <1>a, <1>b, <1>c DEF RunShape, Mounted, Types, Runs, HandleStop
<1>3. BridgesKnown'
  BY <1>a, <1>b, <1>c DEF BridgesKnown, RunShape, Mounted, Types, Runs, HandleStop
<1>4. FailedIsClosed'
  BY <1>a, <1>b, <1>c DEF FailedIsClosed, BridgesKnown, Types, Runs, RunShape, HandleStop
<1>5. WillBeStopped'
  BY <1>a, <1>b, <1>c DEF WillBeStopped, Coming, BridgesKnown, FailedIsClosed, RunShape, Mounted, Types, Runs, HandleStop
<1>6. StopsMatchStarts'
  BY <1>a, <1>b, <1>c DEF StopsMatchStarts, Types, Runs, HandleStop
<1> QED BY <1>1, <1>2, <1>3, <1>4, <1>5, <1>6

LEMMA BridgeOpensKeeps ==
  ASSUME ClientInv, NEW b \in Bridge, BridgeOpens(b)
  PROVE  ClientInv'
<1> USE NoneAssumption, BoundsAssumption DEF ClientInv, BridgeOpens, pageVars, backendVars
<1>1. Types'
  BY DEF Types
<1>2. RunShape'
  BY DEF RunShape, Mounted, Types, Runs
<1>3. BridgesKnown'
  BY DEF BridgesKnown, RunShape, Mounted, Types, Runs
<1>4. FailedIsClosed'
  BY DEF FailedIsClosed, BridgesKnown, Types, Runs, RunShape
<1>5. WillBeStopped'
  BY DEF WillBeStopped, Coming, BridgesKnown, FailedIsClosed, RunShape, Mounted, Types, Runs
<1>6. StopsMatchStarts'
  BY DEF StopsMatchStarts, Types, Runs
<1> QED BY <1>1, <1>2, <1>3, <1>4, <1>5, <1>6

LEMMA BridgeClosesKeeps ==
  ASSUME ClientInv, BridgeCloses
  PROVE  ClientInv'
<1> USE NoneAssumption, BoundsAssumption DEF ClientInv, BridgeCloses, pageVars, backendVars
<1>1. Types'
  BY DEF Types
<1>2. RunShape'
  BY DEF RunShape, Mounted, Types, Runs
<1>3. BridgesKnown'
  BY DEF BridgesKnown, RunShape, Mounted, Types, Runs
<1>4. FailedIsClosed'
  BY DEF FailedIsClosed, BridgesKnown, Types, Runs, RunShape
<1>5. WillBeStopped'
  BY DEF WillBeStopped, Coming, BridgesKnown, FailedIsClosed, RunShape, Mounted, Types, Runs
<1>6. StopsMatchStarts'
  BY DEF StopsMatchStarts, Types, Runs
<1> QED BY <1>1, <1>2, <1>3, <1>4, <1>5, <1>6

LEMMA LoseKeeps ==
  ASSUME ClientInv, NEW r \in requests, Lose(r)
  PROVE  ClientInv'
<1> USE NoneAssumption, BoundsAssumption DEF ClientInv, Runs, pageVars, backendVars
<1>a. requests \subseteq Requests /\ r \in Requests
  BY DEF Types, Requests
<1>b. PICK x \in {"accepted", "failed"} : Answered(r, x)
  BY DEF Lose
<1>c. /\ requests' \subseteq Requests
      /\ requests \ {r} \subseteq requests'
      /\ \E q \in requests' : q.kind = r.kind /\ q.by = r.by /\ q.state = x
      /\ \A q \in requests' : \/ q \in requests
                              \/ q.kind = r.kind /\ q.by = r.by /\ q.state = x
  BY <1>a, <1>b, AnsweredRequest
<1>1. Types'
  BY <1>a, <1>b, <1>c DEF Types, Lose, Requests
<1>2. RunShape'
  BY <1>a, <1>b, <1>c DEF RunShape, Mounted, Types, Runs, Lose
<1>3. BridgesKnown'
  BY <1>a, <1>b, <1>c DEF BridgesKnown, RunShape, Mounted, Types, Runs, Lose
<1>4. FailedIsClosed'
  BY <1>a, <1>b, <1>c DEF FailedIsClosed, BridgesKnown, Types, Runs, RunShape, Lose
<1>5. WillBeStopped'
  BY <1>a, <1>b, <1>c DEF WillBeStopped, Coming, BridgesKnown, FailedIsClosed, RunShape, Mounted, Types, Runs, Lose
<1>6. StopsMatchStarts'
  BY <1>a, <1>b, <1>c DEF StopsMatchStarts, Types, Runs, Lose
<1> QED BY <1>1, <1>2, <1>3, <1>4, <1>5, <1>6
-----------------------------------------------------------------------------
LEMMA Initially == Init => ClientInv
<1> USE NoneAssumption, BoundsAssumption
<1> SUFFICES ASSUME Init PROVE ClientInv
  OBVIOUS
<1>1. Types /\ StopsMatchStarts
  BY DEF Init, Types, Runs, StopsMatchStarts
<1>2. RunShape /\ BridgesKnown /\ FailedIsClosed /\ WillBeStopped
  BY DEF Init, RunShape, BridgesKnown, FailedIsClosed, WillBeStopped
<1> QED BY <1>1, <1>2 DEF ClientInv

LEMMA Stutter == ClientInv /\ UNCHANGED vars => ClientInv'
<1> SUFFICES ASSUME ClientInv, UNCHANGED vars PROVE ClientInv'
  OBVIOUS
<1> USE DEF ClientInv, vars, pageVars, backendVars
<1>1. Types' /\ StopsMatchStarts'
  BY DEF Types, Runs, StopsMatchStarts
<1>2. RunShape' /\ BridgesKnown' /\ FailedIsClosed' /\ WillBeStopped'
  BY DEF RunShape, Mounted, BridgesKnown, FailedIsClosed, WillBeStopped, Coming
<1> QED BY <1>1, <1>2

LEMMA Inductive == ClientInv /\ [Next]_vars => ClientInv'
<1> SUFFICES ASSUME ClientInv, [Next]_vars PROVE ClientInv'
  OBVIOUS
<1>1. CASE Keys
  BY <1>1, PressKeeps, ReleaseKeeps DEF Keys
<1>2. CASE Effects
  BY <1>2, RerunKeeps DEF Effects
<1>3. CASE Answers
  BY <1>3, StartAcknowledgedKeeps, StartFailedKeeps, StopAnsweredKeeps DEF Answers
<1>4. CASE Handles
  BY <1>4, HandleStartKeeps, HandleStopKeeps DEF Handles
<1>5. CASE World
  BY <1>5, BridgeOpensKeeps, BridgeClosesKeeps, LoseKeeps DEF World
<1>6. CASE UNCHANGED vars
  BY <1>6, Stutter
<1> QED BY <1>1, <1>2, <1>3, <1>4, <1>5, <1>6 DEF Next

THEOREM Invariance == Spec => []ClientInv
BY Initially, Inductive, PTL DEF Spec

(* However keys, answers, reruns and the ends of bridges interleave, a command
   the backend is buffering has its key down once the requests have settled and
   none was lost (usePushToTalk.ts, stop and the then-callback of start). *)
THEOREM ReleasedStops == Spec => []ReleasedIsStopped
<1>1. ClientInv => ReleasedIsStopped
  <2> SUFFICES ASSUME ClientInv, Quiet, ~lost, flag, flagBy = open
               PROVE  Mounted /\ run \in pressed /\ bridgeOf = open
    BY DEF ReleasedIsStopped
  <2>1. run \in pressed /\ bridgeOf = open
    BY DEF ClientInv, WillBeStopped, Quiet
  <2>2. Mounted
    BY <2>1 DEF ClientInv, RunShape
  <2> QED BY <2>1, <2>2
<1> QED BY <1>1, Invariance, PTL

(* No run of the effect sends more stops than starts it was told were accepted
   (usePushToTalk.ts, the local variable started). *)
THEOREM StopsAreOwed == Spec => []StopsMatchStarts
<1>1. ClientInv => StopsMatchStarts
  BY DEF ClientInv
<1> QED BY <1>1, Invariance, PTL
-----------------------------------------------------------------------------
(* The bounds of TypeOK.  Every start is counted once: while it is
   outstanding, by its id, and when it has been accepted, by the run it belongs
   to and its place among that run's.  Every stop is counted by its run and its
   place, and is covered by the accepted start in the same place. *)
StartIds == {r.id : r \in {q \in requests : q.kind = "start"}}
Places(f) == UNION {{e} \X (1..f[e]) : e \in Runs}
Acked    == Places(accepted)
Stopped  == Places(stops)

IdsKnown == /\ \A r \in requests : r.id \in 1..sent
            /\ \A r, q \in requests : r.id = q.id => r = q

Counted ==
  /\ IsFiniteSet(StartIds) /\ IsFiniteSet(Acked)
  /\ Cardinality(Acked) + Cardinality(StartIds) <= presses
  /\ IsFiniteSet(Stopped) /\ sent = presses + Cardinality(Stopped)

Simple == /\ started \subseteq Runs /\ presses \in 0..MaxPress
          /\ isPressed \in BOOLEAN /\ flag \in BOOLEAN /\ lost \in BOOLEAN

CountInv == Simple /\ IdsKnown /\ Counted

LEMMA PlaceOf ==
  ASSUME NEW f \in [Runs -> Nat], NEW p
  PROVE  p \in Places(f) <=> \E e \in Runs : \E i \in 1..f[e] : p = <<e, i>>
<1>1. ASSUME NEW e \in Runs, NEW i \in 1..f[e], p = <<e, i>> PROVE p \in Places(f)
  BY <1>1 DEF Places
<1>2. ASSUME p \in Places(f) PROVE \E e \in Runs : \E i \in 1..f[e] : p = <<e, i>>
  <2>1. PICK e \in Runs : p \in {e} \X (1..f[e])
    BY <1>2 DEF Places
  <2> QED BY <2>1
<1> QED BY <1>1, <1>2

(* One more start or stop of e takes the next place. *)
LEMMA NextPlace ==
  ASSUME NEW f \in [Runs -> Nat], NEW e \in Runs, IsFiniteSet(Places(f)),
         NEW g \in [Runs -> Nat], g[e] = f[e] + 1, \A d \in Runs : d # e => g[d] = f[d]
  PROVE  /\ IsFiniteSet(Places(g))
         /\ Cardinality(Places(g)) = Cardinality(Places(f)) + 1
<1> DEFINE p == <<e, f[e] + 1>>
<1>1. p \notin Places(f)
  <2>1. ASSUME NEW d \in Runs, NEW i \in 1..f[d], p = <<d, i>> PROVE FALSE
    BY <2>1
  <2> QED BY <2>1, PlaceOf
<1>2. p \in Places(g)
  <2>1. f[e] + 1 \in 1..g[e]
    OBVIOUS
  <2> QED BY <2>1, PlaceOf
<1>3. ASSUME NEW q \in Places(f) PROVE q \in Places(g)
  <2>1. PICK d \in Runs : \E i \in 1..f[d] : q = <<d, i>>
    BY PlaceOf
  <2>2. PICK i \in 1..f[d] : q = <<d, i>>
    BY <2>1
  <2>3. i \in 1..g[d]
    OBVIOUS
  <2> QED BY <2>2, <2>3, PlaceOf
<1>4. ASSUME NEW q \in Places(g) PROVE q \in Places(f) \/ q = p
  <2>1. PICK d \in Runs : \E i \in 1..g[d] : q = <<d, i>>
    BY PlaceOf
  <2>2. PICK i \in 1..g[d] : q = <<d, i>>
    BY <2>1
  <2>3. i \in 1..f[d] \/ (d = e /\ i = f[e] + 1)
    OBVIOUS
  <2> QED BY <2>2, <2>3, PlaceOf
<1>5. Places(g) = Places(f) \cup {p}
  BY <1>2, <1>3, <1>4
<1> HIDE DEF p
<1>6. /\ IsFiniteSet(Places(f) \cup {p})
      /\ Cardinality(Places(f) \cup {p}) = Cardinality(Places(f)) + 1
  BY <1>1, FS_AddElement, Zenon
<1> QED BY <1>5, <1>6, Zenon

(* What TypeOK needs of the counts: no more stops than accepted starts, and no
   run with more accepted starts than were sent. *)
LEMMA StopsCovered ==
  ASSUME ClientInv, Counted
  PROVE  Cardinality(Stopped) \in Nat /\ Cardinality(Stopped) <= Cardinality(Acked)
<1>0. accepted \in [Runs -> Nat] /\ stops \in [Runs -> Nat]
  BY DEF ClientInv, Types
<1>1. ASSUME NEW p \in Stopped PROVE p \in Acked
  <2>1. PICK e \in Runs : \E i \in 1..stops[e] : p = <<e, i>>
    BY <1>0, PlaceOf DEF Stopped
  <2>2. PICK i \in 1..stops[e] : p = <<e, i>>
    BY <2>1
  <2>3. stops[e] <= accepted[e]
    BY <1>0 DEF ClientInv, StopsMatchStarts
  <2>4. i \in 1..accepted[e]
    BY <1>0, <2>3
  <2> QED BY <1>0, <2>2, <2>4, PlaceOf DEF Acked
<1>2. Stopped \in SUBSET Acked
  BY <1>1
<1> QED BY <1>2, FS_Subset, FS_CardinalityType DEF Counted

LEMMA PlacesBound ==
  ASSUME NEW f \in [Runs -> Nat], NEW e \in Runs, IsFiniteSet(Places(f))
  PROVE  f[e] <= Cardinality(Places(f))
<1> DEFINE h == [i \in 1..f[e] |-> <<e, i>>]
<1>1. \A i \in 1..f[e] : <<e, i>> \in Places(f)
  BY PlaceOf
<1>2. h \in Injection(1..f[e], Places(f))
  <2>1. h \in [1..f[e] -> Places(f)]
    BY <1>1
  <2>2. \A i, j \in 1..f[e] : h[i] = h[j] => i = j
    OBVIOUS
  <2> HIDE DEF h
  <2> QED BY <2>1, <2>2 DEF Injection, IsInjective
<1>3. Cardinality(1..f[e]) <= Cardinality(Places(f))
  BY <1>2, FS_Injection
<1>4. f[e] \in Nat /\ Cardinality(1..f[e]) = IF 1 > f[e] THEN 0 ELSE f[e] - 1 + 1
  BY FS_Interval
<1>5. Cardinality(Places(f)) \in Nat
  BY FS_CardinalityType
<1> QED BY <1>3, <1>4, <1>5

LEMMA CountedTypes ==
  ASSUME ClientInv, CountInv
  PROVE  /\ requests \subseteq Requests /\ sent \in Nat /\ presses \in Nat
         /\ accepted \in [Runs -> Nat] /\ stops \in [Runs -> Nat]
         /\ IsFiniteSet(StartIds) /\ Cardinality(StartIds) \in Nat
         /\ IsFiniteSet(Acked) /\ Cardinality(Acked) \in Nat
         /\ IsFiniteSet(Stopped) /\ Cardinality(Stopped) \in Nat
         /\ \A r \in requests : r.by \in Runs /\ r.id \in 1..sent
<1>1. /\ requests \subseteq Requests /\ sent \in Nat
      /\ accepted \in [Runs -> Nat] /\ stops \in [Runs -> Nat]
  BY DEF ClientInv, Types, Requests
<1>2. presses \in Nat
  BY BoundsAssumption DEF CountInv, Simple
<1>3. /\ IsFiniteSet(StartIds) /\ IsFiniteSet(Acked) /\ IsFiniteSet(Stopped)
      /\ \A r \in requests : r.id \in 1..sent
  BY DEF CountInv, Counted, IdsKnown
<1>4. \A r \in requests : r.by \in Runs
  BY <1>1 DEF Requests
<1>5. Cardinality(StartIds) \in Nat /\ Cardinality(Acked) \in Nat /\ Cardinality(Stopped) \in Nat
  BY <1>3, FS_CardinalityType
<1> QED BY <1>1, <1>2, <1>3, <1>4, <1>5

(* A request that is sent gets an id of its own. *)
LEMMA FreshId ==
  ASSUME ClientInv, CountInv, NEW e \in Runs, NEW k \in {"start", "stop"}, NEW q \in SUBSET requests,
         requests' = (requests \ q) \cup {New(k, e)}, sent' = sent + 1
  PROVE  /\ IdsKnown'
         /\ sent + 1 \notin StartIds
         /\ k = "stop" /\ q = {} => StartIds' = StartIds
         /\ k = "start" /\ q = {} => StartIds' = StartIds \cup {sent + 1}
         /\ \A r \in requests : r.kind = "start" /\ q = {r} /\ k = "stop"
                                  => StartIds' = StartIds \ {r.id}
<1> DEFINE n == New(k, e)
<1>1. n.kind = k /\ n.id = sent + 1
  BY DEF New
<1>2. requests' = (requests \ q) \cup {n}
  OBVIOUS
<1>3. sent \in Nat /\ \A r \in requests : r.id \in 1..sent
  BY CountedTypes
<1>4. \A r, p \in requests : r.id = p.id => r = p
  BY DEF CountInv, IdsKnown
<1> HIDE DEF n
<1>5. IdsKnown'
  BY <1>1, <1>2, <1>3, <1>4 DEF IdsKnown
<1>6. sent + 1 \notin StartIds
  BY <1>3 DEF StartIds
<1>7. k = "stop" /\ q = {} => StartIds' = StartIds
  BY <1>1, <1>2 DEF StartIds
<1>8. k = "start" /\ q = {} => StartIds' = StartIds \cup {sent + 1}
  BY <1>1, <1>2 DEF StartIds
<1>9. ASSUME NEW r \in requests, r.kind = "start", q = {r}, k = "stop"
      PROVE  StartIds' = StartIds \ {r.id}
  BY <1>1, <1>2, <1>4, <1>9 DEF StartIds
<1> QED BY <1>5, <1>6, <1>7, <1>8, <1>9

LEMMA StopCounted ==
  ASSUME ClientInv, CountInv, NEW e \in Runs, NEW q \in SUBSET requests, SendStop(e, q)
  PROVE  /\ IdsKnown'
         /\ q = {} => StartIds' = StartIds
         /\ \A r \in requests : r.kind = "start" /\ q = {r} => StartIds' = StartIds \ {r.id}
         /\ IsFiniteSet(Stopped') /\ sent' = presses + Cardinality(Stopped')
<1>1. /\ requests' = (requests \ q) \cup {New("stop", e)} /\ sent' = sent + 1
      /\ stops' = [stops EXCEPT ![e] = @ + 1]
  BY DEF SendStop
<1>2. /\ IdsKnown'
      /\ q = {} => StartIds' = StartIds
      /\ \A r \in requests : r.kind = "start" /\ q = {r} => StartIds' = StartIds \ {r.id}
  BY <1>1, FreshId
<1>3. stops \in [Runs -> Nat] /\ IsFiniteSet(Places(stops)) /\ Cardinality(Places(stops)) \in Nat
  BY CountedTypes DEF Stopped
<1>4. stops' \in [Runs -> Nat] /\ stops'[e] = stops[e] + 1 /\ \A d \in Runs : d # e => stops'[d] = stops[d]
  BY <1>1, <1>3
<1>5. IsFiniteSet(Places(stops')) /\ Cardinality(Places(stops')) = Cardinality(Places(stops)) + 1
  BY <1>3, <1>4, NextPlace
<1>6. sent = presses + Cardinality(Places(stops)) /\ presses \in Nat
  BY CountedTypes DEF CountInv, Counted, Stopped
<1>7. sent' = presses + Cardinality(Places(stops'))
  BY <1>1, <1>3, <1>5, <1>6
<1> QED BY <1>2, <1>5, <1>7 DEF Stopped, Places

(* What stop() does to the counts, for the release of a key and for the
   disposal of the effect. *)
LEMMA StopKeepsCount ==
  ASSUME ClientInv, CountInv, Mounted, Stop
  PROVE  /\ IdsKnown' /\ StartIds' = StartIds
         /\ IsFiniteSet(Stopped') /\ sent' = presses + Cardinality(Stopped')
         /\ started' \subseteq Runs /\ isPressed' \in BOOLEAN
<1>1. run \in Runs
  BY BoundsAssumption DEF ClientInv, Types, Runs, RunShape, Mounted
<1>2. started' \subseteq Runs /\ isPressed' \in BOOLEAN
  BY DEF Stop, CountInv, Simple
<1>3. CASE run \in pressed /\ run \in started
  <2>1. SendStop(run, {})
    BY <1>3 DEF Stop
  <2> QED BY <1>1, <1>2, <2>1, StopCounted
<1>4. CASE ~(run \in pressed /\ run \in started)
  <2>1. UNCHANGED <<requests, sent, stops>>
    BY <1>4 DEF Stop
  <2> QED BY <1>2, <2>1 DEF CountInv, IdsKnown, Counted, StartIds, Stopped, Places
<1> QED BY <1>3, <1>4

(* An answer that arrives, or is lost, leaves the ids alone. *)
LEMMA AnswerKeepsIds ==
  ASSUME ClientInv, CountInv, NEW r \in requests, NEW x \in {"accepted", "failed"},
         Answered(r, x), UNCHANGED sent
  PROVE  IdsKnown' /\ StartIds' = StartIds
<1> DEFINE a == [r EXCEPT !.state = x]
<1>1. r \in Requests
  BY CountedTypes
<1>2. a.id = r.id /\ a.kind = r.kind
  BY <1>1 DEF Requests
<1>3. requests' = (requests \ {r}) \cup {a}
  BY DEF Answered
<1>4. (\A q \in requests : q.id \in 1..sent) /\ (\A q, p \in requests : q.id = p.id => q = p)
  BY DEF CountInv, IdsKnown
<1> HIDE DEF a
<1>5. IdsKnown'
  BY <1>2, <1>3, <1>4 DEF IdsKnown
<1>6. StartIds' = StartIds
  BY <1>2, <1>3, <1>4 DEF StartIds
<1> QED BY <1>5, <1>6

LEMMA KeysCount ==
  ASSUME ClientInv, CountInv, Keys
  PROVE  CountInv'
<1>0. /\ sent \in Nat /\ presses \in Nat /\ IsFiniteSet(StartIds) /\ Cardinality(StartIds) \in Nat
      /\ Cardinality(Acked) \in Nat /\ Cardinality(Stopped) \in Nat
  BY CountedTypes
<1>1. CASE Press
  <2>1. run \in Runs
    BY <1>1, BoundsAssumption DEF Press, ClientInv, Types, Runs, RunShape, Mounted
  <2>2. /\ requests' = (requests \ {}) \cup {New("start", run)} /\ sent' = sent + 1
        /\ presses' = presses + 1 /\ presses < MaxPress
        /\ UNCHANGED <<started, accepted, stops, flag, lost>> /\ isPressed' = TRUE
    BY <1>1 DEF Press, backendVars
  <2>3. IdsKnown' /\ sent + 1 \notin StartIds /\ StartIds' = StartIds \cup {sent + 1}
    BY <2>1, <2>2, FreshId, ZenonT(60)
  <2>4. IsFiniteSet(StartIds') /\ Cardinality(StartIds') = Cardinality(StartIds) + 1
    <3>1. /\ IsFiniteSet(StartIds \cup {sent + 1})
          /\ Cardinality(StartIds \cup {sent + 1}) = Cardinality(StartIds) + 1
      BY <1>0, <2>3, FS_AddElement, Zenon
    <3> QED BY <2>3, <3>1, Zenon
  <2>5. Acked' = Acked /\ Stopped' = Stopped
    BY <2>2 DEF Acked, Stopped, Places
  <2>6. /\ Cardinality(Acked) + Cardinality(StartIds) <= presses
        /\ sent = presses + Cardinality(Stopped) /\ IsFiniteSet(Acked) /\ IsFiniteSet(Stopped)
    BY DEF CountInv, Counted
  <2>7. /\ Cardinality(Acked') + Cardinality(StartIds') <= presses'
        /\ sent' = presses' + Cardinality(Stopped')
    BY <1>0, <2>2, <2>4, <2>5, <2>6
  <2>8. Counted'
    BY <2>4, <2>5, <2>6, <2>7 DEF Counted
  <2>9. Simple'
    BY <2>2, BoundsAssumption DEF CountInv, Simple
  <2> QED BY <2>3, <2>8, <2>9 DEF CountInv
<1>2. CASE Release
  <2>1. /\ Mounted /\ Stop
        /\ UNCHANGED <<backendVars, presses, lost, accepted>>
    BY <1>2 DEF Release
  <2>2. Acked' = Acked
    BY <2>1 DEF Acked, Places
  <2>3. Counted' /\ IdsKnown'
    BY <2>1, <2>2, StopKeepsCount DEF CountInv, Counted
  <2>4. Simple'
    BY <2>1, StopKeepsCount DEF CountInv, Simple, backendVars
  <2> QED BY <2>3, <2>4 DEF CountInv
<1> QED BY <1>1, <1>2 DEF Keys

LEMMA EffectsCount ==
  ASSUME ClientInv, CountInv, Effects
  PROVE  CountInv'
<1>1. PICK b \in opened \cup {None} : Rerun(b)
  BY DEF Effects
<1>2. UNCHANGED <<backendVars, presses, lost, accepted>>
  BY <1>1 DEF Rerun
<1>3. Acked' = Acked
  BY <1>2 DEF Acked, Places
<1>4. /\ IdsKnown' /\ StartIds' = StartIds
      /\ IsFiniteSet(Stopped') /\ sent' = presses + Cardinality(Stopped')
      /\ started' \subseteq Runs /\ isPressed' \in BOOLEAN
  <2>1. CASE Mounted
    BY <1>1, <2>1, StopKeepsCount DEF Rerun
  <2>2. CASE ~Mounted
    <3>1. UNCHANGED <<isPressed, started, requests, sent, stops>>
      BY <1>1, <2>2 DEF Rerun
    <3> QED BY <3>1 DEF CountInv, Simple, IdsKnown, Counted, StartIds, Stopped, Places
  <2> QED BY <2>1, <2>2
<1>5. Counted'
  BY <1>2, <1>3, <1>4 DEF CountInv, Counted
<1>6. Simple'
  BY <1>2, <1>4 DEF CountInv, Simple, backendVars
<1> QED BY <1>4, <1>5, <1>6 DEF CountInv

(* A start that is acknowledged moves from the outstanding to the accepted. *)
LEMMA AcknowledgedCounts ==
  ASSUME ClientInv, CountInv, NEW r \in requests, StartAcknowledged(r)
  PROVE  CountInv'
<1>0. /\ sent \in Nat /\ presses \in Nat /\ IsFiniteSet(StartIds) /\ Cardinality(StartIds) \in Nat
      /\ accepted \in [Runs -> Nat]
      /\ IsFiniteSet(Acked) /\ Cardinality(Acked) \in Nat
      /\ IsFiniteSet(Stopped) /\ Cardinality(Stopped) \in Nat
      /\ r.by \in Runs /\ r.kind = "start"
  BY CountedTypes DEF StartAcknowledged
<1>1. /\ accepted' = [accepted EXCEPT ![r.by] = @ + 1]
      /\ UNCHANGED <<isPressed, backendVars, presses, lost>>
  BY DEF StartAcknowledged
<1>2. /\ IdsKnown' /\ StartIds' = StartIds \ {r.id}
      /\ IsFiniteSet(Stopped') /\ sent' = presses + Cardinality(Stopped')
      /\ started' \subseteq Runs
  <2>1. CASE started' = started \cup {r.by} /\ requests' = requests \ {r} /\ UNCHANGED <<sent, stops>>
    <3>1. (\A q \in requests : q.id \in 1..sent) /\ (\A q, p \in requests : q.id = p.id => q = p)
      BY DEF CountInv, IdsKnown
    <3>2. IdsKnown'
      BY <2>1, <3>1 DEF IdsKnown
    <3>3. StartIds' = StartIds \ {r.id}
      BY <1>0, <2>1, <3>1 DEF StartIds
    <3>4. Stopped' = Stopped /\ sent' = presses + Cardinality(Stopped)
      BY <2>1 DEF Stopped, Places, CountInv, Counted
    <3> QED BY <1>0, <2>1, <3>2, <3>3, <3>4 DEF CountInv, Simple
  <2>2. CASE started' = started \ {r.by} /\ SendStop(r.by, {r})
    <3>1. {r} \in SUBSET requests
      OBVIOUS
    <3> QED BY <1>0, <2>2, <3>1, StopCounted DEF CountInv, Simple
  <2> QED BY <2>1, <2>2 DEF StartAcknowledged
<1>3. /\ IsFiniteSet(StartIds') /\ Cardinality(StartIds') = Cardinality(StartIds) - 1
  <2>1. r.id \in StartIds
    BY <1>0 DEF StartIds
  <2>2. /\ IsFiniteSet(StartIds \ {r.id}) /\ Cardinality(StartIds \ {r.id}) = Cardinality(StartIds) - 1
    BY <1>0, <2>1, FS_RemoveElement, Zenon
  <2> QED BY <1>2, <2>2, Zenon
<1>4. IsFiniteSet(Acked') /\ Cardinality(Acked') = Cardinality(Acked) + 1
  <2>1. /\ accepted' \in [Runs -> Nat] /\ accepted'[r.by] = accepted[r.by] + 1
        /\ \A d \in Runs : d # r.by => accepted'[d] = accepted[d]
    BY <1>0, <1>1
  <2>2. /\ IsFiniteSet(Places(accepted'))
        /\ Cardinality(Places(accepted')) = Cardinality(Places(accepted)) + 1
    BY <1>0, <2>1, NextPlace DEF Acked
  <2> QED BY <2>2 DEF Acked, Places
<1>5. Cardinality(Acked') + Cardinality(StartIds') <= presses'
  <2>1. Cardinality(Acked) + Cardinality(StartIds) <= presses
    BY DEF CountInv, Counted
  <2> QED BY <1>0, <1>1, <1>3, <1>4, <2>1
<1>6. Counted'
  BY <1>1, <1>2, <1>3, <1>4, <1>5 DEF Counted
<1>7. Simple'
  BY <1>1, <1>2 DEF CountInv, Simple, backendVars
<1> QED BY <1>2, <1>6, <1>7 DEF CountInv

(* The counts hold of any outstanding starts that are no more than before. *)
LEMMA FewerStartsCounted ==
  ASSUME ClientInv, CountInv, StartIds' \subseteq StartIds, UNCHANGED <<presses, sent, accepted, stops>>
  PROVE  Counted'
<1>1. Acked' = Acked /\ Stopped' = Stopped
  BY DEF Acked, Stopped, Places
<1>2. /\ IsFiniteSet(StartIds') /\ Cardinality(StartIds') \in Nat
      /\ Cardinality(StartIds') <= Cardinality(StartIds)
  BY CountedTypes, FS_Subset, FS_CardinalityType
<1>3. /\ Cardinality(Acked) \in Nat /\ Cardinality(StartIds) \in Nat /\ presses \in Nat
      /\ Cardinality(Acked) + Cardinality(StartIds) <= presses
  BY CountedTypes DEF CountInv, Counted
<1>4. Cardinality(Acked') + Cardinality(StartIds') <= presses'
  BY <1>1, <1>2, <1>3
<1> QED BY <1>1, <1>2, <1>4 DEF CountInv, Counted

LEMMA AnswersCount ==
  ASSUME ClientInv, CountInv, NEW r \in requests, StartFailed(r) \/ StopAnswered(r)
  PROVE  CountInv'
<1>1. requests' = requests \ {r} /\ UNCHANGED <<started, flag, lost, presses, sent, accepted, stops>>
  BY DEF StartFailed, StopAnswered, pageVars, backendVars
<1>2. isPressed' \in BOOLEAN
  BY DEF StartFailed, StopAnswered, pageVars, CountInv, Simple
<1>3. StartIds' \subseteq StartIds
  BY <1>1 DEF StartIds
<1>4. IdsKnown'
  BY <1>1 DEF CountInv, IdsKnown
<1>5. Simple'
  BY <1>1, <1>2 DEF CountInv, Simple
<1> QED BY <1>1, <1>3, <1>4, <1>5, FewerStartsCounted DEF CountInv

LEMMA HandlesCount ==
  ASSUME ClientInv, CountInv, NEW r \in requests, HandleStart(r) \/ HandleStop(r) \/ Lose(r)
  PROVE  CountInv'
<1>1. PICK x \in {"accepted", "failed"} : Answered(r, x)
  BY DEF HandleStart, HandleStop, Lose
<1>2. /\ UNCHANGED <<started, isPressed, presses, sent, accepted, stops>>
      /\ flag' \in BOOLEAN /\ lost' \in BOOLEAN
  BY DEF HandleStart, HandleStop, Lose, pageVars, backendVars, CountInv, Simple
<1>3. IdsKnown' /\ StartIds' = StartIds
  BY <1>1, <1>2, AnswerKeepsIds
<1>4. Simple'
  BY <1>2 DEF CountInv, Simple
<1> QED BY <1>2, <1>3, <1>4, FewerStartsCounted DEF CountInv

LEMMA RestCounts ==
  ASSUME ClientInv, CountInv, (\E b \in Bridge : BridgeOpens(b)) \/ BridgeCloses \/ UNCHANGED vars
  PROVE  CountInv'
<1>1. UNCHANGED <<started, isPressed, flag, lost, requests, presses, sent, accepted, stops>>
  BY DEF BridgeOpens, BridgeCloses, vars, pageVars, backendVars
<1>2. StartIds' = StartIds
  BY <1>1 DEF StartIds
<1>3. IdsKnown' /\ Simple'
  BY <1>1 DEF CountInv, IdsKnown, Simple
<1> QED BY <1>1, <1>2, <1>3, FewerStartsCounted DEF CountInv

LEMMA CountInductive == ClientInv /\ CountInv /\ [Next]_vars => CountInv'
<1> SUFFICES ASSUME ClientInv, CountInv, [Next]_vars PROVE CountInv'
  OBVIOUS
<1>1. CASE Keys
  BY <1>1, KeysCount
<1>2. CASE Effects
  BY <1>2, EffectsCount
<1>3. CASE Answers
  BY <1>3, AcknowledgedCounts, AnswersCount DEF Answers
<1>4. CASE Handles
  BY <1>4, HandlesCount DEF Handles
<1>5. CASE World
  BY <1>5, HandlesCount, RestCounts DEF World
<1>6. CASE UNCHANGED vars
  BY <1>6, RestCounts
<1> QED BY <1>1, <1>2, <1>3, <1>4, <1>5, <1>6 DEF Next

LEMMA CountInitially == Init => CountInv
<1> SUFFICES ASSUME Init PROVE CountInv
  OBVIOUS
<1>1. Simple /\ IdsKnown /\ StartIds = {}
  <2>1. Simple
    <3>1. 0 \in 0..MaxPress
      BY BoundsAssumption
    <3>2. isPressed \in BOOLEAN /\ flag \in BOOLEAN /\ lost \in BOOLEAN
      BY DEF Init
    <3>3. started \subseteq Runs /\ presses \in 0..MaxPress
      BY <3>1 DEF Init
    <3> QED BY <3>2, <3>3 DEF Simple
  <2>2. requests = {}
    BY DEF Init
  <2>3. IdsKnown /\ StartIds = {}
    BY <2>2 DEF IdsKnown, StartIds
  <2> QED BY <2>1, <2>3
<1>2. ASSUME NEW f, f = [e \in Runs |-> 0] PROVE Places(f) = {}
  BY <1>2, PlaceOf
<1>3. Acked = {} /\ Stopped = {}
  BY <1>2 DEF Acked, Stopped, Init
<1>4. Counted
  BY <1>1, <1>3, FS_EmptySet DEF Counted, Init
<1> QED BY <1>1, <1>4 DEF CountInv

(* The types and their bounds: no more starts are accepted than keys were
   pressed, no run stops more often than it was accepted, and so the requests
   are never more than twice the presses. *)
LEMMA CountsBound == ClientInv /\ CountInv => TypeOK
<1> SUFFICES ASSUME ClientInv, CountInv PROVE TypeOK
  OBVIOUS
<1> USE NoneAssumption, BoundsAssumption
<1>1. /\ bridgeOf \in Bridge \cup {None} /\ run \in 0..MaxEffect
      /\ ranFor \in [Runs -> Bridge \cup {None}]
      /\ open \in Bridge \cup {None} /\ opened \subseteq Bridge /\ flagBy \in Bridge \cup {None}
  BY DEF ClientInv, Types, RunShape, BridgesKnown
<1>2. started \subseteq Runs /\ isPressed \in BOOLEAN /\ flag \in BOOLEAN /\ lost \in BOOLEAN
  BY DEF CountInv, Simple
<1>3. pressed \subseteq Runs
  BY DEF ClientInv, Types, RunShape, Mounted, Runs
<1>4. /\ presses \in 0..MaxPress /\ Cardinality(Acked) \in Nat /\ Cardinality(Acked) <= presses
      /\ Cardinality(Stopped) \in Nat /\ Cardinality(Stopped) <= presses
      /\ sent \in 0..MaxRequest
  <2>1. /\ Cardinality(Acked) \in Nat /\ Cardinality(StartIds) \in Nat
        /\ Cardinality(Acked) + Cardinality(StartIds) <= presses
        /\ sent = presses + Cardinality(Stopped) /\ presses \in 0..MaxPress
    BY CountedTypes DEF CountInv, Counted, Simple
  <2>2. Cardinality(Stopped) \in Nat /\ Cardinality(Stopped) <= Cardinality(Acked)
    BY StopsCovered DEF CountInv
  <2> QED BY <2>1, <2>2 DEF MaxRequest
<1>5. accepted \in [Runs -> 0..MaxRequest] /\ stops \in [Runs -> 0..MaxRequest]
  <2>1. accepted \in [Runs -> Nat] /\ stops \in [Runs -> Nat]
    BY CountedTypes
  <2>2. ASSUME NEW e \in Runs PROVE accepted[e] \in 0..MaxRequest /\ stops[e] \in 0..MaxRequest
    <3>1. accepted[e] <= Cardinality(Acked) /\ stops[e] <= Cardinality(Stopped)
      BY <2>1, CountedTypes, PlacesBound DEF Acked, Stopped
    <3> QED BY <1>4, <2>1, <3>1 DEF MaxRequest
  <2> QED BY <2>1, <2>2
<1>6. requests \subseteq Request
  <2>1. requests \subseteq Requests /\ \A r \in requests : r.id \in 1..sent
    BY CountedTypes
  <2>2. \A r \in requests : r.id \in 1..MaxRequest
    BY <1>4, <2>1 DEF MaxRequest
  <2> QED BY <2>1, <2>2 DEF Request, Requests
<1> QED BY <1>1, <1>2, <1>3, <1>4, <1>5, <1>6 DEF TypeOK

(* For any number of keys pressed, answers lost and reruns, the requests of the
   page have ids of their own, and the backend gets at most one stop for each
   start (usePushToTalk.ts, start and stop). *)
THEOREM TypeCorrect == Spec => []TypeOK
<1>1. Init => ClientInv /\ CountInv
  BY Initially, CountInitially
<1>2. ClientInv /\ CountInv /\ [Next]_vars => (ClientInv /\ CountInv)'
  BY Inductive, CountInductive
<1> QED BY <1>1, <1>2, CountsBound, PTL DEF Spec
=============================================================================
