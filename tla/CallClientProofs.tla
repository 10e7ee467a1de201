--------------------------- MODULE CallClientProofs ---------------------------
(***************************************************************************)
(* Safety of CallClient for any bounds: whatever is on its way when the    *)
(* page's session changes, the status it shows is its own session's, and a *)
(* call it has created is not taken off it by a poll that missed it.       *)
(***************************************************************************)
EXTENDS CallClient, TLAPS

(* Every status of a call, kept or on its way back, names a bridge with the
   session it was asked for as an end. *)
IsOf(d, s) == d.active => bridges[d.bridge].of = s
StatusesKnown ==
  \A s \in Sessions : /\ IsOf(cache[s], s)
                      /\ polls[s].at = "answered" => IsOf(polls[s].status, s)

(* hasSeenActiveBridgeRef says whether a call is shown by the status. *)
SeenIsShown == seen = sessionStatus.active

(* The store is empty while a call is being created. *)
EmptyWhileCalling == isCalling => bridgeId = 0

ClientInv == TypeOK /\ StatusesKnown /\ SeenIsShown /\ EmptyWhileCalling
-----------------------------------------------------------------------------
(* Types of what the handlers take apart. *)

LEMMA StatusTypes ==
  /\ Inactive \in Status /\ ~Inactive.active
  /\ \A d \in Status : d.active \in BOOLEAN /\ (d.active => d.bridge \in Bridges)
<1>1. Inactive \in Status /\ ~Inactive.active
  BY DEF Status, Inactive
<1>2. ASSUME NEW d \in Status
      PROVE  d.active \in BOOLEAN /\ (d.active => d.bridge \in Bridges)
  <2>1. CASE d = Inactive
    BY <2>1 DEF Inactive
  <2>2. CASE d \in [active : {TRUE}, bridge : Bridges]
    BY <2>2
  <2>3. QED
    BY <1>2, <2>1, <2>2 DEF Status
<1>3. QED
  BY <1>1, <1>2

LEMMA StatusOfType ==
  ASSUME NEW s \in 0..MaxSession, NEW c \in [Sessions -> Status]
  PROVE  StatusOf(s, c) \in Status
BY BoundsAssumption, StatusTypes DEF StatusOf, Sessions

LEMMA AnsweredType ==
  ASSUME NEW p \in Poll, p.at = "answered"
  PROVE  p.status \in Status
BY DEF Poll, Idle

LEMMA CreationTypes ==
  ASSUME NEW c \in Creation
  PROVE  /\ c.at = "sent" => c.by \in Sessions /\ c # Idle
         /\ c.at = "created" => c.bridge \in Bridges /\ c # Idle
BY DEF Creation, Idle

LEMMA DeletionTypes ==
  ASSUME NEW d \in Deletion
  PROVE  /\ d.at = "sent" => d.bridge \in Bridges
         /\ d.at \in {"sent", "done"} => d # Idle
BY DEF Deletion, Idle

LEMMA BridgeTypes ==
  ASSUME NEW b \in Bridge
  PROVE  /\ b.state # "unmade" => b \in [of : Sessions, state : {"active", "stale", "removed"}]
         /\ \A l \in {"active", "stale", "removed"} :
              b.state # "unmade" => [b EXCEPT !.state = l] \in Bridge /\ [b EXCEPT !.state = l].of = b.of
BY DEF Bridge, Unmade

(* A bridge that has been made keeps the session it is an end of. *)
EndsKept == \A b \in Bridges : bridges[b].of # 0 => bridges'[b].of = bridges[b].of

LEMMA KnownStaysKnown ==
  ASSUME TypeOK, EndsKept, NEW d \in Status, NEW s \in Sessions, IsOf(d, s)
  PROVE  IsOf(d, s)'
<1>1. CASE d.active
  <2>1. d.bridge \in Bridges /\ bridges[d.bridge].of = s
    BY <1>1, StatusTypes DEF IsOf
  <2>2. s # 0
    BY BoundsAssumption DEF Sessions
  <2>3. QED
    BY <2>1, <2>2 DEF EndsKept, IsOf
<1>2. QED
  BY <1>1 DEF IsOf

LEMMA StatusesStayKnown ==
  ASSUME TypeOK, StatusesKnown, EndsKept, UNCHANGED <<cache, polls>>
  PROVE  StatusesKnown'
<1>1. ASSUME NEW s \in Sessions
      PROVE  IsOf(cache[s], s)' /\ (polls'[s].at = "answered" => IsOf(polls[s].status, s)')
  <2>1. cache[s] \in Status /\ IsOf(cache[s], s)
    BY DEF TypeOK, StatusesKnown
  <2>2. IsOf(cache[s], s)'
    <3>1. ASSUME NEW d \in Status, IsOf(d, s)
          PROVE  d.active => bridges'[d.bridge].of = s
      BY <3>1, KnownStaysKnown DEF IsOf
    <3>2. QED
      BY <2>1, <3>1 DEF IsOf
  <2>3. ASSUME polls[s].at = "answered"
        PROVE  IsOf(polls[s].status, s)'
    <3>1. polls[s].status \in Status /\ IsOf(polls[s].status, s)
      BY <2>3, AnsweredType DEF TypeOK, StatusesKnown
    <3>2. ASSUME NEW d \in Status, IsOf(d, s)
          PROVE  d.active => bridges'[d.bridge].of = s
      BY <3>2, KnownStaysKnown DEF IsOf
    <3>3. QED
      BY <3>1, <3>2 DEF IsOf
  <2>4. QED
    BY <2>2, <2>3
<1>2. QED
  BY <1>1 DEF StatusesKnown, IsOf

(* The commit of a status: what is shown follows it, and a store that is empty
   stays empty. *)
LEMMA ShowKeeps ==
  ASSUME TypeOK, NEW s \in 0..MaxSession, NEW c \in [Sessions -> Status], Show(s, c)
  PROVE  /\ session' \in 0..MaxSession /\ cache' \in [Sessions -> Status]
         /\ seen' \in BOOLEAN /\ bridgeId' \in 0..MaxBridge
         /\ SeenIsShown'
         /\ bridgeId = 0 => bridgeId' = 0
<1>1. session' = s /\ cache' = c /\ StatusEffect(StatusOf(s, c))
  BY DEF Show
<1>2. StatusOf(s, c) \in Status
  BY StatusOfType
<1>3. sessionStatus' = StatusOf(s, c)
  BY <1>1 DEF sessionStatus, StatusOf
<1>4. seen' = StatusOf(s, c).active /\ StatusOf(s, c).active \in BOOLEAN
  BY <1>1, <1>2, StatusTypes DEF StatusEffect
<1>5. bridgeId' \in {0, bridgeId}
  BY <1>1 DEF StatusEffect
<1>6. bridgeId' \in 0..MaxBridge
  BY <1>5, BoundsAssumption DEF TypeOK
<1>7. QED
  BY <1>1, <1>3, <1>4, <1>5, <1>6 DEF SeenIsShown
-----------------------------------------------------------------------------
(* The parts of the invariant a step may leave alone. *)

LEMMA Untouched ==
  ASSUME ClientInv, UNCHANGED <<shown, polls>>, EndsKept
  PROVE  StatusesKnown' /\ SeenIsShown'
<1>1. StatusesKnown'
  BY StatusesStayKnown DEF ClientInv, shown
<1>2. SeenIsShown'
  BY DEF ClientInv, SeenIsShown, sessionStatus, StatusOf, shown
<1>3. QED
  BY <1>1, <1>2

(* A step that moves one bridge on, or none, keeps the ends. *)
LEMMA MoveOn ==
  ASSUME TypeOK, NEW b \in Bridges, bridges[b].state # "unmade",
         NEW l \in {"active", "stale", "removed"}, bridges' = [bridges EXCEPT ![b].state = l]
  PROVE  bridges' \in [Bridges -> Bridge] /\ EndsKept
<1>1. bridges \in [Bridges -> Bridge]
  BY DEF TypeOK
<1>2. bridges[b] \in [of : Sessions, state : {"active", "stale", "removed"}]
  BY <1>1, BridgeTypes
<1>3. [bridges[b] EXCEPT !.state = l] \in Bridge /\ [bridges[b] EXCEPT !.state = l].of = bridges[b].of
  BY <1>2 DEF Bridge
<1>4. bridges' = [bridges EXCEPT ![b] = [bridges[b] EXCEPT !.state = l]]
  BY <1>1
<1>5. QED
  BY <1>1, <1>3, <1>4 DEF EndsKept

LEMMA MakeKeeps ==
  ASSUME TypeOK, NEW b \in Bridges, NEW s \in alive, Make(b, s)
  PROVE  bridges' \in [Bridges -> Bridge] /\ EndsKept
<1>1. bridges \in [Bridges -> Bridge] /\ bridges[b] = Unmade
  BY DEF TypeOK, Make
<1>2. s \in Sessions
  BY BoundsAssumption DEF TypeOK, Sessions
<1>3. [of |-> s, state |-> "active"] \in Bridge
  BY <1>2 DEF Bridge
<1>4. bridges' = [bridges EXCEPT ![b] = [of |-> s, state |-> "active"]]
  BY DEF Make
<1>5. QED
  BY <1>1, <1>3, <1>4 DEF EndsKept, Unmade

(* What a commit of a status leaves of the invariant to be shown. *)
LEMMA ShowStep ==
  ASSUME ClientInv, NEW s \in 0..MaxSession, NEW c \in [Sessions -> Status], Show(s, c),
         UNCHANGED <<creation, deletion, bridges>>,
         polls' \in [Sessions -> Poll], latest' \in 0..MaxSession, alive' \subseteq 1..latest'
  PROVE  TypeOK' /\ SeenIsShown' /\ EmptyWhileCalling'
<1>1. /\ session' \in 0..MaxSession /\ cache' \in [Sessions -> Status]
      /\ seen' \in BOOLEAN /\ bridgeId' \in 0..MaxBridge
      /\ SeenIsShown'
      /\ bridgeId = 0 => bridgeId' = 0
  BY ShowKeeps DEF ClientInv
<1>2. TypeOK'
  BY <1>1 DEF ClientInv, TypeOK
<1>3. EmptyWhileCalling'
  BY <1>1 DEF ClientInv, EmptyWhileCalling, isCalling
<1>4. QED
  BY <1>1, <1>2, <1>3

(* The page's requests and what becomes of them. *)
LEMMA RequestStep ==
  ASSUME ClientInv, StartCall \/ CallStarted \/ CallFails \/ EndCall \/ CallEnded \/ HangUpFails
  PROVE  ClientInv'
<1>1. UNCHANGED <<shown, polls, backend>>
  BY DEF StartCall, CallStarted, CallFails, EndCall, CallEnded, HangUpFails
<1>2. StatusesKnown' /\ SeenIsShown'
  BY <1>1, Untouched DEF EndsKept, backend
<1>3. creation' \in Creation /\ deletion' \in Deletion /\ bridgeId' \in 0..MaxBridge
  <2>1. CASE StartCall
    <3>1. session \in Sessions
      BY <2>1, BoundsAssumption DEF StartCall, canCall, ClientInv, TypeOK, Sessions
    <3>2. QED
      BY <2>1, <3>1 DEF StartCall, Creation, ClientInv, TypeOK
  <2>2. CASE CallStarted
    <3>1. creation.bridge \in Bridges
      BY <2>2, CreationTypes DEF CallStarted, ClientInv, TypeOK
    <3>2. QED
      BY <2>2, <3>1, BoundsAssumption DEF CallStarted, Creation, Bridges, ClientInv, TypeOK
  <2>3. CASE CallFails
    BY <2>3, BoundsAssumption DEF CallFails, Creation, ClientInv, TypeOK
  <2>4. CASE EndCall
    <3>1. sessionStatus \in Status
      BY StatusOfType DEF ClientInv, TypeOK, sessionStatus
    <3>2. activeBridgeId \in Bridges
      BY <2>4, <3>1, StatusTypes, BoundsAssumption
         DEF EndCall, activeBridgeId, Bridges, ClientInv, TypeOK
    <3>3. QED
      BY <2>4, <3>2 DEF EndCall, Deletion, ClientInv, TypeOK
  <2>5. CASE CallEnded
    BY <2>5, BoundsAssumption DEF CallEnded, Deletion, ClientInv, TypeOK
  <2>6. CASE HangUpFails
    BY <2>6 DEF HangUpFails, Deletion, ClientInv, TypeOK
  <2>7. QED
    BY <2>1, <2>2, <2>3, <2>4, <2>5, <2>6
<1>4. TypeOK'
  BY <1>1, <1>3 DEF ClientInv, TypeOK, shown, backend
<1>5. EmptyWhileCalling'
  <2>1. CASE StartCall
    <3>1. bridgeId = 0
      BY <2>1, StatusOfType, StatusTypes, BoundsAssumption
         DEF StartCall, canCall, activeBridgeId, sessionStatus, ClientInv, TypeOK, Bridges
    <3>2. QED
      BY <2>1, <3>1 DEF StartCall, EmptyWhileCalling
  <2>2. CASE CallStarted \/ CallFails
    BY <2>2 DEF CallStarted, CallFails, EmptyWhileCalling, isCalling
  <2>3. CASE EndCall \/ CallEnded \/ HangUpFails
    BY <2>3 DEF EndCall, CallEnded, HangUpFails, ClientInv, EmptyWhileCalling, isCalling
  <2>4. QED
    BY <2>1, <2>2, <2>3
<1>6. QED
  BY <1>2, <1>4, <1>5 DEF ClientInv

LEMMA PollStep ==
  ASSUME ClientInv, PollSends \/ \E s \in Sessions : PollFails(s)
  PROVE  ClientInv'
<1>1. UNCHANGED <<shown, bridgeId, creation, deletion, backend>>
  BY DEF PollSends, PollFails
<1>2. PICK s \in Sessions, p \in {Idle, [at |-> "sent"]} : polls' = [polls EXCEPT ![s] = p]
  <2>1. CASE PollSends
    <3>1. session \in Sessions
      BY <2>1, BoundsAssumption DEF PollSends, ClientInv, TypeOK, Sessions
    <3>2. polls' = [polls EXCEPT ![session] = [at |-> "sent"]]
      BY <2>1 DEF PollSends
    <3>3. QED
      BY <3>1, <3>2
  <2>2. CASE \E s \in Sessions : PollFails(s)
    BY <2>2 DEF PollFails
  <2>3. QED
    BY <2>1, <2>2
<1>3. p \in Poll /\ p.at # "answered"
  BY DEF Poll, Idle
<1>4. TypeOK'
  BY <1>1, <1>2, <1>3 DEF ClientInv, TypeOK, shown, backend
<1>5. StatusesKnown'
  <2>1. ASSUME NEW t \in Sessions
        PROVE  /\ IsOf(cache[t], t)'
               /\ polls'[t].at = "answered" => IsOf(polls[t].status, t)'
    <3>1. cache' = cache /\ bridges' = bridges
      BY <1>1 DEF shown, backend
    <3>2. polls'[t].at = "answered" => polls'[t] = polls[t]
      BY <1>2, <1>3 DEF ClientInv, TypeOK
    <3>3. QED
      BY <3>1, <3>2 DEF ClientInv, StatusesKnown, IsOf
  <2>2. QED
    BY <2>1 DEF StatusesKnown, IsOf
<1>6. SeenIsShown' /\ EmptyWhileCalling'
  BY <1>1 DEF ClientInv, SeenIsShown, sessionStatus, StatusOf, shown, EmptyWhileCalling, isCalling
<1>7. QED
  BY <1>4, <1>5, <1>6 DEF ClientInv

LEMMA PollAnsweredStep ==
  ASSUME ClientInv, NEW s \in Sessions, PollAnswered(s)
  PROVE  ClientInv'
<1> DEFINE c == [cache EXCEPT ![s] = polls[s].status]
<1>1. polls[s].status \in Status /\ IsOf(polls[s].status, s)
  BY AnsweredType DEF PollAnswered, ClientInv, TypeOK, StatusesKnown
<1>2. c \in [Sessions -> Status] /\ session \in 0..MaxSession
  BY <1>1 DEF ClientInv, TypeOK
<1>3. Idle \in Poll /\ Idle.at # "answered"
  BY DEF Poll, Idle
<1>4. polls' \in [Sessions -> Poll]
  BY <1>3 DEF PollAnswered, ClientInv, TypeOK
<1>5. TypeOK' /\ SeenIsShown' /\ EmptyWhileCalling'
  <2>1. Show(session, c) /\ UNCHANGED <<creation, deletion, backend>>
    BY DEF PollAnswered
  <2>2. latest' \in 0..MaxSession /\ alive' \subseteq 1..latest'
    BY <2>1 DEF ClientInv, TypeOK, backend
  <2>3. QED
    BY <1>2, <1>4, <2>1, <2>2, ShowStep DEF backend
<1>6. StatusesKnown'
  <2>1. cache' = c /\ bridges' = bridges
    BY DEF PollAnswered, Show, backend
  <2>2. ASSUME NEW t \in Sessions
        PROVE  /\ IsOf(cache[t], t)'
               /\ polls'[t].at = "answered" => IsOf(polls[t].status, t)'
    <3>1. IsOf(cache[t], t)'
      BY <1>1, <2>1 DEF ClientInv, StatusesKnown, TypeOK, IsOf
    <3>2. polls'[t].at = "answered" => polls'[t] = polls[t]
      BY <1>3 DEF PollAnswered, ClientInv, TypeOK
    <3>3. QED
      BY <2>1, <3>1, <3>2 DEF ClientInv, StatusesKnown, IsOf
  <2>3. QED
    BY <2>2 DEF StatusesKnown, IsOf
<1>7. QED
  BY <1>5, <1>6 DEF ClientInv

(* Another session is shown. *)
LEMMA SocketStep ==
  ASSUME ClientInv, SessionLost \/ SessionCreated
  PROVE  ClientInv'
<1>1. PICK s \in 0..MaxSession : Show(s, cache)
  <2>1. CASE SessionLost
    BY <2>1, BoundsAssumption DEF SessionLost
  <2>2. CASE SessionCreated
    BY <2>2, BoundsAssumption DEF SessionCreated, ClientInv, TypeOK
  <2>3. QED
    BY <2>1, <2>2
<1>2. UNCHANGED <<polls, creation, deletion, bridges>>
  BY DEF SessionLost, SessionCreated, backend
<1>3. latest' \in 0..MaxSession /\ alive' \subseteq 1..latest'
  <2>1. CASE SessionLost
    BY <2>1 DEF SessionLost, backend, ClientInv, TypeOK
  <2>2. CASE SessionCreated
    BY <2>2, BoundsAssumption DEF SessionCreated, ClientInv, TypeOK
  <2>3. QED
    BY <2>1, <2>2
<1>4. cache \in [Sessions -> Status] /\ polls' \in [Sessions -> Poll] /\ cache' = cache
  BY <1>1, <1>2 DEF ClientInv, TypeOK, Show
<1>5. TypeOK' /\ SeenIsShown' /\ EmptyWhileCalling'
  BY <1>1, <1>2, <1>3, <1>4, ShowStep
<1>6. StatusesKnown'
  BY <1>2, <1>4, StatusesStayKnown DEF ClientInv, EndsKept
<1>7. QED
  BY <1>5, <1>6 DEF ClientInv

(* The handlers of the backend. *)
LEMMA CreateStep ==
  ASSUME ClientInv, CreateSession
  PROVE  ClientInv'
<1>1. PICK b \in Bridges : Make(b, creation.by) /\ creation' = [at |-> "created", bridge |-> b]
  BY DEF CreateSession
<1>2. creation.by \in alive
  BY <1>1 DEF Make
<1>3. bridges' \in [Bridges -> Bridge] /\ EndsKept
  BY <1>1, <1>2, MakeKeeps DEF ClientInv
<1>4. UNCHANGED <<shown, bridgeId, polls, deletion, latest, alive>>
  BY DEF CreateSession, PageOnly
<1>5. TypeOK'
  <2>1. creation' \in Creation
    BY <1>1 DEF Creation
  <2>2. QED
    BY <1>3, <1>4, <2>1 DEF ClientInv, TypeOK, shown
<1>6. StatusesKnown' /\ SeenIsShown'
  BY <1>3, <1>4, Untouched
<1>7. EmptyWhileCalling'
  BY <1>4, CreationTypes DEF CreateSession, ClientInv, TypeOK, EmptyWhileCalling, isCalling
<1>8. QED
  BY <1>5, <1>6, <1>7 DEF ClientInv

LEMMA DeleteStep ==
  ASSUME ClientInv, DeleteSession
  PROVE  ClientInv'
<1>1. deletion.bridge \in Bridges
  BY DeletionTypes DEF DeleteSession, ClientInv, TypeOK
<1>2. bridges' \in [Bridges -> Bridge] /\ EndsKept
  BY <1>1, MoveOn DEF DeleteSession, ClientInv
<1>3. UNCHANGED <<shown, bridgeId, polls, creation, latest, alive>>
  BY DEF DeleteSession, PageOnly
<1>4. TypeOK'
  <2>1. deletion' \in Deletion
    BY DEF DeleteSession, Deletion
  <2>2. QED
    BY <1>2, <1>3, <2>1 DEF ClientInv, TypeOK, shown
<1>5. StatusesKnown' /\ SeenIsShown'
  BY <1>2, <1>3, Untouched
<1>6. EmptyWhileCalling'
  BY <1>3 DEF ClientInv, EmptyWhileCalling, isCalling
<1>7. QED
  BY <1>4, <1>5, <1>6 DEF ClientInv

LEMMA StatusStep ==
  ASSUME ClientInv, NEW s \in Sessions, SessionStatus(s)
  PROVE  ClientInv'
<1>1. PICK d \in Status :
        /\ d.active => bridges[d.bridge].of = s
        /\ polls' = [polls EXCEPT ![s] = [at |-> "answered", status |-> d]]
  BY DEF SessionStatus
<1>2. UNCHANGED <<shown, bridgeId, creation, deletion, backend>>
  BY DEF SessionStatus, PageOnly
<1>3. TypeOK'
  <2>1. polls' \in [Sessions -> Poll]
    BY <1>1 DEF ClientInv, TypeOK, Poll
  <2>2. QED
    BY <1>2, <2>1 DEF ClientInv, TypeOK, shown, backend
<1>4. StatusesKnown'
  <2>1. cache' = cache /\ bridges' = bridges
    BY <1>2 DEF shown, backend
  <2>2. ASSUME NEW t \in Sessions
        PROVE  /\ IsOf(cache[t], t)'
               /\ polls'[t].at = "answered" => IsOf(polls[t].status, t)'
    <3>1. CASE t = s
      <4>1. polls'[t].status = d
        BY <1>1, <3>1 DEF ClientInv, TypeOK
      <4>2. QED
        BY <1>1, <2>1, <3>1, <4>1 DEF ClientInv, StatusesKnown, IsOf
    <3>2. CASE t # s
      <4>1. polls'[t] = polls[t]
        BY <1>1, <3>2 DEF ClientInv, TypeOK
      <4>2. QED
        BY <2>1, <4>1 DEF ClientInv, StatusesKnown, IsOf
    <3>3. QED
      BY <3>1, <3>2
  <2>3. QED
    BY <2>2 DEF StatusesKnown, IsOf
<1>5. SeenIsShown' /\ EmptyWhileCalling'
  BY <1>2 DEF ClientInv, SeenIsShown, sessionStatus, StatusOf, shown, EmptyWhileCalling, isCalling
<1>6. QED
  BY <1>3, <1>4, <1>5 DEF ClientInv

(* Calls that others begin and end, and sessions the backend lets go. *)
LEMMA OthersStep ==
  ASSUME ClientInv,
         IsCalled \/ (\E b \in Bridges : OtherEnds(b)) \/ \E s \in Sessions : Detach(s)
  PROVE  ClientInv'
<1>1. UNCHANGED <<shown, bridgeId, polls, creation, deletion, latest>> /\ alive' \subseteq alive
  BY DEF IsCalled, OtherEnds, Detach, PageOnly
<1>2. bridges' \in [Bridges -> Bridge] /\ EndsKept
  <2>1. CASE IsCalled
    <3>1. PICK b \in Bridges, s \in alive : Make(b, s)
      BY <2>1 DEF IsCalled
    <3>2. QED
      BY <3>1, MakeKeeps DEF ClientInv
  <2>2. CASE \E b \in Bridges : OtherEnds(b)
    <3>1. PICK b \in Bridges, l \in {"removed", "stale"} :
            bridges[b].state = "active" /\ bridges' = [bridges EXCEPT ![b].state = l]
      BY <2>2 DEF OtherEnds, Active
    <3>2. QED
      BY <3>1, MoveOn DEF ClientInv
  <2>3. CASE \E s \in Sessions : Detach(s)
    <3>1. bridges' = [b \in Bridges |-> IF Active(b) /\ bridges[b].of \in alive \ alive'
                                          THEN [bridges[b] EXCEPT !.state = "stale"] ELSE bridges[b]]
      <4>1. PICK s \in Sessions : Detach(s)
        BY <2>3
      <4>2. alive \ alive' = {s}
        BY <4>1 DEF Detach
      <4>3. bridges' = [b \in Bridges |-> IF Active(b) /\ bridges[b].of = s
                                            THEN [bridges[b] EXCEPT !.state = "stale"] ELSE bridges[b]]
        BY <4>1 DEF Detach
      <4>4. QED
        BY <4>2, <4>3
    <3>2. ASSUME NEW b \in Bridges
          PROVE  bridges'[b] \in Bridge /\ bridges'[b].of = bridges[b].of
      <4>1. CASE bridges[b].state = "active"
        <5>1. bridges[b] \in [of : Sessions, state : {"active", "stale", "removed"}]
          BY <4>1, BridgeTypes DEF ClientInv, TypeOK
        <5>2. [bridges[b] EXCEPT !.state = "stale"] \in Bridge
              /\ [bridges[b] EXCEPT !.state = "stale"].of = bridges[b].of
          BY <5>1 DEF Bridge
        <5>3. bridges[b] \in Bridge
          BY <5>1 DEF Bridge
        <5>4. bridges'[b] \in {[bridges[b] EXCEPT !.state = "stale"], bridges[b]}
          BY <3>1
        <5>5. QED
          BY <5>2, <5>3, <5>4
      <4>2. CASE bridges[b].state # "active"
        <5>1. bridges'[b] = bridges[b]
          BY <3>1, <4>2 DEF Active
        <5>2. QED
          BY <5>1 DEF ClientInv, TypeOK
      <4>3. QED
        BY <4>1, <4>2
    <3>3. QED
      BY <3>1, <3>2 DEF EndsKept
  <2>4. QED
    BY <2>1, <2>2, <2>3
<1>3. TypeOK'
  BY <1>1, <1>2 DEF ClientInv, TypeOK, shown
<1>4. StatusesKnown' /\ SeenIsShown'
  BY <1>1, <1>2, Untouched
<1>5. EmptyWhileCalling'
  BY <1>1 DEF ClientInv, EmptyWhileCalling, isCalling
<1>6. QED
  BY <1>3, <1>4, <1>5 DEF ClientInv

LEMMA InitInv == Init => ClientInv
<1> SUFFICES ASSUME Init PROVE ClientInv
  OBVIOUS
<1>1. TypeOK
  <2>1. Idle \in Poll /\ Idle \in Creation /\ Idle \in Deletion /\ Unmade \in Bridge
    BY DEF Poll, Creation, Deletion, Bridge
  <2>2. /\ cache \in [Sessions -> Status] /\ polls \in [Sessions -> Poll]
        /\ bridges \in [Bridges -> Bridge]
    BY <2>1, StatusTypes DEF Init
  <2>3. 0 \in 0..MaxSession /\ 0 \in 0..MaxBridge
    BY BoundsAssumption
  <2>4. /\ session \in 0..MaxSession /\ bridgeId \in 0..MaxBridge /\ seen \in BOOLEAN
        /\ latest \in 0..MaxSession /\ alive \subseteq 1..latest
    BY <2>3 DEF Init
  <2>5. creation \in Creation /\ deletion \in Deletion
    BY <2>1 DEF Init
  <2>6. QED
    BY <2>2, <2>4, <2>5 DEF TypeOK
<1>2. StatusesKnown
  BY StatusTypes DEF Init, StatusesKnown, IsOf, Idle
<1>3. SeenIsShown
  BY StatusTypes DEF Init, SeenIsShown, sessionStatus, StatusOf
<1>4. EmptyWhileCalling
  BY DEF Init, EmptyWhileCalling
<1>5. QED
  BY <1>1, <1>2, <1>3, <1>4 DEF ClientInv

LEMMA NextInv == ClientInv /\ [Next]_vars => ClientInv'
<1> SUFFICES ASSUME ClientInv, [Next]_vars PROVE ClientInv'
  OBVIOUS
<1>1. CASE User
  BY <1>1, RequestStep DEF User
<1>2. CASE Answers
  BY <1>2, RequestStep, PollStep, PollAnsweredStep DEF Answers
<1>3. CASE PollSends
  BY <1>3, PollStep
<1>4. CASE Routes
  BY <1>4, CreateStep, DeleteStep, StatusStep DEF Routes
<1>5. CASE World
  BY <1>5, SocketStep, OthersStep DEF World
<1>6. CASE UNCHANGED vars
  <2>1. UNCHANGED <<shown, polls, bridgeId, creation, deletion, backend>>
    BY <1>6 DEF vars
  <2>2. StatusesKnown' /\ SeenIsShown'
    BY <2>1, Untouched DEF EndsKept, backend
  <2>3. TypeOK' /\ EmptyWhileCalling'
    BY <2>1 DEF ClientInv, TypeOK, shown, backend, EmptyWhileCalling, isCalling
  <2>4. QED
    BY <2>2, <2>3 DEF ClientInv
<1>7. QED
  BY <1>1, <1>2, <1>3, <1>4, <1>5, <1>6 DEF Next

(* The inductive invariant. *)
THEOREM Invariance == Spec => []ClientInv
BY InitInv, NextInv, PTL DEF Spec
-----------------------------------------------------------------------------
(* The state of the page and of the backend is of its type: in particular
   session_status answers with a bridge it has made, and the ids the page keeps are
   ids it was given. *)
THEOREM TypeCorrect == Spec => []TypeOK
BY Invariance, PTL DEF ClientInv

(* However late a poll is answered and however often the socket reconnected in
   between, the call the page shows from the status is its own session's. *)
THEOREM StatusOfOwnSession == Spec => []StatusIsOfSession
<1>1. ClientInv => StatusIsOfSession
  <2> SUFFICES ASSUME ClientInv, sessionStatus.active
               PROVE  bridges[sessionStatus.bridge].of = session
    BY DEF StatusIsOfSession
  <2>1. session \in Sessions /\ sessionStatus = cache[session]
    BY StatusTypes, BoundsAssumption DEF ClientInv, TypeOK, sessionStatus, StatusOf, Sessions
  <2>2. QED
    BY <2>1 DEF ClientInv, StatusesKnown, IsOf
<1>2. QED
  BY <1>1, Invariance, PTL

(* A call the page created stays on it until a status has shown it or it is hung
   up, whatever polls and requests are still on their way. *)
THEOREM CreatedCallsStay == Spec => CreatedCallStays
<1> DEFINE Kept(b) == bridgeId = b /\ activeBridgeId = b /\ Active(b) /\ ~seen /\ ~isHangingUp
                        => activeBridgeId' = b \/ sessionStatus'.active
<1>1. ASSUME ClientInv, [Next]_vars, NEW b \in Bridges
      PROVE  Kept(b)
  <2> SUFFICES ASSUME bridgeId = b, ~seen, ~isHangingUp
               PROVE  activeBridgeId' = b \/ sessionStatus'.active
    OBVIOUS
  <2>1. b # 0
    BY BoundsAssumption DEF Bridges
  <2>2. ~isCalling
    BY <1>1, <2>1 DEF ClientInv, EmptyWhileCalling
  <2>3. bridgeId' = b
    <3>1. ~CallStarted /\ ~CallFails /\ ~CallEnded
      BY <1>1, <2>2, CreationTypes, DeletionTypes
         DEF CallStarted, CallFails, CallEnded, isCalling, isHangingUp, ClientInv, TypeOK
    <3>2. ASSUME NEW s, NEW c, Show(s, c)
          PROVE  bridgeId' = b
      BY <3>2 DEF Show, StatusEffect
    <3>3. CASE User \/ PollSends \/ Routes
      BY <3>3 DEF User, StartCall, EndCall, PollSends, Routes, CreateSession, DeleteSession,
                  SessionStatus, PageOnly
    <3>4. CASE Answers
      BY <3>1, <3>2, <3>4 DEF Answers, HangUpFails, PollAnswered, PollFails
    <3>5. CASE World
      BY <3>2, <3>5 DEF World, SessionLost, SessionCreated, IsCalled, OtherEnds, Detach, PageOnly
    <3>6. CASE UNCHANGED vars
      BY <3>6 DEF vars
    <3>7. QED
      BY <1>1, <3>3, <3>4, <3>5, <3>6 DEF Next
  <2>4. activeBridgeId' = IF sessionStatus'.active THEN sessionStatus'.bridge ELSE bridgeId'
    BY DEF activeBridgeId
  <2>5. QED
    BY <2>3, <2>4
<1>2. ClientInv /\ [Next]_vars =>
        [\A b \in Bridges : Kept(b)]_vars
  BY <1>1
<1>3. QED
  BY <1>2, Invariance, PTL DEF Spec, CreatedCallStays
=============================================================================
