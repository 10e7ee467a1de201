---------------------------- MODULE BridgesProofs ----------------------------
(***************************************************************************)
(* Machine-checked proofs about Bridges, for every set of sessions and     *)
(* bridges: BridgeInv is inductive, the safety properties follow from it,  *)
(* and Bridges implements Calls.  PushToTalk, which is Bridges with more   *)
(* state, keeps all of it, and its own properties hold for every number of *)
(* commands.                                                               *)
(***************************************************************************)
EXTENDS PushToTalk, TLAPS

USE NoneAssumption

-----------------------------------------------------------------------------
(* Lifetimes. *)

(* Whatever can still be locked was created: a session id that has not been
   handed out is not referred to by anything. *)
LEMMA AliveCreated ==
  ASSUME BridgeInv, NEW s \in Session, Alive(s)
  PROVE  s \in created
<1>1. CASE s \in wsRef
  BY <1>1 DEF BridgeInv, TypeOK
<1>2. CASE \E r \in Session : sending[r] = s
  BY <1>2 DEF BridgeInv, LifetimesAgree, InFlightFollowsRoute
<1> QED
  BY <1>1, <1>2 DEF Alive

(* The bridge the io thread is working on has two created, different ends. *)
LEMMA CurHasEnds ==
  ASSUME BridgeInv, op # "idle"
  PROVE  /\ cur \in Bridge
         /\ first[cur] \in created /\ second[cur] \in created
         /\ first[cur] \in Session /\ second[cur] \in Session
         /\ first[cur] # second[cur]
BY DEF BridgeInv, TypeOK, HandlerState, BridgeShape

(* While nobody has left, everything that was created is there, so every bridge
   that has ends is active. *)
LEMMA NobodyLeft ==
  ASSUME BridgeInv, created = registered, NEW b \in Bridge, first[b] # None
  PROVE  Active(b)
BY DEF BridgeInv, TypeOK, LifetimesAgree, BridgeShape, Active, Lockable, Alive

(* Both ends of an active bridge are listed under it, or it is being set up and
   they are not listed at all: no two active bridges share an end. *)
LEMMA ActiveUnique ==
  ASSUME BridgeInv, NEW b1 \in Bridge, NEW b2 \in Bridge, NEW s \in Session,
         Active(b1), Active(b2), EndOf(s, b1), EndOf(s, b2)
  PROVE  b1 = b2
<1>1. ASSUME NEW b \in Bridge, Active(b), EndOf(s, b)
      PROVE  IF Connecting(b) THEN entry[s] = None ELSE entry[s] = b
  BY <1>1 DEF BridgeInv, TypeOK, DirectoryAgrees, HandlerState, EndOf, Connecting
<1>2. None # b1 /\ None # b2
  OBVIOUS
<1>3. Connecting(b1) /\ Connecting(b2) => b1 = b2
  BY DEF Connecting
<1> QED
  BY <1>1, <1>2, <1>3

-----------------------------------------------------------------------------
(* BridgeInv is inductive: the initial states and one lemma per action. *)

LEMMA InitInv == Init => BridgeInv
BY DEF Init, BridgeInv, TypeOK, LifetimesAgree, InFlightFollowsRoute, BridgeShape,
   EntryShape, HandlerState, DirectoryAgrees, RoutesInBridges, HeardWhileNobodyLeft,
   Alive, Lockable, Active, Connecting, Settled, EndOf, Between

LEMMA AttachInv ==
  ASSUME BridgeInv, NEW x \in Session, Attach(x)
  PROVE  BridgeInv'
<1>1. \A s \in Session : s # x => (Alive(s)' <=> Alive(s))
  BY DEF BridgeInv, TypeOK, Attach, Alive
<1>2. \A b \in Bridge : Active(b)' <=> Active(b)
  BY <1>1 DEF BridgeInv, TypeOK, BridgeShape, Attach, bridgeVars, Active, Lockable
<1>3. TypeOK'
  BY DEF BridgeInv, TypeOK, Attach, bridgeVars
<1>4. LifetimesAgree'
  BY DEF BridgeInv, TypeOK, LifetimesAgree, Attach, bridgeVars
<1>5. InFlightFollowsRoute'
  BY DEF BridgeInv, TypeOK, InFlightFollowsRoute, Attach, bridgeVars
<1>6. BridgeShape'
  BY DEF BridgeInv, TypeOK, BridgeShape, Attach, bridgeVars
<1>7. EntryShape'
  BY DEF BridgeInv, TypeOK, EntryShape, EndOf, Attach, bridgeVars
<1>8. HandlerState'
  BY DEF BridgeInv, TypeOK, HandlerState, Attach, bridgeVars
<1>9. DirectoryAgrees'
  BY <1>2 DEF BridgeInv, TypeOK, DirectoryAgrees, Connecting, Attach, bridgeVars
<1>10. RoutesInBridges'
  <2>1. SUFFICES ASSUME NEW s \in Session, NEW t \in Session,
                        route[s] = t, Alive(s)', Alive(t)'
                 PROVE  \E b \in Bridge : Between(s, t, b)
    BY DEF RoutesInBridges, Between, Attach, bridgeVars
  <2>2. s # x /\ t # x
    BY <2>1 DEF BridgeInv, LifetimesAgree, Attach
  <2> QED
    BY <1>1, <2>1, <2>2 DEF BridgeInv, RoutesInBridges
<1>11. HeardWhileNobodyLeft'
  <2>1. created' = registered' => created = registered
    BY DEF BridgeInv, TypeOK, Attach
  <2> QED
    BY <1>2, <2>1 DEF BridgeInv, TypeOK, HeardWhileNobodyLeft, Settled, Attach, bridgeVars
<1> QED
  BY <1>3, <1>4, <1>5, <1>6, <1>7, <1>8, <1>9, <1>10, <1>11 DEF BridgeInv

LEMMA DetachInv ==
  ASSUME BridgeInv, NEW x \in Session, Detach(x)
  PROVE  BridgeInv'
<1>1. /\ \A s \in Session : Alive(s)' <=> Alive(s)
      /\ \A b \in Bridge : Active(b)' <=> Active(b)
  BY DEF BridgeInv, TypeOK, Detach, bridgeVars, Alive, Active, Lockable
<1>2. TypeOK'
  BY DEF BridgeInv, TypeOK, Detach, bridgeVars
<1>3. LifetimesAgree'
  BY DEF BridgeInv, TypeOK, LifetimesAgree, Detach, bridgeVars
<1>4. InFlightFollowsRoute'
  BY DEF BridgeInv, TypeOK, InFlightFollowsRoute, Detach, bridgeVars
<1>5. BridgeShape'
  BY DEF BridgeInv, TypeOK, BridgeShape, Detach, bridgeVars
<1>6. EntryShape'
  BY DEF BridgeInv, TypeOK, EntryShape, EndOf, Detach, bridgeVars
<1>7. HandlerState'
  BY <1>1 DEF BridgeInv, TypeOK, HandlerState, Detach, bridgeVars, Lockable
<1>8. DirectoryAgrees'
  BY <1>1 DEF BridgeInv, TypeOK, DirectoryAgrees, Connecting, Detach, bridgeVars
<1>9. RoutesInBridges'
  BY <1>1 DEF BridgeInv, TypeOK, RoutesInBridges, Between, Detach, bridgeVars
<1>10. HeardWhileNobodyLeft'
  BY <1>1 DEF BridgeInv, TypeOK, HeardWhileNobodyLeft, Settled, EndOf, Detach, bridgeVars
<1> QED
  BY <1>2, <1>3, <1>4, <1>5, <1>6, <1>7, <1>8, <1>9, <1>10 DEF BridgeInv

LEMMA ReleaseInv ==
  ASSUME BridgeInv, NEW x \in Session, Release(x)
  PROVE  BridgeInv'
<1>1. /\ \A s \in Session : Alive(s)' => Alive(s)
      /\ \A b \in Bridge : Active(b)' => Active(b)
  BY DEF BridgeInv, TypeOK, Release, bridgeVars, Alive, Active, Lockable
<1>2. TypeOK'
  BY DEF BridgeInv, TypeOK, Release, bridgeVars
<1>3. LifetimesAgree'
  BY DEF BridgeInv, TypeOK, LifetimesAgree, Release, bridgeVars
<1>4. InFlightFollowsRoute'
  BY DEF BridgeInv, TypeOK, InFlightFollowsRoute, Release, bridgeVars
<1>5. BridgeShape'
  BY DEF BridgeInv, TypeOK, BridgeShape, Release, bridgeVars
<1>6. EntryShape'
  BY DEF BridgeInv, TypeOK, EntryShape, EndOf, Release, bridgeVars
<1>7. HandlerState'
  <2>1. Lockable(first[cur])' => Lockable(first[cur])
    BY DEF BridgeInv, TypeOK, Lockable, Alive, Release, bridgeVars
  <2>2. op = "disconnect second" /\ Lockable(first[cur])' => route[first[cur]] = None
    BY <2>1 DEF BridgeInv, HandlerState
  <2> QED
    BY <2>2 DEF BridgeInv, TypeOK, HandlerState, Release, bridgeVars
<1>8. DirectoryAgrees'
  BY <1>1 DEF BridgeInv, TypeOK, DirectoryAgrees, Connecting, Release, bridgeVars
<1>9. RoutesInBridges'
  <2> SUFFICES ASSUME NEW s \in Session, NEW t \in Session,
                      route[s] = t, Alive(s), Alive(t)
               PROVE  \E b \in Bridge : Between(s, t, b)'
    BY <1>1 DEF RoutesInBridges, Release
  <2>1. PICK b \in Bridge : Between(s, t, b)
    BY DEF BridgeInv, RoutesInBridges
  <2> QED
    BY <2>1 DEF Between, Release, bridgeVars
<1>10. HeardWhileNobodyLeft'
  BY <1>1 DEF BridgeInv, TypeOK, HeardWhileNobodyLeft, Settled, EndOf, Release, bridgeVars
<1> QED
  BY <1>2, <1>3, <1>4, <1>5, <1>6, <1>7, <1>8, <1>9, <1>10 DEF BridgeInv

LEMMA RefuseInv ==
  ASSUME BridgeInv, NEW x \in Session, NEW y \in Session, RefuseBusyTarget(x, y)
  PROVE  BridgeInv'
<1>1. /\ \A s \in Session : Alive(s)' <=> Alive(s)
      /\ \A b \in Bridge : Active(b)' <=> Active(b)
  BY DEF BridgeInv, TypeOK, RefuseBusyTarget, bridgeVars, lifeVars, Alive, Active, Lockable
<1>2. TypeOK'
  BY DEF BridgeInv, TypeOK, RefuseBusyTarget, CanBridge, bridgeVars, lifeVars
<1>3. LifetimesAgree'
  BY DEF BridgeInv, TypeOK, LifetimesAgree, RefuseBusyTarget, CanBridge, bridgeVars, lifeVars
<1>4. InFlightFollowsRoute'
  BY DEF BridgeInv, TypeOK, InFlightFollowsRoute, RefuseBusyTarget, CanBridge, bridgeVars, lifeVars
<1>5. BridgeShape'
  BY DEF BridgeInv, TypeOK, BridgeShape, RefuseBusyTarget, CanBridge, bridgeVars, lifeVars
<1>6. EntryShape'
  BY DEF BridgeInv, TypeOK, EntryShape, EndOf, RefuseBusyTarget, CanBridge, bridgeVars, lifeVars
<1>7. HandlerState'
  BY <1>1 DEF BridgeInv, TypeOK, HandlerState, RefuseBusyTarget, CanBridge, bridgeVars, lifeVars, Lockable
<1>8. DirectoryAgrees'
  BY <1>1 DEF BridgeInv, TypeOK, DirectoryAgrees, Connecting, RefuseBusyTarget, CanBridge, bridgeVars, lifeVars, Busy, Active, Lockable
<1>9. RoutesInBridges'
  BY <1>1 DEF BridgeInv, TypeOK, RoutesInBridges, Between, RefuseBusyTarget, CanBridge, bridgeVars, lifeVars
<1>10. HeardWhileNobodyLeft'
  BY <1>1 DEF BridgeInv, TypeOK, HeardWhileNobodyLeft, Settled, EndOf, RefuseBusyTarget, CanBridge, bridgeVars, lifeVars
<1> QED
  BY <1>2, <1>3, <1>4, <1>5, <1>6, <1>7, <1>8, <1>9, <1>10 DEF BridgeInv

LEMMA CreateInv ==
  ASSUME BridgeInv, NEW x \in Session, NEW y \in Session, NEW c \in Bridge, CreateBridge(x, y, c)
  PROVE  BridgeInv'
<1> USE DEF CreateBridge, CanBridge, lifeVars
<1>1. \A s \in Session : Alive(s)' <=> Alive(s)
  BY DEF Alive
<1>2. /\ first[c] = None /\ second[c] = None
      /\ first'[c] = x /\ second'[c] = y
      /\ \A b \in Bridge : b # c => first'[b] = first[b] /\ second'[b] = second[b]
  BY DEF BridgeInv, TypeOK, BridgeShape
<1>3. \A b \in Bridge : b # c => (Active(b)' <=> Active(b))
  BY ZenonT(40), <1>1, <1>2 DEF BridgeInv, TypeOK, Active, Lockable
<1>4. TypeOK'
  BY DEF BridgeInv, TypeOK
<1>5. LifetimesAgree'
  BY DEF BridgeInv, TypeOK, LifetimesAgree
<1>6. InFlightFollowsRoute'
  BY DEF BridgeInv, TypeOK, InFlightFollowsRoute
<1>7. BridgeShape'
  BY <1>2 DEF BridgeInv, TypeOK, BridgeShape
<1>8. EntryShape'
  <2> HIDE DEF CreateBridge, CanBridge, lifeVars
  <2>1. \A s \in Session : entry'[s] # None => entry'[s] = entry[s]
    BY DEF BridgeInv, TypeOK, CreateBridge
  <2>2. SUFFICES ASSUME NEW s \in Session, entry[s] # None
                 PROVE  first'[entry[s]] # None /\ (s = first'[entry[s]] \/ s = second'[entry[s]])
    BY <2>1 DEF EntryShape, EndOf
  <2>3. entry[s] \in Bridge /\ entry[s] # c
    BY ZenonT(40), <1>2, <2>2 DEF BridgeInv, TypeOK, EntryShape
  <2> QED
    BY <1>2, <2>2, <2>3 DEF BridgeInv, EntryShape, EndOf
<1>9. HandlerState'
  <2>1. entry'[x] = None /\ entry'[y] = None
    BY DEF BridgeInv, TypeOK
  <2> QED
    BY <1>2, <2>1 DEF BridgeInv, TypeOK, HandlerState
<1>10. DirectoryAgrees'
  <2>1. SUFFICES ASSUME NEW b \in Bridge, Active(b)', b # c
                 PROVE  entry'[first[b]] = b /\ entry'[second[b]] = b
    BY <1>2 DEF DirectoryAgrees, Connecting
  <2>2. Active(b) /\ entry[first[b]] = b /\ entry[second[b]] = b
    BY <1>3, <2>1 DEF BridgeInv, DirectoryAgrees, Connecting, HandlerState
  <2>3. first[b] \in Session /\ second[b] \in Session
    BY <2>2 DEF BridgeInv, TypeOK, Active, Lockable
  <2>4. ~EndOf(x, b) /\ ~EndOf(y, b)
    BY <2>2, <2>3 DEF Busy, EndOf
  <2> QED
    BY <2>2, <2>3, <2>4 DEF BridgeInv, TypeOK, EndOf
<1>11. RoutesInBridges'
  <2>1. SUFFICES ASSUME NEW s \in Session, NEW t \in Session,
                        route[s] = t, Alive(s)', Alive(t)'
                 PROVE  \E b \in Bridge : Between(s, t, b)'
    BY DEF RoutesInBridges
  <2>2. PICK b \in Bridge : Between(s, t, b)
    BY <1>1, <2>1 DEF BridgeInv, RoutesInBridges
  <2>3. b # c
    BY <1>2, <2>2, ZenonT(60) DEF Between
  <2> QED
    BY <1>2, <2>2, <2>3 DEF Between
<1>12. HeardWhileNobodyLeft'
  <2>1. ASSUME NEW b \in Bridge, Settled(b)'
        PROVE  Settled(b) /\ b # c
    BY <1>3, <2>1 DEF BridgeInv, HandlerState, Settled
  <2> QED
    BY <1>2, <2>1 DEF BridgeInv, HeardWhileNobodyLeft
<1> QED
  BY <1>4, <1>5, <1>6, <1>7, <1>8, <1>9, <1>10, <1>11, <1>12 DEF BridgeInv

LEMMA ConnectFirstInv ==
  ASSUME BridgeInv, ConnectFirst
  PROVE  BridgeInv'
<1> USE DEF ConnectFirst, bridgeVars, lifeVars
<1> DEFINE f == first[cur]
           g == second[cur]
<1>1. /\ \A s \in Session : Alive(s)' <=> Alive(s)
      /\ \A b \in Bridge : Active(b)' <=> Active(b)
  BY DEF Alive, Active, Lockable
<1>2. /\ cur \in Bridge /\ f \in created /\ g \in created /\ f \in Session /\ g \in Session
      /\ f # g /\ Active(cur)
  BY CurHasEnds DEF BridgeInv, LifetimesAgree, HandlerState, Active, Lockable, Alive
<1>3. /\ route'[f] = g
      /\ \A s \in Session : s # f => route'[s] = route[s]
      /\ route' \in [Session -> Session \cup {None}]
  BY <1>2 DEF BridgeInv, TypeOK
<1>4. TypeOK'
  BY <1>3 DEF BridgeInv, TypeOK
<1>5. LifetimesAgree'
  BY <1>2, <1>3 DEF BridgeInv, LifetimesAgree
<1>6. InFlightFollowsRoute'
  BY <1>2, <1>3 DEF BridgeInv, TypeOK, InFlightFollowsRoute
<1>7. BridgeShape'
  BY DEF BridgeInv, BridgeShape
<1>8. EntryShape'
  BY DEF BridgeInv, EntryShape, EndOf
<1>9. HandlerState'
  BY <1>3 DEF BridgeInv, HandlerState
<1>10. DirectoryAgrees'
  BY <1>1 DEF BridgeInv, DirectoryAgrees, Connecting
<1>11. RoutesInBridges'
  <2>1. SUFFICES ASSUME NEW s \in Session, NEW t \in Session,
                        route'[s] = t, Alive(s)', Alive(t)'
                 PROVE  \E b \in Bridge : Between(s, t, b)
    BY ZenonT(120) DEF RoutesInBridges, Between
  <2>2. CASE s = f
    BY <1>2, <1>3, <2>1, <2>2 DEF Between
  <2>3. CASE s # f
    BY <1>1, <1>3, <2>1, <2>3 DEF BridgeInv, RoutesInBridges
  <2> QED
    BY <2>2, <2>3
<1>12. HeardWhileNobodyLeft'
  <2>1. SUFFICES ASSUME created = registered, NEW b \in Bridge, Settled(b)
                 PROVE  route'[first[b]] = second[b] /\ route'[second[b]] = first[b]
    BY <1>1 DEF HeardWhileNobodyLeft, Settled
  <2>2. first[b] \in Session /\ second[b] \in Session
    BY <2>1 DEF BridgeInv, TypeOK, Settled, Active, Lockable
  <2>3. ~EndOf(f, b)
    BY <1>2, <2>1, ActiveUnique DEF Settled, EndOf
  <2> QED
    BY <1>3, <2>1, <2>2, <2>3 DEF BridgeInv, HeardWhileNobodyLeft, EndOf
<1> QED
  BY <1>4, <1>5, <1>6, <1>7, <1>8, <1>9, <1>10, <1>11, <1>12 DEF BridgeInv

LEMMA ConnectSecondInv ==
  ASSUME BridgeInv, ConnectSecond
  PROVE  BridgeInv'
<1> USE DEF ConnectSecond, bridgeVars, lifeVars
<1> DEFINE f == first[cur]
           g == second[cur]
<1>1. /\ \A s \in Session : Alive(s)' <=> Alive(s)
      /\ \A b \in Bridge : Active(b)' <=> Active(b)
  BY DEF Alive, Active, Lockable
<1>2. /\ cur \in Bridge /\ f \in created /\ g \in created /\ f \in Session /\ g \in Session
      /\ f # g /\ Active(cur)
  BY CurHasEnds DEF BridgeInv, LifetimesAgree, HandlerState, Active, Lockable, Alive
<1>3. /\ route'[g] = f
      /\ \A s \in Session : s # g => route'[s] = route[s]
      /\ route' \in [Session -> Session \cup {None}]
  BY <1>2 DEF BridgeInv, TypeOK
<1>4. /\ entry'[f] = cur /\ entry'[g] = cur
      /\ \A s \in Session : s # f /\ s # g => entry'[s] = entry[s]
      /\ entry' \in [Session -> Bridge \cup {None}]
  BY <1>2 DEF BridgeInv, TypeOK
<1>5. /\ entry[f] = None /\ entry[g] = None
      /\ route[f] = g
      /\ Connecting(cur)
  BY DEF BridgeInv, HandlerState, Connecting
<1>6. TypeOK'
  BY <1>3, <1>4 DEF BridgeInv, TypeOK
<1>7. LifetimesAgree'
  BY <1>2, <1>3 DEF BridgeInv, LifetimesAgree
<1>8. InFlightFollowsRoute'
  BY <1>2, <1>3 DEF BridgeInv, TypeOK, InFlightFollowsRoute
<1>9. BridgeShape'
  BY DEF BridgeInv, BridgeShape
<1>10. EntryShape'
  BY <1>2, <1>4 DEF BridgeInv, EntryShape, EndOf
<1>11. HandlerState'
  BY DEF HandlerState
<1>12. DirectoryAgrees'
  <2>1. SUFFICES ASSUME NEW b \in Bridge, Active(b), b # cur
                 PROVE  entry'[first[b]] = b /\ entry'[second[b]] = b
    BY <1>1, <1>4 DEF DirectoryAgrees
  <2>2. first[b] \in Session /\ second[b] \in Session
    BY <2>1 DEF BridgeInv, TypeOK, Active, Lockable
  <2>3. ~EndOf(f, b) /\ ~EndOf(g, b)
    BY <1>2, <2>1, ActiveUnique DEF EndOf
  <2> QED
    BY <1>4, <2>1, <2>2, <2>3 DEF BridgeInv, DirectoryAgrees, Connecting, EndOf
<1>13. RoutesInBridges'
  <2>1. SUFFICES ASSUME NEW s \in Session, NEW t \in Session,
                        route'[s] = t, Alive(s)', Alive(t)'
                 PROVE  \E b \in Bridge : Between(s, t, b)
    BY ZenonT(120) DEF RoutesInBridges, Between
  <2>2. CASE s = g
    BY <1>2, <1>3, <2>1, <2>2 DEF Between
  <2>3. CASE s # g
    BY <1>1, <1>3, <2>1, <2>3 DEF BridgeInv, RoutesInBridges
  <2> QED
    BY <2>2, <2>3
<1>14. HeardWhileNobodyLeft'
  <2>1. SUFFICES ASSUME created = registered, NEW b \in Bridge, Active(b)
                 PROVE  route'[first[b]] = second[b] /\ route'[second[b]] = first[b]
    BY <1>1 DEF HeardWhileNobodyLeft, Settled
  <2>2. first[b] \in Session /\ second[b] \in Session
    BY <2>1 DEF BridgeInv, TypeOK, Active, Lockable
  <2>3. CASE b = cur
    BY <1>2, <1>3, <1>5, <2>3
  <2>4. CASE b # cur
    <3>1. ~EndOf(g, b)
      BY <1>2, <2>1, <2>4, ActiveUnique DEF EndOf
    <3> QED
      BY <1>3, <2>1, <2>2, <2>4, <3>1 DEF BridgeInv, HeardWhileNobodyLeft, Settled, EndOf
  <2> QED
    BY <2>3, <2>4
<1> QED
  BY <1>6, <1>7, <1>8, <1>9, <1>10, <1>11, <1>12, <1>13, <1>14 DEF BridgeInv

LEMMA RemoveDeadInv ==
  ASSUME BridgeInv, NEW c \in Bridge, RemoveDead(c)
  PROVE  BridgeInv'
<1> USE DEF RemoveDead, bridgeVars, lifeVars
<1>1. /\ \A s \in Session : Alive(s)' <=> Alive(s)
      /\ \A b \in Bridge : Active(b)' <=> Active(b)
  BY DEF Alive, Active, Lockable
<1>2. /\ entry' \in [Session -> Bridge \cup {None}]
      /\ \A s \in Session : entry'[s] = IF entry[s] = c THEN None ELSE entry[s]
  BY DEF BridgeInv, TypeOK, Erased
<1>3. TypeOK'
  BY <1>2 DEF BridgeInv, TypeOK
<1>4. LifetimesAgree'
  BY DEF BridgeInv, LifetimesAgree
<1>5. InFlightFollowsRoute'
  BY DEF BridgeInv, InFlightFollowsRoute
<1>6. BridgeShape'
  BY DEF BridgeInv, BridgeShape
<1>7. EntryShape'
  BY <1>2 DEF BridgeInv, EntryShape, EndOf
<1>8. HandlerState'
  BY DEF BridgeInv, HandlerState
<1>9. DirectoryAgrees'
  <2>1. SUFFICES ASSUME NEW b \in Bridge, Active(b)
                 PROVE  entry'[first[b]] = b /\ entry'[second[b]] = b
    BY <1>1 DEF DirectoryAgrees
  <2>2. /\ b # c /\ ~Connecting(b)
        /\ first[b] \in Session /\ second[b] \in Session
    BY <2>1 DEF BridgeInv, TypeOK, Active, Lockable, Connecting
  <2> QED
    BY <1>2, <2>1, <2>2 DEF BridgeInv, DirectoryAgrees
<1>10. RoutesInBridges'
  BY <1>1 DEF BridgeInv, RoutesInBridges, Between
<1>11. HeardWhileNobodyLeft'
  BY <1>1 DEF BridgeInv, HeardWhileNobodyLeft, Settled
<1> QED
  BY <1>3, <1>4, <1>5, <1>6, <1>7, <1>8, <1>9, <1>10, <1>11 DEF BridgeInv

LEMMA RemoveInv ==
  ASSUME BridgeInv, NEW c \in Bridge, RemoveBridge(c)
  PROVE  BridgeInv'
<1> USE DEF RemoveBridge, bridgeVars, lifeVars
<1>1. /\ \A s \in Session : Alive(s)' <=> Alive(s)
      /\ \A b \in Bridge : Active(b)' <=> Active(b)
  BY DEF Alive, Active, Lockable
<1>2. first[c] # None
  BY DEF BridgeInv, EntryShape
<1>3. TypeOK'
  BY DEF BridgeInv, TypeOK
<1>4. LifetimesAgree'
  BY DEF BridgeInv, LifetimesAgree
<1>5. InFlightFollowsRoute'
  BY DEF BridgeInv, InFlightFollowsRoute
<1>6. BridgeShape'
  BY DEF BridgeInv, BridgeShape
<1>7. EntryShape'
  BY DEF BridgeInv, EntryShape, EndOf
<1>8. HandlerState'
  BY <1>2 DEF HandlerState
<1>9. DirectoryAgrees'
  BY <1>1 DEF BridgeInv, DirectoryAgrees, Connecting
<1>10. RoutesInBridges'
  BY ZenonT(120), <1>1 DEF BridgeInv, RoutesInBridges, Between
<1>11. HeardWhileNobodyLeft'
  BY <1>1 DEF BridgeInv, HeardWhileNobodyLeft, HandlerState, Settled
<1> QED
  BY <1>3, <1>4, <1>5, <1>6, <1>7, <1>8, <1>9, <1>10, <1>11 DEF BridgeInv

LEMMA DisconnectFirstInv ==
  ASSUME BridgeInv, DisconnectFirst
  PROVE  BridgeInv'
<1> USE DEF DisconnectFirst, bridgeVars, lifeVars
<1> DEFINE f == first[cur]
<1>1. /\ \A s \in Session : Alive(s)' <=> Alive(s)
      /\ \A b \in Bridge : Active(b)' <=> Active(b)
  BY DEF Alive, Active, Lockable
<1>2. /\ cur \in Bridge /\ f \in Session /\ f # None
  BY CurHasEnds
<1>3. /\ \A s \in Session : s # f => route'[s] = route[s]
      /\ route'[f] = IF Alive(f) THEN None ELSE route[f]
      /\ route' \in [Session -> Session \cup {None}]
      /\ Alive(f) => sending[f] = None
  BY <1>2 DEF BridgeInv, TypeOK, Silence, Lockable
<1>4. TypeOK'
  BY <1>3 DEF BridgeInv, TypeOK
<1>5. LifetimesAgree'
  BY <1>3 DEF BridgeInv, LifetimesAgree
<1>6. InFlightFollowsRoute'
  BY <1>3 DEF BridgeInv, InFlightFollowsRoute
<1>7. BridgeShape'
  BY DEF BridgeInv, BridgeShape
<1>8. EntryShape'
  BY DEF BridgeInv, EntryShape, EndOf
<1>9. HandlerState'
  BY <1>1, <1>2, <1>3 DEF BridgeInv, HandlerState, Lockable
<1>10. DirectoryAgrees'
  BY <1>1 DEF BridgeInv, DirectoryAgrees, Connecting
<1>11. RoutesInBridges'
  <2>1. SUFFICES ASSUME NEW s \in Session, NEW t \in Session,
                        route'[s] = t, Alive(s), Alive(t)
                 PROVE  \E b \in Bridge : Between(s, t, b)
    BY ZenonT(40), <1>1 DEF RoutesInBridges, Between
  <2>2. route[s] = t
    BY <1>3, <2>1
  <2> QED
    BY <2>1, <2>2 DEF BridgeInv, RoutesInBridges
<1>12. HeardWhileNobodyLeft'
  <2>1. SUFFICES ASSUME created = registered, NEW b \in Bridge, Settled(b)
                 PROVE  route'[first[b]] = second[b] /\ route'[second[b]] = first[b]
    BY <1>1 DEF HeardWhileNobodyLeft, Settled
  <2>2. first[b] \in Session /\ second[b] \in Session
    BY <2>1 DEF BridgeInv, TypeOK, Settled, Active, Lockable
  <2>3. Active(cur)
    BY <1>2, <2>1, NobodyLeft
  <2>4. ~EndOf(f, b)
    BY <1>2, <2>1, <2>3, ActiveUnique DEF Settled, EndOf
  <2> QED
    BY <1>3, <2>1, <2>2, <2>4 DEF BridgeInv, HeardWhileNobodyLeft, EndOf
<1> QED
  BY <1>4, <1>5, <1>6, <1>7, <1>8, <1>9, <1>10, <1>11, <1>12 DEF BridgeInv

LEMMA DisconnectSecondInv ==
  ASSUME BridgeInv, DisconnectSecond
  PROVE  BridgeInv'
<1> USE DEF DisconnectSecond, lifeVars
<1> DEFINE f == first[cur]
           g == second[cur]
<1>1. \A s \in Session : Alive(s)' <=> Alive(s)
  BY DEF Alive
<1>2. /\ cur \in Bridge /\ f \in Session /\ g \in Session /\ g # None /\ f # g
      /\ ~Connecting(cur)
  BY CurHasEnds DEF Connecting
<1>3. /\ \A s \in Session : s # g => route'[s] = route[s]
      /\ route'[g] = IF Alive(g) THEN None ELSE route[g]
      /\ route' \in [Session -> Session \cup {None}]
      /\ Alive(g) => sending[g] = None
  BY <1>2 DEF BridgeInv, TypeOK, Silence, Lockable
<1>4. /\ first'[cur] = None /\ second'[cur] = None
      /\ \A b \in Bridge : b # cur => first'[b] = first[b] /\ second'[b] = second[b]
  BY <1>2 DEF BridgeInv, TypeOK
<1>5. \A b \in Bridge : Active(b)' <=> Active(b) /\ b # cur
  BY ZenonT(40), <1>1, <1>4 DEF BridgeInv, TypeOK, Active, Lockable
<1>6. /\ entry' \in [Session -> Bridge \cup {None}]
      /\ \A s \in Session : entry'[s] = IF entry[s] = cur THEN None ELSE entry[s]
  BY DEF BridgeInv, TypeOK, Erased
<1>7. TypeOK'
  BY <1>3, <1>6 DEF BridgeInv, TypeOK
<1>8. LifetimesAgree'
  BY <1>3 DEF BridgeInv, LifetimesAgree
<1>9. InFlightFollowsRoute'
  BY <1>3 DEF BridgeInv, InFlightFollowsRoute
<1>10. BridgeShape'
  <2>1. SUFFICES ASSUME NEW b \in Bridge
                 PROVE  /\ first'[b] = None <=> second'[b] = None
                        /\ first'[b] # None =>
                             /\ b \in made /\ first'[b] # second'[b]
                             /\ first'[b] \in created /\ second'[b] \in created
    BY DEF BridgeShape
  <2> QED
    BY <1>4 DEF BridgeInv, BridgeShape
<1>11. EntryShape'
  <2>1. SUFFICES ASSUME NEW s \in Session, entry[s] # None, entry[s] # cur
                 PROVE  first'[entry[s]] # None /\ (s = first'[entry[s]] \/ s = second'[entry[s]])
    BY <1>6 DEF EntryShape, EndOf
  <2>2. entry[s] \in Bridge
    BY <2>1 DEF BridgeInv, TypeOK
  <2> QED
    BY <1>4, <2>1, <2>2 DEF BridgeInv, EntryShape, EndOf
<1>12. HandlerState'
  BY DEF HandlerState
<1>13. DirectoryAgrees'
  <2>1. SUFFICES ASSUME NEW b \in Bridge, Active(b), b # cur
                 PROVE  entry'[first[b]] = b /\ entry'[second[b]] = b
    BY <1>4, <1>5 DEF DirectoryAgrees
  <2>2. first[b] \in Session /\ second[b] \in Session /\ ~Connecting(b)
    BY <2>1 DEF BridgeInv, TypeOK, Active, Lockable, Connecting
  <2> QED
    BY <1>6, <2>1, <2>2 DEF BridgeInv, DirectoryAgrees
<1>14. RoutesInBridges'
  <2>1. SUFFICES ASSUME NEW s \in Session, NEW t \in Session,
                        route'[s] = t, Alive(s), Alive(t)
                 PROVE  \E b \in Bridge : Between(s, t, b)'
    BY <1>1 DEF RoutesInBridges
  <2>2. route[s] = t /\ s # g
    BY <1>3, <2>1
  <2>3. s # f
    BY <2>1, <2>2 DEF BridgeInv, HandlerState, Lockable
  <2>4. PICK b \in Bridge : Between(s, t, b)
    BY <2>1, <2>2 DEF BridgeInv, RoutesInBridges
  <2>5. b # cur
    BY <2>2, <2>3, <2>4 DEF Between
  <2> QED
    BY <1>4, <2>4, <2>5 DEF Between
<1>15. HeardWhileNobodyLeft'
  <2>1. SUFFICES ASSUME created = registered, NEW b \in Bridge, Active(b), b # cur
                 PROVE  route'[first[b]] = second[b] /\ route'[second[b]] = first[b]
    BY <1>4, <1>5 DEF HeardWhileNobodyLeft, Settled
  <2>2. first[b] \in Session /\ second[b] \in Session
    BY <2>1 DEF BridgeInv, TypeOK, Active, Lockable
  <2>3. Active(cur)
    BY <1>2, <2>1, CurHasEnds, NobodyLeft
  <2>4. ~EndOf(g, b)
    BY <1>2, <2>1, <2>3, ActiveUnique DEF EndOf
  <2> QED
    BY <1>3, <2>1, <2>2, <2>4 DEF BridgeInv, HeardWhileNobodyLeft, Settled, EndOf
<1> QED
  BY <1>7, <1>8, <1>9, <1>10, <1>11, <1>12, <1>13, <1>14, <1>15 DEF BridgeInv

LEMMA ReceiveInv ==
  ASSUME BridgeInv, NEW x \in Session, Receive(x)
  PROVE  BridgeInv'
<1>1. /\ \A s \in Session : Alive(s)' <=> Alive(s)
      /\ \A b \in Bridge : Active(b)' <=> Active(b)
  BY ZenonT(40) DEF BridgeInv, TypeOK, Receive, bridgeVars, lifeVars, Alive, Active, Lockable
<1>2. TypeOK'
  BY DEF BridgeInv, TypeOK, Receive, bridgeVars, lifeVars
<1>3. LifetimesAgree'
  BY DEF BridgeInv, TypeOK, LifetimesAgree, Receive, bridgeVars, lifeVars
<1>4. InFlightFollowsRoute'
  BY DEF BridgeInv, TypeOK, InFlightFollowsRoute, Receive, bridgeVars, lifeVars
<1>5. BridgeShape'
  BY DEF BridgeInv, TypeOK, BridgeShape, Receive, bridgeVars, lifeVars
<1>6. EntryShape'
  BY DEF BridgeInv, TypeOK, EntryShape, EndOf, Receive, bridgeVars, lifeVars
<1>7. HandlerState'
  BY <1>1 DEF BridgeInv, TypeOK, HandlerState, Receive, bridgeVars, lifeVars, Lockable
<1>8. DirectoryAgrees'
  BY <1>1 DEF BridgeInv, TypeOK, DirectoryAgrees, Connecting, Receive, bridgeVars, lifeVars
<1>9. RoutesInBridges'
  BY ZenonT(40), <1>1 DEF BridgeInv, TypeOK, RoutesInBridges, Between, Receive, bridgeVars, lifeVars
<1>10. HeardWhileNobodyLeft'
  BY <1>1 DEF BridgeInv, TypeOK, HeardWhileNobodyLeft, Settled, EndOf, Receive, bridgeVars, lifeVars
<1> QED
  BY <1>2, <1>3, <1>4, <1>5, <1>6, <1>7, <1>8, <1>9, <1>10 DEF BridgeInv

LEMMA FinishSendInv ==
  ASSUME BridgeInv, NEW x \in Session, FinishSend(x)
  PROVE  BridgeInv'
<1>1. /\ \A s \in Session : Alive(s)' => Alive(s)
      /\ \A b \in Bridge : Active(b)' => Active(b)
  BY DEF BridgeInv, TypeOK, FinishSend, bridgeVars, lifeVars, Alive, Active, Lockable
<1>2. TypeOK'
  BY DEF BridgeInv, TypeOK, FinishSend, bridgeVars, lifeVars
<1>3. LifetimesAgree'
  BY DEF BridgeInv, TypeOK, LifetimesAgree, FinishSend, bridgeVars, lifeVars
<1>4. InFlightFollowsRoute'
  BY DEF BridgeInv, TypeOK, InFlightFollowsRoute, FinishSend, bridgeVars, lifeVars
<1>5. BridgeShape'
  BY DEF BridgeInv, TypeOK, BridgeShape, FinishSend, bridgeVars, lifeVars
<1>6. EntryShape'
  BY DEF BridgeInv, TypeOK, EntryShape, EndOf, FinishSend, bridgeVars, lifeVars
<1>7. HandlerState'
  BY <1>1 DEF BridgeInv, TypeOK, HandlerState, FinishSend, bridgeVars, lifeVars, Lockable
<1>8. DirectoryAgrees'
  BY <1>1 DEF BridgeInv, TypeOK, DirectoryAgrees, Connecting, FinishSend, bridgeVars, lifeVars
<1>9. RoutesInBridges'
  BY ZenonT(120), <1>1 DEF BridgeInv, TypeOK, RoutesInBridges, Between, FinishSend, bridgeVars, lifeVars
<1>10. HeardWhileNobodyLeft'
  BY <1>1 DEF BridgeInv, TypeOK, HeardWhileNobodyLeft, Settled, EndOf, FinishSend, bridgeVars, lifeVars
<1> QED
  BY <1>2, <1>3, <1>4, <1>5, <1>6, <1>7, <1>8, <1>9, <1>10 DEF BridgeInv

(* Every step, stuttering included, preserves BridgeInv. *)
LEMMA StepInv == BridgeInv /\ [Next]_vars => BridgeInv'
<1> SUFFICES ASSUME BridgeInv, [Next]_vars
             PROVE  BridgeInv'
  OBVIOUS
<1>1. CASE Next
  <2>1. CASE Sockets
    BY <2>1, AttachInv, DetachInv, ReleaseInv DEF Sockets
  <2>2. CASE Requests
    BY <2>2, RefuseInv, CreateInv, RemoveDeadInv, RemoveInv DEF Requests
  <2>3. CASE Callbacks
    BY <2>3, ConnectFirstInv, ConnectSecondInv, DisconnectFirstInv, DisconnectSecondInv
       DEF Callbacks
  <2>4. CASE Audio
    BY <2>4, ReceiveInv, FinishSendInv DEF Audio
  <2> QED
    BY <1>1, <2>1, <2>2, <2>3, <2>4 DEF Next
<1>2. CASE UNCHANGED vars
  <2>1. /\ \A s \in Session : Alive(s)' <=> Alive(s)
        /\ \A b \in Bridge : Active(b)' <=> Active(b)
    BY <1>2 DEF vars, Alive, Active, Lockable
  <2>2. TypeOK' /\ LifetimesAgree' /\ InFlightFollowsRoute' /\ BridgeShape'
    BY <1>2 DEF vars, BridgeInv, TypeOK, LifetimesAgree, InFlightFollowsRoute, BridgeShape
  <2>3. EntryShape' /\ HandlerState'
    BY <1>2, <2>1 DEF vars, BridgeInv, EntryShape, HandlerState, EndOf, Lockable, Alive
  <2>4. DirectoryAgrees'
    BY <1>2, <2>1 DEF vars, BridgeInv, DirectoryAgrees, Connecting
  <2>5. RoutesInBridges'
    BY <1>2, <2>1 DEF vars, BridgeInv, RoutesInBridges, Between
  <2>6. HeardWhileNobodyLeft'
    BY <1>2, <2>1 DEF vars, BridgeInv, HeardWhileNobodyLeft, Settled
  <2> QED
    BY <2>2, <2>3, <2>4, <2>5, <2>6 DEF BridgeInv
<1> QED
  BY <1>1, <1>2

(* The invariant holds in every reachable state: with it the types, the
   agreement of the directory with the active bridges, and that two connected
   parties hear each other as long as nobody has left. *)
THEOREM Invariance == Spec => []BridgeInv
<1>1. Init => BridgeInv
  BY InitInv
<1>2. BridgeInv /\ [Next]_vars => BridgeInv'
  BY StepInv
<1> QED
  BY <1>1, <1>2, PTL DEF Spec

-----------------------------------------------------------------------------
(* The safety properties. *)

(* Every variable keeps its type: weak pointers, entries and callbacks name
   sessions and bridges that exist, and nobody is registered who was not created. *)
THEOREM TypeCorrect == Spec => []TypeOK
<1>1. BridgeInv => TypeOK
  BY DEF BridgeInv
<1> QED
  BY <1>1, Invariance, PTL

(* A session is never in two active bridges. *)
THEOREM NobodyInTwoCalls == Spec => []OneCallPerSession
<1>1. BridgeInv => OneCallPerSession
  BY ActiveUnique DEF OneCallPerSession
<1> QED
  BY <1>1, Invariance, PTL

(* The directory lists both ends of every active bridge under it. *)
THEOREM DirectoryIsRight == Spec => []DirectoryAgrees
<1>1. BridgeInv => DirectoryAgrees
  BY DEF BridgeInv
<1> QED
  BY <1>1, Invariance, PTL

(* A frame in delivery stays within an active bridge. *)
THEOREM AudioIsPrivate == Spec => []CallPrivacy
<1>1. ASSUME BridgeInv, NEW s \in Session, sending[s] # None, Alive(s)
      PROVE  \E b \in Bridge : Active(b) /\ Between(s, sending[s], b)
  <2>1. /\ sending[s] \in Session
        /\ route[s] = sending[s]
        /\ Alive(sending[s])
    BY <1>1 DEF BridgeInv, TypeOK, InFlightFollowsRoute, Alive
  <2>2. PICK b \in Bridge : Between(s, sending[s], b)
    BY <1>1, <2>1 DEF BridgeInv, RoutesInBridges
  <2>3. Active(b)
    BY <1>1, <2>1, <2>2 DEF Active, Lockable, Between
  <2> QED
    BY <2>2, <2>3
<1>2. BridgeInv => CallPrivacy
  BY <1>1 DEF CallPrivacy
<1> QED
  BY <1>2, Invariance, PTL

(* As long as nobody has left, both ends of a settled bridge hear each other. *)
THEOREM HeardIfAllStay == Spec => []HeardWhileNobodyLeft
<1>1. BridgeInv => HeardWhileNobodyLeft
  BY DEF BridgeInv
<1> QED
  BY <1>1, Invariance, PTL

(* No step but the end of its own removal ends the bridge of two sessions that
   are both registered. *)
THEOREM CallsLast == Spec => CallEndsOnlyByHangUpOrLeaving
<1>1. ASSUME BridgeInv, [Next]_vars, NEW b \in Bridge, Active(b),
             first[b] \in registered, second[b] \in registered,
             ~(op = "disconnect second" /\ cur = b)
      PROVE  Active(b)'
  <2>1. first'[b] = first[b] /\ second'[b] = second[b]
    <3>1. b \in made /\ first[b] \in Session /\ second[b] \in Session
      BY <1>1 DEF BridgeInv, TypeOK, BridgeShape, Active, Lockable
    <3>2. ASSUME NEW x \in Session, NEW y \in Session, NEW c \in Bridge, CreateBridge(x, y, c)
          PROVE  first'[b] = first[b] /\ second'[b] = second[b]
      BY <1>1, <3>1, <3>2 DEF CreateBridge, BridgeInv, TypeOK
    <3>3. ASSUME DisconnectSecond
          PROVE  first'[b] = first[b] /\ second'[b] = second[b]
      BY <1>1, <3>3 DEF DisconnectSecond, BridgeInv, TypeOK
    <3>4. \/ UNCHANGED <<first, second>>
          \/ DisconnectSecond
          \/ \E x, y \in Session, c \in Bridge : CreateBridge(x, y, c)
      BY <1>1 DEF Next, Sockets, Requests, Callbacks, Audio, vars, bridgeVars, Attach, Detach,
         Release, RefuseBusyTarget, ConnectFirst, ConnectSecond, RemoveDead, RemoveBridge,
         DisconnectFirst, Receive, FinishSend
    <3> QED
      BY <3>2, <3>3, <3>4
  <2>2. \A s \in Session : s \in registered => s \in wsRef'
    <3>1. registered \subseteq wsRef
      BY <1>1 DEF BridgeInv, LifetimesAgree
    <3>2. CASE Sockets
      <4>1. PICK x \in Session : Attach(x) \/ Detach(x) \/ Release(x)
        BY <3>2 DEF Sockets
      <4> QED
        BY <3>1, <4>1 DEF Attach, Detach, Release
    <3>3. CASE Requests
      BY <3>1, <3>3 DEF Requests, RefuseBusyTarget, CreateBridge, RemoveDead, RemoveBridge, lifeVars
    <3>4. CASE Callbacks
      BY <3>1, <3>4 DEF Callbacks, ConnectFirst, ConnectSecond, DisconnectFirst,
         DisconnectSecond, lifeVars
    <3>5. CASE Audio
      BY <3>1, <3>5 DEF Audio, Receive, FinishSend, lifeVars
    <3>6. CASE UNCHANGED vars
      BY <3>1, <3>6 DEF vars
    <3> QED
      BY <1>1, <3>2, <3>3, <3>4, <3>5, <3>6 DEF Next
  <2> QED
    BY <1>1, <2>1, <2>2 DEF BridgeInv, TypeOK, Active, Lockable, Alive
<1>2. ASSUME BridgeInv, [Next]_vars
      PROVE  [\A b \in Bridge :
                Active(b) /\ first[b] \in registered /\ second[b] \in registered /\ ~Active(b)'
                  => op = "disconnect second" /\ cur = b]_vars
  BY <1>1, <1>2
<1> QED
  BY <1>2, Invariance, PTL DEF Spec, CallEndsOnlyByHangUpOrLeaving

-----------------------------------------------------------------------------
(* Refinement: the steps that start, change or end no call stutter. *)

LEMMA InitRefines == Init => Promise!Init
BY DEF Init, Promise!Init, callRel, hearsRel, Active, Lockable, Alive, Between

(* Relations on sessions, pair by pair. *)
LEMMA SamePairs ==
  ASSUME NEW R, NEW Q, R \subseteq Session \X Session, Q \subseteq Session \X Session,
         \A s, t \in Session : <<s, t>> \in Q <=> <<s, t>> \in R
  PROVE  Q = R
OBVIOUS

LEMMA AddBothWays ==
  ASSUME NEW R, NEW Q, R \subseteq Session \X Session, Q \subseteq Session \X Session,
         NEW x \in Session, NEW y \in Session,
         \A s, t \in Session :
           <<s, t>> \in Q <=> <<s, t>> \in R \/ (s = x /\ t = y) \/ (s = y /\ t = x)
  PROVE  Q = R \cup {<<x, y>>, <<y, x>>}
<1>1. ASSUME NEW p \in Session \X Session
      PROVE  p \in Q <=> p \in R \cup {<<x, y>>, <<y, x>>}
  OBVIOUS
<1>2. <<x, y>> \in Q /\ <<y, x>> \in Q /\ R \subseteq Q
  OBVIOUS
<1>3. Q \subseteq R \cup {<<x, y>>, <<y, x>>}
  BY <1>1
<1> QED
  BY <1>2, <1>3

LEMMA AddOneWay ==
  ASSUME NEW R, NEW Q, R \subseteq Session \X Session, Q \subseteq Session \X Session,
         NEW x \in Session, NEW y \in Session,
         \A s, t \in Session : <<s, t>> \in Q <=> <<s, t>> \in R \/ (s = x /\ t = y)
  PROVE  Q = R \cup {<<x, y>>}
<1>1. ASSUME NEW p \in Session \X Session
      PROVE  p \in Q <=> p \in R \cup {<<x, y>>}
  OBVIOUS
<1>2. <<x, y>> \in Q /\ R \subseteq Q
  OBVIOUS
<1>3. Q \subseteq R \cup {<<x, y>>}
  BY <1>1
<1> QED
  BY <1>2, <1>3

LEMMA RemoveBothWays ==
  ASSUME NEW R, NEW Q, R \subseteq Session \X Session, Q \subseteq Session \X Session,
         NEW x \in Session, NEW y \in Session,
         \A s, t \in Session :
           <<s, t>> \in Q <=> <<s, t>> \in R /\ ~(s = x /\ t = y) /\ ~(s = y /\ t = x)
  PROVE  Q = R \ {<<x, y>>, <<y, x>>}
<1>1. ASSUME NEW p \in Session \X Session
      PROVE  p \in Q <=> p \in R \ {<<x, y>>, <<y, x>>}
  OBVIOUS
<1> QED
  BY <1>1

LEMMA RemoveSpeaker ==
  ASSUME NEW R, NEW Q, R \subseteq Session \X Session, Q \subseteq Session \X Session,
         NEW x \in Session,
         \A s, t \in Session : <<s, t>> \in Q <=> <<s, t>> \in R /\ s # x
  PROVE  Q = {h \in R : h[1] # x}
<1>1. ASSUME NEW p \in Session \X Session
      PROVE  p \in Q <=> p \in {h \in R : h[1] # x}
  OBVIOUS
<1> QED
  BY <1>1

(* The pairs of the two mapped relations, before and after a step. *)
LEMMA CallPairs ==
  /\ callRel \subseteq Session \X Session
  /\ callRel' \subseteq Session \X Session
  /\ \A s, t \in Session :
       /\ <<s, t>> \in callRel <=> \E b \in Bridge : Active(b) /\ Between(s, t, b)
       /\ <<s, t>> \in callRel' <=> \E b \in Bridge : Active(b)' /\ Between(s, t, b)'
BY DEF callRel, Between

LEMMA HearsPairs ==
  /\ hearsRel \subseteq Session \X Session
  /\ hearsRel' \subseteq Session \X Session
  /\ \A s, t \in Session :
       /\ <<s, t>> \in hearsRel <=> route[s] = t /\ Alive(s) /\ Alive(t)
       /\ <<s, t>> \in hearsRel' <=> route'[s] = t /\ Alive(s)' /\ Alive(t)'
BY DEF hearsRel

(* A step that leaves the ends, the routes and the lifetimes as they are. *)
LEMMA SameCalls ==
  ASSUME UNCHANGED <<first, second, route>>,
         \A s \in Session : Alive(s)' <=> Alive(s),
         \A b \in Bridge : Active(b)' <=> Active(b)
  PROVE  UNCHANGED <<callRel, hearsRel>>
BY DEF callRel, hearsRel, Between

(* Creating the bridge begins the call. *)
LEMMA CreateRefines ==
  ASSUME BridgeInv, NEW x \in Session, NEW y \in Session, NEW c \in Bridge, CreateBridge(x, y, c)
  PROVE  Promise!Begin(x, y)
<1> USE DEF CreateBridge, CanBridge, lifeVars
<1>1. \A s \in Session : Alive(s)' <=> Alive(s)
  BY DEF Alive
<1>2. /\ first[c] = None /\ second[c] = None
      /\ first'[c] = x /\ second'[c] = y
      /\ \A b \in Bridge : b # c => first'[b] = first[b] /\ second'[b] = second[b]
  BY DEF BridgeInv, TypeOK, BridgeShape
<1>3. Active(c)' /\ ~Active(c)
  BY <1>1, <1>2, ZenonT(60) DEF BridgeInv, LifetimesAgree, Active, Lockable, Alive
<1>4. \A b \in Bridge : b # c => (Active(b)' <=> Active(b))
  BY ZenonT(40), <1>1, <1>2 DEF BridgeInv, TypeOK, Active, Lockable
<1>5. ASSUME NEW s \in Session, ~Busy(s)
      PROVE  ~Promise!InCall(s)
  <2>1. SUFFICES ASSUME NEW t \in Session, NEW b \in Bridge, Active(b), Between(s, t, b)
                 PROVE  FALSE
    BY DEF Promise!InCall, callRel
  <2>2. entry[s] = b
    BY <2>1 DEF BridgeInv, DirectoryAgrees, Connecting, HandlerState, Between
  <2> QED
    BY <1>5, <2>1, <2>2 DEF Busy
<1>6. callRel' = callRel \cup {<<x, y>>, <<y, x>>}
  <2>1. ASSUME NEW s \in Session, NEW t \in Session
        PROVE  <<s, t>> \in callRel' <=>
                 <<s, t>> \in callRel \/ (s = x /\ t = y) \/ (s = y /\ t = x)
    <3>1. \A b \in Bridge : b # c => (Between(s, t, b)' <=> Between(s, t, b))
      BY <1>2 DEF Between
    <3>2. Between(s, t, c)' <=> (s = x /\ t = y) \/ (s = y /\ t = x)
      BY <1>2 DEF Between
    <3>3. ~Between(s, t, c)
      BY <1>2 DEF Between
    <3> QED
      BY <1>3, <1>4, <3>1, <3>2, <3>3, CallPairs
  <2>2. callRel \subseteq Session \X Session /\ callRel' \subseteq Session \X Session
    BY CallPairs
  <2>3. \A s, t \in Session :
          <<s, t>> \in callRel' <=> <<s, t>> \in callRel \/ (s = x /\ t = y) \/ (s = y /\ t = x)
    BY <2>1
  <2> HIDE DEF CreateBridge, CanBridge, lifeVars
  <2> QED
    BY <2>2, <2>3, AddBothWays
<1>7. hearsRel' = hearsRel
  BY <1>1 DEF hearsRel
<1> QED
  BY <1>5, <1>6, <1>7 DEF Promise!Begin

(* Each on_audio of Bridge::connect brings up one direction. *)
LEMMA LinkRefines ==
  ASSUME BridgeInv, UNCHANGED <<first, second, sending, wsRef>>,
         NEW b \in Bridge, Active(b),
         NEW x \in Session, NEW y \in Session, Between(x, y, b),
         route' = [route EXCEPT ![x] = y]
  PROVE  Promise!Link(x, y)
<1>1. /\ \A s \in Session : Alive(s)' <=> Alive(s)
      /\ \A c \in Bridge : Active(c)' <=> Active(c)
  BY DEF Alive, Active, Lockable
<1>2. Alive(x) /\ Alive(y)
  BY DEF Active, Lockable, Between
<1>3. callRel' = callRel
  BY <1>1 DEF callRel, Between
<1>4. <<x, y>> \in callRel
  BY CallPairs
<1>5. /\ route'[x] = y
      /\ \A s \in Session : s # x => route'[s] = route[s]
  BY DEF BridgeInv, TypeOK
<1>6. ASSUME NEW t \in Session, route[x] = t, Alive(t)
      PROVE  t = y
  <2>1. PICK c \in Bridge : Between(x, t, c)
    BY <1>2, <1>6 DEF BridgeInv, RoutesInBridges
  <2>2. Active(c) /\ EndOf(x, c) /\ EndOf(x, b)
    BY <1>2, <1>6, <2>1 DEF Active, Lockable, Between, EndOf
  <2>3. b = c
    BY <2>2, ActiveUnique
  <2> QED
    BY <2>1, <2>3 DEF BridgeInv, BridgeShape, Between, Active, Lockable
<1>7. \A s, t \in Session :
        <<s, t>> \in hearsRel' <=> <<s, t>> \in hearsRel \/ (s = x /\ t = y)
  BY ZenonT(40), <1>1, <1>2, <1>5, <1>6, HearsPairs
<1>8. hearsRel' = hearsRel \cup {<<x, y>>}
  <2>1. hearsRel \subseteq Session \X Session /\ hearsRel' \subseteq Session \X Session
    BY HearsPairs
  <2> QED
    BY <1>7, <2>1, AddOneWay
<1> QED
  BY <1>3, <1>4, <1>8 DEF Promise!Link

LEMMA ConnectRefines ==
  ASSUME BridgeInv, ConnectFirst \/ ConnectSecond
  PROVE  \E s, t \in Session : Promise!Link(s, t)
<1>1. /\ cur \in Bridge
      /\ first[cur] \in Session /\ second[cur] \in Session
      /\ Active(cur)
  BY CurHasEnds DEF ConnectFirst, ConnectSecond, BridgeInv, LifetimesAgree, HandlerState,
     Active, Lockable, Alive
<1>2. CASE ConnectFirst
  <2>1. Promise!Link(first[cur], second[cur])
    BY <1>1, <1>2, LinkRefines DEF ConnectFirst, bridgeVars, lifeVars, Between
  <2> QED
    BY <1>1, <2>1
<1>3. CASE ConnectSecond
  <2>1. Promise!Link(second[cur], first[cur])
    BY <1>1, <1>3, LinkRefines DEF ConnectSecond, bridgeVars, lifeVars, Between
  <2> QED
    BY <1>1, <2>1
<1> QED
  BY <1>2, <1>3

(* An end of the removed bridge gets an empty callback, or is gone and was not
   heard anyway. *)
LEMMA SilenceRefines ==
  ASSUME BridgeInv, UNCHANGED <<sending, wsRef>>, NEW x \in Session, Silence(x)
  PROVE  hearsRel' = {h \in hearsRel : h[1] # x}
<1>1. \A s \in Session : Alive(s)' <=> Alive(s)
  BY DEF Alive
<1>2. /\ \A s \in Session : s # x => route'[s] = route[s]
      /\ Alive(x) => route'[x] = None
  BY DEF Silence, Lockable, BridgeInv, TypeOK
<1>3. \A s, t \in Session : <<s, t>> \in hearsRel' <=> <<s, t>> \in hearsRel /\ s # x
  BY ZenonT(120), <1>1, <1>2, HearsPairs
<1>4. hearsRel \subseteq Session \X Session /\ hearsRel' \subseteq Session \X Session
  BY HearsPairs
<1> QED
  BY <1>3, <1>4, RemoveSpeaker

LEMMA DisconnectFirstRefines ==
  ASSUME BridgeInv, DisconnectFirst
  PROVE  \E s \in Session : Promise!Cut(s)
<1>1. first[cur] \in Session
  BY CurHasEnds DEF DisconnectFirst
<1>2. hearsRel' = {h \in hearsRel : h[1] # first[cur]}
  BY <1>1, SilenceRefines DEF DisconnectFirst, lifeVars
<1>3. callRel' = callRel
  BY ZenonT(40) DEF DisconnectFirst, bridgeVars, lifeVars, callRel, Between, Active, Lockable, Alive
<1> QED
  BY <1>1, <1>2, <1>3 DEF Promise!Cut

(* The end of a removal ends the call, or, for a bridge that was not active any
   more, silences the end that is left. *)
LEMMA DisconnectSecondRefines ==
  ASSUME BridgeInv, DisconnectSecond
  PROVE  \E s, t \in Session : Promise!End(s, t) \/ Promise!Cut(s)
<1> DEFINE f == first[cur]
           g == second[cur]
<1>1. /\ cur \in Bridge /\ f \in Session /\ g \in Session /\ f # g
  BY CurHasEnds DEF DisconnectSecond
<1>2. \A s \in Session : Alive(s)' <=> Alive(s)
  BY DEF DisconnectSecond, lifeVars, Alive
<1>3. /\ first'[cur] = None /\ second'[cur] = None
      /\ \A b \in Bridge : b # cur => first'[b] = first[b] /\ second'[b] = second[b]
  BY <1>1 DEF DisconnectSecond, BridgeInv, TypeOK
<1>4. \A b \in Bridge : Active(b)' <=> Active(b) /\ b # cur
  BY <1>2, <1>3 DEF BridgeInv, TypeOK, Active, Lockable
<1>5. hearsRel' = {h \in hearsRel : h[1] # g}
  BY <1>1, SilenceRefines DEF DisconnectSecond, lifeVars
<1>6. \A s, t \in Session : \A b \in Bridge : b # cur => (Between(s, t, b)' <=> Between(s, t, b))
  BY <1>3 DEF Between
<1>7. \A s, t \in Session :
        <<s, t>> \in callRel' <=>
          \E b \in Bridge : b # cur /\ Active(b) /\ Between(s, t, b)
  BY <1>4, <1>6, CallPairs
<1>8. callRel \subseteq Session \X Session /\ callRel' \subseteq Session \X Session
  BY CallPairs
<1>9. CASE Active(cur)
  <2>1. \A s, t \in Session :
          <<s, t>> \in callRel' <=>
            <<s, t>> \in callRel /\ ~(s = f /\ t = g) /\ ~(s = g /\ t = f)
    <3>1. SUFFICES ASSUME NEW s \in Session, NEW t \in Session, NEW b \in Bridge,
                          Active(b), Between(s, t, b)
                   PROVE  b # cur <=> ~(s = f /\ t = g) /\ ~(s = g /\ t = f)
      BY <1>7, CallPairs
    <3>2. EndOf(s, b) /\ (b = cur <=> EndOf(s, cur))
      BY <1>1, <1>9, <3>1, ActiveUnique DEF Between, EndOf
    <3> QED
      BY <1>1, <3>1, <3>2 DEF Between, EndOf
  <2>2. callRel' = callRel \ {<<f, g>>, <<g, f>>}
    BY <1>1, <1>8, <2>1, RemoveBothWays
  <2>3. <<f, g>> \in callRel
    BY <1>1, <1>9, CallPairs DEF Between
  <2>4. /\ hearsRel \subseteq Session \X Session
        /\ hearsRel' \subseteq Session \X Session
    BY HearsPairs
  <2>5. \A t \in Session : <<f, t>> \notin hearsRel
    BY ZenonT(40), <1>1, HearsPairs DEF DisconnectSecond, BridgeInv, HandlerState, Lockable
  <2>6. ASSUME NEW t \in Session, <<g, t>> \in hearsRel
        PROVE  t = f
    <3>1. route[g] = t /\ Alive(g) /\ Alive(t)
      BY <1>1, <2>6, HearsPairs
    <3>2. PICK b \in Bridge : Between(g, t, b)
      BY <1>1, <3>1 DEF BridgeInv, RoutesInBridges
    <3>3. Active(b) /\ EndOf(g, b) /\ EndOf(g, cur)
      BY <1>1, <3>1, <3>2 DEF Active, Lockable, Between, EndOf
    <3>4. b = cur
      BY <1>1, <1>9, <3>3, ActiveUnique
    <3> QED
      BY <1>1, <3>2, <3>4 DEF Between
  <2>7. \A s, t \in Session :
          <<s, t>> \in hearsRel' <=>
            <<s, t>> \in hearsRel /\ ~(s = f /\ t = g) /\ ~(s = g /\ t = f)
    BY <1>1, <1>5, <2>5, <2>6
  <2>8. hearsRel' = hearsRel \ {<<f, g>>, <<g, f>>}
    BY <1>1, <2>4, <2>7, RemoveBothWays
  <2> QED
    BY <1>1, <2>2, <2>3, <2>8 DEF Promise!End
<1>10. CASE ~Active(cur)
  <2>1. \A s, t \in Session : <<s, t>> \in callRel' <=> <<s, t>> \in callRel
    BY <1>7, <1>10, CallPairs
  <2>2. callRel' = callRel
    BY <1>8, <2>1, SamePairs
  <2> QED
    BY <1>1, <1>5, <2>2 DEF Promise!Cut
<1> QED
  BY <1>9, <1>10

(* Dropping a reference ends the session's call if it was the last one. *)
LEMMA DropRefines ==
  ASSUME BridgeInv, UNCHANGED <<first, second, route>>, NEW d \in Session,
         \A s \in Session : s # d => (Alive(s)' <=> Alive(s)),
         Alive(d)' => Alive(d)
  PROVE  (\E s, t \in Session : Promise!End(s, t)) \/ UNCHANGED <<callRel, hearsRel>>
<1>1. CASE Alive(d)' <=> Alive(d)
  <2>1. \A s \in Session : Alive(s)' <=> Alive(s)
    BY <1>1
  <2>2. \A b \in Bridge : Active(b)' <=> Active(b)
    BY <2>1 DEF BridgeInv, TypeOK, Active, Lockable
  <2> QED
    BY <2>1, <2>2, SameCalls
<1>2. CASE Alive(d) /\ ~Alive(d)'
  <2>1. \A b \in Bridge : Active(b)' <=> Active(b) /\ ~EndOf(d, b)
    BY <1>2 DEF BridgeInv, TypeOK, Active, Lockable, EndOf
  <2>2. \A s, t \in Session : <<s, t>> \in callRel' <=> <<s, t>> \in callRel /\ s # d /\ t # d
    <3>1. \A s, t \in Session : \A b \in Bridge :
            /\ Between(s, t, b)' <=> Between(s, t, b)
            /\ Between(s, t, b) => (EndOf(d, b) <=> s = d \/ t = d)
      BY DEF Between, EndOf
    <3> QED
      BY <2>1, <3>1, CallPairs
  <2>3. \A s, t \in Session : <<s, t>> \in hearsRel' <=> <<s, t>> \in hearsRel /\ s # d /\ t # d
    BY <1>2, HearsPairs
  <2>4. hearsRel \subseteq callRel
    <3>1. \A s, t \in Session : <<s, t>> \in hearsRel => <<s, t>> \in callRel
      <4>1. SUFFICES ASSUME NEW s \in Session, NEW t \in Session, route[s] = t, Alive(s), Alive(t)
                     PROVE  <<s, t>> \in callRel
        BY HearsPairs
      <4>2. PICK b \in Bridge : Between(s, t, b)
        BY <4>1 DEF BridgeInv, RoutesInBridges
      <4> QED
        BY <4>1, <4>2, CallPairs DEF Between, Active, Lockable
    <3> QED
      BY <3>1, HearsPairs
  <2>5. /\ callRel \subseteq Session \X Session /\ callRel' \subseteq Session \X Session
        /\ hearsRel \subseteq Session \X Session /\ hearsRel' \subseteq Session \X Session
    BY CallPairs, HearsPairs
  <2>6. CASE \E e \in Session : <<d, e>> \in callRel
    <3>1. PICK e \in Session : <<d, e>> \in callRel
      BY <2>6
    <3>2. ASSUME NEW s \in Session, NEW t \in Session, <<s, t>> \in callRel, s = d \/ t = d
          PROVE  (s = d /\ t = e) \/ (s = e /\ t = d)
      <4>1. PICK b \in Bridge : Active(b) /\ Between(d, e, b)
        BY <3>1, CallPairs
      <4>2. PICK c \in Bridge : Active(c) /\ Between(s, t, c)
        BY <3>2, CallPairs
      <4>3. b = c
        BY <3>2, <4>1, <4>2, ActiveUnique DEF Between, EndOf
      <4>4. first[b] # second[b]
        BY <4>1 DEF BridgeInv, BridgeShape, Active, Lockable
      <4> QED
        BY <3>2, <4>1, <4>2, <4>3, <4>4 DEF Between
    <3>3. callRel' = callRel \ {<<d, e>>, <<e, d>>}
      <4>1. \A s, t \in Session :
              <<s, t>> \in callRel' <=>
                <<s, t>> \in callRel /\ ~(s = d /\ t = e) /\ ~(s = e /\ t = d)
        BY <2>2, <3>2
      <4> QED
        BY <2>5, <4>1, RemoveBothWays
    <3>4. hearsRel' = hearsRel \ {<<d, e>>, <<e, d>>}
      <4>1. \A s, t \in Session :
              <<s, t>> \in hearsRel' <=>
                <<s, t>> \in hearsRel /\ ~(s = d /\ t = e) /\ ~(s = e /\ t = d)
        BY <2>3, <2>4, <3>2
      <4> QED
        BY <2>5, <4>1, RemoveBothWays
    <3> QED
      BY <3>1, <3>3, <3>4 DEF Promise!End
  <2>7. CASE ~\E e \in Session : <<d, e>> \in callRel
    <3>1. \A s, t \in Session : <<s, t>> \in callRel => s # d /\ t # d
      BY <2>7, CallPairs DEF Between
    <3>2. callRel' = callRel
      <4>1. \A s, t \in Session : <<s, t>> \in callRel' <=> <<s, t>> \in callRel
        BY <2>2, <3>1
      <4> QED
        BY <2>5, <4>1, SamePairs
    <3>3. hearsRel' = hearsRel
      <4>1. \A s, t \in Session : <<s, t>> \in hearsRel' <=> <<s, t>> \in hearsRel
        BY <2>3, <2>4, <3>1
      <4> QED
        BY <2>5, <4>1, SamePairs
    <3> QED
      BY <3>2, <3>3
  <2> QED
    BY <2>6, <2>7
<1> QED
  BY <1>1, <1>2

(* A new session is in no call. *)
LEMMA AttachRefines ==
  ASSUME BridgeInv, NEW x \in Session, Attach(x)
  PROVE  UNCHANGED <<callRel, hearsRel>>
<1>1. \A s \in Session : s # x => (Alive(s)' <=> Alive(s))
  BY DEF Attach, Alive
<1>2. \A b \in Bridge : Active(b)' <=> Active(b)
  BY <1>1 DEF BridgeInv, TypeOK, BridgeShape, Attach, bridgeVars, Active, Lockable
<1>3. callRel' = callRel
  BY <1>2 DEF Attach, bridgeVars, callRel, Between
<1>4. route[x] = None /\ \A s \in Session : route[s] # x
  BY DEF BridgeInv, LifetimesAgree, Attach
<1>5. \A s, t \in Session : <<s, t>> \in hearsRel' <=> <<s, t>> \in hearsRel
  BY <1>1, <1>4, HearsPairs DEF Attach
<1>6. hearsRel' = hearsRel
  <2>1. hearsRel \subseteq Session \X Session /\ hearsRel' \subseteq Session \X Session
    BY HearsPairs
  <2> QED
    BY <1>5, <2>1, SamePairs
<1> QED
  BY <1>3, <1>6

(* Bridges, with its stale directory entries, weak pointers and audio threads,
   is an implementation of Calls. *)
THEOREM Refinement == Spec => ImplementsCalls
<1>1. Init => Promise!Init
  BY InitRefines
<1>2. ASSUME BridgeInv, [Next]_vars
      PROVE  [Promise!Next]_(Promise!vars)
  <2>1. CASE Sockets
    <3>1. PICK x \in Session : Attach(x) \/ Detach(x) \/ Release(x)
      BY <2>1 DEF Sockets
    <3>2. CASE Attach(x)
      BY <1>2, <3>2, AttachRefines DEF Promise!vars
    <3>3. CASE Detach(x)
      <4>1. UNCHANGED <<callRel, hearsRel>>
        BY <3>3 DEF Detach, bridgeVars, callRel, hearsRel, Active, Lockable, Alive, Between
      <4> QED
        BY <4>1 DEF Promise!vars
    <3>4. CASE Release(x)
      <4>1. /\ UNCHANGED <<first, second, route>>
            /\ \A s \in Session : s # x => (Alive(s)' <=> Alive(s))
            /\ Alive(x)' => Alive(x)
        BY <3>4 DEF Release, bridgeVars, Alive
      <4> QED
        BY <1>2, <4>1, DropRefines DEF Promise!vars, Promise!Next
    <3> QED
      BY <3>1, <3>2, <3>3, <3>4
  <2>2. CASE Requests
    <3>1. CASE \E x, y \in Session : RefuseBusyTarget(x, y)
      <4>1. UNCHANGED <<callRel, hearsRel>>
        BY <3>1 DEF RefuseBusyTarget, lifeVars, bridgeVars, callRel, hearsRel, Active, Lockable,
           Alive, Between
      <4> QED
        BY <4>1 DEF Promise!vars
    <3>2. CASE \E x, y \in Session, c \in Bridge : CreateBridge(x, y, c)
      BY <1>2, <3>2, CreateRefines DEF Promise!Next
    <3>3. CASE \E c \in Bridge : RemoveDead(c) \/ RemoveBridge(c)
      <4>1. UNCHANGED <<first, second, route, sending, wsRef>>
        BY <3>3 DEF RemoveDead, RemoveBridge, lifeVars, bridgeVars
      <4>2. UNCHANGED <<callRel, hearsRel>>
        BY <4>1 DEF callRel, hearsRel, Active, Lockable, Alive, Between
      <4> QED
        BY <4>2 DEF Promise!vars
    <3> QED
      BY <2>2, <3>1, <3>2, <3>3 DEF Requests
  <2>3. CASE Callbacks
    <3>1. CASE ConnectFirst \/ ConnectSecond
      BY <1>2, <3>1, ConnectRefines DEF Promise!Next
    <3>2. CASE DisconnectFirst
      BY <1>2, <3>2, DisconnectFirstRefines DEF Promise!Next
    <3>3. CASE DisconnectSecond
      BY <1>2, <3>3, DisconnectSecondRefines DEF Promise!Next
    <3> QED
      BY <2>3, <3>1, <3>2, <3>3 DEF Callbacks
  <2>4. CASE Audio
    <3>1. PICK x \in Session : Receive(x) \/ FinishSend(x)
      BY <2>4 DEF Audio
    <3>2. CASE Receive(x)
      <4>1. /\ UNCHANGED <<first, second, route>>
            /\ \A s \in Session : Alive(s)' <=> Alive(s)
        BY <1>2, <3>2 DEF BridgeInv, TypeOK, Receive, Lockable, Alive, lifeVars, bridgeVars
      <4>2. \A b \in Bridge : Active(b)' <=> Active(b)
        BY <1>2, <4>1 DEF BridgeInv, TypeOK, Active, Lockable
      <4> QED
        BY <4>1, <4>2, SameCalls DEF Promise!vars
    <3>3. CASE FinishSend(x)
      <4>1. sending[x] \in Session
        BY <1>2, <3>3 DEF BridgeInv, TypeOK, FinishSend
      <4>2. /\ UNCHANGED <<first, second, route>>
            /\ \A s \in Session : s # sending[x] => (Alive(s)' <=> Alive(s))
            /\ Alive(sending[x])
        BY <1>2, <3>3, <4>1 DEF BridgeInv, TypeOK, FinishSend, Alive, lifeVars, bridgeVars
      <4> DEFINE d == sending[x]
      <4>3. ASSUME NEW e \in Session, e = sending[x]
            PROVE  (\E s, t \in Session : Promise!End(s, t)) \/ UNCHANGED <<callRel, hearsRel>>
        BY <1>2, <4>2, <4>3, DropRefines
      <4> QED
        BY <4>1, <4>3 DEF Promise!vars, Promise!Next
    <3> QED
      BY <3>1, <3>2, <3>3
  <2>5. CASE UNCHANGED vars
    BY <2>5 DEF vars, Promise!vars, callRel, hearsRel, Active, Lockable, Alive, Between
  <2> QED
    BY <1>2, <2>1, <2>2, <2>3, <2>4, <2>5 DEF Next
<1> QED
  BY <1>1, <1>2, Invariance, PTL DEF Spec, ImplementsCalls, Promise!Spec

-----------------------------------------------------------------------------
(* PushToTalk. *)

USE MaxPressAssumption

-----------------------------------------------------------------------------
(* Without the push-to-talk state, every step is a step of Bridges. *)

LEMMA StepProjects == [PttNext]_allVars => [Next]_vars
<1> SUFFICES ASSUME [PttNext]_allVars
             PROVE  [Next]_vars
  OBVIOUS
<1>1. CASE BridgeStep
  BY <1>1 DEF BridgeStep, Next, Sockets
<1>2. CASE \E s \in Session : AttachPeer(s)
  BY <1>2 DEF AttachPeer, Next, Sockets
<1>3. CASE PttRequests
  BY <1>3 DEF PttRequests, PttStart, PttStop
<1>4. CASE PttAudio
  BY <1>4 DEF PttAudio, Frame, Relay, Drop, Decode, Deliver, Next, Audio
<1>5. CASE UNCHANGED allVars
  BY <1>5 DEF allVars
<1> QED
  BY <1>1, <1>2, <1>3, <1>4, <1>5 DEF PttNext

(* Every behaviour with push-to-talk is a behaviour of the bridging core, so
   the theorems about Bridges hold with push-to-talk as well. *)
THEOREM Projection == PttSpec => Spec
<1>1. PttInit => Init
  BY DEF PttInit
<1> QED
  BY <1>1, StepProjects, PTL DEF PttSpec, Spec

-----------------------------------------------------------------------------
(* PttInv is inductive relative to BridgeInv. *)

LEMMA PttInitInv == PttInit => PttInv
BY DEF PttInit, Init, PttInv, PttTypeOK, CallbackState, LateFrame, CleanBuffer

(* A step of the bridging core leaves the audio callbacks where they are. *)
LEMMA BridgeStepInv ==
  ASSUME PttInv, BridgeInv, BridgeStep
  PROVE  PttInv'
<1>1. UNCHANGED sending /\ created \subseteq created'
  BY DEF BridgeStep, Detach, Release, Requests, RefuseBusyTarget, CreateBridge, RemoveDead,
     RemoveBridge, Callbacks, ConnectFirst, ConnectSecond, DisconnectFirst, DisconnectSecond,
     lifeVars
<1>2. UNCHANGED pttVars
  BY DEF BridgeStep
<1> QED
  BY <1>1, <1>2 DEF pttVars, PttInv, PttTypeOK, CallbackState, LateFrame, CleanBuffer

LEMMA AttachPeerInv ==
  ASSUME PttInv, BridgeInv, NEW x \in Session, AttachPeer(x)
  PROVE  PttInv'
<1>1. ~buffering[x]
  BY DEF PttInv, CallbackState, AttachPeer, Attach
<1> QED
  BY <1>1 DEF AttachPeer, Attach, PttInv, PttTypeOK, CallbackState, LateFrame, CleanBuffer

LEMMA PttStartInv ==
  ASSUME PttInv, BridgeInv, NEW b \in Bridge, NEW x \in Session, PttStart(b, x)
  PROVE  PttInv'
<1>1. x \in created
  BY DEF PttStart, Found, Active, Lockable, EndOf, BridgeInv, BridgeShape
<1>2. UNCHANGED <<created, sending, transcoder, buffer, stage, readPress>>
  BY DEF PttStart, vars
<1>3. press[x] + 1 \in 0..MaxPress
  BY DEF PttStart, PttInv, PttTypeOK
<1>4. PttTypeOK'
  BY <1>2, <1>3 DEF PttStart, PttInv, PttTypeOK
<1>5. CallbackState'
  BY <1>1, <1>2 DEF PttStart, PttInv, PttTypeOK, CallbackState
<1>6. LateFrame'
  BY <1>2 DEF PttStart, PttInv, PttTypeOK, LateFrame
<1>7. CleanBuffer'
  BY <1>2 DEF PttStart, PttInv, PttTypeOK, CleanBuffer
<1> QED
  BY <1>4, <1>5, <1>6, <1>7 DEF PttInv

LEMMA PttStopInv ==
  ASSUME PttInv, BridgeInv, NEW b \in Bridge, NEW x \in Session, PttStop(b, x)
  PROVE  PttInv'
<1>1. UNCHANGED <<created, sending, transcoder, stage, readPress, press>>
  BY DEF PttStop, vars
<1>2. PICK rest \in AfterTake(x) : buffer' = [buffer EXCEPT ![x] = rest]
  BY DEF PttStop
<1>3. rest \subseteq 1..MaxPress /\ (stage[x] # "decode" => rest = {})
  BY <1>2 DEF AfterTake, PttInv, PttTypeOK, CallbackState
<1>4. PttTypeOK'
  BY <1>1, <1>2, <1>3 DEF PttStop, PttInv, PttTypeOK
<1>5. CallbackState' /\ LateFrame'
  BY <1>1 DEF PttStop, PttInv, PttTypeOK, CallbackState, LateFrame
<1>6. CleanBuffer'
  BY <1>1, <1>2, <1>3 DEF PttStop, PttInv, PttTypeOK, CleanBuffer
<1> QED
  BY <1>4, <1>5, <1>6 DEF PttInv

LEMMA FrameInv ==
  ASSUME PttInv, NEW x \in Session, Frame(x)
  PROVE  PttInv'
<1>1. UNCHANGED <<created, sending, transcoder, buffering, buffer, press, commandOn, tainted, heardLate>>
  BY DEF Frame, vars
<1>2. PttTypeOK'
  BY <1>1 DEF Frame, PttInv, PttTypeOK
<1>3. CallbackState'
  BY <1>1 DEF Frame, PttInv, PttTypeOK, CallbackState
<1>4. LateFrame'
  <2>1. SUFFICES ASSUME NEW s \in transcoder, buffering[s]
                 PROVE  /\ heardLate[s] <= 1
                        /\ stage'[s] = "relay" \/ sending[s] # None => heardLate[s] = 0
    BY <1>1 DEF LateFrame
  <2>2. stage'[s] = "relay" => stage[s] = "relay"
    BY <2>1 DEF Frame, PttInv, PttTypeOK
  <2> QED
    BY <2>1, <2>2 DEF PttInv, LateFrame
<1>5. CleanBuffer'
  BY <1>1 DEF Frame, PttInv, PttTypeOK, CleanBuffer
<1> QED
  BY <1>2, <1>3, <1>4, <1>5 DEF PttInv

LEMMA RelayInv ==
  ASSUME PttInv, BridgeInv, NEW x \in Session, Relay(x)
  PROVE  PttInv'
<1>1. UNCHANGED <<created, transcoder, buffering, buffer, readPress, press, commandOn, tainted, heardLate>>
  BY DEF Relay, Receive, lifeVars
<1>2. /\ stage[x] = "relay"
      /\ stage' = [stage EXCEPT ![x] = "idle"]
      /\ \A s \in Session : s # x => sending'[s] = sending[s]
  BY DEF Relay, Receive, BridgeInv, TypeOK
<1>3. PttTypeOK'
  BY <1>1, <1>2 DEF PttInv, PttTypeOK
<1>4. CallbackState' /\ LateFrame' /\ CleanBuffer'
  BY <1>1, <1>2 DEF PttInv, PttTypeOK, CallbackState, LateFrame, CleanBuffer
<1> QED
  BY <1>3, <1>4 DEF PttInv

LEMMA DropInv ==
  ASSUME PttInv, NEW x \in Session, Drop(x)
  PROVE  PttInv'
BY DEF Drop, vars, PttInv, PttTypeOK, CallbackState, LateFrame, CleanBuffer

LEMMA DecodeInv ==
  ASSUME PttInv, NEW x \in Session, Decode(x)
  PROVE  PttInv'
<1>1. UNCHANGED <<created, sending, transcoder, buffering, press, commandOn, tainted, heardLate>>
  BY DEF Decode, vars
<1>2. readPress[x] \in 1..MaxPress
  BY DEF Decode, PttInv, PttTypeOK, CallbackState
<1>3. PttTypeOK'
  BY <1>1, <1>2 DEF Decode, PttInv, PttTypeOK
<1>4. CallbackState' /\ LateFrame'
  BY <1>1 DEF Decode, PttInv, PttTypeOK, CallbackState, LateFrame
<1>5. CleanBuffer'
  BY <1>1 DEF Decode, PttInv, PttTypeOK, CleanBuffer
<1> QED
  BY <1>3, <1>4, <1>5 DEF PttInv

LEMMA DeliverInv ==
  ASSUME PttInv, BridgeInv, NEW x \in Session, Deliver(x)
  PROVE  PttInv'
<1>1. UNCHANGED <<created, transcoder, buffering, buffer, stage, readPress, press, commandOn, tainted>>
  BY DEF Deliver, FinishSend, lifeVars
<1>2. /\ sending[x] # None
      /\ sending' = [sending EXCEPT ![x] = None]
      /\ sending \in [Session -> Session \cup {None}]
  BY DEF Deliver, FinishSend, BridgeInv, TypeOK
<1>3. PttTypeOK'
  BY <1>1 DEF Deliver, PttInv, PttTypeOK
<1>4. CallbackState' /\ CleanBuffer'
  BY <1>1, <1>2 DEF PttInv, PttTypeOK, CallbackState, CleanBuffer
<1>5. LateFrame'
  <2>1. stage[x] = "idle"
    BY <1>2 DEF PttInv, CallbackState
  <2> QED
    BY <1>1, <1>2, <2>1 DEF Deliver, PttInv, PttTypeOK, LateFrame
<1> QED
  BY <1>3, <1>4, <1>5 DEF PttInv

LEMMA PttStepInv == PttInv /\ BridgeInv /\ [PttNext]_allVars => PttInv'
<1> SUFFICES ASSUME PttInv, BridgeInv, [PttNext]_allVars
             PROVE  PttInv'
  OBVIOUS
<1>1. CASE BridgeStep
  BY <1>1, BridgeStepInv
<1>2. CASE \E s \in Session : AttachPeer(s)
  BY <1>2, AttachPeerInv
<1>3. CASE PttRequests
  BY <1>3, PttStartInv, PttStopInv DEF PttRequests
<1>4. CASE PttAudio
  BY <1>4, FrameInv, RelayInv, DropInv, DecodeInv, DeliverInv DEF PttAudio
<1>5. CASE UNCHANGED allVars
  BY <1>5 DEF allVars, vars, pttVars, PttInv, PttTypeOK, CallbackState, LateFrame, CleanBuffer
<1> QED
  BY <1>1, <1>2, <1>3, <1>4, <1>5 DEF PttNext

(* PttInv holds in every reachable state. *)
THEOREM PttInvariance == PttSpec => []PttInv
<1>1. PttInit => PttInv
  BY PttInitInv
<1>2. PttInv /\ BridgeInv /\ [PttNext]_allVars => PttInv'
  BY PttStepInv
<1> QED
  BY <1>1, <1>2, Projection, Invariance, PTL DEF PttSpec

(* Flags, buffers and callbacks of every session keep their types. *)
THEOREM PttTypeCorrect == PttSpec => []PttTypeOK
<1>1. PttInv => PttTypeOK
  BY DEF PttInv
<1> QED
  BY <1>1, PttInvariance, PTL

(* What ptt_stop hands to the speech service belongs to the command it stops,
   unless the buffer was tainted by an overlapping take or an abandoned
   command. *)
THEOREM PureCommands == PttSpec => []CommandIsPure
<1>1. PttInv => CommandIsPure
  BY DEF PttInv, CleanBuffer, CommandIsPure
<1> QED
  BY <1>1, PttInvariance, PTL

(* At most one frame of a command reaches the partner. *)
THEOREM PrivateCommands == PttSpec => []CommandIsPrivate
<1>1. PttInv => CommandIsPrivate
  BY DEF PttInv, LateFrame, CommandIsPrivate
<1> QED
  BY <1>1, PttInvariance, PTL

(* The privacy of calls carries over from the bridging core. *)
THEOREM PttCallPrivacy == PttSpec => []CallPrivacy
BY Projection, AudioIsPrivate, PTL
=============================================================================
