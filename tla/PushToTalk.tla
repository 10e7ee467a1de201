----------------------------- MODULE PushToTalk ------------------------------
(***************************************************************************)
(* Private voice commands on top of Bridges: AppRouter::ptt_start and      *)
(* ptt_stop on the io thread, and the audio callback of WebRtc::Session,   *)
(* which reads the buffering flag and appends to the command buffer on the *)
(* thread of the track.  The flag and the buffer are plain members that    *)
(* nothing synchronises.                                                   *)
(*                                                                         *)
(* A frame is abstracted to the number of the command it was spoken in and *)
(* a command buffer to the set of those numbers.                           *)
(***************************************************************************)
EXTENDS Bridges

CONSTANT MaxPress    \* bound on the commands a session starts

ASSUME MaxPressAssumption == MaxPress \in Nat

VARIABLES
  transcoder,   \* sessions with an Opus transcoder; the others are in relay-only mode
  buffering,    \* Session::is_buffering_command_
  buffer,       \* Session::command_buffer_: the commands its samples were spoken in
  stage,        \* where the audio callback of a session is, once it has read the flag
  readPress,    \* the command the callback is decoding a frame of, or 0
  press,        \* history: number of the session's latest accepted ptt_start
  commandOn,    \* history: the bridge of the latest ptt_start not yet followed by a ptt_stop
  tainted,      \* history: the buffer may hold audio of an earlier command
  heardLate     \* history: frames the partner got during the command (saturates at 2)

pttVars == <<transcoder, buffering, buffer, stage, readPress, press, commandOn, tainted, heardLate>>
allVars == <<vars, pttVars>>

PttTypeOK ==
  /\ transcoder \subseteq Session
  /\ buffering \in [Session -> BOOLEAN]
  /\ buffer \in [Session -> SUBSET (1..MaxPress)]
  /\ stage \in [Session -> {"idle", "relay", "decode"}]
  /\ readPress \in [Session -> 0..MaxPress]
  /\ press \in [Session -> 0..MaxPress]
  /\ commandOn \in [Session -> Bridge \cup {None}]
  /\ tainted \in [Session -> BOOLEAN]
  /\ heardLate \in [Session -> 0..2]

PttInit ==
  /\ Init
  /\ transcoder = {}
  /\ buffering = [s \in Session |-> FALSE]
  /\ buffer = [s \in Session |-> {}]
  /\ stage = [s \in Session |-> "idle"]
  /\ readPress = [s \in Session |-> 0]
  /\ press = [s \in Session |-> 0]
  /\ commandOn = [s \in Session |-> None]
  /\ tainted = [s \in Session |-> FALSE]
  /\ heardLate = [s \in Session |-> 0]

-----------------------------------------------------------------------------
(* The bridging actions. *)

(* PeerConnectionManager::create_session: without a transcoder the peer
   operates in relay-only mode. *)
AttachPeer(s) ==
  /\ Attach(s)
  /\ transcoder' \in {transcoder, transcoder \cup {s}}
  /\ UNCHANGED <<buffering, buffer, stage, readPress, press, commandOn, tainted, heardLate>>

(* The end whose callback the io thread is about to replace. *)
Replaced == IF op \in {"connect first", "disconnect first"} THEN first[cur] ELSE second[cur]

BridgeStep ==
  /\ \/ \E s \in Session : Detach(s) \/ Release(s)
     \/ Requests
     \/ Callbacks /\ (Lockable(Replaced) => stage[Replaced] = "idle")
  /\ UNCHANGED pttVars

-----------------------------------------------------------------------------
(* The io thread. *)

(* BridgeManager::find_bridge_by_id and Bridge::find_session. *)
Found(b, s) ==
  /\ op = "idle"
  /\ \E t \in Session : entry[t] = b
  /\ Active(b)
  /\ EndOf(s, b)

PttStart(b, s) ==
  /\ Found(b, s)
  /\ press[s] < MaxPress
  /\ buffering' = [buffering EXCEPT ![s] = TRUE]
  /\ press' = [press EXCEPT ![s] = @ + 1]
  /\ commandOn' = [commandOn EXCEPT ![s] = b]
  /\ tainted' = [tainted EXCEPT ![s] = @ \/ buffering[s]]
  /\ heardLate' = [heardLate EXCEPT ![s] = 0]
  /\ UNCHANGED <<vars, transcoder, buffer, stage, readPress>>

(* Mutants: the buffer is copied instead of taken, or swapped for samples of
   silence, which belong to no command. *)
AfterTakeCopied(s)  == {buffer[s]}
AfterTakeSilence(s) == {{0}}

(* What the swap of take_command_buffer leaves behind.  If the callback is
   inserting a frame at that moment, nothing orders the two: the old contents
   may survive the swap, and so may half of the insertion. *)
AfterTake(s) == IF stage[s] = "decode" THEN {{}, {readPress[s]}, buffer[s]} ELSE {{}}

PttStop(b, s) ==
  /\ Found(b, s)
  /\ buffering' = [buffering EXCEPT ![s] = FALSE]
  /\ \E rest \in AfterTake(s) : buffer' = [buffer EXCEPT ![s] = rest]
  /\ commandOn' = [commandOn EXCEPT ![s] = None]
  /\ tainted' = [tainted EXCEPT ![s] = stage[s] = "decode"]
  /\ heardLate' = [heardLate EXCEPT ![s] = 0]
  /\ UNCHANGED <<vars, transcoder, stage, readPress, press>>

-----------------------------------------------------------------------------
(* The audio callback of session s. *)

(* Mutant: the callback relays whatever the flag says. *)
FrameRelayed(s) ==
  /\ Alive(s)
  /\ stage[s] = "idle" /\ sending[s] = None
  /\ stage' = [stage EXCEPT ![s] = "relay"]
  /\ UNCHANGED readPress
  /\ UNCHANGED <<vars, transcoder, buffering, buffer, press, commandOn, tainted, heardLate>>

(* A valid Opus frame arrives and the callback reads the flag. *)
Frame(s) ==
  /\ Alive(s)
  /\ stage[s] = "idle" /\ sending[s] = None
  /\ \/ /\ buffering[s] /\ s \in transcoder
        /\ stage' = [stage EXCEPT ![s] = "decode"]
        /\ readPress' = [readPress EXCEPT ![s] = press[s]]
     \/ /\ ~(buffering[s] /\ s \in transcoder)
        /\ stage' = [stage EXCEPT ![s] = "relay"]
        /\ UNCHANGED readPress
  /\ UNCHANGED <<vars, transcoder, buffering, buffer, press, commandOn, tainted, heardLate>>

(* The relaying branch: the target is locked and the frame is on its way. *)
Relay(s) ==
  /\ stage[s] = "relay"
  /\ Receive(s)
  /\ stage' = [stage EXCEPT ![s] = "idle"]
  /\ UNCHANGED <<transcoder, buffering, buffer, readPress, press, commandOn, tainted, heardLate>>

(* No target to relay to, a frame that does not decode, or a session that has
   gone meanwhile. *)
Drop(s) ==
  /\ \/ stage[s] = "relay" /\ ~Lockable(route[s])
     \/ stage[s] = "decode"
     \/ stage[s] # "idle" /\ ~Alive(s)
  /\ stage' = [stage EXCEPT ![s] = "idle"]
  /\ readPress' = [readPress EXCEPT ![s] = 0]
  /\ UNCHANGED <<vars, transcoder, buffering, buffer, press, commandOn, tainted, heardLate>>

(* The buffering branch: the decoded samples are appended. *)
Decode(s) ==
  /\ stage[s] = "decode" /\ Alive(s)
  /\ buffer' = [buffer EXCEPT ![s] = @ \cup {readPress[s]}]
  /\ stage' = [stage EXCEPT ![s] = "idle"]
  /\ readPress' = [readPress EXCEPT ![s] = 0]
  /\ UNCHANGED <<vars, transcoder, buffering, press, commandOn, tainted, heardLate>>

(* The partner has got the frame. *)
Deliver(s) ==
  /\ FinishSend(s)
  /\ heardLate' = [heardLate EXCEPT ![s] = IF buffering[s] /\ @ < 2 THEN @ + 1 ELSE @]
  /\ UNCHANGED <<transcoder, buffering, buffer, stage, readPress, press, commandOn, tainted>>

-----------------------------------------------------------------------------
PttRequests == \E b \in Bridge : \E s \in Session : PttStart(b, s) \/ PttStop(b, s)
PttAudio    == \E s \in Session : Frame(s) \/ Relay(s) \/ Drop(s) \/ Decode(s) \/ Deliver(s)

PttNext == BridgeStep \/ (\E s \in Session : AttachPeer(s)) \/ PttRequests \/ PttAudio

PttSpec == PttInit /\ [][PttNext]_allVars

-----------------------------------------------------------------------------
(* Properties. *)

(* What ptt_stop would hand to the speech service holds audio of the command in
   progress only, unless the last take overlapped an insertion or a command was
   started while an abandoned one was still being buffered. *)
CommandIsPure ==
  \A s \in Session : buffering[s] /\ ~tainted[s] => buffer[s] \subseteq {press[s]}

(* A command of a session that can buffer is private: after ptt_start has been
   accepted the partner gets at most the one frame that was already past the
   flag. *)
CommandIsPrivate ==
  \A s \in transcoder : buffering[s] => heardLate[s] <= 1

(* The user interface says "Live - destination can hear you" when a microphone
   is on in a call and no command is in progress.  A command whose bridge is
   removed before its ptt_stop leaves the flag set, and the next call of the
   session is swallowed by the command buffer. *)
NoCommandMeansLive ==
  op = "idle" =>
    \A b \in Bridge : \A s \in transcoder :
      Active(b) /\ EndOf(s, b) /\ commandOn[s] # b => ~buffering[s]

-----------------------------------------------------------------------------
(* The inductive invariant behind the two properties that hold. *)

(* The callback of a track is in one place at a time, it decodes frames of
   started commands only, and only sessions that exist were told to buffer. *)
CallbackState ==
  \A s \in Session :
    /\ sending[s] # None => stage[s] = "idle"
    /\ stage[s] = "decode" => readPress[s] # 0
    /\ buffering[s] => s \in created /\ press[s] # 0

(* While a command is on, only a frame that was past the flag when it started
   can still reach the partner, and then none has yet. *)
LateFrame ==
  \A s \in transcoder :
    buffering[s] =>
      /\ heardLate[s] <= 1
      /\ stage[s] = "relay" \/ sending[s] # None => heardLate[s] = 0

(* Without a taint, the buffer and the frame being decoded belong to the
   command in progress. *)
CleanBuffer ==
  \A s \in Session :
    ~tainted[s] =>
      /\ buffer[s] \subseteq IF buffering[s] THEN {press[s]} ELSE {}
      /\ stage[s] = "decode" => buffering[s] /\ readPress[s] = press[s]

PttInv == PttTypeOK /\ CallbackState /\ LateFrame /\ CleanBuffer
=============================================================================
