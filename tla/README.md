# WebPtt in TLA+

WebPtt connects browsers by voice through a backend. A page opens a WebSocket to the backend and
negotiates a WebRTC audio track over it; an HTTP request joins two sessions in a *bridge*, through
which the backend relays audio both ways; and while a push-to-talk key is held the speaker's audio
is kept from the other end, decoded, and on release sent to a speech service that recognises a
command. This directory models the parts of the program whose state is shared by several actors,
checks them with TLC on small instances, and proves their safety properties with TLAPS for every
value of the constants.

All paths below are relative to `src/`.

## 1. Inventory

### 1.1 Threads

`backend/src/main.cpp` runs one `io_context` on one thread: every HTTP handler, every WebSocket
completion handler and everything `net::post` puts there runs on that *io thread*, one at a time.
The RTC library (libdatachannel, external) calls back on threads of its own: local descriptions and
candidates of a peer, and the audio frames of a track. Nearly all of the difficulty of the backend is
in what those threads and the io thread do to the same objects. The page is single-threaded but
every `await` and event handler is a point where the others run.

### 1.2 Backend

| component | state | operations | called by | what makes it correct |
|---|---|---|---|---|
| `PeerConnectionManager` | `sessions_`, the register of sessions by id | `create_session`, `find_session`, `remove_session` | `Coordinator`, `BridgeManager` | a session is found from its attach to its one detach |
| `WebRtc::Session` | peer connection, track, optional transcoder, `is_buffering_command_`, `command_buffer_` | `on_audio`, `send_audio`, `set_buffering_command`, `take_command_buffer`, description and candidate handling | `Bridge`, `AppRouter`, the track's thread | a frame goes to the partner or into the command, never to anybody else |
| `Bridge` | two weak pointers | `connect`, `disconnect`, `active`, `find_session`, ids | `BridgeManager`, `AppRouter` | its ends hear each other while it is active, and nobody after it is gone |
| `BridgeManager` | `bridges_by_session_` | `create_bridge`, `remove_bridge`, `find_bridge`, `find_bridge_by_id` | `AppRouter` | one call per session; the directory agrees with the bridges |
| `AppRouter` | none | routes for sessions, bridges, push-to-talk, session status | HTTP `Session` | each request is answered once, with what is true |
| `Coordinator` | none of its own | `attatch`, `detach`, callbacks between socket and peer | HTTP `Session`, `WebSocketSession`, RTC threads | socket and peer live and die together |
| `WebSocketSession` | `write_queue_`, `is_writing_`, `is_disconnected_`, the stream | handshake, `do_read`, `write`, `do_write`, `disconnect` | completion handlers | one write at a time, messages in order, one detach |
| `WebSocketManager` | `sessions_` | add, remove | `Coordinator` | keeps the object until it disconnects |
| HTTP `Session`, `Listener`, `Router` | request, stream, route table | accept, read, dispatch, write | completion handlers | one answer per request |
| `Stt::Client` | resolver, stream, handler | resolve, connect, write, read | `AppRouter::ptt_stop` | the handler runs exactly once |
| `RtpPacket` | buffer, offsets, sizes | `parse`, `payload`, setters | `Session` | what was laid out is what is read |
| `OpusTranscoder` | an encoder and a decoder of the Opus library | make, move, decode, encode | `PeerConnectionManager`, `Session` | each codec has one owner and is freed once |
| effects, WAV | filter state | process | nobody in this program | signal processing |
| `Settings`, JSON, TOML, `Net` | configuration | load, convert | `main` | sequential start-up |

### 1.3 Page and speech service

| component | state | what makes it correct |
|---|---|---|
| `useBackendWebSocket` | the socket, its reconnect timer, parked messages | at most one live socket; a closed one is replaced; no message skipped |
| `usePeerConnection`, `webrtc/signaling.ts`, `webrtc/peerEvents.ts` | the peer, its sender, the chain of handled messages | messages are handled in order, on the peer of their session; the negotiation ends |
| `useMicrophone` | the stream | what is captured is what is sent |
| `useCallController`, `useCallActions`, `useSessionStatus` | polled status, requests in flight, the store | the page shows the bridge that exists |
| `usePushToTalk` | held key, start and stop in flight | what the page says of the command is what the backend does |
| SDP rewriting, components | text | presentation |
| `stt` (Python) | none between requests | a transcript is matched to a command |

### 1.4 How they interact

```
 page --HTTP--> Listener -> HTTP Session -> Router -> AppRouter -> BridgeManager -> Bridge -> Session
                                  |                       |                                    |  ^
                                  | upgrade               +-> Stt::Client -> speech service    |  | audio thread
 page --WebSocket--> Coordinator.attatch -> WebSocketSession --on_message_--> Session ---------+--+
                                  ^   ^------ write queue <-- net::post <-- RTC thread
                                  +-- detach
```

The hard behaviours: audio frames delivered while `connect` and `disconnect` replace the callbacks; a
directory nobody updates when a socket closes; weak pointers that may be locked on another thread when
the owner goes; a flag and a buffer shared without synchronisation; a write queue fed by two threads;
references that keep a session after it was detached; requests of the page that overtake each other; a
poll answered after what it asked about has changed; a socket that is opened again while the peer, the
session and the messages of the last one are still about; offers that cross. `PROJECT.json` lists each
at its line, under "hazards".

## 2. Modules

| module | models | relation |
|---|---|---|
| `Calls` | abstract: who is in a call with whom, who hears whom | implemented by `Bridges` |
| `Bridges` | `PeerConnectionManager`, `BridgeManager`, `Bridge`, the audio callback, session lifetimes | implements `Calls`, stands on `Lifetimes` |
| `PushToTalk` | `ptt_start`, `ptt_stop`, the command flag and buffer | extends `Bridges`: its steps on the variables of `Bridges` are steps of `Bridges` |
| `Lifetimes` | abstract: created, registered, still referred to | implemented by `Signaling` |
| `Signaling` | `WebSocketSession`, `WebSocketManager`, the callbacks of `Coordinator` | implements `Lifetimes` |
| `PushToTalkClient` | `usePushToTalk`, its requests and answers, the backend's flag as far as they see it | of `PushToTalk` only the flag; of `Bridges` only which bridge is open |
| `Exchange` | abstract: requests and answers of a connection | implemented by `HttpServer` |
| `HttpServer` | `Listener`, HTTP `Session`, `Router`, `Stt::Client`, the answer of `ptt_stop` | implements `Exchange` |
| `PageConnection` | `useBackendWebSocket`, `usePeerConnection`, `signaling.ts`, `peerEvents.ts`, `useMicrophone`, the message handler of `Coordinator` | the page's side of `Signaling`, with what is said over the socket |
| `CallClient` | `useCallController`, `useCallActions`, `useSessionStatus`, the call routes of `AppRouter` | of `Bridges` what the routes answer, of `PageConnection` that sessions come and go |
| `RtpPacket` | `RtpPacket::parse` and the setters | the "valid frame" of `PushToTalk` is one that `parse` accepts |
| `Transcoders` | `OpusTranscoder` | the `transcoder` of `PushToTalk` is the sessions whose `make` succeeded |
| `BridgesProofs` (with `PushToTalk`), `SignalingProofs`, `PushToTalkClientProofs`, `HttpServerProofs`, `PageConnectionProofs`, `CallClientProofs`, `RtpPacketProofs`, `TranscodersProofs` | the theorems | extend the module they are about |
| `MCBridges`, `MCPushToTalk`, `MCPushToTalkClient`, `MCHttpServer`, `MCRtpPacket` | symmetry sets and constants for TLC | extend the module they check |

The modules of the program also hold *mutants*: operators marked as such in their comments, each defined
just before the definition it would replace. They are plausible mistakes in the code. Nothing refers to
them; putting one in the place of its definition makes one property fail, which shows that the property
depends on what the code does there.

### 2.1 Bridges

One io thread and one audio thread per session. A handler of the io thread is atomic with respect to
other handlers, so most are one action; but `create_bridge` and `remove_bridge` call
`Session::on_audio`, which waits for a frame in delivery, so each is split at those calls: `op` says
where the io thread is and `cur` on which bridge.

| state | code |
|---|---|
| `created`, `registered` | ids handed out; keys of `PeerConnectionManager::sessions_` |
| `wsRef` | sessions captured by a live `WebSocketSession` (`on_message_`), the long-lived strong reference |
| `made`, `first`, `second` | `Bridge` objects and their weak pointers; a reset pointer is `None` |
| `entry` | `BridgeManager::bridges_by_session_` |
| `route` | the weak target captured by the audio callback `Bridge::connect` installs; `None` for the empty callback |
| `sending` | the target an audio callback has locked: a strong reference, gone when `send_audio` returns |

A weak pointer can be locked exactly while its object is `Alive`: a `WebSocketSession` or a frame in
delivery refers to it. `Attach`, `Detach` and `Release` are the lifetime of a session as the other
parts cause it; section 3 says how they are tied to `Signaling`. `CanBridge`, `RefuseBusyTarget`,
`CreateBridge`, `ConnectFirst` and `ConnectSecond` are `create_bridge`; `RemoveDead`, `RemoveBridge`,
`DisconnectFirst` and `DisconnectSecond` are `remove_bridge`; `Receive` and `FinishSend` are the audio
callback. A request that is refused without a change of state (an unknown id, a session bridged with
itself, a first session that is busy) is no step. `RefuseBusyTarget` is a refusal that does change
state: `find_bridge` has erased the first session's stale entry by the time the second one is found
busy.

Assumed of the RTC library: the callback of a track runs under a lock of that track, replacing the
callback takes the same lock, an exception in a callback (calling an empty `std::function`) drops the
frame, and a destroyed session receives nothing more.

`Bridge::disconnect` holds a reference to an end while it waits for that end's callback. The model leaves this
reference out: an end that nothing else keeps may go while `DisconnectFirst` or `DisconnectSecond` waits. Its
callback is then gone instead of empty, and the other end is not heard through either.

### 2.2 PushToTalk

Adds to every session the flag, the buffer and the position of its audio callback: `stage` is "idle",
"relay" once the callback has read the flag clear, "decode" once it has read it set. A frame is
abstracted to the number of the command it was spoken in and the buffer to the set of those numbers:
the properties tell apart whose audio is in a buffer, not how much. `transcoder` are the sessions
whose Opus transcoder could be made; the others are in relay-only mode.

The flag and the buffer are plain members. Reading the flag is one access and is modelled as such.
`take_command_buffer` swaps the buffer on the io thread while the callback may be inserting into it;
`AfterTake` chooses among what the two can leave behind (an empty buffer, the frame being inserted,
the old contents). A crash of the process is also possible and is not modelled.

`press`, `commandOn`, `tainted` and `heardLate` are history variables: no guard other than the bound
`MaxPress` reads them.

### 2.3 Signaling

One `WebSocketSession` per session. Outstanding operations are state: `accepting`, `reading`,
`writing`. Each completion handler is an action, with everything it calls: `Accepted` writes
`session_created` and starts reading, `Written` takes the message off the queue and writes the next or
clears `is_writing_`, the three failures call `Disconnect`, which detaches the first time. The RTC
thread locks the `WebSocketSession` (`RtcLock`), posts a message (`RtcPost`) and drops its reference
(`RtcReturn`, also when the message did not serialize and nothing is posted); the io thread gets to
the message later (`RunPosted`), when the weak pointer may have expired. `Held` says whether some
`shared_ptr<WebSocketSession>` exists: the manager's, an outstanding operation's, or the RTC thread's.

A message is a number: 0 is `session_created`, n the n-th message posted. That is all order, loss
and duplication need. External: `ConnectionEnds`.

### 2.4 PushToTalkClient

React runs the effect of `usePushToTalk` anew whenever the bridge, the session or the enabling condition
changes. The runs are numbered: `run` is the latest, `ranFor` the bridge each ran for (`None` when it
returned early), and `pressed` and `started` the runs whose local variables of that name are set, since a
disposed run's closures still get the answers to its requests. `disposed` is "not the latest run".
`Press` is `start`, `Stop` is `stop`, called by `Release` (key up, blur, hidden) and by the cleanup in
`Rerun`; `StartAcknowledged` and `StartFailed` are the two callbacks of a start, `StopAnswered` either of a
stop. The set of held keys is abstracted to whether both are down.

A request is a record that goes from "sent" to "accepted" or "failed" and disappears when the page has
taken the answer. `HandleStart` and `HandleStop` are the backend's routes; `Lose` is a request or an answer
lost on the way, which the page sees as a failure. Requests and answers have no order: the browser
sends each on a connection of its own while another is outstanding. The bridge of the session opens
and closes as it likes, each id once. `flagBy`, `lost`, `accepted` and `stops` are history variables.

### 2.5 HttpServer

A connection's HTTP `Session` has no state of its own but the operations that hold it: `reading` (an
`async_read`), `writes` (an `async_write` of the answer to request `req`) and `speech` (a transcription
for request `req`, and whether it is connecting, writing or reading). When none is left the last
reference is gone and the socket closed; `Served` says whether the `Session` exists. `sent` is what the
client has sent, possibly before it was answered, `taken` how many the `Session` has read, and `wire` the
requests whose answers reached the client.

`ReadRequest` is the handler of `do_read` with `Router::route` and the route's handler: most routes write
their answer at once (what those handlers do to bridges and sessions is in `Bridges` and `PushToTalk`),
`ptt_stop` with audio starts a transcription, a malformed request starts nothing, and an upgrade hands the
socket to the `Coordinator`, where `Signaling` begins. `Written` reads on if the answer keeps the
connection. `SpeechEnds` is the handler `ptt_stop` gave to `transcribe`, called from any of the stages
when it fails and from the last when it succeeds. `AcceptFails` ends the accept loop. `AcceptThrows`
and `UpgradeThrows` are the exceptions of `remote_endpoint()` for a connection its client has reset, in the
handler of the accept and in the constructor of `WebSocketSession`; nothing catches them, and the process
ends (`ProcessEnds`).

### 2.6 PageConnection

The page is one thread: an action is a browser event with the handlers it runs, a commit of React with
its effects (`Render`), or the settling of the promise that the head of the chain awaits, with what follows
up to the next `await`. Sockets are numbered, and the session the backend makes for a socket has its
number, so that a mix-up of two connections shows.

| state | code |
|---|---|
| `sock`, `current`, `timer`, `status`, `session`, `pending` | the sockets, `socketRef`, `reconnectTimer`, the two React states, `pendingMessagesRef` |
| `first`, `mounted` | which effect is mounted: a socket below `first` belongs to the one StrictMode has already cleaned up |
| `rendered` | the status and stream the effects have seen: what was set since waits for a commit |
| `pc` | the `RTCPeerConnection`, whether its sender has the microphone, `pendingCandidates` (`parked`) and the `chain` |
| `up`, `down`, `back` | messages on the connection, and the `WebRtc::Session` at its other end |

`Negotiate`, `TakeCreated`, `TakeCandidate`, `TakeAnswer`, `Rollback`, `TakeOffer` and `SendAnswer` are the
steps of the chain, an offer taking two or three with other events in between; `ChainFails` is any of them
rejecting. A description is the number of the local description it comes from, a candidate carries the
number of its own. `Receive` is the handler of `Coordinator` with `set_remote_description` or
`add_remote_candidate`. External: when the browser asks for a negotiation, gathers a candidate or reports a
state, and that the RTC library answers an offer, rejects a candidate without a remote description, and
makes offers of its own (as libdatachannel may), which then cross the page's.

### 2.7 CallClient

The page's buttons (`StartCall`, `EndCall`) with the continuations of their requests (`CallStarted`,
`CallFails`, `CallEnded`, `HangUpFails`), its polls (`PollSends`, `PollAnswered`, `PollFails`), and its
sessions, which come and go with the socket. `cache` is what react-query holds under each session's key,
`bridgeId` the store's, `seen` the ref of the effect that clears it; `activeBridgeId` and `canCall` are
computed from them as `useCallController` does when it renders. The backend is one step a request
(`CreateSession`, `DeleteSession`, `SessionStatus`), with other pages calling and hanging up, and
sessions detached. A bridge is active, stale (an end has left), or removed; how they come to that is
`Bridges`' matter. Every request and answer may be lost, and they have no order.

### 2.8 RtpPacket

The buffer octet by octet, the private members as a record, and `asked`, what the setters were called
with. Each setter is an action that moves octets as its `memmove` does and adjusts the offsets; `parse` is an
operator from octets and a size to what it finds or the `Result` it fails with, for octets it reads behind
that size too: `Received` puts any of `Stray` there. The instance is the one
over a growing buffer (`DynamicRtpPacket`), so that no setter is refused for lack of room; octets behind
the sender's packet are taken to be 0. The sources, ids and fields the setters are given and the payload written
are constants, of the types of the setters' arguments; that all of it fits into 65535 octets, which
`narrow_cast` asserts (`RtpCpp/casts.hpp`), is `RoomAssumption`.

### 2.9 Transcoders

Any number of `OpusTranscoder` objects, each with its `encoder_` and `decoder_`, and what the library has
allocated (`encoders`, `decoders`) at addresses that are used again. `make` is three steps, `CreateEncoder`,
`Configured` and `Made`, and `MakeFails` from any of them; between its steps other objects may be used and
destroyed, as the last reference to a `WebRtc::Session` may be dropped on a thread of the RTC library.
`MoveConstruct`, `MoveAssign` and `Destroy` come in any order that C++ allows, of which the way from
`PeerConnectionManager::create_session` into the `Session` is one. `encode` and `decode` say which codec takes a
frame and whether there is an answer; what is in a frame is external.

### 2.10 How the models fit

* `PushToTalk` contains `Bridges`: theorem `Projection` proves `PttSpec => Spec`, so everything proved
  of `Bridges` holds of `PushToTalk` (`PttCallPrivacy` is an instance).
* `Bridges` implements `Calls` with `call` = the pairs of ends of active bridges and `hears` = the live
  routes. A `Begin`, `Link`, `Cut` and `End` of `Calls` is a request's or a socket's effect.
* `HttpServer` implements `Exchange` with `answers` = `wire` and `over` = the connections whose client has left
  or whose `Session` is gone or will never be made. Its "upgrade" is where a session of `Signaling`
  begins, its "plain" and "stop" requests are the handlers of `Bridges` and `PushToTalk`.
* `Signaling` implements `Lifetimes` with `wsRef` = the sessions whose `WebSocketSession` is `Held`.
  `Bridges` has the same three actions. In `Lifetimes` the handler that detaches may also hold the last
  reference, which in `Bridges` is `Detach` followed by `Release`; and in `Bridges` a session is attached
  and detached only while the io thread is in no other handler, which is what one io thread means.

## 3. Properties and runs

| run | instance | checks |
|---|---|---|
| `bridges` | 3 sessions, 2 bridges | `TypeOK`, `OneCallPerSession`, `DirectoryAgrees`, `CallPrivacy`, `HeardWhileNobodyLeft`, `CallEndsOnlyByHangUpOrLeaving`, `ImplementsCalls`, `HandlersFinish`, `PartnerIsFreed` |
| `bridges_stale_removal` | the same | `ConnectedMeansHeard`: violated |
| `ptt` | 2 sessions, 2 bridges, 2 commands each, symmetric | `PttTypeOK`, `CommandIsPure`, `CommandIsPrivate` |
| `ptt_hang_up` | the same | `NoCommandMeansLive`: violated |
| `signaling` | 2 sockets, 2 messages each after `session_created` | `TypeOK`, `OneWriteAtATime`, `WireInOrder`, `ImplementsLifetimes`, `PostedIsWritten`, `EndedIsReleased` |
| `ptt_client` | 2 bridges, 3 runs of the effect, 3 starts | `TypeOK`, `ReleasedIsStopped`, `StopsMatchStarts`, `KeyUpStops` |
| `ptt_client_overtaken` | the same, 2 starts, symmetric | `HeldMeansPrivate`: violated |
| `http` | 2 connections, 2 requests on one and 1 on the other | `TypeOK`, `OneOperation`, `ImplementsExchange`, `EveryRequestAnswered`, `LeftIsReleased` |
| `page_connection` | 3 sockets (one for StrictMode, one reconnect), 1 candidate a description, 1 offer of the backend | `TypeOK`, `OneSocket`, `SessionsKeptApart`, `SignalsInOrder`, `NoCandidateLost`, `GetsThrough` |
| `page_connection_silent` | the same | `CapturedIsSent`: violated |
| `call_client` | 2 sessions of the page, 2 bridges | `TypeOK`, `StatusIsOfSession`, `CreatedCallStays`, `LiveCallIsShown`, `SeenCallIsForgotten` |
| `rtp_packet` | 2 sources, 1 word of extension, 2 octets of payload, 2 of padding, 6 choices of the octets behind | `ReadsBack`, `CutIsNoticed` |

**Calls.** A session is never in two active bridges (`OneCallPerSession`), although the directory that
decides who is busy holds stale entries and is written last. Both ends of an active bridge are listed
under it (`DirectoryAgrees`). A frame in delivery goes to the speaker's partner in an active bridge
(`CallPrivacy`), with both callbacks of two bridges being replaced around it. The ends of a settled
bridge hear each other as long as no session has left (`HeardWhileNobodyLeft`): the restriction is
needed, see finding 1. A call of two connected sessions ends only by a request naming its own bridge
(`CallEndsOnlyByHangUpOrLeaving`). A handler that waits for a callback gets on (`HandlersFinish`), and
somebody whose partner has left can be called again in the end (`PartnerIsFreed`).

**Push-to-talk.** `ptt_stop` takes audio of its own command only (`CommandIsPure`), unless the buffer is
*tainted*: the last take overlapped an insertion, or a command was started over an abandoned one. At
most one frame, the one past the flag, reaches the partner during a command (`CommandIsPrivate`).

**Push-to-talk on the page.** When every request has been answered and none was lost, a command the backend
is buffering has its key down (`ReleasedIsStopped`): no quick release, key pressed again, change of bridge
or late answer leaves one behind. A run of the effect sends a stop only for a start it was told was
accepted (`StopsMatchStarts`), and a key that stays up ends the command (`KeyUpStops`). The converse, that a
held key means a private command, does not hold: finding 3.

**Signaling.** At most one write outstanding (`OneWriteAtATime`, a precondition of Beast); the client
receives `session_created` and then every message once and in order (`WireInOrder`); a posted message is
written unless the socket disconnects (`PostedIsWritten`); and when its connection has ended a session is
released (`EndedIsReleased`): no reference cycle keeps it. That a session that can be called always has an
operation outstanding that notices the end of its connection (`EndIsNoticed`) is proved.

**HTTP.** A `Session` never has two operations outstanding (`OneOperation`): no request is read before the
answer to the last is written, even when that waits for the speech service. Answers come one for one and
in order (`ImplementsExchange`); a connection is served until its client leaves or its last request asked
for no more (`NoSessionLost`, proved), and no longer (`LeftIsReleased`); and every request that is due an
answer gets it (`EveryRequestAnswered`), if transcriptions end.

**The page's connection.** There is never a second live socket, nor one after the page has gone
(`OneSocket`), with a timer that may be set, StrictMode's second mounting and close events that come late.
The session shown, the messages in the chain and those on their way are all of the connection in use
(`SessionsKeptApart`). What the backend has said lies in order and without a gap on the connection, parked
until there is a peer, or in the chain (`SignalsInOrder`): what was parked is handled before what comes
later. The backend loses a candidate only if it never applied the description the candidate is of
(`NoCandidateLost`), also when offers cross and the page takes its own back. And if connections stop
failing, the page ends with a session and a negotiated peer of that session (`GetsThrough`). "Stop failing"
(`Calm`) leaves everything else open: what was lost before, on which socket, who offered first, and how
often the microphone is switched.

**The call on the page.** The status shown is of the session of today (`StatusIsOfSession`), because each
session has a key of its own. A call just created is not taken off the page by a poll that was answered
before it existed (`CreatedCallStays`): that is what `hasSeenActiveBridgeRef` is for. A session that stays in
calls is shown in one (`LiveCallIsShown`), also when the answer to its creation was lost or somebody else
called, and a call that the page has seen active leaves it for good when it is over: it goes, and nothing
brings it back (`SeenCallIsForgotten`). Two calls do stay. One that ends between the answer to its creation
and the next poll was never seen. And one whose creation is answered only after polls have shown it and its
end is stored by that answer (`useCallActions.ts`) when `hasSeenActiveBridgeRef` has been reset already:
`StartCall`, `CreateSession`, a poll that shows the bridge, its removal by the other end, a poll that does
not, `CallStarted`. The property leaves that state out. Either call is shown until the page has seen another
one and its end, or is reloaded: neither a lost session nor an effect clears the store, and `canCall` forbids
another call. *End call* takes it off while its bridge is stale; once the bridge is removed the answer is 404
and the call stays. The text "The destination is connected and can hear this session."
(`CallControls.tsx:80`) is wrong meanwhile.

**RTP packets.** Whatever the order in which the parts of a packet are set, and set again, `parse` finds
what was asked for, and the payload the sender wrote (`ReadsBack`). The exceptions are parts taken off again:
`set_padding_bytes(0)` and `set_extension({})` only clear a bit, so that `parse` takes the octets for payload,
and `set_payload_size(0)` without padding writes a 0 over the octet before the payload. The backend calls
none of the setters; they are the sender `parse` is checked against. A packet that was cut is refused, or
only its payload is shorter (`CutIsNoticed`; for packets without padding, whose last octet says how much
there is), with any octets behind what was received. A cut within the header of the extension, or just before
it, is the exception: `parse_extension` reads the four octets without comparing them with the size
(`RtpPacket.hpp:277-286`), and `WebRtc::Session` hands it a span that ends where the packet does, so that
what is read there is not the packet's. If the offset of the payload that comes out fits into 16 bits, the
check of line 297 refuses the packet; if not, as with a length of 16380 words after twelve octets, a debug
build stops at the assertion of `narrow_cast`, while a release build cuts the offset, which then passes the
check, and the packet is accepted with its header as payload (theorem `CutHeaderIsAccepted`). `CutIsNoticed`
says of such a packet only that a payload which is found ends where the packet does. The offset of a
header that has arrived whole, with a length of 16380 words and no source, is cut to 16 bits in the same way;
no setter within `RoomAssumption` lays one out.

**Transcoders.** Every codec allocated is owned by exactly one object or the `make` in progress, no pointer
is to a freed one, and a stream of frames stays with its codecs when the object moves (`OneOwner`): three
temporaries and two threads have a hand in it, and a test would see neither a leak nor a second free. This
one is proved and has no run.

**Bounds.** Every property about calls involves at most two bridges and their ends, or an older and a
newer bridge of one session: three sessions with two bridges have a stale bridge with a newer one beside
it, and the violation of finding 1 (that two disjoint calls do not touch each other is what the proofs
add). A command interferes with itself, with the one before it and with the next call of its session:
two commands and two bridges. On the page two presses overlap, and a third shows what they leave behind;
stops are not bounded, each start has at most one. HTTP connections share only the process and the
speech client: two show both, and the second request of a connection what the first left. WebSockets do
not interact, so two are enough to see one mistaken for the other, and with `session_created` three
messages fill the queue while one is written and one is posted. Sessions and bridges are never reused
(ids are fresh UUIDs). A page needs a socket that was closed by a cleanup, one that fails and one that
replaces it; one candidate and one offer of either side are enough to come too early, cross, or be lost,
each of the second session then meeting what is left of the first. A call of the page, an older and a
newer, and a session before and after a reconnect are two bridges and two sessions. In a packet every
part is absent, small and larger, with all the others behind it. A run stops when they are used up, and
the configurations say `CHECK_DEADLOCK FALSE`: a server with no client left to come may stop. The proofs
have no bounds: any sets of sessions and bridges, any bounds on the rest.

**Fairness.** Only what the program's own threads owe. In `Bridges` strong fairness of the io thread's
steps inside a handler: the lock they wait for is free most of the time, with a frame every 20 ms, but
may be taken again before the thread gets it. Weak fairness of the end of `send_audio` and of the
pending operations of a disconnected socket. In `Signaling` weak fairness of the handshake, of writes,
of the failure of a read whose connection has ended, of posted handlers and of the return of an RTC
callback. In `PushToTalkClient` weak fairness of the backend's handling of requests and of the page's
taking of answers; a loss counts as an answer. In `HttpServer` weak fairness of a `Session`'s handlers
and of the stages of a transcription, which the code cannot enforce: no stage has a timeout, so
`EveryRequestAnswered` holds only as long as the speech service answers or closes. In `PageConnection`
weak fairness of dispatched events, commits, the timer, the settling of promises and the backend's
reading; nothing makes a socket open or stay open. In `CallClient` weak fairness of the poll timer and
of the requests of the buttons, and strong fairness of the polls of the session in use: each may fail,
but they go on every second, and with all of them failing the page can know nothing. Nobody is forced to
connect, call, speak, hang up or leave, and the RTC library need not report anything.

## 4. Findings

Each is a run that TLC ends with a counterexample.

1. `ConnectedMeansHeard`. `Bridge::disconnect` (`backend/src/WebRtc/Bridge.cpp:42`) empties the callback of an
   end that is still there without asking whose callback it is. A and B are bridged, B leaves (its entry
   stays), A and C are bridged, and a removal of the first bridge's id silences A in the second, which
   stays active. The page tells A "The destination is connected and can hear this session."
   (`CallControls.tsx:80`).
2. `NoCommandMeansLive`. Only `ptt_stop` clears the flag, and it is answered 404 once the bridge is gone:
   a bridge removed during a command leaves the flag set, and in the session's next call its audio goes
   into the command buffer, while the page says "Live — hold Ctrl + Space for private command"
   (`MicrophoneControl.tsx:50`) and "The destination is connected and can hear this session."
   (`CallControls.tsx:80`).
3. `HeldMeansPrivate`. The page does not wait for the answer to a stop before it sends the next start, and
   the two may arrive in either order: a stop handled after the next start clears the flag while the key
   is down and the page says "Private command active" (`MicrophoneControl.tsx:41`).
4. `CapturedIsSent`. The effect that hands the microphone to the peer depends on the stream only
   (`usePeerConnection.ts:99`). A microphone that is on before the socket opens, or while it reconnects, is
   not handed to the peer made then: the page says "Live — destination can hear you"
   (`MicrophoneControl.tsx:52`) and sends silence until the microphone is switched off and on.

Limits that were met and have no run: `ptt_start` succeeds for a session in relay-only mode, which relays
whatever the flag says; a start acknowledged while the key is down again counts for the second press, and
when that press's own start is lost nobody stops the first (`usePushToTalk.ts:65`); a call never seen by a
poll stays on the page, and so does one whose creation is answered after it was seen and over (section 3); a
packet cut at the header of its extension may be accepted in a release build (section 3); a length of the
extension that arrives whole and does not fit into 16 bits is accepted likewise; an incoming call that stops the microphone while the browser is still
asking for permission does not stop it (`useMicrophone.ts:47`).

## 5. Proofs

Constants are arbitrary but for the named assumptions: `NoneAssumption` (None is no session and no
bridge), `MaxPressAssumption`, `MaxRtcAssumption`, `MaxRequestsAssumption` and
`BoundsAssumption` (the bounds are natural numbers; of a packet at most 15 sources and 255 octets of padding,
as the fields have room for), `RoomAssumption` (section 2.8) and `ValuesAssumption` (what the setters are given
has their types). Every invariant that a run checks is a theorem.

**BridgesProofs.** None of the safety properties is inductive alone. `BridgeInv` adds what the io thread
relies on between two of its steps: a registered session is kept alive by its `WebSocketSession`
(`LifetimesAgree`), a frame in delivery goes where the callback points because replacing the callback
waits (`InFlightFollowsRoute`), a bridge has two different ends or none (`BridgeShape`), an entry, stale or
not, leads to a bridge of that session that was not disconnected (`EntryShape`), what is already done in
the middle of a handler (`HandlerState`), and that a live route belongs to some bridge of the two
(`RoutesInBridges`). The last needs a bridge, not an active one: the bridge of a live route is active
because both its ends are alive. `Invariance` proves `Spec => []BridgeInv`, one step per action; then
`OneCallPerSession` follows from `DirectoryAgrees` where no bridge is being connected and from the erased
entries where one is; `CallPrivacy` from `InFlightFollowsRoute` and `RoutesInBridges`. `CallsLast` is the
action property. `Refinement` proves that the initial state and every step map to `Calls`; the
interesting steps are those that change who is alive (`Release`, `FinishSend`), which end a call that no
request ended, and there at most one session goes at a time.

**BridgesProofs, PushToTalk.** `Projection`: each step of `PttNext` is a step of `Next` or leaves `vars` alone. `PttInv`
adds the callback's position (`CallbackState`: never delivering and decoding at once), `LateFrame` (a late
frame is still on its way, or counted, never both) and `CleanBuffer` (without a taint the frame being
decoded belongs to the command in progress too).

**SignalingProofs.** `SignalingInv` adds that both tables agree (`TablesAgree`), that nothing happens before
the handshake (`HandshakeFirst`), that an outstanding write has a message (`QueueInUse`), and `InOrder`: along
posted, queue and wire the numbers run on without a gap, and none is missing while the
`WebSocketSession` exists. Without the last conjunct the first message after a loss would break the
order; it is why a lost message is always the last.

**PushToTalkClientProofs.** `StopsMatchStarts` is inductive with the types; `ReleasedIsStopped` speaks only of
settled states and says nothing about the way there. `WillBeStopped` does: a command of the open bridge, with
nothing lost, has its start about to be acknowledged, its stop about to be handled, or its key down and
acknowledged, and every step hands one to the next. It needs that only the latest run can be
pressed (`RunShape`), that requests are for bridges that have been open (`BridgesKnown`: a bridge that opens is
a new one), and that a start fails only after its bridge has closed (`FailedIsClosed`). `TypeCorrect` is about
the ids: `sent` stays below its bound because a stop is only sent for an accepted start. `CountInv` counts
without a sum over the runs: the starts outstanding (their ids) and those accepted (pairs of a run and a
place among its starts) are together at most the presses, every stop takes the place of an accepted start, and
`sent` is the presses and the stops. The lemmas say how the set of places grows with one run's counter.

**HttpServerProofs.** `HttpInv` ties the operations of a connection to its counters: an outstanding
answer is that of the request read last (`AnswersLast`), and for a client that has not left as many
answers are on the wire as requests were read, but for the one in progress (`Answered`). With
`OneOperation` this makes the next answer the next number, which is the step `Answer` of `Exchange`;
that a `Session` once gone never comes back (`ServedStaysOver`) makes `over` grow only.

**PageConnectionProofs.** `PageInv` says what belongs together at each status of the socket (`Phases`): while it
connects there is no session, no peer and nothing pending; while it is connected the backend's session is
the socket's, and so is a peer if React has committed the status; when it is lost, so is the session.
That the timer waits for the commit (five seconds against one) is used once, where the next socket opens:
without it the old peer would still be there. `Closers` tells which sockets a cleanup closed, `Addressed`
that every message is of the connection it is on and every task of the peer that has it. Then
`OneSocket` is inductive and `SessionsKeptApart` follows. `NoCandidateLost` needs `Descriptions`: a peer numbers
its descriptions upwards, so that one on its way is higher than everything sent before it and than
everything the backend has lost, and the backend loses only while it has applied nothing.
`NothingSkipped` (`SignalsInOrder`) needs the numbers piece by piece (`InOrder`): what is on the connection ends
with the last number said, what is pending ends where that begins, and the chain, with negotiations in
between, has all the others after the last one handled. Nothing is pending once there is a peer and nothing is
in a chain before, so that a new peer takes over exactly the pending messages. Each step of the peer takes
the head, appends a negotiation, or leaves the chain alone (`PeerStepOrder`).

**CallClientProofs.** `ClientInv` adds that every status of a call, shown, kept for an earlier session
or still on its way back, is of a bridge with the session it was asked for as an end (`StatusesKnown`),
which lasts because a bridge never changes its ends (`EndsKept`, shown for each step of the backend);
`hasSeenActiveBridgeRef` is what the status shown says (`SeenIsShown`); and while a call is being
created the store is empty (`EmptyWhileCalling`), because `canCall` requires it. `StatusIsOfSession` is
the first of these for the session in use; `CreatedCallStays` is the action property: with a call in the
store no creation is under way that could fail and clear it, and an effect that has seen nothing leaves
it alone.

**RtpPacketProofs.** `Layout` proves `LayoutInv`: while no part was taken off, the members of the packet fit
together (`Sized`), say what was asked for (`AskedFor`), and the octets of the buffer say the same, each part
where the offsets put it (`Octets`). TLC checks it on the run's instance, too. Each setter has a lemma for the
new members and one for the octets (`PadSizes` and `PadOctets`, `ExtendSizes` and `ExtendOctets`, `CsrcSizes` and
`CsrcOctets`, and so on), from which its step follows (`PadKeeps`, `ExtendKeeps`, `CsrcKeeps`): a part that does not move
stays (`PartsStay`), one that moves is read at its new place (`MoveAt`), and nothing is written over another
(`PartsBelow`). Below them are the lemmas of the octets: that the octets of a number read back as the number
(`Octets16`, `Octets32`), and what setting one flag does to the others (`PaddedFlag`, `ExtendedFlag`). `ParseFinds`
then evaluates `parse` on octets whose flags and header say what the members do, which gives
`WhatIsAskedIsRead`. Of a packet that was cut only the octets received say so (`ReceivedSays`), and what is
behind is arbitrary: too few octets are refused whatever they are (`ParseRefusesFew`), then the flags suffice
(`ParseRefusesSources`), then a whole header does (`ParseRefusesExtension`), and with any length in its place
the payload that is found ends with the packet (`ParseStaysWithin`). Hence `CutsAreNoticed`, for every number of
sources up to 15, any extension and payload that fit, and any octets behind. `CutHeaderIsAccepted` evaluates
`parse` on the packet that is wrongly accepted.

**TranscodersProofs.** `OwnerInv` is `OneOwner` address by address (`Owners`, `Single`, `Covered`), with the types
and that a pointer is to one codec at most. What the library allocates is not in use, so that nobody holds a
pointer to it (`Fresh`): this is where a pointer kept after its codec was freed would break the proof.

**Model-checked only.** The liveness properties (under fairness, out of the prover's reach) and the findings,
which are counterexamples.

## 6. Not modelled, and why

* How HTTP messages are framed (an unknown route is answered without a body or a length, `Router.cpp:24`, and the
  connection kept, so that a client cannot tell that the answer is complete; the pages use known routes).
* Time: half-open connections, the missing timeouts of reads and of the speech client (see the
  hazards); the models start from a connection that has ended.
* Collisions of UUIDs, and the failure to create a peer connection (the upgrade is then refused).
* The crash that a data race on the command buffer may be; only its effects on the contents are.
* What libdatachannel and the browser do with descriptions and candidates beyond which of them they take,
  and the codec set-up of a track; `configureOpusSdp`, which rewrites text.
* `RtpPacket` over a buffer of fixed size, `extension_data`, and packets edited after they were parsed.
* Signal processing (mixer, tempo, pitch, gain, WAV): not reached from `main`.
* `SmallVector`, third-party code copied into the tree; settings and start-up, which are sequential.
* The composition of `CallClient` with `PageConnection`, which share the session and the microphone: the
  product is too large for a run. Each has the other's steps as free choices.
* Presentation, and the speech service, which keeps no state between requests.

## 7. Plan

Done: `Calls`, `Bridges`, `PushToTalk`, `Lifetimes`, `Signaling`, `PushToTalkClient`, `Exchange`,
`HttpServer`, `PageConnection`, `CallClient`, `RtpPacket`, `Transcoders` with their runs, and the proofs of section 5,
among them every invariant that a run checks. Next:

1. the rule by which the speech service picks a command (`stt/src/voice_command_api/commands.py`), as an operator
   checked against a reference definition;
2. `Signaling` with `PageConnection` at the other end of its sockets, on an instance small enough to check;
3. the chain of audio effects, should the program come to use it.
