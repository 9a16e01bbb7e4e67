# A verification project for ekizu

ekizu is an asynchronous C++ library for Discord applications: a gateway
client (the shard) over websockets, a REST client behind a rate limiter, and
voice connections with end-to-end encryption (DAVE). This directory holds TLA+
models of these parts, the TLC configurations that check them on small
instances, and TLAPS proofs of the most important results for every size.

Everything in ekizu is callback driven. An object serialises its handlers on a
*strand*, so one handler is one atomic step; what interleaves are the
completions the handlers wait for (reads, writes, closes, timers, connects) and
the calls the application makes at any time. The models follow that: **one
action per handler**, and the state between handlers is explicit. Where the code
shares state between threads (an atomic flag in `HttpConnection`, a mutex in
`UdpSocket`) a step is one access, or one block under the mutex. What is pure
(JSON, requests, frame layouts) is written as operators and checked by a round
trip over bounded inputs.

## Inventory

| component | status | state | operations | talks to | what is hard | what makes it correct |
|---|---|---|---|---|---|---|
| Gateway shard (`shard.cpp`) | modelled | connection, heartbeat timer and counters, session, resume URL, inflater, intentional-close flag | `next_event`, `close`, commands; handlers for backoff, connect, read, opcode, heartbeat | WebSocketClient, Inflater, gateway | close against backoff, connect and read; a heartbeat chain nothing restarts; counters that survive reconnects; overlapping `next_event` | the heartbeat never dies silently, a verdict only after real silence, close ends everything, no attempt afterwards |
| Gateway session | modelled | sequence, session id | Identify, Resume, dispatches | the gateway | drops and closes in the middle of a session | nothing lost, repeated or reordered |
| WebSocketClient (`ws.cpp`) | partly | read and send queues, flags | read, send, close, cancel | Beast stream | overlapping callers, cancel against a read in flight, failing drains | Beast's one-at-a-time contract, each handler once, order both ways |
| Rate limiter (`rate_limiter.cpp`) | modelled | queue, busy flag, waiting request and timer, per-route limits | send, shutdown; timer and response handlers | HttpClient through `send_fn` | shutdown against timer and response; two-step completion | exactly once, one at a time, within the limit, nothing after shutdown |
| HttpClient (`http_client.cpp`) | modelled | connection, token | `send_http`, connect, retry once, shutdown | RateLimiter, HttpConnection | the retry of a request that may have run; a connect that completes after shutdown | executed at most twice, a retry never on the connection that failed |
| HttpConnection (`http.cpp`) | partly | queue, busy, cancelled | connect, request, cancel | Beast HTTP stream | cancel from another thread against a finished response; handlers that call back | own response, at most one outcome after a cancel, a serial service |
| UdpSocket (`udp.cpp`) | modelled | receive queue and flags under a mutex | bind, connect, send, receive, close | voice | close between an unlock and a socket call | each receive answered once, in order; close answers all |
| VoiceConnection (`voice/*`) | modelled | websocket, UDP socket, heartbeat, connection state | run, close, request_stop, listen loop, heartbeat, reconnect | WebSocketClient, UdpSocket, DAVE | results that are stale when their handler runs; close during a reconnect | a reconnect settles, a close is answered |
| Voice sender and receiver | partly | channel, pending frames, failures | send_opus, flush, sender loop; packet parsing | UdpSocket, DAVE, libsodium | frame accounting on every failure path; two loops | the counter is exact, flush ends |
| DAVE session and transitions | modelled | MLS states, proposals, pending group, prepared transitions, encryptor | the DAVE opcodes, recovery | voice gateway, mlspp | opcodes out of order, failures in the middle of a transition | never the key of a group that is gone |
| DAVE cipher manager and decryptor | modelled | ciphers per generation, window of missing nonces, managers that expire | seal, open, expire | media network | replay, reordering, wrap of the generation byte | no nonce accepted twice, late frames accepted within the window |
| DAVE frame processors, codec utilities, LEB128 | modelled | none | split, reassemble | encryptor, decryptor | codecs' clear bytes, start codes, sizes at their limit | a frame survives the round trip |
| Request builders | modelled | options set | setters, conversion, send | RateLimiter | options that get lost, attachments and their ids | the request says what was set |
| JSON models and gateway events | partly | none | `to_json`, `from_json` | all | null against absent, misspelt keys, numbers as strings | what was read is what was written |
| TimerQueue, LruCache, EventEmitter | not modelled | | | applications only | | |
| Persisted keys, Inflater, ShardManager, Opus, logger | not modelled | | | | | |

The hazards found while reading the code, with their lines and the properties
that cover them, are listed in `PROJECT.json`. Four have no property: nothing
bounds the wait for Hello (`shard.cpp:570`); the backoff's cast is undefined
after 64 attempts (`shard.cpp:442`, the delay is abstract here); a malformed
rate-limit header throws inside a handler (`rate_limiter.cpp:239`, exceptions of
the standard library are not modelled); and the voice heartbeat is not restarted
after a verdict (`voice_heartbeat.cpp:9`, modelled as it is; the corresponding
promise is made nowhere in the repository).

## Modules

| module | models | notes |
|---|---|---|
| `Shard` | `Shard` of `shard.cpp` | variables carry the names of the fields |
| `GatewaySession` | `Shard` composed with a gateway that keeps sessions | extends `Shard`, constrains what is read, records what is delivered |
| `SerialService` | the abstract promise of a request queue | in order, one at a time, each request answered once, also after a stop |
| `RateLimiter` | `RateLimiter` | with any `send_fn`; refines `SerialService` |
| `HttpClient` | `HttpClient` composed with `RateLimiter` | extends `RateLimiter`, replaces its `send_fn` by `send_http` |
| `HttpConnection` | `HttpConnection` of `http.cpp` | a second refinement of `SerialService` |
| `WebSocket` | `WebSocketClient::Impl` | |
| `UdpSocket` | `UdpSocket` | |
| `VoiceConnection` | lifecycle, listen loop, heartbeat, reconnect | |
| `VoiceSender`, `VoiceDave`, `VoiceMedia` | sender loops; MLS session and transitions; the two composed | |
| `DaveFrames` | Encryptor, Decryptor, CipherManager over an unreliable network | |
| `FrameLayout` | frame processors, codec utilities, LEB128, RTP header | |
| `JsonCodec` | `json_util` | a structure is a function from fields to kinds |
| `ModelStructs`, `GatewayStructs` | the structures of the API and of gateway events | data for `JsonCodec` |
| `ModelCodecs` | each structure's `to_json` and `from_json` | says what a pair does beside the regular case |
| `ApiDocuments` | the life of one document: read, edited, sent, read by a peer | |
| `Requests` | 57 request builders | |
| `Wire` | composition of `ApiDocuments`, `Requests`, `FrameLayout`, `DaveFrames` | they share no state; a behaviour exercises one |
| `MCShard`, `MCGatewaySession`, `MCHttpClient`, `MCHttpConnection`, `MCWebSocket`, `MCUdpSocket`, `MCVoiceConnection`, `MCVoiceMedia`, `MCWire` | — | the constants of the TLC instances |
| `ShardProofs` (with `GatewaySession`), `RateLimiterProofs` (with `HttpClient`), `HttpConnectionProofs`, `WebSocketProofs`, `UdpSocketProofs`, `VoiceConnectionProofs`, `VoiceMediaProofs`, `WireProofs` (all of `Wire`) | — | theorems checked by TLAPS |

### Shard

A `next_event` call is an operation with a program counter: `idle`, `backoff`
(reconnect timer running), `connecting`, `reading`, `got` / `failed` (the
handler of a completed read is queued on the strand), `sending`, `closing`.
`NextEvent`, `BackoffExpired`, `Connected*`, `ConnectFailed`, `ReadDone`,
`ReadFailed`, `OnReadError`, `InflateError` and the `On...` actions are the
handlers in the order of the code; `Heartbeat...` are the timer's; `AppClose`
and `AppCommand` the calls of the application; `ConnectionEnds` the peer.
A read's completion and its handler are two steps, because the client completes
on its own strand: in between the connection may be closed or replaced.

A `WebSocketClient` is an identity with a state `open`, `closing`, `closed`.
A close takes effect on it in the step that asks for it: the client's strand
runs the request inline when it is idle. Identities are reused once nobody
refers to them. Payloads are abstracted to an opcode and a sequence number; a payload
the shard rejects before it changes anything is `Other`. zlib's context is
represented by the connection the inflater was created for.

`user_closed`, `unacked` and `helloed` are history variables.

### GatewaySession

The gateway greets a connection with Hello, answers Identify with READY
(sequence 1) and Resume(n) by continuing after n, and then sends the dispatches
of the session in order, with control opcodes in between. It is external: it is
modelled by what the shard relies on.

### RateLimiter and SerialService

`async_send_impl`, `shutdown` and the wait timer's handler are one step each and
run `start_next` inline. The completion of `send_fn` is two steps (`Answered`,
`Finished`): HttpClient invokes it on its own strand (`bind_executor` only
associates an executor with it), and `finish_one` dispatches the second half to `m_strand`. The
reset header is truncated to seconds (`parse_reset`). The history variables
`accepted`, `sent`, `completions`, `outcome` record what callers see.

`SerialService` keeps the accepted, unanswered requests in order. The mapping
puts the waiting or in-flight request in front of `m_queue`. Its fairness says
that pending requests are eventually answered.

### HttpClient

`HttpClient` extends `RateLimiter` and refines the step that answers a request.
The limiter calls `send_fn` on its own strand; the client dispatches to another
one, so a request is in flight before the client starts on it, and `shutdown` of
the two are separate steps. `call` is the one `send_http` under way: its
attempts, the connection it uses, and whether the server has executed it. The
connection keeps `HttpConnection`'s promise: an answer that is the request's own
response or an error. A server may execute a request and the answer be lost,
which is what makes the retry interesting.

### HttpConnection

`connect_impl` is a chain whose stages may fail. After it `request` and `cancel`
come from any thread: `request` posts to the strand, `cancel` sets the atomic
`m_cancelled` at once and posts `cancel_on_strand`. `strand` says where the
handler that runs is when it acts on the flag it has read (`finish` loads it,
then hands the outcome over), reads it a second time or calls out to a
completion handler, which may call `request` again. `start_next` reads the flag and starts
an operation in one step: a cancel between the two leaves the same state as one
right after. `wire` holds the responses the server has under way; an error of
the stream leaves it closed. So a response may be handed over after a cancel:
`CancelSticks` says that it is at most one, and none once `cancel_on_strand` ran
(`late` is the history variable for it).

### WebSocket

Reads and sends are identified by the call, a message by the send that passed
it. `step` is `DrainOp::step`; a send that finds a drain running completes at
once, before its message is written, as the code does on purpose. `stream` is
Beast's stream: after a close, an error or a cancel every operation on it fails.

### UdpSocket

Methods run on any thread. A step is one block under `m_m` or one call on the
socket, so `close` may come between the two. `threads` holds the executions of
`start_receive` and of receive completions under way; a completion looks at
`m_closing` in one block (`Complete`) and posts the handler after it (`Deliver`).
Datagrams are numbered in the order of their arrival; a receive has no timeout.
`CloseAnswersAll` therefore excuses one case from `udp_closed`: a receive that
had failed and whose completion looked at the flag before `close()` set it is
answered with the error it got.

### VoiceConnection

`run`, `close`, `request_stop`, the listen loop with the set-up of the UDP
socket, the heartbeat and the reconnect run on one thread; what completed but
has not been handled is queued. Websockets are numbered, and a listen loop reads
from whatever `m_ws` is at its next step. `run` may be called again once it
succeeded and the websocket is gone: its connect then overlaps with the
connect of a reconnect, and the later one replaces (`m_ws.emplace`) and so
cancels the earlier. Several handlers use `m_ws`, `m_udp` or
`m_dave` without looking whether it is there; `crashed` is the state after such a
use. The two liveness properties allow `crashed`: they state what the code promises while
its objects exist.

`close` holds on to the websocket that is `m_ws` when it is called (`closing_ws`)
and closes that one, but its handler looks at `m_ws` again: the last read is
started on what a reconnect has put there meanwhile, or on nothing. So
`CloseIsAnswered` excuses, besides `crashed`, a last read that waits for ever on a
websocket that is open and silent.

### VoiceSender, VoiceDave, VoiceMedia

`m_channel` has no buffer, so a send waits in it until a `SenderOp` receives.
Time is open: whether a frame is due is a choice. Each `SessionDescription`
starts one more loop. In `VoiceDave` an MLS state is a group and an epoch; MLS is
external, what it accepts is open where the code does not decide it. A session
description and a new epoch carry any protocol version, 0 or 1 here (the code
distinguishes only these). With version 0 outside a transition
`maybe_start_mls_async` returns before it touches the encryptor: the session may
be reset and the key of its group stay in use, which is the one case
`EncryptsInGroup` leaves out. A handler
that sends waits for the send before the next opcode is read. `VoiceMedia`
composes them where the code does: in the session description, in the encryption
of a frame, and in `request_stop`.

### DaveFrames and FrameLayout

The network loses, repeats and reorders frames. AES-GCM is ideal: a frame opens
with the ratchet and generation it was sealed with. The clocks are the actions
`Expire`, `ManagerExpires` and `Lives`. `FrameLayout` names the bytes of a codec
unit by their position and a sealed byte by a tuple; a frame is split, given its
trailer, sent, checked and put together again. A frame its codec does not take
(too short, or cut within an OBU) is encrypted whole. `Outcome` says how `encrypt`
ends: `written`; `refused` when there is nothing to write or the body does not fit;
`thrown` when a header is longer than its frame or its NAL unit, of which a span
with a count below zero is made; and `overrun` when the trailer, for which
`serialize_unencrypted_ranges` keeps no room, would be written past the end of the
buffer, which is undefined and after which nothing is claimed. Ranges that do not
fit are cut as the code cuts them. What arrives at the receiver includes packets of
another version or payload type and packets that lost bytes.

### JsonCodec, ModelStructs, GatewayStructs, ModelCodecs, ApiDocuments

A document is a function from the keys that are present to values in one of the
forms JSON has for them (null, string, number, object of one's own). A kind says
which form the writer uses, which the peer uses, which the reader takes over and
at which it throws. Integers are read from text as `deserialize_int` does it: what
is no number, or too large for `stoi`, leaves the field alone, and a number too
large for its type is narrowed (`Narrowed`). The nested responses of an
interaction are always read as new ones, because their reader assigns what it
read to a local of the same name (`Interactive`). `Codec(S)` is the regular pair of conversions;
`ModelCodecs` lists what a structure's pair renames, omits, never reads or never
writes. `ApiDocuments` follows one structure with one field in focus, which takes
every value, the other keys being all present or all absent, and the twelve
variants chosen by a type.

### Requests

A builder is its method, its path as a sequence of segments with placeholders,
its options and what it does with the answer. Up to `MaxOptions` setters are called
in any order; `request_sender`, query strings, attachments and the ids of kept
attachments are modelled by what they produce. Raw JSON given as `payload_json` is
an object, one that lists attachments itself, no object, or no JSON. A list of
attachments to keep may be empty, which is sent, or not given, which is not.
`RequestSaysWhatWasSet` is an equality of queries, keys of the body and
attachments. It excuses the setters in `LostBy`, whose fields no `to_json` writes
(all of `CreateInvite`, four of `CreateGuild`), and the requests in `Cracks`,
which throw instead of being made.

## Runs

| run | instance | what it shows |
|---|---|---|
| `shard_two_callers` | 2 callers, 3 connections, 2 misses, 1 write, inflater may fail, symmetry | `HeartbeatChainAlive`, `VerdictSound`, `UrlHasSession`, `NoAttemptAfterClose` under overlapping calls |
| `gateway_session` | 1 caller, 2 connections, 3 dispatches, kMaxMissedHeartbeats = 3, 2 writes, fairness | the documented use, composed with the gateway: `SequenceIsDelivered`, `DeliveredInOrder`: nothing is lost, repeated or reordered across drops, closes and resumes; `InflatedByOwnContext`; and the liveness properties `SilenceIsNoticed`, `CloseReleasesCallers`, `DropIsRecovered` |
| `http_client` | 3 requests on 2 routes, half-second ticks over a second, fairness | limiter and client together: `ExactlyOnce`, `OneAtATime`, `StoppedWasNotSent`, `NoSendAfterShutdown`, `WithinLimit`; `AtMostTwice` and `RetryIsOnFreshConnection` of the retry; `IsSerialService` |
| `http_connection` | 3 requests on https, cancel, fairness | `OwnResponse`, `CancelSticks`, `IsSerialService` |
| `web_socket` | 3 reads, 3 sends, 2 closes, cancel, fairness | `StreamContract`, `ReadsOnceInOrder`, `WireInOrder`, `StrandedOnlyAfterError`, and that nothing hangs: `SendCompletes`, `CloseEndsReads` |
| `udp_socket` | 2 receives, 1 send, 2 datagrams, fairness | `OneServesTheQueue`, `AnsweredOnceInOrder`, `CloseAnswersAll`, `DatagramsAreDelivered` |
| `voice_connection` | 2 websockets, 2 misses, fairness | `ReadsOnCurrentWs`: one websocket is open and every loop that waits waits on it; `ReconnectSettles`; `CloseIsAnswered`, also when the websocket is given up or replaced in the middle of the close |
| `voice_media` | 2 frames, 2 loops, 2 failures, 2 groups of 2 epochs, versions 0 and 1 in any order, fairness | `PendingCountsFrames`, `EncryptsInGroup`, `FlushEnds` |
| `wire` | 188 structures and 12 variants, 57 builders with up to 3 options, frames of Opus, VP8, VP9, H.264, H.265 and AV1 of up to 3 units and, to exceed the buffer and the trailer, of up to 21, frames too short or cut, two ratchets | `ReadsBack`, `RequestSaysWhatWasSet`, `ReplayWindow` |
| `shard_auto_reconnect` (violation) | 1 caller | an InvalidSession ends auto-reconnect, see Findings |
| `shard_closed_stays_closed` (violation) | 1 caller | a close during a connect is forgotten, see Findings |
| `udp_close_is_canceled` (violation) | 2 receives, 1 send, 2 datagrams | a pending receive is told `udp_closed`, see Findings |

`IsSerialService` of `http_client` and of `http_connection` is the whole of
`SerialService`, its fairness included.

**Bounds.** Three connections are one current, one that an overlapping caller
still reads from, and one being installed; a further one could only repeat a
role. Two unfinished heartbeat writes are one more than the tick ever needs. In
the run with two callers dispatch sequences are all 0: no property of that run
looks at them, `gateway_session` does. Three requests on two routes give a
request waiting, one queued behind it on the same route and one on another; two
ticks to a second let a reset header be truncated. Three reads and three sends
give every queue one element in service and up to two waiting, so that order
matters. On the UDP socket one receive is in service while another is queued,
and two datagrams can be exchanged. Two websockets are the one lost and the one
that replaces it. Two loops and two frames let two loops hold a frame each;
`FramesInGroup` keeps the product of the sender and of the encryption small, the
encryption being indifferent to a second frame. Four generations, two nonces to
each, a gap and a window of two put every comparison of the cipher manager below,
at and above its limit; the proofs remove these bounds. `SizeWrap = 32` in place of
256 and a padding of 8 let frames of a few units fill the trailer's size byte and
the buffer. `MaxTag = 20` is above
the largest type tag in use. `MaxSends`, `MaxSeq`, `MaxTime`, `MaxWs`,
`MaxDatagrams`, `MaxGroups`, `MaxEpochs`, `FramesInGroup`, `MaxNonce`,
`MaxOptions` are the guards that the code does not have.

**Fairness.** Weak fairness of: timers, queued handlers, and completions of
writes, closes and connects, and the clock. Beast's handshake timeout bounds
connects and closes; a write has none (`ws.cpp:70` sets the suggested client
timeouts) and ends when TCP takes the bytes or gives the connection up. In
`GatewaySession` a read on a live connection is also assumed to complete, which the
gateway's Hello and ACKs give in practice: ekizu itself has no timeout before
Hello (listed as a hazard). In `WebSocket` a read need not complete while the
stream is open. In `HttpClient` the strands run and a request in flight is
answered or fails, in `HttpConnection` an operation on the stream completes or
fails: the stream has a 30 s timeout. In `UdpSocket` threads run, and the socket
hands a datagram that is there to a receive that waits; datagrams need not
arrive. In `VoiceConnection` the reconnect's timer and connect, and the close of a
websocket, end; the last read of `close` ends if its websocket is not open; the
server need not send anything. In `VoiceMedia` timers,
sends and the check of flush run. Nothing is assumed of the application, nor
about *how* a connect or a read ends.

`http_client`, `http_connection`, `udp_socket`, `voice_connection`, `voice_media`
and `wire` do not check deadlock, because the system may stop there: all
requests answered, the socket closed, the document read. The others do.

Each property of a passing run has a mutant in `PROJECT.json`: an operator next
to the one it replaces, marked `Mutation` in a comment, under which TLC finds the
property violated.

## Proofs

All theorems hold for any sets of callers, requests, routes, reads, frames and
so on, and for any value of the bounds. The assumptions are the named ASSUMEs of
the component modules (constants are natural numbers, `None` is not one of the
values it stands in for); TLC evaluates them in every run.

`ShardProofs`: `TypeCorrect`, `ChainAlive`, `UrlWithSession` are the invariants
`TypeOK`, `HeartbeatChainAlive`, `UrlHasSession`; `Verdict`, `NoLateAttempt` the
action properties `VerdictSound`, `NoAttemptAfterClose`. All rest on the
inductive invariant `IInv` (`Inductive`). `HeartbeatChainAlive`
alone is not inductive: the completion of a heartbeat arms the timer only if it
still exists, hence `RunInv` (a running heartbeat owns a timer; `close_impl`
takes both away together). `VerdictSound` needs `AckInv`: while the heartbeat
runs and the last one is unanswered, the number of unanswered heartbeats is one
more than `m_missed_heartbeats`; it survives reconnects because Hello resets
the acknowledgement and the next tick the counter. `OpInv` ties an operation's
state to the connection and the message it holds. The step case is split over
the parts `OpPart`, `HbPart`, `RestType`, `RunInv`, `ChainStep`, `UrlStep`, each
with one case per handler.

`ReadersHoldCurrent` holds for any number of overlapping calls: an operation
reads from the current connection or from one that is gone. `OwnContext`
(`InflatedByOwnContext`) is proved for one `next_event` loop (`Sequential`, the
documented use) and an inflater that can always be created: two overlapping
loops can hold messages of two connections while there is one inflater, and a
failed `Inflater::create` leaves the old one beside a new connection. `OwnInv`
is the strengthening: the inflater is that of `m_ws`, and an operation that reads,
or holds a message that waits for its handler, has it from `m_ws`.

The session is in the same module. `SessionShard` shows that the shard composed
with the gateway behaves as the shard does, so that `IInv` and `OwnInv` carry
over. `ResumesWhereItWas` (`SequenceIsDelivered`) and `NothingLost`
(`DeliveredInOrder`), again for one loop, need `SessInv` (`SessionInductive`):
the gateway's position in the session is that of the application, or one ahead
while the dispatch that makes the difference waits for its handler, and READY is
only held by an operation when the gateway is at the start of a session.

`RateLimiterProofs`, of the limiter with any `send_fn`: `LimiterType`, `Serialised`
(`OneAtATime`), `QuietAfterShutdown` (`NoSendAfterShutdown`), `Limited`
(`WithinLimit`), `Accounted` (`ExactlyOnce`) and `StoppedUnsent`
(`StoppedWasNotSent`). None of these is inductive alone. The invariant `RInv`
has three parts: `SlotInv`, one slot that is taken by the request in flight, the
one that waits for its route, or the one whose end is still queued on
`m_strand`, and nothing of it survives a shutdown except the request in flight
and its end; `ClockInv`, a waiting request waits for exactly the reset time its
route still has (no answer can change it, because nothing else is in flight);
`BookInv`, queued requests do not repeat, each request is in one place, and a
request that was sent is in flight or answered. `SlotStep`, `ClockStep`,
`HistStep` and `BookStep` have one case per handler; the lemmas `StartKeepsSlot`,
`StartKeepsClock` and `StartKeepsBook` say what `start_next` does to each part.
`LimiterIsSerial` is the safety part of the refinement of `SerialService`: the
lemma `StartKeepsPending` says that `start_next` only moves the front of what is
pending, and `ServiceStep` finds the abstract step of each handler.

The client is in the same module. `ClientKeepsLimiter` shows that limiter and client together
behave as the limiter does, so that everything above carries over
(`ClientAccounted`, `ClientSerialised`, `ClientStoppedUnsent`, `ClientQuiet`,
`ClientLimited`, `ClientIsSerial`). `TwiceAtMost` (`AtMostTwice`) and
`FreshRetry` (`RetryIsOnFreshConnection`) rest on `CallInv`, which counts the
attempts of the call under way against what the server may have executed.

`HttpConnectionProofs`: `OwnAnswer` (`OwnResponse`), `CancelIsFinal`
(`CancelSticks`) and `ConnectionIsSerial`, the safety part of the refinement.
`OwnResponse` is not inductive: a response is the request's own because on an
open stream the wire holds exactly the response of the request between its
write and its read (`StreamInv`), a stream that failed is closed and reads
nothing more, and `m_busy` covers an operation until its end was handled
(`IdleInv`). `CancelSticks` needs that what `finish` holds after its look at the
flag is no cancellation only if nobody was told anything late before, and that
`cancel_on_strand` waits for the strand (`TellInv`). The refinement adds `PlaceInv`: a request is posted, queued, in
progress or answered, and only one of them.

`WebSocketProofs`: `OneOperationEach` (`StreamContract`), `ReadsInOrder`
(`ReadsOnceInOrder`), `WrittenInOrder` (`WireInOrder`), `NoneStranded`
(`StrandedOnlyAfterError`), from `SocketInvariant`: the flags announce what is on
the stream; the reads issued are a prefix of the calls, and until a cancel the
queue is the rest of them; what is on the wire, being written and queued is
ordered as it was sent.
`NoCallerForgotten` is the safety half of `SendCompletes` and `CloseEndsReads`:
every sender is answered exactly once or is the first sender of a drain that
still writes (`DoneInv`), and a read that waits has one on the stream.

`UdpSocketProofs`: `OneServer` (`OneServesTheQueue`) and `OnceInOrder`
(`AnsweredOnceInOrder`), from `SocketInductive`. A closing socket has no queue,
so that the flag is cleared only when nothing is left to serve; and there is a
position in the order of the calls below which every receive has left the queue
and above which none has.
`NoReceiveForgotten` is the safety half of `CloseAnswersAll`: a receive that waits
is queued, was taken by `close()`, or is held by a thread, and after the socket
was closed no thread waits on it (`OpenInv`).

`VoiceMediaProofs`: `KeyOfTheGroup` (`EncryptsInGroup`) needs that a key was only
ever made when the external sender was known, so that a new group replaces the
encryptor, that proposals and a pending group belong to the session's group, and
that without a group frames pass through, unless the version went down to 0
(`PassInv`), for versions in any order (`DaveInductive`).
`CounterExact` (`PendingCountsFrames`) counts the frames by the places they can
be in, two loops and the channel included.

`VoiceConnectionProofs`: `OneWebsocket` (`ReadsOnCurrentWs`), for any number of
websockets and missed heartbeats, from `ConnectionInductive`. A loop that waits
must have been failed by whatever took its websocket away, on every path:
`initiate_reconnect` cancels it, `m_ws.emplace` destroys the one before, a close
ends it, and a loop that comes late finds no `m_ws` or the new one (`WsInv`).
`CloserInv` is about `close`: it waits for a websocket that was made, and the one it
closed is not open again.
Two more parts of the invariant are theorems of their own, the safety halves of
the liveness properties: `ReconnectNotLost` (a connection left without websocket
by a reconnect still has its timer or connect to come, or was given up) and
`RunCallerAnswered` (`run` waits only on a channel that exists).

`WireProofs`: what is written for a peer is read by it.
- `CodecReadsBack`: for any codec whose writer produces nothing its reader
  throws at (`Regular`), and any field written under the one key it is read
  from (`CarriedUnder`) whose value its type holds, `from_json` of `to_json` is what
  was held. It is
  stated of an arbitrary codec and an arbitrary object. That the tables of
  `ModelCodecs` are so, except for the fields in `NotCarried`, are the
  assumptions `CodecsAreRegular` and `VariantsAreRegular` of `ApiDocuments`,
  finite facts about constants which TLC evaluates on the whole tables in
  `wire`. `ObjectsReadBack` applies it to the life of a document: what a
  server's document leaves in an object, and what an edit makes of it, is an
  object the codec holds (`DInv`).
- `RequestsSay` (`RequestSaysWhatWasSet`): exactly what was told, for any options,
  lists of uploads, kept attachments and raw JSON. `BuildersAreRegular` and `ChoosersAreRegular` of `Requests`
  are the finite facts about paths and fields, evaluated by TLC; the query
  strings, the bodies, multipart encoding and the numbering of attachments are
  proved builder by builder. It needs of the caller what `RequestConstants`
  says: kept attachments are distinct and no upload's number is one of their
  identifiers, which snowflakes are far above.
- `PayloadFound`: the payload of an Opus packet that arrives whole, and none in
  another, for any number of sources, length of the extension and padding.
- `Leb128ReadsBack`: every natural number written as LEB128 is read back, whatever
  follows it.
- `FrameReadsBack`: a frame that was written with all its ranges (`Fits`) is parsed
  and reconstructed byte for byte, for any codec, any number and sizes of units and
  any number of clear ranges, also if the codec did not take it. The loops of `FrameLayout` are recursive functions;
  that each exists and what it computes is shown by induction on the number of
  its steps, taken as the absence of a least counterexample in a set of numbers
  (`Induction`, `Loop`, `Stays`, `Agree`). The heart is the predicate `Layout`:
  the frame, its clear bytes and its other bytes are lists of pieces that grow
  together, and each range marks where one run of clear bytes lies in the frame.
  `add_unencrypted_bytes` and `add_encrypted_bytes` keep a layout, of the frame
  and of the body with its other bytes sealed (`PieceAdded`, `FrameProcessed`);
  of any layout, `do_reconstruct` gives the whole (`Reconstructed`), `Split` the
  parts (`TakenApart`), and `validate_unencrypted_ranges` accepts it
  (`Validated`); and the ranges are read from their bytes (`RangesRead`). Of the
  frames it needs only what `LayoutConstants` says: one of the six codecs, at
  least one unit of VP8, natural sizes.
- `NoReplay` (`ReplayWindow`) from `FramesInductive`. The newest nonce of a
  manager was played and nothing above it was, the missing nonces are exactly
  the unplayed ones of the window (`CursorInv`), and the generations of its
  ciphers do not leave the byte that carries them (`KeyInv`).
- `WireReadsBack` is the composition, from `WireInv`: the format a behaviour
  exercises keeps its invariant and the others are not touched. It states all of
  `ReadsBack` but `CutFramesAreRefused`.

Only model-checked: the liveness properties and the fairness of the two
refinements, which are out of the prover's reach; and `CutFramesAreRefused`, that a
frame which lost ranges is not opened as another one. Every other invariant and
every action property of a passing run is stated by a theorem.

## Findings

1. *InvalidSession ends auto-reconnect.* `shard.cpp:761` closes with
   `CloseFrame::NORMAL` when the session cannot be resumed; `close_impl` treats
   this code as a shutdown by the application and sets `m_intentional_close`,
   so the shard never identifies again. The README promises auto-reconnect.
2. *A close during a connect is forgotten.* `reconnect_async` checks
   `m_intentional_close` before the backoff and after it, but not when the connect
   completes (`shard.cpp:490`): the connection is installed and read from.
3. *Which error a receive gets from close.* `udp.cpp:129`, `134` and `486` answer a
   pending receive with `udp_closed`, as `udp.hpp:28` says;
   `tests/test_udp_basic.cpp:338` and `382` require `operation_canceled`, to which
   `udp_closed` does not compare equal (ekizu's error category defines no
   equivalence).

Seen in the models as well, and named as exceptions by the properties rather than
shown by a run of their own:

- *A voice close that is answered and not final.* Without an external sender
  `close` answers success before it closes the websocket and sets `m_disconnected`
  (`voice_connection_impl.cpp:71-76`); a later read error then reconnects, although
  `voice_reconnect.cpp:8` means not to reconnect what was intentionally closed.
- *A downgrade that goes on encrypting.* Version 0 in a session description or a
  new epoch leaves the encryptor out of passthrough mode with the key it has
  (`voice_dave_handler.cpp:223`), although `voice_dave_handler.cpp:282` calls version
  0 passthrough mode: the exception of `EncryptsInGroup`.
- *A message of files alone.* `to_json` of fields none of which is set leaves null,
  and `payload.erase("payload_json")` of null throws (`create_message.cpp:95`,
  `edit_message.cpp:123`), so that a message given only `attachments(...)`, or an edit
  told only what to keep, is never sent: a case of `Cracks`.
- *Responses nested in an interaction are lost*
  (`component_interaction_response.cpp:115-171`): in `NotCarried`.
- *Options that are never sent*, of `CreateInvite` and `CreateGuild`: in `LostBy`.

## Not modelled, and the plan

Left out for good: the logger and error context (no state a property is about);
the Opus and zlib wrappers and the persisted key file (an external library or
file I/O); `ShardManager` (declared only); `TimerQueue`, `LruCache` and
`EventEmitter` (headers that no part of the library uses).

Left out of modelled components, and possible later: the free function `get`
(`http.cpp:503-551`) and `ConnectOp` of `ws.cpp`, sequential chains whose users
see only their result; the receiver's loop; single-value wrappers and the event
variant among the JSON models.
