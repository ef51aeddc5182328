# Verification of fastapi_canon

fastapi_canon adds typed error contracts, RPC over WebSocket, WebRTC sessions, event streams and
database sessions to FastAPI. Most of the repository is declarative: routers, contracts, OpenAPI
schemas and generated clients are computed at import or build time by pure functions. The part that
is hard to get right runs on the asyncio loop: the server side of an RPC connection with its tasks,
limits and shutdown, the message streams on top of it, the generated client that reconnects and
retries, and the WebRTC session. These TLA+ modules model that part.

Status: the RPC connection of the server and its message streams, binary stream and raw socket endpoints
from their handshake on, the generated Python client with its transports, its pool and its message streams,
and the negotiation and the lifecycle of WebRTC sessions are modelled and model-checked. Every safety
property of these models that the code keeps, the implementation of `StreamProtocol` included, is also
proved for all values of the constants; liveness is model-checked only. The smaller components are not
modelled.

## Inventory

Paths are relative to `src/fastapi_canon/integrations/` unless they start with `src/`.

### RPC connection of the server (`websockets/runtime.py`, `connection.py`, `server.py`): partly modelled

Not modelled here are the handshake before the accept, which is part of `StreamEndpoint`, and what a handler
computes; the message streams have a module of their own.

State: the in-flight calls by request id (`requests`), the call tasks, the reservations of
`_PendingRequests`, the slots of a semaphore, one collector task per incoming frame, a bounded
`outgoing` queue, the writer, the event source, `close_event` with its code and
`connection._close_code`, `connection.closed`.

Operations: read a frame; decode it item by item (call, notification, cancellation, ping, invalid,
duplicate id, batch over the limit); admit or refuse a call; wait for a slot; run; end by answer,
deadline, cancellation or failure; collect the answers of a frame and queue them; write; emit server
events; expire; close by the application; drain; tear down.

Interactions: calls share the slots and the reservations; collectors join calls and share the queue
with the event source and the streams; every task may request a close; the serving task cancels and
joins all of them; the drain coordinator runs a coroutine in the middle of all this and cancels the
serving task, up to twice; the ASGI adapter forwards a cancellation.

Hard: a task cancelled before its first step runs none of its `finally`; a done callback runs a turn
after the task has ended; a collector joins what it cancels; cancellations arrive during the teardown.

Correct when: limits hold and nothing is leaked; an id names one call; every frame is answered, once,
while the connection is open; the first cause of a close is kept and announced; a graceful drain
answers all it accepted; nothing outlives the connection; closes, drains and cancellations complete.

### Message streams (`websockets/subscriptions.py`): modelled

State: `_tasks` by stream id, `_pending_subscriptions`, `_next_id`. Operations: open (check the limit,
queue the answer, start the task), cancel (cancel and join the task), run (queue items, then one
terminal message), `wait_finished()` for the drain, `close()` for the teardown. Interactions: opens and
cancellations are calls of the connection, and streams queue their messages in the connection's
`outgoing`. Hard: the limit is checked before an await and the stream created after it. Correct when:
the limit holds, no place leaks, messages come in the order of the protocol, a cancelled stream is
silent once the cancellation was answered, and nothing outlives `close()`.

### Service drain coordinator (`websockets/drain.py`): partly modelled

State: the set of sessions, `draining`, the shared drain task. Operations: enter a session (rejected while
draining), mark it ready, leave it,
drain (begin on all, wait for the grace period, stop on all, wait for the deadline, cancel again).
The graceful end of a session is part of `RpcConnection`; a session that registers, is refused or leaves
while the drain runs is part of `StreamEndpoint`. Not modelled: several sessions (they share only the
deadline), a second caller of `drain()` or one that is cancelled.

### Stream and raw socket endpoints (`websockets/runtime.py` 822-1377, `streams.py`, `sockets.py`): modelled

State: the task of a handler or of the writer of a generator, the reader, a bounded queue between reader
and handler, the generator, `close_event` with its code, `client_closed`, the serving task. Operations:
send, receive, close, return, fail; read a frame, a violation or a disconnect; cancel and join the tasks,
close the generator, leave the scopes, close the socket. Interactions: both tasks and the scopes request
closes; the serving task waits for the first and then tears everything down. Hard: it may be cancelled
at every one of its awaits, several times; a task that is cancelled may fail or send in its cleanup.
Correct when: no task or generator is left, the first cause is kept but for an end without cause that an
error replaces, and the client is told that cause.

### Handshake, startup and credential expiry (`websockets/runtime.py`, `connection.py`): partly modelled

State: `_accepted`, `_startup_task`, `_on_close`, the timer. Operations: refuse while draining, reject,
accept, open the scopes, resolve dependencies, expire. Hard: an expiry cancels the startup with a message
by which `_accepted` knows its own cancellation, while the drain and the server cancel the same task.
Correct when: an expiry or a drain ends the connection wherever it is, and the client is told.
Modelled for stream and socket endpoints; RPC endpoints pass the same code before `RpcConnection` begins.
Setting `expires_at` again is not modelled.

### Request dispatch and dependency scopes (`websockets/server.py`, `dispatch.py`, `dependencies.py`)

`_run_bounded` (slot, deadline, cancellation, reservation) is part of `RpcConnection`. The order in
which middleware and dependency scopes are entered and left is not.

### FastAPI adapter (`websockets/adapters/fastapi.py`)

Converts frames and close codes, and forwards one cancellation of the ASGI server to the serving task:
the forwarded cancellation is `ServerCancel` of `RpcConnection`.

### Generated Python client (`websockets/codegen/templates/python/`): partly modelled

*Transport* (`transport.py.j2`). State: `_pending` and `_sent` by request id, the tasks in `_answers` and
`_cancellations`, `_closed`, the future `closed`, the reader, a bounded `_notifications` queue.
Operations: request, cancel a request, close, receive, iterate over the notifications.

*Transport pool* (`runtime/connection.py.j2`). State: the current transport, the task that connects, the
state and the failure of a server. Operations: get, connect, recover, close.

*Core* (`runtime/core.py.j2`). Operations: request with its retries and deadlines, close.

*Message streams* (`RpcStream`, `_subscribe_remote` and the notification hub of `runtime/core.py.j2`). State:
per transport a hub with its pump and its subscribers; per stream an id, a bounded queue, a terminal.
Operations: open, read, leave (which cancels the stream of the server), open again on a new transport, pump.
The plain notifications that the hub also passes on are not modelled.

Interactions: callers share one transport and one attempt to connect; a failing caller closes the
transport for all; callbacks of futures run later than what they report. Hard: an answer that comes too
late; a close that is cancelled or races with the reader's own cleanup; a callback of a transport or task that has a successor; a stream that learns its id after its first messages have come, and an id that
means another stream on the next connection. Correct when: an answer resolves the request that asked for it, no error
invites an unsafe retry, one transport is current and no other stays open, a stream has no gap that its
consumer does not learn of, and a close leaves nothing behind and nobody waiting.

### Generated TypeScript RPC client (`websockets/codegen/templates/typescript/`): not modelled

### WebRTC session (`webrtc/`): partly modelled

*Negotiation* (`runtime.py`, `codegen/templates/runtime.ts`). State: signaling state, the lock
`_negotiation`, the number of the pending offer, candidates held back or pending, the outbound queue;
the client's chain of operations, its offer and the waiters of `addTrack()`. Operations: offer, answer,
candidates, loss of signaling, timeouts. Hard: offers that cross, answers to offers that gave way, calls
that wait for an answer while signaling is lost.

*Sessions* (`router.py`, `capacity.py`, `runtime.py`). State: capacities and reservations, `_closing`, the
tasks of a session, its peer, the tracks it owns. Operations: admit or refuse, start, create the peer,
establish, run handlers, terminate, clean up, close the router. Hard: each of these fails, takes
for ever or ignores its cancellation, and may finish after the cleanup.

Correct when: both sides agree on one description of all tracks, calls return, slots are
counted right and given back last, a track is stopped once, and every session that is told to end does.

Not modelled: data channels and their queues, media deadlines, the check of descriptions against the
declaration, tickets and ICE servers.

### Event streams (`sse/canon.py`): not modelled. Correct when a stream has exactly one terminal event.

### Database sessions and lifespans (`database/database.py`, `src/fastapi_canon/feature.py`): not modelled

Commit, rollback and close of a session on every path; composed lifespans leave in reverse order.

### Not to be modelled

Features, routers and dependency declarations; error contracts and OpenAPI; command line, code
generation and static checks; OpenTelemetry and MCP adapters. They hold no state that changes
concurrently: they compute declarations, render text or delegate to libraries.

## Modules

| Module | Models |
| --- | --- |
| `RpcConnection` | one accepted connection, all its tasks, its share of the drain, and its teardown |
| `MCRpcConnection` | the frames that the configurations let a client send |
| `RpcConnectionProofs` | inductive invariants and theorems about `RpcConnection` |
| `StreamEndpoint` | one binary stream or raw socket, from the handshake to its end, with expiry and drain |
| `StreamProtocol` | abstract: what the client is promised about its streams |
| `Subscriptions` | the streams of a connection; shown to implement `StreamProtocol` |
| `ClientTransport` | one socket of the Python client: requests, answers, close, notification queue |
| `ClientRecovery` | the pool that replaces transports, and the calls that retry over it |
| `ClientStreams` | the message streams of the Python client over the transports that replace each other |
| `WebRtcNegotiation` | perfect negotiation between the server's session and the browser |
| `WebRtcSession` | admission, start, tasks and cleanup of the sessions of a router |
| `WebRtcSessionProofs` | inductive invariant and theorems about `WebRtcSession` |
| `SubscriptionsProofs` | inductive invariant and theorems about `Subscriptions` |
| `ClientRecoveryProofs` | inductive invariant and theorems about `ClientRecovery` |
| `StreamEndpointProofs` | inductive invariant and theorems about `StreamEndpoint` |
| `ClientTransportProofs` | inductive invariant and theorems about `ClientTransport` |
| `ClientStreamsProofs` | inductive invariants and theorems about `ClientStreams` |
| `WebRtcNegotiationProofs` | inductive invariants and theorems about `WebRtcNegotiation` |

### How `RpcConnection` corresponds to the code

Everything runs on one asyncio loop, so one action is what one task does between two suspension
points. The reader decodes a frame without suspending, so while `reader = "decoding"` only the decoder
moves; it is split into one action per item because each item has its own guards and early returns.

| Code | Model |
| --- | --- |
| `reader` | `Receive`, `ReceiveUnreadable`, `ReceiveDisconnect`, `ReceiveFailure`; then `ReadCancel`, `ReadPing`, `ReadOverflow`, `ReadDuplicate`, `ReadCall`; then `FrameIgnored`, `FrameOverflow`, `FrameCollected` |
| `_PendingRequests`, the admission in `reader` | `reserved`, `Admission` |
| `invoke_one`, `_run_bounded` | `StartCall`, `NeverStart`, `AcquireSlot`, `RefuseCall`, `CompleteCall`, `ExpireCall`, `AnswerCancelled`, `UnwindCall`, `LeakCancellation`, `FailCall` |
| `call_done` | `CallDone` |
| `invoke`, `collect_one`, `send_outgoing` | `CollectorAbort`, `CollectorUnwound`, `CollectorAnswer`, `CollectorPut`, `CollectorTimeout` |
| the event source | `EventEmit`, `EventPut`, `EventTimeout`, `EventsComplete`, `EventsFail`, `EventsUnwound` |
| `writer` | `WriterTake`, `WriterSent`, `WriterDisconnect`, `WriterTimeout`, `WriterFailure` |
| `request_close` | `RequestClose` |
| `graceful` | `GraceBegin`, `GraceCollectors`, `GraceReader`, `GraceFlush`, `GraceClose` |
| `_DrainSession.stop`, the coordinator's two deadlines | `DrainStop`, `DrainDeadline` |
| the serving task's teardown | `Teardown`, `Joined`, `FlushEnds`, `Interrupt`, `InterruptAgain`, `CloseSocket`, `SocketClosed`, `CloseInterrupted` |

A call task goes through `created`, `refusing`, `waiting` and `running` to an end: `replied` (its answer
is a message), `silent` (a notification), `raised` (`CancelledError` passed through), `failed` (another
exception) or `never` (cancelled before its first step). The ends differ in what the collector does
with them, and that is what the properties turn on. A collector is `gathering`, `forwarded` (cancelled,
and passing that on to its calls), `blocked` in `outgoing.put`, `cancelling` or `failing` (joining its
calls after one ended badly) or `ended`.

`Faults` names the things the environment may do in a configuration: a disconnect, unreadable text, a
failing socket, a send that times out or fails, a deadline, a handler that fails or raises
`CancelledError` by itself, a failing event source, the expiry, a close by the application, a drain, a
cancelled server. Whether a handler takes long, and in which order ready tasks run, is always open.

### How `StreamEndpoint` corresponds to the code

| Code | Model |
| --- | --- |
| `RpcDrain._session`, `_prepare` | `Arrive`, `Prepared`, `Rejected`, `Accepted` |
| `notify_activity`, the stream's scope, `_set_close_handler` | `Opened`, `OpenFails` |
| dependencies, the start of the tasks | `Resolved`, `ResolveFails` |
| `handle`, `write`, `RpcBinaryOutput`, `RpcSocket` | `Returns`, `Raises`, `AppClose`, `Receive`, `Received`, `Send`, `Sent`, `SendFails`, `RunUnwinds` |
| `read`, `_put` | `ReadFrame`, `Put`, `ReadViolation`, `ReadDisconnect`, `ReaderUnwinds` |
| `request_close`, `client_disconnected` | `RequestClose`, `Disconnected` |
| the teardown of `_run_stream_endpoint` and `_run_socket` | `StopServing`, `Joined`, `GeneratorCloses`, `ScopesLeft`, `GeneratorClosesAgain`, `Tell`, `SocketClosed` |
| `CancelledError` at an await, `_accepted` | `Interrupted`; `Forgiven`, `LeaveClosed`, `LeaveOpen` |
| `_expire`, the ASGI server | `Expire`, `ServerCancel` |
| `drain`, `_drain`, `stop`, `finish` | `StartDrain`, `DrainBegins`, `DrainStops`, `DrainGivesUp`, `DrainEnds` |

`main` names the await at which the serving task is. A cancellation is `pending` until the task runs, and
then raised there; `cancelling` counts them as asyncio does. `gather()` in the teardown waits for the tasks
it has cancelled before it raises, which is why `Interrupted` in `joining` needs `TasksEnded`. The three
kinds of endpoint differ in whether there is a generator to close and in what `send()` and `receive()` do
on a connection that is closing.

### How `Subscriptions` corresponds to the code

| Code | Model |
| --- | --- |
| `_handle`, open | `Refuse`, `OpenStream`, `Opened`, `UnwindRequest` (its `finally`) |
| `_handle`, cancel | `StopStream`, `Joined`, `Answered` |
| `_run`, `_terminal`, `_send` | `StartStream`, `YieldItem`, `FinishStream`, `Put`, `UnwindStream` |
| the done callback | `ForgetStream` |
| `wait_finished`, used by `graceful` | `GraceStreams`, `GraceClose` |
| `close`, used by the teardown | `CancelRequests`, `CloseSession`, `SessionClosed` |

`said` is a history variable: the kinds of messages queued for each stream. It is what the refinement
and `DrainFinishesStreams` look at, and no action reads it except to know which stream ids a client can
have learned (`Heard`).

### The refinement

`StreamProtocol` knows, for each stream, what the client was told last (`nothing`, `open`, `ended`,
`stopped`, `lost`) and how many items it got. `Subscriptions` maps `told` to the last message queued for
the stream, and to `lost` from the moment a close is requested. The promise ends there because the code
breaks it there: an open whose answer timed out still creates its stream, which may queue an item that
was never announced while the connection closes: the abstract specification says nothing about
connections that close.

### How `ClientTransport` corresponds to the code

| Code (`transport.py.j2`) | Model |
| --- | --- |
| `request` | `Request`, `SendReturns`, `Resume`; `SendFails`, `Interrupt` (a deadline or a cancelled caller); `Retired` |
| `_retire`, `_fail_pending` | `Retire`, `FailPending` |
| `_cancel_request`, `_send_cancellation` | `GiveUp`, `CancellationEnds` |
| `close` | `Close`, `CloseSocket`, `SocketClosed`, `Joined`; `CloseInterrupted`, `JoinInterrupted` |
| `_receive` | `ReadAnswer`, `ReadServerRequest`, `ReadItem`, `ReadPlain`, `ReadFails`; `ReaderCloses`, `ReaderEnds`, `ReaderStops` (cancelled by `close`) |
| `_finish_notifications` | `FinishNotifications` |
| `notifications` | `Listen`, `Take` |

The server is external: `Transmit` lets a frame reach it although the send may still fail, and an answer
comes at any time after that. The reader's `finally` suspends twice, so a `close()` that cancels it there
cuts off the rest (`reader = "cut"`).

### How `ClientRecovery` corresponds to the code

| Code | Model |
| --- | --- |
| `RpcTransportPool._connect` | `ConnectSucceeds`, `ConnectFails`, `Retries`, `ConnectCancelled`, `Discarded` |
| `_start` and its `done` callback | `Start`; `Reap`, `Forget` |
| `_transport_closed`, the callback of `closed` | `TransportClosed`, `ClosedCallback` |
| `get`, `_request_attempt`, `_invoke_attempt` | `Attempt`, `Connected`, `Send`, `Answered`, `AttemptFails` |
| `reconnect_max_attempts` | `limited`, `Recovers`, `Exhausted` |
| the loop of `request` | `MayRetry`, `Fail`, `UnsentFails`, `Closes`, `Deadline` |
| `close` of client and pool | `CloseClient`, `ClosePool`, `ConnectsEnded`, `Closed` |

A transport is abstracted to what `ClientTransport` promises: `open`; lost for a reason that allows a
recovery (`lost`) or not (`fatal`); closed by the client (`clean`). A call that finds it closed was not
sent, which is `UnsentStaysUnsent` of `ClientTransport`. `sends` is a history variable.

### How `ClientStreams` corresponds to the code

| Code (`runtime/core.py.j2`) | Model |
| --- | --- |
| `RpcStream.__anext__`, `_open`, `aclose` | `Start`, `Ask`, `CloseStream` |
| `_subscribe_remote`, `_notification_transport` | `Get`, `GetFails`, `Subscribe`, `Acknowledged`, `OpenFails`, `SendFails`, `OpenTimesOut`, `Read`, `ReadTerminal` |
| its `except Exception` and `finally` | `Raise`; `Cleanup`, `Unwound` |
| `_pump_notifications`, `_overflow`, `finish` | `Pump`, `Taken`, `Finished` |
| `close` | `CloseClient`, `ClosePumps`, `CloseSource` |
| `_receive`, `_retire` of the transport | `TransportFails`, `ReaderEnds`; `Retire`, `RetireEnds` |

It stands on the other modules: the server opens streams, numbers them from one on each connection and sends
what `StreamProtocol` allows (`ServerOpens`, `ServerSends`); a transport is in one of the states that
`ClientTransport` goes through when it fails or is retired, and the pool gives what `ClientRecovery` promises.
The answer to a request and the task that learns of it are two steps, and messages may be pumped between
them. `of` in a message names the stream it belongs to; no action of the client reads it.

### How `WebRtcNegotiation` corresponds to the code

| Code | Model |
| --- | --- |
| `send_track`, `_renegotiate`, `_describe`, `_until` | `SendTrack`, `Renegotiate`, `RenegotiateFails`, `MakeOffer`, `DescribeFails`, `Return` |
| `_on_offer`, `_on_answer`, `_renegotiate_if_needed` | `IgnoreOffer`, `AcceptOffer`, `MakeAnswer`, `OnAnswer`, `Check` |
| `_on_candidate`, `_send_candidate`, `_release_candidates` | `OnCandidate`, `OnLocalCandidate`, `held` in `MakeOffer` and `MakeAnswer` |
| `_on_signaling_closed`, timers, `_cleanup` | `OnClosed`, `GraceOver`, `AnswerTimeout`, `Abandon` |
| `_send`, `_write` | `Send`, `Write` |
| `onHello`, `onDescription`, `pump`, `settle` of `runtime.ts` | `OnHello`, `OnOffer`, `OnAnswered`, `Pump`, `Settle` |
| `renegotiate`, `finish` of `runtime.ts` | `AddTrack`, `Prepare`, `Finish`, `Disconnect`, `Closed` |

A description is the set of its author's tracks that it describes. An answer may describe some of the new
tracks of its author or none: it can only use transceivers the offer has. `lock` is the lock `_negotiation`
while its holder waits for the engine; an operation of the client is one step because the next one is
chained behind it. Signaling is in order and loses nothing but its tail.

### How `WebRtcSession` corresponds to the code

| Code | Model |
| --- | --- |
| `_serve`, `_admit`, `SlotReservation` | `Serve`, `Admitted`, `Release` |
| `aclose` | `Aclose`, `Waited` |
| `serve`, `_accept`, `_run` | `Accept`, `ServeFails`, `Done` |
| `_startup`, `_create_peer` | `IceResolved`, `PeerCreated`, `PeerDiscarded`, `HelloSent`, `StartupFails` |
| `_check_established`, `_begin`, handlers | `Establish`, `Begin`, `HandlerEnds` |
| timers, signaling, limits, `Peer.close` | `Ends` |
| `_on_track`, `send_track`, `remove_track`, `_release_track` | `OnTrack`, `SendTrack`, `RemoveTrack`, `TrackRemoved`, `Released` |
| `_cleanup` | `SignalingClosed`, `TasksEnded`, `OnClosed`, `OnCloseCancelled`, `PeerClosed` |

`cancel` holds tasks that the cleanup has cancelled and that do not know it yet. With the fault
`ignored_cancel` such a task may go on instead, and the cleanup stops waiting for it. `begin` stands for
the task of `_begin` and, once it has returned, for the handlers it has started.

Operators named `Bad...` are plausible mistakes, each a variant of the operator that follows it. No
action uses them; substituted for the operator they make the property named in `PROJECT.json` fail.

## Runs

`tlc -config X.cfg M` in this directory; each takes less than four minutes with two workers.

| Run | What it asks | Bounds and why they are enough |
| --- | --- | --- |
| `safety` | do reservations and in-flight ids stay consistent at the limits; does every combination of failures keep and announce the first cause, and end every task | up to four frames, two ids: a call in flight, another that exceeds the limit or takes the id again after the first is over, and a cancellation of either; three collectors at work, which is their limit, when a fourth frame arrives. A batch has up to three calls, one of them cancelled by the same frame, which is how a task is cancelled before its first step, an invalid item, or more items than allowed. All faults but the drain. The constraint `LongOrEventful` looks either at several frames with one valid call each, while nothing but a disconnect happens to the connection, or at one frame of any kind and everything else: admission is about frames that meet, causes and teardown are about tasks |
| `liveness` | do closes, drains, cancelled servers and cancelled calls complete; is every frame answered once until then, and every one before a graceful end | two frames and an event with a queue of one: a call that runs forever or is cancelled, collectors, event source and writer that compete for the queue while the drain begins, stops and reaches its deadline, a client that does not read |
| `drain_cause` | does a stopped connection keep its code | see the finding |
| `streams` | do the limit, the places and the drain hold while opens wait for the queue, do the messages keep the protocol, and do requests and closes end | three requests, one stream allowed, a queue of one, all faults: a second open meets a stream, an open that is pending and an interrupted open; the third cancels or opens. Streams meet in the limit and in the queue, and one stream, answers and a second open already compete for both; that the limit holds and nothing outlives the session is proved for any number of streams |
| `stream_endpoint` | is nothing left, is the cause kept and told, and do closes, expiries and drains complete, for each kind of endpoint | all faults at once; a queue of one and two frames, so that the reader waits for the handler; one expiry, one cancellation by the server and two by the drain, so that up to four meet the startup and the teardown |
| `client_transport` | do answers, streams and waiting callers stay consistent when a shared socket fails | two calls, so that one can disturb the other; a queue of one, two items and one other notification, so that either may overflow it; one cancellation on the way at a time, which is its limit |
| `client_transport_truncated` | does a full queue turn a partial stream into a complete one | see the finding; one item and its completion fill a queue of two |
| `client_recovery` | do retries, recovery and close agree on what is open and what was sent | two calls, one of them idempotent, with one retry each; three transports and three tasks, so that one is lost, its successor is lost, and a callback of either comes late; recoveries try twice, or for ever |
| `client_streams` | is each stream given its own items, does the server keep none that nobody reads, and is every reader told that its connection is gone | two streams of one method, an item and a completion each, over two transports: ids mean different streams before and after a loss; a subscriber's queue of one, which a sibling's message fills; two faults of any kind and a close, so that one stream may be left or time out while the connection of the other is lost |
| `webrtc_negotiation` | do both sides end with one description of all tracks, and do calls return | both roles; a track of the server at the start and one later, one of the client, so that offers cross and one gives way; an outbound queue of two, in which a description and a candidate just fit; one candidate of each side; any description of the server may fail, in a task of the session or in a call |
| `webrtc_session` | are slots counted right and given back last, and does every session end | two sessions and two capacities, one of them shared, with one slot: the second session is admitted only after the first has released; one track each, owned from the start by one of them |
| `webrtc_slots` | does every session give its slots back | see the finding; two sessions and one capacity with one slot |

Hazards and the properties that watch over them are listed in `PROJECT.json`. What the less obvious
properties say:

- `ReservationsHeld`: every reservation belongs to an admitted call whose done callback has not run. A
  call that never starts does not run `invoke_one`'s `finally`, so only `call_done` frees it.
- `InFlightConsistent`: the id in `requests` and the live task with that id name each other, in spite of
  the turn between the end of a task and its callback.
- `Answered` (`NoAnswerLost` and `AnsweredOnce`): a collector that has ended has left exactly one message for its frame.
  The one exception is a handler that raises `CancelledError` of its own accord.
- `GracefulAnswersAll`: a close requested by `graceful()` comes after the answers are on the wire.
- `CauseKept`, `CauseAnnounced`: whatever fails later, the first cause is the one the peer is told.
- `NothingOutlives`: from the closing of the socket on, no task, reservation or id is left, wherever
  the teardown is interrupted.
- `ServingEnds`: whatever asks the serving task to end, it ends, with handlers that run for ever, clients that
  do not read, and a collector that keeps an answer nobody takes.
- `NothingLeft`: when a stream or socket endpoint has ended, both tasks have ended and the generator is
  closed, on the second path if the first was interrupted, and a connected client was told a code. The last
  part excepts a handler of a binary stream that has sent after the close (`run = "late"`), and no other end of
  one; see the observation below.
- `CauseHonest`: a cause that is not a plain end stays, and the code the socket is closed with is the one
  `connection.close_code` reports.
- `EndpointEnds`: requested closes and expiries end the connection, also when they come before there is a
  close handler; once a drain has begun, the connection ends or is refused, wherever its handshake was.
- `StreamsBounded`: the limit holds although it is checked before an await and used after it.
- `UnsentStaysUnsent`: the error that allows the client to send a call again is never raised for a frame
  that the server got, whichever of the send, the reader and `close()` fails first.
- `InterruptionHarmless`: a call that gives up waiting, and its late answer, leave the transport open and
  other calls waiting. (A call interrupted while it sends retires the transport.)
- `NoGapWhileOpen`: an overflow either costs only notifications of no stream, or the transport.
- `CloseEndsAll`: whoever waits for an answer when the transport closes is released without a deadline of
  its own. The two exceptions it names are real, see the observations.
- `SentOnce`, `NothingLeaks`, `StateHonest`, `WaitersServed`, `CloseLeavesNothing`: with late callbacks of
  old transports and tasks, the pool neither forgets a transport nor starts a second attempt, reports what
  it has, and serves or fails all that wait for a connection. With `reconnect_max_attempts=None`, the
  default (`connection.py.j2`:60), a recovery is unlimited (`docs/integrations/websockets/clients.md`:380-381),
  and a call without a deadline waits for as long as it fails. So `WaitersServed` says that a call which
  waits for ever waits for an unlimited recovery that fails again and again; a configured limit ends every wait.
- `OwnAndWhole`: a stream that has no id yet takes the messages of all streams of its method and sorts them
  out later. What the consumer gets is nevertheless its own stream, from the first item on, and complete
  when it ends without an error. The exception `stale` is real, see the observations.
- `NoOrphans`: whatever way a consumer leaves, a stream that still runs on an open connection is read or about
  to be cancelled. The exception `abandoned` is real too.
- `ReadersTold`: nobody waits for messages of a connection that is gone without a terminal that has come or
  is on its way to a pump that runs.
- `Agreement`: when nothing is on its way, descriptions of both sides are the same and contain every track
  that was added: the offer that gave way was made again, by either side. A call of `send_track()` that has
  failed is excepted, since nobody offers the track it has left behind.
- `CandidatesFollow`: candidates come after their description, and none is kept for ever. A candidate of a
  description that was never made has number 0. The client gets one only after a call of `send_track()` has
  failed or when the session has ended; see the observations.
- `CallsEnd`: `send_track()` and `addTrack()` return although their offer gave way or signaling was lost. The
  exception `unsent` of `addTrack()` is real, see the observations.
- `CapacityHonest`: what a capacity counts are the sessions that have not released, and those that have released
  have stopped their tracks and closed their peer, or left the closing to the task that still creates it. That
  every session releases is `SlotsReturned`, which does not hold; see the finding.
- `ShutdownCompletes`: after `aclose()` no session is left, and each that was told to end finishes although
  its tasks ignore it and the engine is stuck.

### Finding: a stopped connection may close with another code

`docs/integrations/websockets/connections-and-events.md`:357-359 says that connections that a drain
ends "close with `RpcConnectionClose.SERVICE_RESTART` (1012), which middleware also sees", and that
existing causes are preserved. `_DrainSession.stop()` (`drain.py`:33-37) records the code but does not
set `close_event`, and `request_close` looks at `close_event` only. Between the stop and the end of the
cancelled serving task a failing event source, a writer failure or a collector that times out therefore
replaces `service_restart`. The run `drain_cause` shows it in a few steps. `CauseKept` is stated for
causes given by `request_close`, and holds.

### Finding: a truncated stream that completes

`docs/integrations/websockets/message-streams.md`:125-129 says that a "shared transport queue overflow
that would discard stream data fails the transport" and that this "avoids silently turning a partial
result into successful completion". `_receive` does that for messages, but `_finish_notifications`
(`transport.py.j2`:490-493) makes room for the terminal by dropping the oldest message of a full queue,
whatever it is. When the connection is lost while the queue holds an item and the completion of a stream,
the item is dropped and the completion delivered. The run `client_transport_truncated` shows it.
`NoGapWhileOpen`, which asks for no gap as long as the transport is open, holds.

### Finding: a session that keeps its slots

`docs/integrations/webrtc/protocol.md`:85-88 says that every accepted session "stops owned tracks and closes the
engine peer, then releases its slot", and `capacity.py`:8-9 that it holds its slots until its cleanup has
finished. `_cleanup` catches `TimeoutError` and `Exception` of `on_close` (`runtime.py`:1148-1157). An `on_close`
that raises `CancelledError`, as a task does that awaits a cancelled one, leaves `_cleanup` before the tracks are
stopped, the peer is closed and the slots are released (1158-1183). The run `webrtc_slots` shows such a session:
its serving is over (`phase = "cut"`), and its slot is held for good.

### Observation: an expiry that the client is not told of

`docs/integrations/websockets/connections-and-events.md`:396-398 says that "all endpoint types close with
policy violation (1008) and the exact reason `credentials_expired`", a pair by which the SDKs know that they
may reconnect. Handlers of binary streams break it. `RpcBinaryOutput.send` (`streams.py`:113-114) raises
`RpcDisconnect` on a connection that is closing, and `handle()` (`runtime.py`:1064-1065) takes any `RpcDisconnect`
for a client that has gone, so the `finally` clause (1147) leaves the socket open. A handler that sends after the
expiry, before it is cancelled or in its own cleanup, ends the connection with no code, and so does one that
closes with a code of its own and sends once more. `_run_socket` tells the two cases apart, and generators do
not call `send`. In the model such a handler ends as `run = "late"`, and `NothingLeft` excepts just this end from
what the client is told: a binary stream whose handler returns, fails, is cancelled or has sent only before the
close does tell its client. Without the exception TLC shows an expiry, a send and the end of the serving
task with `announced = <<>>`.

### Observations about the client

- A `close()` that cancels the reader in the reader's own cleanup (`transport.py.j2`:385-389) skips
  `_finish_notifications`, so an iterator over notifications waits for ever.
- A `close()` that is itself cancelled in its last join (311-316) leaves pending requests unresolved;
  their own deadlines end them, if they have any. `CloseEndsAll` names both.
- `_subscribe_remote` keeps the queue of its subscriber when it opens a stream again (`core.py.j2`:610-611).
  Messages that were queued while the id was unknown stay in it when that opening fails with its connection
  (820-827). The new connection counts its ids from one, so they are taken for messages of the new stream,
  a completion included, although `message-streams.md`:127-129 says that the policy "avoids silently turning
  a partial result into successful completion". Without the exception `stale` in `OwnAndWhole` TLC
  shows it: an open is answered and its first message pumped, the send of the request fails, and the stream
  that is opened again yields the message of the old one first.
- An opening that fails while the reader of its transport is still closing the socket (`transport.py.j2`:379-393)
  ends the stream with an error although the client reconnects, since the future `closed` is set last.
- An opening that is given up when the server has answered leaves the stream running at the server until the
  connection ends (`NoOrphans` names it as `abandoned`).
- While its id is unknown, a stream's queue can overflow from messages of its siblings, which ends it.
- Read in the code, with plain notifications not modelled: a transport that a request retired ends its iterator
  without an error, and `core.py.j2`:759-762 then returns although the client reconnects, against
  `connections-and-events.md`:113-115.

### Observations about WebRTC

- `send_track()` that finds an older offer pending waits for the answer to that one and then returns, so
  its own track may not have been negotiated yet; `peer.py`:218-222 says that it returns "once the remote
  peer accepted the new description". The waiter of `addTrack()` can likewise be released by an earlier
  operation (`runtime.ts`:1059-1062). `Agreement` holds nevertheless.
- With signaling in order an answer to a superseded offer never matches, so that the guards against stale
  answers on both sides are not needed; the model keeps them.
- `_describe` holds back what the engine finds "so that the remote peer always receives a description before
  its candidates" (`runtime.py`:738-740). When `create()` raises, or the caller of `send_track()` is
  cancelled in it, it sends them all the same (744-746), with no description before them. `CandidatesFollow`
  allows exactly these, after a call has failed or in a session that has ended; without the exception TLC shows
  a candidate found during a failing offer on its way to the client. A failure in a task of the session ends
  it, but the writer may run once more before the cleanup closes the socket.
- An engine may have applied an offer when its description fails: with aiortc it is pending before candidates
  are gathered. `_local_offer` is then not set (717) and nothing was sent, so that nobody answers. The server
  ignores every offer of the client as a collision, `send_track()` returns without negotiating, no timer runs,
  and `addTrack()` waits for as long as the session lives. The model has it as `unsent`, which
  `CallsEnd` names.
- An `on_start` that swallows its cancellation starts handlers after the cleanup has collected the tasks to
  cancel (931-948 and 1139): nobody cancels these.
- An offer that is finished while `_close_signaling` waits arms the timer `answer` after the cleanup has
  cancelled the timers. `_close_signaling` itself has no deadline.

### Observation: `send_timeout=None` and a cancelled server

`RpcLimits` allows `send_timeout=None`. A collector that awaits a single call passes its cancellation on
and, if the call answers all the same, waits for a place in `outgoing`. When the teardown has cancelled
the writer and the queue is full, only `send_timeout` ends this wait, so without one the serving task
hangs after a single cancellation; the second one of a drain's deadline frees it, but the adapter
forwards only one. `ServingEnds` is therefore checked with `send_timeout` among the faults (the default is
ten seconds), and fails without it.

## Fairness

`FairSpec` of `RpcConnection` and `Subscriptions` asks for weak fairness of one disjunction, `Progress`: some ready task runs.
This is what an event loop gives; that each task gets its turn follows because every task has finitely
many steps within the bounds, so that the others run out of them. `Progress` of `RpcConnection` contains

- the steps of tasks that are ready, done callbacks included;
- the unwinding of handlers and of the event source when they are cancelled: applications are assumed to
  let a cancellation through. A handler that nobody interrupts may run forever, and so may a generator;
- the end of a send: the socket takes the message or fails within `send_timeout`;
- the two deadlines of a drain, which are timers of the coordinator.

Frames, deadlines of requests, the expiry and all failures are not fair: they may never come. In
`Subscriptions` `Write` is fair because a client that does not read makes the writer fail within
`send_timeout`, and that closes the connection.

`ClientTransport` also has one `Progress`, with what tasks do by themselves, the end of `socket.close()` and
failures of a socket that is closed; answers, sends that return and deadlines are not fair, so a call may wait
for ever on a healthy transport. `ClientRecovery` asks for weak fairness of four disjunctions, because an
unlimited recovery never runs out of steps: `Connects` (an attempt to connect ends, by its deadline if nothing
else, and sleeps end), `Callbacks`, `Continues` (calls whose attempt is over) and `Closing`. That all four go on
beside a recovery that fails for ever is what an event loop gives. That an attempt succeeds is not assumed.

`Progress` of `StreamEndpoint` holds the teardown, the ends of tasks that were cancelled, of scopes, of
`generator.aclose()` and of `socket.close()`, cancellations that are delivered, and the steps and deadlines of
the drain. A hook before the accept, a dependency, a handler that nobody cancels, a send and the client's
frames are not fair. The handshake is not either: a connection in it ends because the drain cancels it.

`WebRtcNegotiation` asks for weak fairness of the server's tasks, of the client's operations, of the
writer and of the end of the grace period separately: they are two machines, a task and a timer. The
client closing, or anybody calling, is not fair. `WebRtcSession` asks for it per session, because sessions
are independent tasks: of the steps of `serve`, `_cleanup` and its waiters, all of which have deadlines but
the closing of the socket, which is assumed to end, and of a peer that is being created or discarded.

## Proofs

`tlapm RpcConnectionProofs.tla` proves for all ids, messages and limits:

- `TypeCorrect`: `TypeOK`, which includes that the queue never exceeds `max_queue_size`. It is inductive.
- `CallsAreIdentified`: `CallsIdentified`, a strengthening about the decoder: a call whose task
  is known comes from a frame already received and is none of those the decoder has yet to make. A call
  is named by its frame and the number of items left, and this is what makes the next name fresh.
- `ReservationsAreHeld`: on top of the above; the bound on the number of reservations uses the facts on
  cardinalities of the library.
- `InFlightAlwaysConsistent`: also needs `CallsIdentified`, since a new call must not take over the entry
  of an old one.
- `CauseIsKept`: from the inductive `CauseKnown`: once `close_event` is set there is a code.
- `NothingEverOutlives`: from `TeardownOrder` (the reader ends before the teardown joins anything, the
  writer before the socket is closed, and a call that is alive has its done callback to come) and `ClosingJoined` (from the closing on
  all is joined). Neither follows from the property itself: that no task runs says nothing about whether
  one can still be created.
- `CauseIsAnnounced`: `CauseAnnounced`, an action property, from `CauseOrder`: the two places that hold
  the cause agree, and the serving task, the writer and `graceful()` only stop for one. Its proof sorts the
  steps by who may give a cause: the drain, an unwinding, or a request.
- `NeverAnsweredTwice`: `AnsweredOnce`. The property counts answers; `Wire` says where an answer is: once in
  the queue, with the writer, or sent, and never before its collector has ended. That needs `FramesInOrder`,
  since a frame that is not decoded has no collector.
- `EveryFrameAnswered`: `Answered`. On top of `Wire` it has to be known that nobody drops an answer of an
  open connection: `Excused` says what each end of a call proves about its reason, and `Blameless` that
  while no close is under way no collector is cancelled, so that only a call that raised can make one unwind.
- `GracefulDrainAnswers`: `GracefulAnswersAll`, from `Waited`: once `graceful()` has stopped the reader it
  waits for every collector there is, and after it there are none. Without that, a frame read while it
  waited would be lost. `GracefulDone` says of every frame what the property says of those it names, and that
  the reader has stopped: otherwise a later step could still add one.

The assumptions are those of `RpcConnection`: limits are positive, frames are sequences of
items, `NoCall` is not a call.

`tlapm WebRtcSessionProofs.tla` proves for any finite set of sessions and any capacities, tracks and faults:

- `SessionTypes`: `TypeOK`, which includes that no track is stopped twice. This is not inductive by
  itself: `OwnedFresh` adds that what a session owns has not been stopped.
- `SlotsAreHonest`: `CapacityHonest`. That a released session has a closed peer says nothing of why it
  acquires no other: `IInv` adds that the cleanup starts with the code set (`EndedTold`), that tracks are
  stopped before the peer is closed (`TracksStopped`), and that a peer which comes later belongs to a task
  that is neither cancelled nor past closing it (`LatePeers`). The counting uses the library's facts on
  cardinalities of finite sets, by one lemma for admission and one for release.

The assumption is `SessionAssumption`: finitely many sessions, capacities are sets of them, a positive limit.

`tlapm StreamEndpointProofs.tla` proves for any number of frames, any queue limit, failures and faults:

- `EndpointTypes`: `TypeOK`, which includes that `task.cancelling()` is at most 4 and that the socket is
  closed at most twice. Neither is inductive: `CancelsCounted` charges each cancellation to the expiry,
  the server, the stop or the deadline of the drain, and `AnnouncedInOrder` ties the codes to the place.
- `EndpointLeavesNothing`: `NothingLeft`, with its exception: only a binary stream whose handler has sent after
  the close may end without a code. The property speaks of the end only; `NotStarted`, `TasksOver` and
  `GeneratorOver` say for every place of the serving task what can be left there, and `Told` with
  `ClientClosed` who can have closed when no code was sent.
- `EndpointCauses`: `CauseHonest`, an action property, from `CauseKnown`: a requested close has made
  `close_code` and `close_value` agree, and the teardown of a connection that raises nothing was requested.

The assumption is `EndpointAssumption`: a positive queue limit, and failures that are closed with known codes.

`tlapm SubscriptionsProofs.tla` proves for any number of requests, items, streams and places in the queue:

- `StreamTypes`: `TypeOK`. That ids and pending places stay within their bounds is a matter of counting:
  every id was taken by a request of its own (`IdsCounted`), and every place is that of a request which
  is opening a stream (`PlacesCounted`).
- `StreamsAreBounded`: `StreamsBounded`, from `RoomHeld` (registered streams and pending places together are
  within the limit) and `Kept` (what is unfinished is registered, or is waited for by `close()`). The limit
  alone is not inductive: the check and the creation are two steps, with other requests between them.
- `NoStreamEverOutlives`: `NoStreamOutlives`, from the same; that no place is left follows since a request
  that is interrupted gives its place back before the session closes.
- `DrainFinishes`: `DrainFinishesStreams`, from `GraceHeld`: while the drain waits for the streams no request
  is left to open one, so those it waits for are all there are. `Traced` adds that a stream which is over was
  said to have ended, or that the request which cancelled it answers for it.
- `StreamsImplementProtocol`: `StreamsKeepProtocol`, the refinement. Initial states map to initial ones, and
  `Effect` sorts the steps by what they say of a stream: each is a step of `StreamProtocol` or a stutter. That
  the abstract guards hold is `Spoken`: what is said of a stream agrees with where its task is.

The assumption is `BoundsAssumption`: the bounds are numbers, the limits are positive.

`tlapm ClientRecoveryProofs.tla` proves for any number of calls, transports, tasks, attempts and any faults:

- `RecoveryTypes`: `TypeOK`, which includes that no call makes more than `retry_attempts` + 1 attempts, and
  no recovery more than the configured ones where `reconnect_max_attempts` is not `None`. That needs to know why
  a call waits: `CallFine` says what each place of a call implies for the attempts made and the frames sent.
- `CallsSentOnce`: `SentOnce`, from the same: a call that is not idempotent and may be tried again has sent
  nothing. The bound by itself is not inductive, since a call in backoff could have been sent already.
- `NoTransportLeaks`: `NothingLeaks`. It needs `OneConnects` (one task connects at a time, none while there
  is a transport, and none once `close()` closes transports), or else a task that succeeds would push out
  an open transport; and that a transport whose callback is to come is over (`Links`).
- `PoolStateHonest`: `StateHonest`, from `PoolHonest`: it is kept until the pool closes, longer than the
  property asks, and adds that no task connects once there is a failure.

The invariant has two halves. `PoolInv` is about transports, tasks and the pool and does not mention calls.
`CallInv` is about calls, which rely on tasks and transports not to disappear; each action is shown to keep one half
at a time. The assumption is `RecoveryAssumption`: the bounds are numbers and the faults known ones.

`tlapm ClientTransportProofs.tla` proves for any number of calls, messages and places in the queue, both
overflow policies and any faults:

- `TypeCorrect`: `TypeOK`, which includes the bound of the queue and that of the cancellations under way.
- `UnsentNeverSent`: `UnsentStaysUnsent`, from `Calls`: a pending future belongs to a request that is marked as
  sent, because both happen in one step. So a failure that finds a future never reports it as unsent.
- `OpenMeansNoGap`: `NoGapWhileOpen`. That the consumer has taken a prefix is not inductive. `Whole` says of an
  open transport that what was taken and what is in the queue are together all that was received.
- `WaitersHarmless`: `InterruptionHarmless`, an action property, from the same invariant.

The assumption is `TransportAssumption`: the bounds are numbers, the limits positive, the policy one of two.

`tlapm ClientStreamsProofs.tla` proves for any number of streams, transports, items and places in a queue:

- `TypeCorrect`: `TypeOK`. That a server gives no more ids than there are streams is counting: it handles a
  request once, and each generator asks once per transport (`Base`).
- `StreamsHaveReaders`: `NoOrphans`, from `Waited`: whoever asked for a stream waits for the answer or has given
  it up (`AskedFor`), and a stream the server runs is attended also while the client closes (`Attended`), which
  the property itself leaves out and without which it does not survive `close()`.
- `NobodyIsForgotten`: `ReadersTold`, from `Pumped`: the end of a transport that is over waits in its inbox until
  the pump takes it, and a pump runs for everybody who has not been told.
- `ConsumersGetTheirOwn`: `OwnAndWhole`. The property speaks of what a consumer was given. `Lines` extends it to
  what is still on its way: after what was given comes what its queue holds, and then what the transport holds,
  without a gap. For a subscriber which does not know its id yet, `Numbered` keeps the messages of ids that
  were not given out of its queue.

The assumption is `StreamsAssumption`: the bounds are numbers, and inbox and queue have a place.

`tlapm WebRtcNegotiationProofs.tla` proves for both roles and any tracks, bounds and faults:

- `TypeCorrect`: `TypeOK`, from `Sound`: a message speaks of tracks its author has (`Authors`), and while the lock
  is held no offer is pending and its holder is where it took it (`Locked`). The socket may be lost meanwhile.
- `BothAgree`: `Agreement`. The property speaks of quiet states only and says nothing of how they are reached;
  `Exchange` says of every state what quiet will mean. `Way` joins the server's queue and the socket, so that
  the writer changes nothing. On it there is at most one answer, the one the client waits for, before every other description,
  and at most one offer, the one the server waits for, behind every other (`Flow`). The last description on the
  way is the server's, an answer on the way back means that none is on the way there, and an offer on its way
  to the server gave way to the answer behind it or is the one the client waits for (`Talk`). What a side waits
  for is on the way or will be made (`ServerWaits`, and `ClientWaits` unless the engine keeps an offer that was not
  sent), and a server with undescribed tracks has a task that will describe them (`Tasking`) unless a call of
  `send_track()` has failed (`Broken`). All of this is claimed only while the client is there.
- `CandidatesArriveInOrder`: `CandidatesFollow`. The number of a candidate is bounded by the descriptions before it
  on `Way`; this needs that `made` is what was seen plus what is on the way, and that one which is held back
  belongs to the description being made (`Order`). `Traced` says where candidates without a description come
  from: until a call of `send_track()` has failed or the session has ended there is none, held back, queued or
  on its way; and both are for good.

The assumption is `NegotiationAssumption`: known roles and faults, numbers for bounds, a queue with a place, the
initial tracks are not among those sent later, and no track has the name of a task: the proof found that it
was missing, as the model names the holder of the lock by either.

`TypeOK` of `RpcConnection`, `WebRtcSession` and `StreamEndpoint` is proved and no longer asked of TLC.

Only model-checked is liveness, which is out of the prover's reach, as is `ENABLED`: `ServingEnds` and `CancelEnds` of
the connection, `RequestsEnd` and `SessionCloses` of `Subscriptions`, `EndpointEnds`, `CloseEndsAll` of the transport,
`WaitersServed` and `CloseLeavesNothing` of the recovery, `CallsEnd` of the negotiation and `ShutdownCompletes` of
the sessions; that no run of these modules deadlocks; and the three findings, whose counterexamples are
runs. No module declares a RECURSIVE operator, and no proof needs induction over data.

## Abstractions

- What a handler computes, validation, middleware and dependency scopes are left out. A call either
  waits, runs, or ends in one of the ways above.
- `max_batch_size` is at least one here; the code allows zero.
- A collector that is cancelled before its first step ends at once in the code. In the model it waits for
  its calls, which the teardown cancels and joins in any case.
- A second cancellation that interrupts the cleanup of application code is not modelled.
- `RpcConnection` serves a protocol without message streams. `Subscriptions` models these with an
  abstract connection: a queue, a drain that waits for requests and streams, a teardown that cancels
  requests before it closes the session.
- In `Subscriptions` invalid parameters, a cancellation that names the wrong stream type, and the answer
  that the collector gives for an interrupted request are left out. A client cancels only streams whose
  id it was told.
- `StreamEndpoint` has one session in the drain. Frames are all alike, the end of a client's input is one of
  them, and all violations are one. A hook, a dependency or a handler that swallows its cancellation is left
  out; one that fails instead is not. The middleware around the handshake is left out.
- `ClientTransport` has one stream, opened after the client listens. The content of answers, and errors in
  encoding a request, are left out; deadlines and cancellations of a caller are one action.
- `ClientRecovery` has one server. Middleware of the client and the delays between attempts are left out.
  A cancelled attempt to connect may still succeed (`ignored_cancel`), as transport factories do.
- `ClientStreams` has streams of one method and of one server, whose errors are left out: they end a stream as a
  refused opening does. The transport's own queue does not overflow and has room for its terminal, which
  are the subject of `ClientTransport`. A request to cancel that `close()` interrupts and one that it makes
  the stream send may both be given up. It asks for safety only.
- `WebRtcNegotiation` assumes an engine that can renegotiate. Tracks are not removed; restarts of ICE and
  the filter by user fragment are left out, and so are the client's initial tracks. A caller of `send_track()`
  is cancelled only while its offer is made; elsewhere it just leaves. Engine calls other than making a
  description do not fail, but for candidates, and the client's do not. While a description is made the reader
  reads the end of the socket but no message: messages wait for the lock all the same. When several messages
  are sent at once and the last ones no longer fit, the session ends and none of them is queued.
- In `WebRtcSession` an `aclose()` that runs out of its own time is left out, as is which code a session
  keeps. Handlers are one task.
- `MaxFrames`, `MaxEvents`, `MaxFaults`, `MaxInbox`, `MaxItems`, `MaxPlain`, `MaxCandidates`, `MaxTransports`, `MaxTasks` and
  `MaxRequests` bound what the environment does, never the code.

## Plan

A module is done when its run passes and each property is shown to notice a mistake.

1. `RpcConnection`, `Subscriptions`, `StreamProtocol`, proofs of the connection's safety: done.
2. `ClientTransport`, `ClientRecovery`, `WebRtcNegotiation`, `WebRtcSession`, proofs of the last,
   `StreamEndpoint`: done.
3. Proofs of every safety property the passing runs check, and of the refinement: done. Left: that what the
   models promise each other holds, as in 6, and safety of what 4 and 5 add.
4. The drain with several sessions and callers that are cancelled, once sessions share more than a deadline.
5. `ClientStreams`: done. Left: the iterators over plain notifications of the hub, and that a stream which is
   closed ends, under fairness.
6. The composition of `ClientTransport` with a service that answers each request at most once, and
   `RpcConnection` shown to implement that service.

## Not modelled, and why

- The order in which middleware and dependency scopes are entered and left: nested context managers in one
  task, whose failures `StreamEndpoint` and `RpcConnection` have at the points where they surface.
- The TypeScript RPC client: the same protocol as the Python one.
- Event streams, database sessions and lifespans: one task each, in sequence, with failures at the awaits;
  what can go wrong is within reach of tests.
- Data channels of WebRTC: bounded queues with one producer and one consumer.
- Everything under "Not to be modelled" above.
