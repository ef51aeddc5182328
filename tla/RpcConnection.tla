--------------------------- MODULE RpcConnection ---------------------------
(***************************************************************************)
(* One accepted RPC WebSocket connection of the server, as run by          *)
(* _run_rpc_endpoint in integrations/websockets/runtime.py: the reader     *)
(* that admits requests, the task of every call, the collectors that       *)
(* gather the answers of one incoming frame, the event source, the writer, *)
(* the graceful drain and the serving task that tears everything down.     *)
(*                                                                         *)
(* All of it runs on one asyncio loop, so a step of the model is what one  *)
(* task does between two suspension points.  The reader handles a frame    *)
(* without suspending: while reader = "decoding" no other task moves.      *)
(*                                                                         *)
(* A frame is identified by its arrival number and carries items; the call *)
(* made of an item is identified by the frame and the number of items left *)
(* to decode.  An answer is identified by the frame whose collector sends  *)
(* it, 0 stands for a server event.  The protocol served here declares no  *)
(* message streams (subscriptions), which are a component of their own.    *)
(*                                                                         *)
(* The operators named Bad... are plausible mistakes in the code; they are *)
(* not part of the specification and show that the properties notice them. *)
(***************************************************************************)
EXTENDS Naturals, Sequences, FiniteSets

CONSTANTS
  Ids,             \* the request ids a client uses
  Messages,        \* the frames a client may send, as sequences of items
  MaxFrames,       \* bound on the frames received
  MaxEvents,       \* bound on the payloads the event source yields
  MaxBatch,        \* limits.max_batch_size
  MaxPending,      \* limits.max_pending_requests
  MaxConcurrency,  \* limits.max_concurrency
  MaxQueue,        \* limits.max_queue_size
  PeerCodes,       \* the close codes of a peer that disconnects
  CloseWhenEventsComplete, \* endpoint.close_when_events_complete
  Faults,          \* the environment events that may happen
  NoCall           \* no call: an empty entry of the requests map

FaultKinds ==
  {"disconnect", "unreadable", "socket_failure", "send_timeout", "send_failure",
   "request_timeout", "handler_failure", "leaked_cancellation",
   "event_failure", "expiry", "app_close", "drain", "server_cancel"}

Codes == {"normal", "shutdown", "service_restart", "protocol_error",
          "policy_violation", "message_too_big", "internal_error",
          "try_again_later", "other"}

Item == [op : {"call", "notify", "invalid", "cancel", "ping"}, id : Ids]

Frames == 1..MaxFrames
Calls  == Frames \X (1..MaxBatch)

ASSUME BoundsAssumption ==
  /\ MaxFrames \in Nat /\ MaxEvents \in Nat
  /\ MaxBatch \in Nat \ {0} /\ MaxPending \in Nat \ {0}
  /\ MaxConcurrency \in Nat \ {0} /\ MaxQueue \in Nat \ {0}
ASSUME MessagesAssumption == Messages \subseteq Seq(Item)
ASSUME CodesAssumption == PeerCodes \subseteq Codes
ASSUME SettingsAssumption ==
  CloseWhenEventsComplete \in BOOLEAN /\ Faults \subseteq FaultKinds
ASSUME NoCallAssumption == NoCall \notin Calls

VARIABLES
  reader,           \* the reader task
  nframes,          \* frames received so far; the last is being decoded
  rest,             \* items of the current frame still to be decoded
  controls,         \* frames that owe an answer besides those of their calls
  phase,            \* how far the task of a call is, and how it ended
  item,             \* the message of a call
  route,            \* the branch of invoke_one a call takes
  interrupt,        \* the cancellation delivered to the task of a call
  cancel_requested, \* calls the client asked to cancel
  reserved,         \* pending._reservations, each named by its call
  call_tasks,       \* calls whose done callback has not run
  requests,         \* in-flight call by request id
  collector,        \* the collector task of a frame
  outgoing,         \* the bounded queue of messages to send
  writer,           \* the writer task
  writing,          \* the message the writer is sending
  sent,             \* frames whose answer the socket has accepted
  events,           \* the event source task
  nevents,          \* payloads yielded so far
  close_event,      \* close_event.is_set()
  close_value,      \* the code in close_value
  close_code,       \* connection._close_code, "none" before one is known
  client_closed,    \* the peer is known to be gone
  draining,         \* service.drain.draining
  grace,            \* the graceful() coroutine of the drain
  grace_tasks,      \* collectors graceful() is waiting for
  drain_stops,      \* 0 none, 1 session.stop(), 2 cancelled at the deadline
  main,             \* the serving task
  cancelled,        \* a CancelledError unwinds the serving task
  cancel_pending,   \* a cancellation of the serving task is yet to arrive
  server_cancelled, \* the adapter has cancelled the serving task
  announced,        \* the codes given to socket.close()
  closed            \* connection.closed

readerV == <<reader, nframes, rest, controls>>
callV   == <<phase, item, route, interrupt, cancel_requested, reserved,
                call_tasks, requests>>
writerV == <<outgoing, writer, writing, sent>>
eventV  == <<events, nevents>>
causeV  == <<close_event, close_value, close_code>>
closeV  == <<causeV, client_closed>>
drainV  == <<draining, grace, grace_tasks, drain_stops>>
mainV   == <<main, cancelled, cancel_pending, server_cancelled, announced,
                closed>>
vars == <<readerV, callV, collector, writerV, eventV, closeV,
          drainV, mainV>>

-----------------------------------------------------------------------------
Ended   == {"replied", "silent", "raised", "failed", "never"}
Live    == {"created", "refusing", "waiting", "running"}
Routes  == {"serve", "invalid", "shutting_down", "pending_limit"}
Request == {"call", "notify", "invalid"}   \* items that become calls

Members(f)  == {c \in {f} \X (1..MaxBatch) : phase[c] # "none"}
Running     == {c \in Calls : phase[c] = "running"}
Collecting(f) == collector[f] \in {"gathering", "forwarded", "blocked", "cancelling",
                                 "failing"}
Collectors  == {f \in Frames : Collecting(f)}
CollectorsFull == Cardinality(Collectors) >= MaxPending + MaxQueue
QueueFull   == Len(outgoing) >= MaxQueue
Flushed     == outgoing = <<>> /\ writer # "sending"
Serving     == main \notin {"closed", "abandoned"}

\* The last cause counts, for all or for the peer only.
BadRequestClose(code) ==
  close_event' = TRUE /\ close_value' = code /\ close_code' = code
BadCloseValue(code) ==
  /\ close_event' = TRUE
  /\ close_value' = code
  /\ close_code'  = IF close_event THEN close_code ELSE code

\* request_close: only the first cause counts.
RequestClose(code) ==
  /\ close_event' = TRUE
  /\ close_value' = IF close_event THEN close_value ELSE code
  /\ close_code'  = IF close_event THEN close_code ELSE code

\* Only calls that wait are cancelled.
BadInterruptedWaiting(S, by) ==
  [c \in Calls |-> IF c \in S /\ phase[c] \in Live \ {"running"} THEN by
                   ELSE interrupt[c]]

\* Task.cancel() of the calls in S that are still running.
Interrupted(S, by) ==
  [c \in Calls |-> IF c \in S /\ phase[c] \in Live /\ interrupt[c] = "none"
                   THEN by ELSE interrupt[c]]

\* A collector that is cancelled while a call of its frame runs, and before one
\* has ended badly, forwards the cancellation and awaits what becomes of them.
Forwards(f) ==
  /\ \E c \in Members(f) : phase[c] \in Live
  /\ \A c \in Members(f) : phase[c] \notin {"raised", "never", "failed"}

\* Task.cancel() of the collectors in S.  One whose answers are in, or that
\* has failed and waits for its calls to unwind, ends as cancelled; one that is
\* queueing its answer drops it.
CancelledCollectors(S) ==
  [f \in Frames |->
     IF f \notin S THEN collector[f]
     ELSE CASE collector[f] \in {"gathering", "forwarded"} ->
                 IF Forwards(f) THEN "forwarded" ELSE "cancelling"
            [] collector[f] = "failing" -> "cancelling"
            [] collector[f] = "blocked" -> "ended"
            [] collector[f] \in {"none", "cancelling", "ended"} -> collector[f]]

CancelledEvents == IF events \in {"running", "blocked"} THEN "cancelling" ELSE events

Init ==
  /\ reader = "receiving" /\ nframes = 0 /\ rest = <<>> /\ controls = {}
  /\ phase = [c \in Calls |-> "none"]
  /\ item = [c \in Calls |-> NoCall]
  /\ route = [c \in Calls |-> "serve"]
  /\ interrupt = [c \in Calls |-> "none"]
  /\ cancel_requested = {} /\ reserved = {} /\ call_tasks = {}
  /\ requests = [i \in Ids |-> NoCall]
  /\ collector = [f \in Frames |-> "none"]
  /\ outgoing = <<>> /\ writer = "idle" /\ writing = 0 /\ sent = {}
  /\ events = "running" /\ nevents = 0
  /\ close_event = FALSE /\ close_value = "normal" /\ close_code = "none"
  /\ client_closed = FALSE
  /\ draining = FALSE /\ grace = "off" /\ grace_tasks = {} /\ drain_stops = 0
  /\ main = "serving" /\ cancelled = FALSE /\ cancel_pending = FALSE
  /\ server_cancelled = FALSE /\ announced = <<>> /\ closed = FALSE

-----------------------------------------------------------------------------
(* The reader. *)

ReaderTurn == UNCHANGED <<writerV, eventV, drainV, mainV>>

\* A frame arrives.  Text that does not parse (here <<>>), an empty batch and
\* an oversized one are answered as a whole, by schedule_failure.
Receive(m) ==
  /\ reader = "receiving" /\ nframes < MaxFrames
  /\ reader' = "decoding"
  /\ nframes' = nframes + 1
  /\ IF m = <<>> \/ Len(m) > MaxBatch
     THEN rest' = <<>> /\ controls' = controls \cup {nframes'}
     ELSE rest' = m /\ UNCHANGED controls
  /\ UNCHANGED <<callV, collector, closeV>>
  /\ ReaderTurn

StopReader(code) ==
  /\ reader' = "stopped" /\ rest' = <<>>
  /\ RequestClose(code)
  /\ UNCHANGED <<nframes, controls, callV, collector>>
  /\ ReaderTurn

\* A frame over max_message_bytes or not UTF-8.
ReceiveUnreadable ==
  /\ "unreadable" \in Faults /\ reader = "receiving"
  /\ \E code \in {"message_too_big", "protocol_error"} : StopReader(code)
  /\ UNCHANGED client_closed

ReceiveDisconnect ==
  /\ "disconnect" \in Faults /\ reader = "receiving"
  /\ client_closed' = TRUE
  /\ \E code \in PeerCodes : StopReader(code)

ReceiveFailure ==
  /\ "socket_failure" \in Faults /\ reader = "receiving"
  /\ StopReader("internal_error")
  /\ UNCHANGED client_closed

NextItem(ops) == reader = "decoding" /\ rest # <<>> /\ Head(rest).op \in ops

\* cancel_request: a $/cancelRequest notification.
ReadCancel ==
  /\ NextItem({"cancel"})
  /\ LET c == requests[Head(rest).id]
         hit == /\ c # NoCall
                /\ route[c] = "serve"
                /\ c \notin cancel_requested
                /\ phase[c] \in Live
     IN /\ cancel_requested' = IF hit THEN cancel_requested \cup {c}
                               ELSE cancel_requested
        /\ interrupt' = IF hit THEN Interrupted({c}, "client") ELSE interrupt
  /\ rest' = Tail(rest)
  /\ UNCHANGED <<reader, nframes, controls, phase, item, route, reserved,
                 call_tasks, requests, collector, closeV>>
  /\ ReaderTurn

\* A $/ping with an id is answered by the collector, without admission.
ReadPing ==
  /\ NextItem({"ping"})
  /\ controls' = controls \cup {nframes}
  /\ rest' = Tail(rest)
  /\ UNCHANGED <<reader, nframes, callV, collector, closeV>>
  /\ ReaderTurn

ReadOverflow ==
  /\ NextItem(Request) /\ CollectorsFull
  /\ StopReader("policy_violation")
  /\ UNCHANGED client_closed

\* The id of a cancelled call is taken for free.
BadInFlight(i) ==
  /\ i.op = "call" /\ requests[i.id] # NoCall
  /\ requests[i.id] \notin cancel_requested

InFlight(i) == i.op = "call" /\ requests[i.id] # NoCall

\* The reservation made for the duplicate is released before the close.
ReadDuplicate ==
  /\ NextItem(Request) /\ ~CollectorsFull
  /\ InFlight(Head(rest))
  /\ StopReader("protocol_error")
  /\ UNCHANGED client_closed

\* One reservation too many.
BadAdmissionLimit(i) ==
  CASE i.op = "invalid" -> "invalid"
    [] i.op # "invalid" /\ Cardinality(reserved) > MaxPending -> "pending_limit"
    [] OTHER -> "serve"

\* How a request is admitted: pending.reserve() gives a reservation only to a
\* valid request, of a service that is not draining, below the limit.
Admission(i) ==
  CASE i.op = "invalid" -> "invalid"
    [] i.op # "invalid" /\ draining -> "shutting_down"
    [] i.op # "invalid" /\ ~draining /\ Cardinality(reserved) >= MaxPending
         -> "pending_limit"
    [] OTHER -> "serve"

ReadCall ==
  /\ NextItem(Request) /\ ~CollectorsFull
  /\ LET i == Head(rest)
         c == <<nframes, Len(rest)>>
     IN /\ ~InFlight(i)
        /\ phase' = [phase EXCEPT ![c] = "created"]
        /\ item'  = [item EXCEPT ![c] = i]
        /\ route' = [route EXCEPT ![c] = Admission(i)]
        /\ reserved' = IF Admission(i) = "serve" THEN reserved \cup {c}
                       ELSE reserved
        /\ call_tasks' = call_tasks \cup {c}
        /\ requests' = IF i.op = "call" THEN [requests EXCEPT ![i.id] = c]
                       ELSE requests
  /\ rest' = Tail(rest)
  /\ UNCHANGED <<reader, nframes, controls, interrupt, cancel_requested,
                 collector, closeV>>
  /\ ReaderTurn

FrameDecoded == reader = "decoding" /\ rest = <<>>
Answerable   == nframes \in controls \/ Members(nframes) # {}

\* Only cancellations and ping notifications: nothing to collect.
FrameIgnored ==
  /\ FrameDecoded /\ ~Answerable
  /\ reader' = "receiving"
  /\ UNCHANGED <<nframes, rest, controls, callV, collector, closeV>>
  /\ ReaderTurn

FrameOverflow ==
  /\ FrameDecoded /\ Answerable /\ CollectorsFull
  /\ StopReader("policy_violation")
  /\ UNCHANGED client_closed

FrameCollected ==
  /\ FrameDecoded /\ Answerable /\ ~CollectorsFull
  /\ collector' = [collector EXCEPT ![nframes] = "gathering"]
  /\ reader' = "receiving"
  /\ UNCHANGED <<nframes, rest, controls, callV, closeV>>
  /\ ReaderTurn

ReceiveNext ==
  \/ \E m \in Messages : Receive(m)
  \/ ReceiveUnreadable \/ ReceiveDisconnect \/ ReceiveFailure

Decode ==
  \/ ReadCancel \/ ReadPing \/ ReadOverflow \/ ReadDuplicate \/ ReadCall
  \/ FrameIgnored \/ FrameOverflow \/ FrameCollected

-----------------------------------------------------------------------------
(* The task of a call: invoke_one, RpcServer._run_bounded and call_done. *)

\* Other tasks run only while the reader is suspended.
Suspended == reader # "decoding"

CallTurn ==
  /\ Suspended
  /\ UNCHANGED <<readerV, collector, writerV, eventV, closeV, drainV, mainV>>

Answer(c) == IF item[c].op = "notify" THEN "silent" ELSE "replied"

CallStep(c, from, to) ==
  /\ phase[c] \in from
  /\ phase' = [phase EXCEPT ![c] = to]
  /\ UNCHANGED <<item, route, interrupt, cancel_requested, call_tasks,
                 requests>>
  /\ CallTurn

StartCall(c) ==
  /\ interrupt[c] = "none"
  /\ CallStep(c, {"created"}, IF route[c] = "serve" THEN "waiting" ELSE "refusing")
  /\ UNCHANGED reserved

\* A task cancelled before its first step never runs, not even its finally.
NeverStart(c) ==
  /\ interrupt[c] # "none"
  /\ CallStep(c, {"created"}, "never")
  /\ UNCHANGED reserved

AcquireSlot(c) ==
  /\ interrupt[c] = "none"
  /\ Cardinality(Running) < MaxConcurrency
  /\ CallStep(c, {"waiting"}, "running")
  /\ UNCHANGED reserved

\* invoke_one ends and its finally releases the reservation.
EndCall(c, from, how) ==
  /\ CallStep(c, from, how)
  /\ reserved' = reserved \ {c}

\* An invalid or unadmitted request is answered without a handler.
RefuseCall(c) ==
  \/ interrupt[c] = "none" /\ EndCall(c, {"refusing"}, Answer(c))
  \/ interrupt[c] # "none" /\ EndCall(c, {"refusing"}, "raised")

\* The handler returns, or fails with an error that has an answer, or its
\* deadline passes; also a handler that swallows its cancellation.
CompleteCall(c) == EndCall(c, {"running"}, Answer(c))

\* The deadline passes while the call waits for a slot.  It is answered even if
\* it has been cancelled: interruption() looks at the deadline first.
ExpireCall(c) ==
  /\ "request_timeout" \in Faults
  /\ EndCall(c, {"waiting"}, Answer(c))

Forgivable(c) == interrupt[c] = "client" /\ close_code = "none"

\* interruption(): a cancellation by the client is answered...
AnswerCancelled(c) ==
  /\ Forgivable(c)
  /\ EndCall(c, {"waiting", "running"}, Answer(c))

\* ...any other, and any once the connection has a close code, is re-raised.
UnwindCall(c) ==
  /\ interrupt[c] # "none" /\ ~Forgivable(c)
  /\ EndCall(c, {"waiting", "running"}, "raised")

\* A handler raises CancelledError although nobody cancelled its task.
LeakCancellation(c) ==
  /\ "leaked_cancellation" \in Faults
  /\ interrupt[c] = "none"
  /\ EndCall(c, {"running"}, "raised")

\* An exception escapes the answer itself, as one in encoding its result.
FailCall(c) ==
  /\ "handler_failure" \in Faults
  /\ EndCall(c, {"running"}, "failed")

\* The reservation is left to the finally of invoke_one.
BadCallDone(c) ==
  /\ c \in call_tasks /\ phase[c] \in Ended
  /\ call_tasks' = call_tasks \ {c}
  /\ requests' = [i \in Ids |-> IF requests[i] = c THEN NoCall ELSE requests[i]]
  /\ UNCHANGED <<phase, item, route, interrupt, cancel_requested, reserved>>
  /\ CallTurn

CallDone(c) ==
  /\ c \in call_tasks /\ phase[c] \in Ended
  /\ call_tasks' = call_tasks \ {c}
  /\ reserved' = reserved \ {c}
  /\ requests' = [i \in Ids |-> IF requests[i] = c THEN NoCall ELSE requests[i]]
  /\ UNCHANGED <<phase, item, route, interrupt, cancel_requested>>
  /\ CallTurn

\* The steps of a call that nothing can prevent, and those that only its
\* handler or its deadline decides.
CallProgress(c) ==
  \/ StartCall(c) \/ NeverStart(c) \/ AcquireSlot(c) \/ RefuseCall(c)
  \/ AnswerCancelled(c) \/ UnwindCall(c) \/ CallDone(c)

CallNext(c) ==
  \/ CallProgress(c)
  \/ CompleteCall(c) \/ ExpireCall(c) \/ LeakCancellation(c) \/ FailCall(c)

-----------------------------------------------------------------------------
(* The collector of a frame: invoke, collect_one, respond and send_outgoing. *)

CollectorTurn ==
  /\ Suspended
  /\ UNCHANGED <<readerV, phase, item, route, cancel_requested, reserved,
                 call_tasks, requests, eventV, client_closed, drainV, mainV>>

\* collect_one re-raises, unless the client cancelled a call before its start.
Lost(c) ==
  \/ phase[c] = "raised"
  \/ phase[c] = "never" /\ (c \notin cancel_requested \/ close_event)

\* A cancelled collector forgives no call that never started.
Fatal(f, c) == Lost(c) \/ (collector[f] = "forwarded" /\ phase[c] = "never")

\* One call of the frame raised: the others are cancelled.
CollectorAbort(f) ==
  /\ collector[f] \in {"gathering", "forwarded"}
  /\ \E c \in Members(f) :
       \/ /\ Fatal(f, c)
          /\ collector' = [collector EXCEPT ![f] = "cancelling"]
       \/ /\ phase[c] = "failed"
          /\ collector' = [collector EXCEPT ![f] = "failing"]
  /\ interrupt' = Interrupted(Members(f), "server")
  /\ UNCHANGED <<writerV, causeV>>
  /\ CollectorTurn

\* invocation_done: a failure closes the connection, a cancellation does not.
CollectorUnwound(f) ==
  /\ collector[f] \in {"cancelling", "failing"}
  /\ \A c \in Members(f) : phase[c] \in Ended
  /\ collector' = [collector EXCEPT ![f] = "ended"]
  /\ IF collector[f] = "failing"
     THEN RequestClose("internal_error")
     ELSE UNCHANGED causeV
  /\ UNCHANGED <<interrupt, writerV>>
  /\ CollectorTurn

Enqueue(f) ==
  /\ ~QueueFull
  /\ outgoing' = Append(outgoing, f)
  /\ UNCHANGED <<writer, writing, sent>>

\* What a frame has to say.  gather() drops the answers of a cancelled batch,
\* but a cancelled collector that awaits a single call goes on with its answer.
Answers(f) ==
  /\ f \in controls \/ \E c \in Members(f) : phase[c] # "silent"
  /\ ~close_event
  /\ collector[f] = "forwarded" => Cardinality(Members(f)) = 1

\* Every call has ended: the answers, if any, are queued as one message.
CollectorAnswer(f) ==
  /\ collector[f] \in {"gathering", "forwarded"}
  /\ \A c \in Members(f) :
       phase[c] \in Ended /\ phase[c] # "failed" /\ ~Fatal(f, c)
  /\ \/ /\ Answers(f) /\ Enqueue(f)
        /\ collector' = [collector EXCEPT ![f] = "ended"]
     \/ /\ Answers(f) /\ QueueFull /\ UNCHANGED writerV
        /\ collector' = [collector EXCEPT ![f] = "blocked"]
     \/ /\ ~Answers(f) /\ UNCHANGED writerV
        /\ collector' = [collector EXCEPT ![f] = "ended"]
  /\ UNCHANGED <<interrupt, causeV>>
  /\ CollectorTurn

\* The answer is queued, but the collector waits on.
BadCollectorPut(f) ==
  /\ collector[f] = "blocked"
  /\ Enqueue(f)
  /\ UNCHANGED <<collector, interrupt, causeV>>
  /\ CollectorTurn

CollectorPut(f) ==
  /\ collector[f] = "blocked"
  /\ Enqueue(f)
  /\ collector' = [collector EXCEPT ![f] = "ended"]
  /\ UNCHANGED <<interrupt, causeV>>
  /\ CollectorTurn

\* The queue stayed full for send_timeout.
CollectorTimeout(f) ==
  /\ "send_timeout" \in Faults
  /\ collector[f] = "blocked"
  /\ collector' = [collector EXCEPT ![f] = "ended"]
  /\ RequestClose("policy_violation")
  /\ UNCHANGED <<interrupt, writerV>>
  /\ CollectorTurn

CollectorNext(f) ==
  \/ CollectorAbort(f) \/ CollectorUnwound(f) \/ CollectorAnswer(f)
  \/ CollectorPut(f) \/ CollectorTimeout(f)

-----------------------------------------------------------------------------
(* The event source. *)

EventTurn ==
  /\ Suspended
  /\ UNCHANGED <<readerV, callV, collector, client_closed, drainV, mainV>>

EventEmit ==
  /\ events = "running" /\ nevents < MaxEvents
  /\ nevents' = nevents + 1
  /\ \/ Enqueue(0) /\ UNCHANGED events
     \/ QueueFull /\ events' = "blocked" /\ UNCHANGED writerV
  /\ UNCHANGED causeV
  /\ EventTurn

EventPut ==
  /\ events = "blocked"
  /\ Enqueue(0)
  /\ events' = "running"
  /\ UNCHANGED <<nevents, causeV>>
  /\ EventTurn

EventTimeout ==
  /\ "send_timeout" \in Faults
  /\ events = "blocked" /\ events' = "running"
  /\ RequestClose("policy_violation")
  /\ UNCHANGED <<writerV, nevents>>
  /\ EventTurn

EventsComplete ==
  /\ events = "running" /\ events' = "ended"
  /\ IF CloseWhenEventsComplete
     THEN RequestClose("normal")
     ELSE UNCHANGED causeV
  /\ UNCHANGED <<writerV, nevents>>
  /\ EventTurn

\* The source fails, and the failure is a rejection or unexpected.
EventsFail ==
  /\ "event_failure" \in Faults
  /\ events = "running" /\ events' = "ended"
  /\ \E code \in {"policy_violation", "protocol_error", "try_again_later",
                  "internal_error"} : RequestClose(code)
  /\ UNCHANGED <<writerV, nevents>>
  /\ EventTurn

\* A cancelled source finishes its cleanup, which may fail in turn.
EventsUnwound ==
  /\ events = "cancelling" /\ events' = "ended"
  /\ \/ UNCHANGED causeV
     \/ "event_failure" \in Faults /\ RequestClose("internal_error")
  /\ UNCHANGED <<writerV, nevents>>
  /\ EventTurn

EventNext ==
  \/ EventEmit \/ EventPut \/ EventTimeout \/ EventsComplete \/ EventsFail
  \/ EventsUnwound

-----------------------------------------------------------------------------
(* The writer. *)

WriterTurn ==
  /\ Suspended
  /\ UNCHANGED <<readerV, callV, collector, eventV, drainV, mainV>>

WriterTake ==
  /\ writer = "idle" /\ outgoing # <<>>
  /\ writer' = "sending"
  /\ writing' = Head(outgoing)
  /\ outgoing' = Tail(outgoing)
  /\ UNCHANGED <<sent, closeV>>
  /\ WriterTurn

WriterSent ==
  /\ writer = "sending"
  /\ writer' = "idle" /\ writing' = 0
  /\ sent' = sent \cup ({writing} \ {0})
  /\ UNCHANGED <<outgoing, closeV>>
  /\ WriterTurn

WriterStops(code) ==
  /\ writer = "sending"
  /\ writer' = "ended" /\ writing' = 0
  /\ RequestClose(code)
  /\ UNCHANGED <<outgoing, sent>>
  /\ WriterTurn

WriterDisconnect ==
  /\ "disconnect" \in Faults
  /\ client_closed' = TRUE
  /\ \E code \in PeerCodes : WriterStops(code)

WriterTimeout ==
  /\ "send_timeout" \in Faults
  /\ WriterStops("policy_violation")
  /\ UNCHANGED client_closed

WriterFailure ==
  /\ "send_failure" \in Faults
  /\ WriterStops("internal_error")
  /\ UNCHANGED client_closed

WriterNext ==
  WriterTake \/ WriterSent \/ WriterDisconnect \/ WriterTimeout \/ WriterFailure

-----------------------------------------------------------------------------
(* Other causes of a close: the credentials expire, the application closes. *)

Expire ==
  /\ Suspended
  /\ "expiry" \in Faults
  /\ ~closed /\ close_code = "none"
  /\ RequestClose("policy_violation")
  /\ UNCHANGED <<readerV, callV, collector, writerV, eventV, client_closed,
                 drainV, mainV>>

ApplicationClose ==
  /\ Suspended
  /\ "app_close" \in Faults
  /\ RequestClose("normal")
  /\ UNCHANGED <<readerV, callV, collector, writerV, eventV, client_closed,
                 drainV, mainV>>

-----------------------------------------------------------------------------
(* The graceful drain of this connection: graceful() and _DrainSession. *)

GraceTurn ==
  /\ Suspended
  /\ UNCHANGED <<nframes, rest, controls, callV, collector, writerV, nevents,
                 client_closed, draining, drain_stops, mainV>>

DrainStart ==
  /\ Suspended
  /\ "drain" \in Faults /\ ~draining /\ Serving
  /\ draining' = TRUE
  /\ UNCHANGED <<readerV, callV, collector, writerV, eventV, closeV, grace,
                 grace_tasks, drain_stops, mainV>>

GraceBegin ==
  /\ draining /\ grace = "off" /\ drain_stops = 0 /\ Serving
  /\ grace' = "events"
  /\ events' = CancelledEvents
  /\ UNCHANGED <<reader, causeV, grace_tasks>>
  /\ GraceTurn

GraceCollectors ==
  /\ grace = "events" /\ events = "ended"
  /\ grace' = "collectors"
  /\ grace_tasks' = Collectors
  /\ UNCHANGED <<reader, events, causeV>>
  /\ GraceTurn

GraceReader ==
  /\ grace = "collectors" /\ grace_tasks \cap Collectors = {}
  /\ grace' = "reader"
  /\ reader' = "stopped"
  /\ grace_tasks' = Collectors
  /\ UNCHANGED <<events, causeV>>
  /\ GraceTurn

GraceFlush ==
  /\ grace = "reader" /\ grace_tasks \cap Collectors = {}
  /\ grace' = "flush"
  /\ UNCHANGED <<reader, events, causeV, grace_tasks>>
  /\ GraceTurn

\* The close does not wait for the flush.
BadGraceClose ==
  /\ grace = "flush"
  /\ grace' = "ended"
  /\ RequestClose("service_restart")
  /\ UNCHANGED <<reader, events, grace_tasks>>
  /\ GraceTurn

GraceClose ==
  /\ grace = "flush" /\ (Flushed \/ writer = "ended")
  /\ grace' = "ended"
  /\ RequestClose("service_restart")
  /\ UNCHANGED <<reader, events, grace_tasks>>
  /\ GraceTurn

GraceNext ==
  GraceBegin \/ GraceCollectors \/ GraceReader \/ GraceFlush \/ GraceClose

\* The grace period is over: session.stop() records the cause and cancels the
\* serving task, then the grace task is cancelled with all it waits for.
DrainStop ==
  /\ Suspended
  /\ draining /\ drain_stops = 0 /\ Serving
  /\ drain_stops' = 1
  /\ close_code' = IF close_code = "none" THEN "service_restart" ELSE close_code
  /\ cancel_pending' = TRUE
  /\ grace' = "ended"
  /\ events' = IF grace = "events" THEN CancelledEvents ELSE events
  /\ LET waited == IF grace \in {"collectors", "reader"} THEN grace_tasks ELSE {}
     IN /\ collector' = CancelledCollectors(waited)
        /\ interrupt' = Interrupted(UNION {Members(f) : f \in waited \cap Collectors},
                                    "server")
  /\ UNCHANGED <<readerV, phase, item, route, cancel_requested, reserved,
                 call_tasks, requests, writerV, nevents, close_event,
                 close_value, client_closed, draining, grace_tasks, main,
                 cancelled, server_cancelled, announced, closed>>

\* The deadline of the drain passes during the cleanup.
DrainDeadline ==
  /\ Suspended
  /\ drain_stops = 1 /\ Serving
  /\ drain_stops' = 2
  /\ cancel_pending' = TRUE
  /\ UNCHANGED <<readerV, callV, collector, writerV, eventV, closeV, draining,
                 grace, grace_tasks, main, cancelled, server_cancelled,
                 announced, closed>>

-----------------------------------------------------------------------------
(* The serving task: _run_rpc_endpoint itself and _accepted around it. *)

\* The ASGI server cancels the handler; serve_websocket forwards it once.
ServerCancel ==
  /\ Suspended
  /\ "server_cancel" \in Faults /\ ~server_cancelled /\ Serving
  /\ server_cancelled' = TRUE
  /\ cancel_pending' = TRUE
  /\ UNCHANGED <<readerV, callV, collector, writerV, eventV, closeV, drainV,
                 main, cancelled, announced, closed>>

MainTurn ==
  /\ Suspended
  /\ UNCHANGED <<close_event, client_closed, drainV, server_cancelled>>

AllJoined ==
  reader = "stopped" /\ events = "ended" /\ Collectors = {} /\ call_tasks = {}

\* The calls are not cancelled.
BadCancelTasks ==
  /\ reader' = "stopped"
  /\ events' = CancelledEvents
  /\ collector' = CancelledCollectors(Frames)
  /\ UNCHANGED <<nframes, rest, controls, callV, nevents>>

CancelTasks ==
  /\ reader' = "stopped"
  /\ events' = CancelledEvents
  /\ collector' = CancelledCollectors(Frames)
  /\ interrupt' = Interrupted(call_tasks, "server")
  /\ UNCHANGED <<nframes, rest, controls, phase, item, route, cancel_requested,
                 reserved, call_tasks, requests, nevents>>

CancelWriter ==
  writer' = "ended" /\ writing' = 0 /\ UNCHANGED <<outgoing, sent>>

\* close_event.wait() returns: cancel everything but the writer and join.
Teardown ==
  /\ main = "serving" /\ close_event /\ ~cancel_pending
  /\ main' = "joining"
  /\ CancelTasks
  /\ UNCHANGED <<writerV, close_value, close_code, cancelled, cancel_pending,
                 announced, closed>>
  /\ MainTurn

Joined ==
  /\ main = "joining" /\ AllJoined /\ ~cancel_pending
  /\ IF close_value \in {"normal", "shutdown"}
     THEN main' = "flushing" /\ UNCHANGED writerV
     ELSE main' = "final" /\ CancelWriter
  /\ UNCHANGED <<readerV, callV, collector, eventV, close_value, close_code,
                 cancelled, cancel_pending, announced, closed>>
  /\ MainTurn

FlushEnds ==
  /\ main = "flushing" /\ ~cancel_pending
  /\ Flushed \/ writer = "ended" \/ "send_timeout" \in Faults
  /\ main' = "final" /\ CancelWriter
  /\ UNCHANGED <<readerV, callV, collector, eventV, close_value, close_code,
                 cancelled, cancel_pending, announced, closed>>
  /\ MainTurn

\* A CancelledError reaches the wait in the try block: the finally cancels all.
Interrupt ==
  /\ cancel_pending
  /\ main = "serving" \/ main = "flushing" \/ (main = "joining" /\ AllJoined)
  /\ main' = "final"
  /\ cancelled' = TRUE /\ cancel_pending' = FALSE
  /\ CancelTasks /\ CancelWriter
  /\ UNCHANGED <<close_value, close_code, announced, closed>>
  /\ MainTurn

\* A cancellation that arrives while the finally joins the tasks: gather()
\* cancels them once more.
InterruptAgain ==
  /\ cancel_pending
  /\ main = "final" /\ ~AllJoined
  /\ cancelled' = TRUE /\ cancel_pending' = FALSE
  /\ CancelTasks
  /\ UNCHANGED <<writerV, main, close_value, close_code, announced, closed>>
  /\ MainTurn

\* Everything has ended; the socket is closed unless the peer is gone.  When a
\* cancellation unwinds the task, the cause becomes that of a shutdown.
CloseSocket ==
  /\ main = "final" /\ AllJoined
  /\ cancelled' = (cancelled \/ cancel_pending)
  /\ cancel_pending' = FALSE
  /\ IF cancelled'
     THEN LET code == IF close_code = "none" THEN "shutdown" ELSE close_code
          IN close_value' = code /\ close_code' = code
     ELSE UNCHANGED <<close_value, close_code>>
  /\ IF client_closed
     THEN main' = "closed" /\ closed' = TRUE /\ UNCHANGED announced
     ELSE /\ main' = IF cancelled' THEN "closing" ELSE "closing_final"
          /\ announced' = Append(announced, close_value')
          /\ UNCHANGED closed
  /\ UNCHANGED <<readerV, callV, collector, writerV, eventV>>
  /\ MainTurn

SocketClosed ==
  /\ main \in {"closing", "closing_final", "closing_outer"} /\ ~cancel_pending
  /\ main' = "closed" /\ closed' = TRUE
  /\ UNCHANGED <<readerV, callV, collector, writerV, eventV, close_value,
                 close_code, cancelled, cancel_pending, announced>>
  /\ MainTurn

\* socket.close() is cancelled, or refused because a close was already sent:
\* the next enclosing finally closes again, the last one gives up.
CloseInterrupted ==
  /\ main \in {"closing", "closing_final", "closing_outer"}
  /\ cancel_pending \/ Len(announced) > 1
  /\ cancel_pending' = FALSE
  /\ IF main = "closing_outer"
     THEN main' = "abandoned" /\ UNCHANGED announced
     ELSE /\ main' = IF main = "closing" THEN "closing_final" ELSE "closing_outer"
          /\ announced' = Append(announced,
                                 IF main = "closing" THEN close_value
                                 ELSE IF close_code = "none" THEN "normal"
                                      ELSE close_code)
  /\ UNCHANGED <<readerV, callV, collector, writerV, eventV, close_value,
                 close_code, cancelled, closed>>
  /\ MainTurn

MainNext ==
  \/ Teardown \/ Joined \/ FlushEnds \/ Interrupt \/ InterruptAgain
  \/ CloseSocket \/ SocketClosed \/ CloseInterrupted

-----------------------------------------------------------------------------
\* The connection is over; the drain that waits for it returns.
Over == ~Serving /\ UNCHANGED vars

TaskNext ==
  \/ \E c \in Calls : CallNext(c)
  \/ \E f \in Frames : CollectorNext(f)
  \/ EventNext \/ WriterNext \/ GraceNext \/ MainNext

Environment ==
  \/ ReceiveNext \/ Expire \/ ApplicationClose \/ DrainStart \/ DrainStop
  \/ DrainDeadline \/ ServerCancel

Next == Decode \/ TaskNext \/ Environment \/ Over

Spec == Init /\ [][Next]_vars

\* What asyncio and the settings guarantee: some ready task runs, cancelled
\* handlers and sources unwind, the socket accepts or refuses a message within
\* send_timeout, and the drain reaches its two deadlines.  A handler
\* that nobody interrupts may run forever, and clients need not send.  Every
\* task has finitely many steps, so no task needs a fairness of its own.
Progress ==
  \/ Decode
  \/ \E c \in Calls : CallProgress(c)
  \/ \E f \in Frames : CollectorNext(f)
  \/ EventPut \/ EventsUnwound \/ WriterNext \/ GraceNext \/ DrainStop
  \/ DrainDeadline
  \/ MainNext

FairSpec == Spec /\ WF_vars(Progress)

-----------------------------------------------------------------------------
Phases == {"none"} \cup Live \cup Ended

ReaderOK ==
  /\ reader \in {"receiving", "decoding", "stopped"}
  /\ nframes \in 0..MaxFrames
  /\ rest \in Seq(Item) /\ Len(rest) <= MaxBatch
  /\ reader = "decoding" => nframes > 0
  /\ controls \subseteq Frames

CallsOK ==
  /\ phase \in [Calls -> Phases]
  /\ item \in [Calls -> Item \cup {NoCall}]
  /\ route \in [Calls -> Routes]
  /\ interrupt \in [Calls -> {"none", "client", "server"}]
  /\ cancel_requested \subseteq Calls
  /\ reserved \subseteq Calls
  /\ call_tasks \subseteq Calls
  /\ requests \in [Ids -> Calls \cup {NoCall}]

CollectorOK ==
  collector \in [Frames -> {"none", "gathering", "forwarded", "blocked",
                            "cancelling", "failing", "ended"}]

WriterOK ==
  /\ outgoing \in Seq(0..MaxFrames) /\ Len(outgoing) <= MaxQueue
  /\ writer \in {"idle", "sending", "ended"} /\ writing \in 0..MaxFrames
  /\ sent \subseteq Frames

EventsOK ==
  /\ events \in {"running", "blocked", "cancelling", "ended"}
  /\ nevents \in 0..MaxEvents

CloseOK ==
  /\ close_event \in BOOLEAN /\ close_value \in Codes
  /\ close_code \in Codes \cup {"none"} /\ client_closed \in BOOLEAN

DrainOK ==
  /\ draining \in BOOLEAN
  /\ grace \in {"off", "events", "collectors", "reader", "flush", "ended"}
  /\ grace_tasks \subseteq Frames /\ drain_stops \in {0, 1, 2}

MainOK ==
  /\ main \in {"serving", "joining", "flushing", "final", "closing",
               "closing_final", "closing_outer", "closed", "abandoned"}
  /\ cancelled \in BOOLEAN /\ cancel_pending \in BOOLEAN
  /\ server_cancelled \in BOOLEAN
  /\ announced \in Seq(Codes) /\ closed \in BOOLEAN

TypeOK ==
  /\ ReaderOK /\ CallsOK /\ CollectorOK /\ WriterOK
  /\ EventsOK /\ CloseOK /\ DrainOK /\ MainOK

\* Reservations are never leaked and never exceed the limit, however calls end:
\* each is held by an admitted call whose done callback has not run
\* (_PendingRequests, invoke_one's finally, call_done).
ReservationsHeld ==
  /\ \A c \in reserved : c \in call_tasks /\ route[c] = "serve"
  /\ Cardinality(reserved) <= MaxPending

\* The requests map and the live call tasks agree: an in-flight id names exactly
\* the one call that has it, so that a cancellation reaches that call only and a
\* duplicate is noticed (reader, call_done, cancel_request).
InFlightConsistent ==
  /\ \A i \in Ids : requests[i] # NoCall =>
       /\ requests[i] \in call_tasks
       /\ item[requests[i]] = [op |-> "call", id |-> i]
  /\ \A c \in call_tasks : item[c].op = "call" => requests[item[c].id] = c

Owed(f) == f \in controls \/ \E c \in Members(f) : item[c].op \in {"call", "invalid"}
Dropped(f) == \E c \in Members(f) : phase[c] = "raised"

\* As long as the connection is open, a frame whose collector has ended has its
\* answer queued, being sent or sent, also when the client cancelled its calls
\* before they started; only a CancelledError raised by a handler of its own
\* accord drops it (collect_one, invoke, send_outgoing, writer).
NoAnswerLost ==
  close_code = "none" /\ ~cancelled =>
    \A f \in Frames :
      collector[f] = "ended" /\ Owed(f) /\ ~Dropped(f) =>
        \/ f \in sent
        \/ writer = "sending" /\ writing = f
        \/ \E k \in 1..Len(outgoing) : outgoing[k] = f

\* A frame is answered at most once, however often its collector is cancelled,
\* times out or finds the queue full (invoke, send_outgoing, writer).
AnsweredOnce ==
  \A f \in Frames :
    LET queued == {k \in 1..Len(outgoing) : outgoing[k] = f}
        writes == IF writing = f THEN 1 ELSE 0
        done   == IF f \in sent THEN 1 ELSE 0
        claim  == IF collector[f] # "ended" THEN 1 ELSE 0
    IN Cardinality(queued) + writes + done + claim <= 1

\* While the connection is open every frame that is to be answered is answered
\* exactly once: what has been promised above (collect_one, send_outgoing, writer).
Answered == NoAnswerLost /\ AnsweredOnce

\* A drain that ends gracefully has answered, on the wire, every request the
\* reader accepted (graceful: collectors, then reader, then flush, then close).
GracefulAnswersAll ==
  close_event /\ close_value = "service_restart" /\ ~client_closed /\ ~cancelled =>
    \A f \in Frames :
      collector[f] # "none" /\ Owed(f) /\ ~Dropped(f) => f \in sent

\* Nothing outlives the serving task: when the socket is being closed no task
\* runs, no reservation is held and no id is in flight, through every path of
\* the teardown and with cancellations arriving during it.
NothingOutlives ==
  main \in {"closing", "closing_final", "closing_outer", "closed", "abandoned"} =>
    /\ AllJoined /\ writer = "ended"
    /\ \A c \in Calls : phase[c] \notin Live
    /\ reserved = {} /\ \A i \in Ids : requests[i] = NoCall

\* Once a close is requested its cause stays: later failures, the expiry, the
\* drain and a cancellation of the serving task keep it (request_close, stop).
CauseKept == [][close_event => close_event' /\ close_code' = close_code]_vars

\* The peer is told the cause of a requested close, on the ordinary path and
\* when a cancellation unwinds the serving task, each time the socket is closed.
CauseAnnounced ==
  [][announced' # announced /\ close_event =>
       announced'[Len(announced')] = close_code']_vars

\* docs/integrations/websockets/connections-and-events.md: connections that a
\* drain stops close with SERVICE_RESTART; earlier causes are preserved.
DrainCauseKept ==
  [][drain_stops > 0 /\ close_code = "service_restart" =>
       close_code' = "service_restart"]_vars

\* A close that is requested, a drain, and a cancellation by the ASGI server end
\* the serving task, whatever handlers, the client and the queue do meanwhile,
\* also when a cancelled collector is left with an answer that no writer takes.
ServingEnds == (close_event \/ draining \/ server_cancelled) ~> ~Serving

\* A call that the client cancels ends and frees its reservation and its id,
\* whether it had started, waited for a slot or ran.
CancelEnds == \A c \in Calls : c \in cancel_requested ~> c \notin call_tasks
=============================================================================
