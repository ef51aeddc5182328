---------------------------- MODULE Subscriptions ----------------------------
(***************************************************************************)
(* The message streams of one RPC connection: SubscriptionSession in       *)
(* integrations/websockets/subscriptions.py, which opens a stream and      *)
(* cancels one on request and runs a task per stream, together with the    *)
(* parts of the connection it depends on: the bounded queue of messages to *)
(* send, the graceful drain and the teardown.                              *)
(*                                                                         *)
(* A request is the task of one call to <stream>.open or <stream>.cancel.  *)
(* The answer to a request that is interrupted is given by its collector   *)
(* and not part of this model (see RpcConnection).                         *)
(*                                                                         *)
(* The operators named Bad... are plausible mistakes in the code; they are *)
(* not part of the specification and show that the properties notice them. *)
(***************************************************************************)
EXTENDS Naturals, Sequences, FiniteSets

CONSTANTS
  MaxRequests,  \* bound on the requests of the client
  MaxItems,     \* bound on the items a stream yields
  MaxStreams,   \* limits.max_streams
  MaxQueue,     \* limits.max_queue_size
  Faults        \* the environment events that may happen

Requests == 1..MaxRequests
Streams  == 1..MaxRequests   \* ids are never used twice

FaultKinds == {"send_timeout", "request_cancel", "drain", "close"}

ASSUME BoundsAssumption ==
  /\ MaxRequests \in Nat /\ MaxItems \in Nat
  /\ MaxStreams \in Nat \ {0} /\ MaxQueue \in Nat \ {0}
ASSUME FaultsAssumption == Faults \subseteq FaultKinds

VARIABLES
  request,     \* the task of a request
  target,      \* the stream a request opens or cancels
  interrupted, \* requests that were cancelled or timed out
  next_id,     \* session._next_id
  pending,     \* session._pending_subscriptions
  tasks,       \* session._tasks
  stream,      \* the task of a stream
  holding,     \* the message a blocked stream waits to queue
  cancelled,   \* streams whose task was cancelled
  items,       \* items yielded by a stream
  outgoing,    \* the bounded queue of messages to send
  said,        \* the kinds of message queued for a stream, in their order
  draining,    \* service.drain.draining
  grace,       \* the graceful() coroutine of the drain
  awaited,     \* streams that wait_finished() or close() waits for
  closing,     \* close_event.is_set()
  session      \* the session itself: open, closing its streams, closed

placeV   == <<next_id, pending>>
requestV == <<request, target, interrupted, placeV>>
streamV  == <<tasks, stream, holding, cancelled, items>>
queueV   == <<outgoing, said>>
drainV   == <<draining, grace, awaited>>
vars == <<requestV, streamV, queueV, drainV, closing, session>>

-----------------------------------------------------------------------------
Message(kind, s) == [kind |-> kind, stream |-> s]
Kinds == {"opened", "item", "ended", "stopped", "refused"}

Busy   == {"called", "opening", "refusing", "joining", "stopping"}
Active == {"created", "running", "blocked", "unwinding"}

BadQueueFull == Len(outgoing) > MaxQueue
QueueFull  == Len(outgoing) >= MaxQueue
Unfinished == {s \in Streams : stream[s] \in Active}
Count(kind, s) == Cardinality({k \in 1..Len(said[s]) : said[s][k] = kind})

\* The message has been queued and written.
Heard(kind, s) ==
  /\ Count(kind, s) > 0
  /\ \A k \in 1..Len(outgoing) : outgoing[k] # Message(kind, s)

Enqueue(m) ==
  /\ ~QueueFull
  /\ outgoing' = Append(outgoing, m)
  /\ said' = IF m.kind = "refused" THEN said
             ELSE [said EXCEPT ![m.stream] = Append(@, m.kind)]

\* Nobody cancels the tasks.
BadCancelStreams(S) == UNCHANGED cancelled

\* Task.cancel() of the streams in S.
CancelStreams(S) == cancelled' = cancelled \cup (S \cap Unfinished)

\* create_task(self._run(...)), registered at once.
CreateStream(s) ==
  /\ tasks' = tasks \cup {s}
  /\ stream' = [stream EXCEPT ![s] = "created"]
  /\ UNCHANGED <<holding, cancelled, items>>

Init ==
  /\ request = [r \in Requests |-> "none"] /\ target = [r \in Requests |-> 0]
  /\ interrupted = {} /\ next_id = 1 /\ pending = 0
  /\ tasks = {} /\ stream = [s \in Streams |-> "none"]
  /\ holding = [s \in Streams |-> "none"] /\ cancelled = {}
  /\ items = [s \in Streams |-> 0]
  /\ outgoing = <<>> /\ said = [s \in Streams |-> <<>>]
  /\ draining = FALSE /\ grace = "off" /\ awaited = {}
  /\ closing = FALSE /\ session = "open"

-----------------------------------------------------------------------------
(* The requests of the client. *)

RequestTurn == UNCHANGED <<drainV, session>>

Goto(r, to) == request' = [request EXCEPT ![r] = to]

\* _respond: the answer is queued, or the request waits for a place.
Reply(r, m, wait) ==
  \/ Enqueue(m) /\ Goto(r, "done")
  \/ QueueFull /\ Goto(r, wait) /\ UNCHANGED queueV

\* A call to <stream>.open, target 0, or to <stream>.cancel of a known stream.
\* The reader admits it unless the service drains.
CallStream(r) ==
  /\ request[r] = "none" /\ \A q \in Requests : q < r => request[q] # "none"
  /\ ~draining /\ session = "open"
  /\ \E s \in {0} \cup {t \in Streams : Heard("opened", t)} :
       target' = [target EXCEPT ![r] = s]
  /\ Goto(r, "called")
  /\ UNCHANGED <<interrupted, placeV, streamV, queueV, closing>>
  /\ RequestTurn

Starts(r) == request[r] = "called" /\ r \notin interrupted

\* Only the streams that exist count.
BadLimitReached == Cardinality(tasks) >= MaxStreams
LimitReached == Cardinality(tasks) + pending >= MaxStreams

Refuse(r) ==
  /\ Starts(r) /\ target[r] = 0 /\ LimitReached
  /\ Reply(r, Message("refused", 0), "refusing")
  /\ UNCHANGED <<target, interrupted, placeV, streamV, closing>>
  /\ RequestTurn

\* The stream starts when its answer is queued; until then it is pending.
OpenStream(r) ==
  /\ Starts(r) /\ target[r] = 0 /\ ~LimitReached
  /\ target' = [target EXCEPT ![r] = next_id]
  /\ next_id' = next_id + 1
  /\ Reply(r, Message("opened", next_id), "opening")
  /\ IF QueueFull THEN pending' = pending + 1 /\ UNCHANGED streamV
     ELSE CreateStream(next_id) /\ UNCHANGED pending
  /\ UNCHANGED <<interrupted, closing>>
  /\ RequestTurn

\* The answer is queued or, after send_timeout, given up, which closes the
\* connection; the stream is created even so.
Opened(r) ==
  /\ request[r] = "opening"
  /\ \/ /\ r \notin interrupted
        /\ Enqueue(Message("opened", target[r])) /\ UNCHANGED closing
     \/ "send_timeout" \in Faults /\ QueueFull /\ closing' = TRUE /\ UNCHANGED queueV
  /\ CreateStream(target[r])
  /\ pending' = pending - 1
  /\ Goto(r, "done")
  /\ UNCHANGED <<target, interrupted, next_id>>
  /\ RequestTurn

\* The cancellation of a stream that is over is answered at once, that of one
\* that runs when its task has ended.
StopStream(r) ==
  /\ Starts(r) /\ target[r] # 0
  /\ IF target[r] \in tasks
     THEN CancelStreams({target[r]}) /\ Goto(r, "joining") /\ UNCHANGED queueV
     ELSE Reply(r, Message("stopped", target[r]), "stopping") /\ UNCHANGED cancelled
  /\ UNCHANGED <<target, interrupted, placeV, tasks, stream, holding, items, closing>>
  /\ RequestTurn

\* The answer does not wait for the task of the stream.
BadJoined(r) ==
  /\ request[r] = "joining" /\ r \notin interrupted
  /\ Reply(r, Message("stopped", target[r]), "stopping")
  /\ UNCHANGED <<target, interrupted, placeV, streamV, closing>>
  /\ RequestTurn

Joined(r) ==
  /\ request[r] = "joining" /\ r \notin interrupted
  /\ stream[target[r]] = "over"
  /\ Reply(r, Message("stopped", target[r]), "stopping")
  /\ UNCHANGED <<target, interrupted, placeV, streamV, closing>>
  /\ RequestTurn

Answered(r) ==
  /\ request[r] \in {"refusing", "stopping"}
  /\ \/ /\ r \notin interrupted /\ UNCHANGED closing
        /\ Enqueue(IF request[r] = "refusing" THEN Message("refused", 0)
                   ELSE Message("stopped", target[r]))
     \/ "send_timeout" \in Faults /\ QueueFull /\ closing' = TRUE /\ UNCHANGED queueV
  /\ Goto(r, "done")
  /\ UNCHANGED <<target, interrupted, placeV, streamV>>
  /\ RequestTurn

\* The client cancels the request, or its deadline passes.
InterruptRequest(r) ==
  /\ "request_cancel" \in Faults
  /\ request[r] \in Busy /\ r \notin interrupted
  /\ interrupted' = interrupted \cup {r}
  /\ UNCHANGED <<request, target, placeV, streamV, queueV, closing>>
  /\ RequestTurn

\* The place of the stream that was to be opened is not given back.
BadFreedPlaces(r) == 0
FreedPlaces(r) == IF request[r] = "opening" THEN 1 ELSE 0

\* An interrupted request gives up its message, and its place if it was opening
\* a stream; gather() makes it wait for the stream it has cancelled.
UnwindRequest(r) ==
  /\ r \in interrupted /\ request[r] \in Busy
  /\ request[r] = "joining" => stream[target[r]] = "over"
  /\ pending' = pending - FreedPlaces(r)
  /\ Goto(r, "done")
  /\ UNCHANGED <<target, interrupted, next_id, streamV, queueV, closing>>
  /\ RequestTurn

RequestStep(r) ==
  \/ Refuse(r) \/ OpenStream(r) \/ Opened(r) \/ StopStream(r)
  \/ Joined(r) \/ Answered(r) \/ UnwindRequest(r)

-----------------------------------------------------------------------------
(* The task of a stream: _run and _terminal. *)

StreamTurn == UNCHANGED <<requestV, drainV, session>>

Move(s, to) == stream' = [stream EXCEPT ![s] = to]

StartStream(s) ==
  /\ stream[s] = "created" /\ s \notin cancelled
  /\ Move(s, "running")
  /\ UNCHANGED <<tasks, holding, cancelled, items, queueV, closing>>
  /\ StreamTurn

\* _send: the message is queued, or the task waits for a place.
Say(s, kind, next) ==
  \/ /\ Enqueue(Message(kind, s)) /\ Move(s, next)
     /\ UNCHANGED holding
  \/ /\ QueueFull /\ Move(s, "blocked")
     /\ holding' = [holding EXCEPT ![s] = kind]
     /\ UNCHANGED queueV

YieldItem(s) ==
  /\ stream[s] = "running" /\ s \notin cancelled
  /\ items[s] < MaxItems
  /\ items' = [items EXCEPT ![s] = @ + 1]
  /\ Say(s, "item", "running")
  /\ UNCHANGED <<tasks, cancelled, closing>>
  /\ StreamTurn

\* The generator returns, which one that is cancelled may do too, or fails: the
\* terminal message is sent after its scope is left.
FinishStream(s) ==
  /\ stream[s] = "running"
  /\ Say(s, "ended", "over")
  /\ cancelled' = cancelled \ {s}
  /\ UNCHANGED <<tasks, items, closing>>
  /\ StreamTurn

\* The message is queued or, after send_timeout, dropped.
Put(s) ==
  /\ stream[s] = "blocked"
  /\ \/ s \notin cancelled /\ Enqueue(Message(holding[s], s)) /\ UNCHANGED closing
     \/ "send_timeout" \in Faults /\ QueueFull /\ closing' = TRUE /\ UNCHANGED queueV
  /\ Move(s, IF holding[s] = "item" THEN "running" ELSE "over")
  /\ holding' = [holding EXCEPT ![s] = "none"]
  /\ UNCHANGED <<tasks, cancelled, items>>
  /\ StreamTurn

\* CancelledError passes through _run: the generator and its scope are closed.
UnwindStream(s) ==
  /\ s \in cancelled /\ stream[s] \in Active
  /\ Move(s, IF stream[s] \in {"running", "blocked"} THEN "unwinding" ELSE "over")
  /\ holding' = [holding EXCEPT ![s] = "none"]
  /\ UNCHANGED <<tasks, cancelled, items, queueV, closing>>
  /\ StreamTurn

\* The done callback forgets the stream.
ForgetStream(s) ==
  /\ stream[s] = "over" /\ s \in tasks
  /\ tasks' = tasks \ {s}
  /\ UNCHANGED <<stream, holding, cancelled, items, queueV, closing>>
  /\ StreamTurn

StreamStep(s) ==
  StartStream(s) \/ Put(s) \/ UnwindStream(s) \/ ForgetStream(s)

-----------------------------------------------------------------------------
(* The connection: its writer, its drain and its teardown. *)

Write ==
  /\ outgoing # <<>> /\ session # "closed"
  /\ outgoing' = Tail(outgoing)
  /\ UNCHANGED <<requestV, streamV, said, drainV, closing, session>>

DrainTurn == UNCHANGED <<requestV, streamV, queueV, session>>

NoRequest == \A r \in Requests : request[r] \notin Busy

GraceBegin ==
  /\ "drain" \in Faults /\ ~draining /\ ~closing
  /\ draining' = TRUE /\ grace' = "requests"
  /\ UNCHANGED <<awaited, closing>>
  /\ DrainTurn

\* The streams of requests still being answered are not waited for.
BadGraceStreams ==
  /\ grace = "requests" /\ ~closing
  /\ grace' = "streams" /\ awaited' = tasks
  /\ UNCHANGED <<draining, closing>>
  /\ DrainTurn

\* The collectors are done: subscriptions.wait_finished().
GraceStreams ==
  /\ grace = "requests" /\ NoRequest /\ ~closing
  /\ grace' = "streams" /\ awaited' = tasks
  /\ UNCHANGED <<draining, closing>>
  /\ DrainTurn

GraceClose ==
  /\ grace = "streams" /\ ~closing
  /\ awaited \cap Unfinished = {} /\ NoRequest
  /\ outgoing = <<>>
  /\ grace' = "ended" /\ closing' = TRUE
  /\ UNCHANGED <<draining, awaited>>
  /\ DrainTurn

\* Any other cause of a close, or a cancelled serving task.
Close ==
  /\ "close" \in Faults /\ ~closing
  /\ closing' = TRUE
  /\ UNCHANGED drainV
  /\ DrainTurn

\* The teardown cancels the calls, and those that wait for a stream wait on.
CancelRequests ==
  /\ closing /\ session = "open"
  /\ session' = "cancelling"
  /\ interrupted' = interrupted \cup {r \in Requests : request[r] \in Busy}
  /\ UNCHANGED <<request, target, next_id, pending, streamV, queueV, drainV, closing>>

\* The streams are joined, but not cancelled.
BadCloseSession ==
  /\ session = "cancelling" /\ NoRequest
  /\ session' = "joining"
  /\ tasks' = {} /\ awaited' = tasks
  /\ UNCHANGED <<requestV, stream, holding, cancelled, items, queueV, draining,
                 grace, closing>>

\* subscriptions.close(), when the calls have ended.
CloseSession ==
  /\ session = "cancelling" /\ NoRequest
  /\ session' = "joining"
  /\ CancelStreams(tasks)
  /\ tasks' = {} /\ awaited' = tasks
  /\ UNCHANGED <<requestV, stream, holding, items, queueV, draining, grace,
                 closing>>

SessionClosed ==
  /\ session = "joining" /\ awaited \cap Unfinished = {}
  /\ session' = "closed"
  /\ UNCHANGED <<requestV, streamV, queueV, drainV, closing>>

Over == session = "closed" /\ UNCHANGED vars

Progress ==
  \/ \E r \in Requests : RequestStep(r)
  \/ \E s \in Streams : StreamStep(s)
  \/ Write \/ GraceStreams \/ GraceClose
  \/ CancelRequests \/ CloseSession \/ SessionClosed

Next ==
  \/ Progress
  \/ \E r \in Requests : CallStream(r) \/ InterruptRequest(r)
  \/ \E s \in Streams : YieldItem(s) \/ FinishStream(s)
  \/ GraceBegin \/ Close
  \/ Over

Spec == Init /\ [][Next]_vars

\* Ready tasks run, generators unwind when cancelled, and the client reads or
\* the writer fails within send_timeout.  A generator may run forever.
FairSpec == Spec /\ WF_vars(Progress)

-----------------------------------------------------------------------------
RequestsOK ==
  /\ request \in [Requests -> Busy \cup {"none", "done"}]
  /\ target \in [Requests -> {0} \cup Streams]
  /\ interrupted \subseteq Requests

PlacesOK == next_id \in 1..(MaxRequests + 1) /\ pending \in 0..MaxRequests

StreamsOK ==
  /\ tasks \subseteq Streams
  /\ stream \in [Streams -> Active \cup {"none", "over"}]
  /\ holding \in [Streams -> {"none", "item", "ended"}]
  /\ cancelled \subseteq Streams
  /\ items \in [Streams -> 0..MaxItems]

QueueOK ==
  /\ outgoing \in Seq([kind : Kinds, stream : {0} \cup Streams])
  /\ Len(outgoing) <= MaxQueue
  /\ said \in [Streams -> Seq(Kinds)]

SessionOK ==
  /\ draining \in BOOLEAN /\ grace \in {"off", "requests", "streams", "ended"}
  /\ awaited \subseteq Streams
  /\ closing \in BOOLEAN
  /\ session \in {"open", "cancelling", "joining", "closed"}

TypeOK == RequestsOK /\ PlacesOK /\ StreamsOK /\ QueueOK /\ SessionOK

\* limits.max_streams holds although the check and the creation of a stream are
\* apart while the answer waits for the client to read (_handle).
StreamsBounded == Cardinality(Unfinished) <= MaxStreams

\* When the streams of a closed session have been joined, none is left running
\* and no place is taken, also when an open was interrupted halfway (close,
\* _handle's finally).
NoStreamOutlives ==
  session = "closed" => Unfinished = {} /\ pending = 0 /\ tasks = {}

\* A graceful drain ends after the client was told the end of every stream it
\* knows, unless it has abandoned its own cancellation of it (wait_finished).
DrainFinishesStreams ==
  grace = "ended" =>
    \A s \in Streams : Heard("opened", s) =>
      \/ Heard("ended", s) \/ Heard("stopped", s)
      \/ \E r \in interrupted : target[r] = s

Told(s) ==
  IF closing THEN "lost"
  ELSE IF said[s] = <<>> THEN "nothing"
  ELSE LET last == said[s][Len(said[s])]
       IN IF last \in {"opened", "item"} THEN "open" ELSE last

Protocol == INSTANCE StreamProtocol WITH
  told <- [s \in Streams |-> Told(s)],
  delivered <- [s \in Streams |-> IF closing THEN 0 ELSE Count("item", s)]

\* As long as the connection is open, the messages of every stream keep to the
\* protocol: answer, items, at most one end, and silence after a cancellation
\* was answered, in the order in which they are queued.
StreamsKeepProtocol == Protocol!Spec

\* A request is answered or interrupted, whatever its stream and the queue do.
RequestsEnd == \A r \in Requests : request[r] = "called" ~> request[r] = "done"

\* A session that closes ends all its streams.
SessionCloses == closing ~> session = "closed"
=============================================================================
