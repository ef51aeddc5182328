---------------------------- MODULE ClientStreams ----------------------------
(***************************************************************************)
(* The message streams of the generated Python client over the transports  *)
(* that replace each other: RpcStream, _subscribe_remote(), the            *)
(* notification hub with its pump, and close() of runtime/core.py.j2.      *)
(*                                                                         *)
(* All streams have the same method, so the id that the server gives is    *)
(* all that tells their messages apart, and every connection counts its    *)
(* ids from one.  The task that opens a stream may learn its id after the  *)
(* pump has taken the first messages of the stream.                        *)
(*                                                                         *)
(* The server is what StreamProtocol promises, a transport is what         *)
(* ClientTransport promises, and the pool is what ClientRecovery promises. *)
(***************************************************************************)
EXTENDS Naturals, Sequences, FiniteSets

CONSTANTS
  MaxStreams,    \* bound on the streams that are opened
  MaxTransports, \* bound on the transports that are opened
  MaxItems,      \* items of a stream, before its completion
  MaxInbox,      \* bound on the messages that wait for the pump
  MaxQueue,      \* notification_queue_size
  MaxFaults,     \* bound on the events of Faults, close() apart
  Reconnect,     \* reconnect of the pool
  Faults         \* the environment events that may happen

Streams    == 1..MaxStreams
Transports == 1..MaxTransports

FaultKinds == {"refused", "lost", "send_failure", "timeout", "leave", "close"}

ASSUME StreamsAssumption ==
  /\ MaxStreams \in Nat /\ MaxTransports \in Nat /\ MaxItems \in Nat
  /\ MaxInbox \in Nat \ {0} /\ MaxQueue \in Nat \ {0} /\ MaxFaults \in Nat
  /\ Reconnect \in BOOLEAN /\ Faults \subseteq FaultKinds

VARIABLES
  link,      \* a transport: none, open, failing, retired, failed, clean
  inbox,     \* its _notifications
  pump,      \* the task of its hub
  subs,      \* hub.subscribers
  served,    \* the streams the server has opened on it, by id
  said,      \* messages the server has sent of each of them
  stopped,   \* <<t, id>>: those that were cancelled
  asked,     \* <<s, t>>: requests to open that the server has yet to handle
  abandoned, \* <<s, t>>: requests to open or to cancel that were given up
  st,        \* the generator of a stream, with its subscriber
  closing,   \* how far close() of the client has come
  faults     \* how many faults there have been

serverV == <<served, said, stopped, asked, abandoned>>
vars == <<link, inbox, pump, subs, serverV, st, closing, faults>>

-----------------------------------------------------------------------------
Message(t, i, s, n) == [kind |-> "message", at |-> t, id |-> i, of |-> s, n |-> n]
End(t, kind)        == [kind |-> kind, at |-> t, id |-> 0, of |-> 0, n |-> 0]
Ends                == {"ended", "failure"}

\* A message after the items of its stream is its completion.
Completes(m) == m.n > MaxItems

Silence == [i \in Streams |-> 0]

Places == {"none", "getting", "opening", "held", "reading", "unwinding"}
Ended  == {"complete", "error", "closed"}

\* place, and after: where the generator is, and goes when its cleanup has ended;
\* on: its transport; ack, told: the answer to its request to open; id: stream_id,
\* 0 for None; queue, terminal: of the subscriber; got: items the consumer was given
\* since it was last opened; opened: _STREAM_OPENED was yielded; stale: it was
\* opened again with messages in its queue.
Idle == [place |-> "none", after |-> "none", on |-> 0, ack |-> "none", told |-> 0,
         id |-> 0, queue |-> <<>>, terminal |-> "none", got |-> <<>>,
         opened |-> FALSE, stale |-> FALSE]

\* transport.closed is done and its result is an error.
Settled(t) == t \in Transports /\ link[t] \in {"retired", "failed"}
Current == Cardinality({t \in Transports : link[t] # "none"})

Put(t, m) == inbox' = [inbox EXCEPT ![t] = Append(@, m)]

\* One more of the events that the environment may choose.
Fault(kind) == kind \in Faults /\ faults < MaxFaults /\ faults' = faults + 1

Init ==
  /\ link = [t \in Transports |-> "none"] /\ inbox = [t \in Transports |-> <<>>]
  /\ pump = [t \in Transports |-> "none"] /\ subs = [t \in Transports |-> {}]
  /\ served = [t \in Transports |-> <<>>] /\ said = [t \in Transports |-> Silence]
  /\ stopped = {} /\ asked = {} /\ abandoned = {}
  /\ st = [s \in Streams |-> Idle] /\ closing = "open" /\ faults = 0

-----------------------------------------------------------------------------
(* _subscribe_remote() *)

\* What is left of the generator x when it goes on, or ends: a subscriber that is
\* opened again keeps its queue, and a client that is closed opens nothing again.
Left(x, to) ==
  CASE to = "complete" -> [x EXCEPT !.place = to, !.after = "none"]
    [] to = "getting" /\ closing = "open" ->
         [Idle EXCEPT !.place = to, !.queue = x.queue, !.opened = x.opened]
    [] OTHER -> [Idle EXCEPT !.place = IF to = "getting" THEN "closed" ELSE to]

Leave(s, x, to) == st' = [st EXCEPT ![s] = Left(x, to)]

\* The stream of the server is not cancelled when the loop ends with an error.
BadCleanup(s, x, to) ==
  /\ subs' = [subs EXCEPT ![x.on] = @ \ {s}]
  /\ IF x.id = 0 \/ link[x.on] # "open" \/ to = "error" THEN Leave(s, x, to)
     ELSE st' = [st EXCEPT ![s] = [x EXCEPT !.place = "unwinding", !.after = to]]

\* The finally clause: the subscriber leaves its hub, and a stream that has an id
\* is cancelled on the transport that gave it.
Cleanup(s, x, to) ==
  /\ subs' = [subs EXCEPT ![x.on] = @ \ {s}]
  /\ IF x.id = 0 \/ link[x.on] # "open" THEN Leave(s, x, to)
     ELSE st' = [st EXCEPT ![s] = [x EXCEPT !.place = "unwinding", !.after = to]]

\* except Exception: only an error of a transport that is known to be lost leads
\* to another.
Raise(s, x) ==
  Cleanup(s, x, IF Reconnect /\ closing = "open" /\ Settled(x.on) THEN "getting"
                ELSE "error")

Start(s) ==
  /\ st[s].place = "none" /\ \A q \in Streams : q < s => st[q].place # "none"
  /\ closing = "open" /\ st' = [st EXCEPT ![s].place = "getting"]
  /\ UNCHANGED <<link, inbox, pump, subs, serverV, closing, faults>>

\* The stream subscribes before it asks to be opened.
Subscribe(s, t) ==
  /\ subs' = [subs EXCEPT ![t] = @ \cup {s}]
  /\ pump' = [pump EXCEPT ![t] = IF @ = "none" THEN "running" ELSE @]
  /\ st' = [st EXCEPT ![s] = [st[s] EXCEPT !.place = "opening", !.on = t,
                            !.ack = "pending", !.stale = st[s].queue # <<>>]]
  /\ asked' = asked \cup {<<s, t>>}
  /\ UNCHANGED <<inbox, served, said, stopped, abandoned, closing, faults>>

\* get() gives the current transport, or one that replaces it.
Get(s) ==
  /\ st[s].place = "getting" /\ closing = "open"
  /\ \/ /\ Current # 0 /\ link[Current] = "open"
        /\ Subscribe(s, Current) /\ UNCHANGED link
     \/ /\ Current = 0 \/ (Reconnect /\ Settled(Current))
        /\ Current < MaxTransports
        /\ link' = [link EXCEPT ![Current + 1] = "open"]
        /\ Subscribe(s, Current + 1)

\* There is no transport any more, or the current one refuses requests but is not
\* known to be lost; it has a hub all the same.
GetFails(s) ==
  /\ st[s].place = "getting" /\ closing = "open"
  /\ \/ Fault("refused") /\ UNCHANGED pump
     \/ ~Reconnect /\ Settled(Current) /\ UNCHANGED <<pump, faults>>
     \/ /\ Current # 0 /\ link[Current] = "failing"
        /\ pump' = [pump EXCEPT ![Current] = IF @ = "none" THEN "running" ELSE @]
        /\ UNCHANGED faults
  /\ Leave(s, st[s], "error")
  /\ UNCHANGED <<link, inbox, subs, serverV, closing>>

\* The task learns the id some time after the answer was received.
Acknowledged(s) ==
  /\ st[s].place = "opening" /\ st[s].ack = "answered" /\ closing = "open"
  /\ st' = [st EXCEPT ![s] = [st[s] EXCEPT !.id = st[s].told, !.opened = TRUE,
                            !.place = IF st[s].opened THEN "reading" ELSE "held"]]
  /\ UNCHANGED <<link, inbox, pump, subs, serverV, closing, faults>>

OpenFails(s) ==
  /\ st[s].place = "opening" /\ st[s].ack = "failed"
  /\ IF st[s].after = "closed" THEN Cleanup(s, st[s], "closed") ELSE Raise(s, st[s])
  /\ UNCHANGED <<link, inbox, pump, serverV, closing, faults>>

\* _fail_pending of the transport, with what happens to x besides.
FailPending(t, s, x) ==
  st' = [q \in Streams |->
           IF q = s THEN x
           ELSE IF st[q].place = "opening" /\ st[q].on = t /\ st[q].ack = "pending"
             THEN [st[q] EXCEPT !.ack = "failed"] ELSE st[q]]

\* The server's side of a transport that is lost.
Lose(t) ==
  /\ served' = [served EXCEPT ![t] = <<>>] /\ said' = [said EXCEPT ![t] = Silence]
  /\ stopped' = {x \in stopped : x[1] # t} /\ asked' = {x \in asked : x[2] # t}
  /\ abandoned' = {x \in abandoned : x[2] # t}

\* A request that fails, or is interrupted, in its send retires the transport.
Retire(s, to) ==
  /\ st[s].place = "opening" /\ st[s].ack # "retiring" /\ link[st[s].on] = "open"
  /\ link' = [link EXCEPT ![st[s].on] = "retired"]
  /\ FailPending(st[s].on, s, [st[s] EXCEPT !.ack = "retiring", !.after = to])
  /\ Lose(st[s].on)
  /\ UNCHANGED <<inbox, pump, subs, closing>>

SendFails(s) == Fault("send_failure") /\ Retire(s, "none")

GiveUp(s) == abandoned' = abandoned \cup {<<s, st[s].on>>}

\* The deadline of the request passes.
OpenTimesOut(s) ==
  /\ st[s].place = "opening" /\ st[s].ack = "pending"
  /\ Fault("timeout") /\ Raise(s, st[s]) /\ GiveUp(s)
  /\ UNCHANGED <<link, inbox, pump, served, said, stopped, asked, closing>>

\* The consumer asks for the next item.
Ask(s) ==
  /\ st[s].place = "held" /\ st' = [st EXCEPT ![s].place = "reading"]
  /\ UNCHANGED <<link, inbox, pump, subs, serverV, closing, faults>>

\* Messages of other streams, queued before the id was known, are skipped.
Read(s) ==
  /\ st[s].place = "reading" /\ st[s].queue # <<>> /\ closing = "open"
  /\ LET m == Head(st[s].queue)
         x == [st[s] EXCEPT !.queue = Tail(@)] IN
       \/ /\ m.id # x.id
          /\ st' = [st EXCEPT ![s] = x] /\ UNCHANGED subs
       \/ /\ m.id = x.id /\ Completes(m)
          /\ Cleanup(s, x, "complete")
       \/ /\ m.id = x.id /\ ~Completes(m)
          /\ st' = [st EXCEPT ![s] = [x EXCEPT !.got = Append(@, m), !.place = "held"]]
          /\ UNCHANGED subs
  /\ UNCHANGED <<link, inbox, pump, serverV, closing, faults>>

\* The terminal comes after all that is queued.
ReadTerminal(s) ==
  /\ st[s].place = "reading" /\ st[s].queue = <<>> /\ st[s].terminal # "none"
  /\ closing = "open" /\ Raise(s, st[s])
  /\ UNCHANGED <<link, inbox, pump, serverV, closing, faults>>

\* The request to cancel is answered, fails with its transport, or gives up.
Unwound(s) ==
  /\ st[s].place = "unwinding" /\ Leave(s, st[s], st[s].after)
  /\ \/ /\ link[st[s].on] = "open"
        /\ stopped' = stopped \cup {<<st[s].on, st[s].id>>}
        /\ UNCHANGED <<abandoned, faults>>
     \/ link[st[s].on] # "open" /\ UNCHANGED <<stopped, abandoned, faults>>
     \/ /\ link[st[s].on] = "open"
        /\ Fault("timeout") /\ GiveUp(s) /\ UNCHANGED stopped
  /\ UNCHANGED <<link, inbox, pump, subs, served, said, asked, closing>>

\* aclose(): what the generator waits for is cancelled, or it is closed where it
\* has yielded.  close() of the client calls it, or the consumer does.
CloseStream(s) ==
  /\ IF closing = "open" THEN Fault("leave") ELSE UNCHANGED faults
  /\ \/ /\ st[s].place = "getting" /\ Leave(s, st[s], "closed")
        /\ UNCHANGED <<link, inbox, pump, subs, serverV, closing>>
     \/ /\ st[s].place \in {"reading", "held"} /\ Cleanup(s, st[s], "closed")
        /\ UNCHANGED <<link, inbox, pump, serverV, closing>>
     \/ /\ st[s].place = "opening" /\ st[s].ack # "retiring"
        /\ Cleanup(s, st[s], "closed") /\ GiveUp(s)
        /\ UNCHANGED <<link, inbox, pump, served, said, stopped, asked, closing>>
     \/ Retire(s, "closed")
     \/ /\ st[s].place = "unwinding" /\ Leave(s, st[s], "closed") /\ GiveUp(s)
        /\ UNCHANGED <<link, inbox, pump, subs, served, said, stopped, asked, closing>>

-----------------------------------------------------------------------------
(* _pump_notifications() *)

\* A stream takes only messages with an id that it knows to be its own.
BadHeeds(x, m) == x.terminal = "none" /\ x.id = m.id

\* A stream without an id takes the messages of every stream of its method.
Heeds(x, m) == x.terminal = "none" /\ x.id \in {0, m.id}

BadOverflows(x) == Len(x.queue) > MaxQueue
Overflows(x)    == Len(x.queue) >= MaxQueue

\* A full queue ends its stream with an error.
Taken(x, m) ==
  IF ~Heeds(x, m) THEN x
  ELSE IF Overflows(x) THEN [x EXCEPT !.queue = <<>>, !.terminal = "overflow"]
  ELSE [x EXCEPT !.queue = Append(@, m)]

\* Only a failure is passed on.
BadFinished(x, kind) == IF kind = "failure" THEN [x EXCEPT !.terminal = kind] ELSE x

\* finish(): the subscriber is told how the pump has ended.
Finished(x, kind) == [x EXCEPT !.terminal = kind]

Pump(t) ==
  /\ pump[t] = "running" /\ inbox[t] # <<>>
  /\ inbox' = [inbox EXCEPT ![t] = Tail(@)]
  /\ LET m == Head(inbox[t]) IN
       \/ /\ m.kind \in Ends /\ pump' = [pump EXCEPT ![t] = "over"]
          /\ st' = [s \in Streams |-> IF s \in subs[t] THEN Finished(st[s], m.kind)
                                      ELSE st[s]]
       \/ /\ m.kind \notin Ends /\ UNCHANGED pump
          /\ st' = [s \in Streams |-> IF s \in subs[t] THEN Taken(st[s], m) ELSE st[s]]
  /\ UNCHANGED <<link, subs, serverV, closing, faults>>

-----------------------------------------------------------------------------
(* The transports *)

\* _receive: requests fail at once, the transport is known to be lost when its
\* socket is closed.
TransportFails(t) ==
  /\ link[t] = "open" /\ Fault("lost")
  /\ link' = [link EXCEPT ![t] = "failing"] /\ FailPending(t, 0, Idle) /\ Lose(t)
  /\ UNCHANGED <<inbox, pump, subs, closing>>

ReaderEnds(t) ==
  /\ link[t] = "failing" /\ link' = [link EXCEPT ![t] = "failed"]
  /\ Put(t, End(t, "failure"))
  /\ UNCHANGED <<pump, subs, serverV, st, closing, faults>>

\* close() of a transport that a request retires: its iterator just ends.
RetireEnds(t) ==
  /\ link[t] = "retired" /\ link' = [link EXCEPT ![t] = "failed"]
  /\ Put(t, End(t, "ended"))
  /\ st' = [q \in Streams |-> IF st[q].ack = "retiring" /\ st[q].on = t
                              THEN [st[q] EXCEPT !.ack = "failed"] ELSE st[q]]
  /\ UNCHANGED <<pump, subs, serverV, closing, faults>>

-----------------------------------------------------------------------------
(* The server *)

Waits(s, t) == st[s].place = "opening" /\ st[s].on = t /\ st[s].ack = "pending"

\* A request that was given up may be cancelled in time.
ServerOpens(s, t) ==
  /\ <<s, t>> \in asked /\ asked' = asked \ {<<s, t>>}
  /\ \/ /\ served' = [served EXCEPT ![t] = Append(@, s)]
        /\ st' = IF Waits(s, t)
                 THEN [st EXCEPT ![s].ack = "answered", ![s].told = Len(served[t]) + 1]
                 ELSE st
        /\ UNCHANGED faults
     \/ /\ ~Waits(s, t) /\ UNCHANGED <<served, st, faults>>
     \/ /\ Waits(s, t) /\ Fault("refused")
        /\ st' = [st EXCEPT ![s].ack = "failed"] /\ UNCHANGED served
  /\ UNCHANGED <<link, inbox, pump, subs, said, stopped, abandoned, closing>>

ServerSends(t, i) ==
  /\ link[t] = "open" /\ i <= Len(served[t]) /\ <<t, i>> \notin stopped
  /\ said[t][i] <= MaxItems /\ Len(inbox[t]) < MaxInbox
  /\ said' = [said EXCEPT ![t][i] = @ + 1]
  /\ Put(t, Message(t, i, served[t][i], said[t][i] + 1))
  /\ UNCHANGED <<link, pump, subs, served, stopped, asked, abandoned, st, closing, faults>>

-----------------------------------------------------------------------------
(* close() *)

Idling == \A s \in Streams : st[s].place \in Ended \cup {"none"}

CloseClient ==
  /\ "close" \in Faults /\ closing = "open" /\ closing' = "streams"
  /\ UNCHANGED <<link, inbox, pump, subs, serverV, st, faults>>

ClosePumps ==
  /\ closing = "streams" /\ Idling /\ closing' = "source"
  /\ pump' = [t \in Transports |-> IF pump[t] = "running" THEN "over" ELSE pump[t]]
  /\ UNCHANGED <<link, inbox, subs, serverV, st, faults>>

CloseSource ==
  /\ closing = "source" /\ closing' = "closed"
  /\ link' = [t \in Transports |-> IF link[t] = "open" THEN "clean" ELSE link[t]]
  /\ UNCHANGED <<inbox, pump, subs, serverV, st, faults>>

-----------------------------------------------------------------------------
Over == Idling /\ UNCHANGED vars

Next ==
  \/ \E s \in Streams :
       \/ Start(s) \/ Get(s) \/ GetFails(s) \/ Acknowledged(s) \/ OpenFails(s)
       \/ SendFails(s) \/ OpenTimesOut(s) \/ Ask(s) \/ Read(s) \/ ReadTerminal(s)
       \/ Unwound(s) \/ CloseStream(s)
       \/ \E t \in Transports : ServerOpens(s, t) \/ ServerSends(t, s)
  \/ \E t \in Transports :
       Pump(t) \/ TransportFails(t) \/ ReaderEnds(t) \/ RetireEnds(t)
  \/ CloseClient \/ ClosePumps \/ CloseSource
  \/ Over

Spec == Init /\ [][Next]_vars

-----------------------------------------------------------------------------
StreamOK(x) ==
  /\ x.place \in Places \cup Ended /\ x.after \in {"none", "getting"} \cup Ended
  /\ x.on \in 0..MaxTransports /\ x.told \in 0..MaxStreams /\ x.id \in 0..MaxStreams
  /\ x.ack \in {"none", "pending", "answered", "failed", "retiring"}
  /\ Len(x.queue) <= MaxQueue /\ x.terminal \in {"none", "overflow"} \cup Ends
  /\ x.opened \in BOOLEAN /\ x.stale \in BOOLEAN

\* Every variable has its type, and no queue is larger than notification_queue_size.
TypeOK ==
  /\ link \in [Transports -> {"none", "open", "failing", "retired", "failed", "clean"}]
  /\ pump \in [Transports -> {"none", "running", "over"}]
  /\ subs \in [Transports -> SUBSET Streams]
  /\ served \in [Transports -> Seq(Streams)]
  /\ said \in [Transports -> [Streams -> 0..(MaxItems + 1)]]
  /\ stopped \subseteq Transports \X Streams
  /\ asked \subseteq Streams \X Transports /\ abandoned \subseteq Streams \X Transports
  /\ \A s \in Streams : StreamOK(st[s])
  /\ closing \in {"open", "streams", "source", "closed"} /\ faults \in 0..MaxFaults

\* message-streams.md: a consumer is given its own stream from the first item and
\* without a gap, whoever shares its connection and whenever it learns its id, and
\* what has completed is whole.  (Unless it was opened again with messages queued.)
OwnAndWhole ==
  \A s \in Streams : LET x == st[s] IN
    ~x.stale =>
      /\ x.got = [n \in 1..Len(x.got) |-> Message(x.on, x.id, s, n)]
      /\ x.place = "complete" => Len(x.got) = MaxItems

\* _subscribe_remote's finally: as long as the client is open, a stream that the
\* server runs has a reader, or is about to be cancelled, unless the answer to a
\* request for it was not waited for.
NoOrphans ==
  closing = "open" =>
    \A t \in Transports : link[t] = "open" =>
      \A i \in 1..Len(served[t]) :
        LET s == served[t][i] IN
          \/ said[t][i] > MaxItems \/ <<t, i>> \in stopped \/ <<s, t>> \in abandoned
          \/ /\ st[s].on = t
             /\ \/ st[s].place = "opening" /\ st[s].ack = "answered" /\ st[s].told = i
                \/ st[s].place \in {"held", "reading", "unwinding"} /\ st[s].id = i

\* _pump_notifications: whoever has a stream of a transport that is no more has been
\* told so, or the last of its messages is on the way to a pump that runs.
ReadersTold ==
  \A s \in Streams : LET x == st[s] IN
    x.place \in {"held", "reading"} /\ link[x.on] # "open" /\ closing = "open" =>
      \/ x.terminal # "none"
      \/ /\ s \in subs[x.on] /\ pump[x.on] = "running"
         /\ \/ link[x.on] \in {"failing", "retired"}
            \/ \E k \in 1..Len(inbox[x.on]) : inbox[x.on][k].kind \in Ends
=============================================================================
