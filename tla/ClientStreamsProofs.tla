------------------------- MODULE ClientStreamsProofs -------------------------
(***************************************************************************)
(* What holds of the message streams of the generated Python client for    *)
(* any number of streams, transports, items and queue sizes: types, the    *)
(* bound of the queues, and that readers are told of a transport that is   *)
(* no more, that no stream of the server is left without a reader, and     *)
(* that consumers are given their own stream and all of it.                *)
(***************************************************************************)
EXTENDS ClientStreams, FiniteSetTheorems, TLAPS

USE StreamsAssumption DEF StreamsAssumption

Msgs ==
  [kind : {"message", "ended", "failure"}, at : Transports, id : 0..MaxStreams,
   of : 0..MaxStreams, n : 0..(MaxItems + 1)]

Acks == {"none", "pending", "answered", "failed", "retiring"}

Generators ==
  [place : Places \cup Ended, after : {"none", "getting"} \cup Ended,
   on : 0..MaxTransports, ack : Acks, told : 0..MaxStreams, id : 0..MaxStreams,
   queue : Seq(Msgs), terminal : {"none", "overflow"} \cup Ends, got : Seq(Msgs),
   opened : BOOLEAN, stale : BOOLEAN]

Links == {"none", "open", "failing", "retired", "failed", "clean"}

\* TypeOK with the types of messages and generators.
Typed ==
  /\ link \in [Transports -> Links]
  /\ inbox \in [Transports -> Seq(Msgs)]
  /\ pump \in [Transports -> {"none", "running", "over"}]
  /\ subs \in [Transports -> SUBSET Streams]
  /\ served \in [Transports -> Seq(Streams)]
  /\ said \in [Transports -> [Streams -> 0..(MaxItems + 1)]]
  /\ stopped \subseteq Transports \X Streams
  /\ asked \subseteq Streams \X Transports
  /\ abandoned \subseteq Streams \X Transports
  /\ st \in [Streams -> Generators]
  /\ closing \in {"open", "streams", "source", "closed"} /\ faults \in 0..MaxFaults

\* No queue is larger than notification_queue_size.
QueuesBounded == \A s \in Streams : Len(st[s].queue) <= MaxQueue

-----------------------------------------------------------------------------
(* Generators. *)

\* A message of a stream, and the end of a transport, are messages.
LEMMA MessageType ==
  /\ \A t \in Transports, i \in Streams, s \in Streams, n \in 0..(MaxItems + 1) :
       Message(t, i, s, n) \in Msgs
  /\ \A t \in Transports, kind \in Ends : End(t, kind) \in Msgs
  BY DEF Message, End, Ends, Msgs, Streams

\* The queue of a generator is a finite sequence of messages.
LEMMA QueueType ==
  ASSUME NEW x \in Generators
  PROVE  x.queue \in Seq(Msgs) /\ Len(x.queue) \in Nat
  BY DEF Generators

\* The generator before it begins.
LEMMA IdleType == Idle \in Generators
  BY DEF Idle, Generators, Places, Ended, Ends, Acks

\* A generator that has left nothing of its connection behind.
Fresh(y) ==
  /\ y.after = "none" /\ y.on = 0 /\ y.ack = "none" /\ y.told = 0 /\ y.id = 0
  /\ y.terminal = "none" /\ y.got = <<>> /\ ~y.stale

\* How a generator ends or starts again: with its items, or without anything but
\* the messages in its queue.
LEMMA LeftFacts ==
  ASSUME NEW x \in Generators, NEW to \in {"getting"} \cup Ended
  PROVE  /\ Left(x, to) \in Generators
         /\ Len(Left(x, to).queue) <= Len(x.queue)
         /\ Left(x, to).place \in {"getting"} \cup Ended
         /\ to = "complete" => Left(x, to) = [x EXCEPT !.place = to, !.after = "none"]
         /\ to # "complete" =>
              /\ Fresh(Left(x, to))
              /\ Left(x, to).place \in {"getting", "closed", "error"}
              /\ Left(x, to).place = "getting" => to = "getting" /\ closing = "open"
<1>1. x.queue \in Seq(Msgs) /\ Len(x.queue) \in Nat /\ Len(<<>>) = 0 /\ <<>> \in Seq(Msgs)
  BY DEF Generators
<1>2. CASE to = "complete"
  <2>1. Left(x, to) = [x EXCEPT !.place = to, !.after = "none"]
    BY <1>2 DEF Left
  <2>2. Left(x, to) \in Generators
    BY <1>2, <2>1 DEF Generators, Ended
  <2>3. Left(x, to).queue = x.queue /\ Left(x, to).place = "complete"
    BY <1>2, <2>1 DEF Generators
  <2> QED
    BY <1>1, <1>2, <2>1, <2>2, <2>3 DEF Ended
<1>3. CASE to = "getting" /\ closing = "open"
  <2>1. Left(x, to) = [Idle EXCEPT !.place = to, !.queue = x.queue, !.opened = x.opened]
    BY <1>3 DEF Left
  <2>2. Left(x, to) \in Generators
    BY <1>1, <1>3, <2>1, IdleType DEF Generators, Places
  <2>3. Fresh(Left(x, to)) /\ Left(x, to).place = "getting" /\ Left(x, to).queue = x.queue
    BY <1>3, <2>1 DEF Idle, Fresh
  <2> QED
    BY <1>1, <1>3, <2>2, <2>3
<1>4. CASE to # "complete" /\ ~(to = "getting" /\ closing = "open")
  <2> DEFINE place == IF to = "getting" THEN "closed" ELSE to
  <2>1. Left(x, to) = [Idle EXCEPT !.place = place]
    BY <1>4 DEF Left
  <2>2. place \in {"closed", "error"}
    BY <1>4 DEF Ended
  <2>3. Left(x, to) \in Generators
    BY <2>1, <2>2, IdleType DEF Generators, Ended
  <2>4. Fresh(Left(x, to)) /\ Left(x, to).place = place /\ Left(x, to).queue = <<>>
    BY <2>1 DEF Idle, Fresh
  <2> QED
    BY <1>1, <1>4, <2>2, <2>3, <2>4 DEF Ended
<1> QED
  BY <1>2, <1>3, <1>4

\* A generator starts again only where it is told to.
LEMMA LeftWhere ==
  ASSUME NEW x \in Generators, NEW to \in {"getting"} \cup Ended
  PROVE  \/ Left(x, to).place \in Ended
         \/ Left(x, to).place = "getting" /\ to = "getting" /\ closing = "open"
<1>1. Left(x, to).place \in {"getting"} \cup Ended
  BY LeftFacts
<1>2. to # "complete" /\ Left(x, to).place = "getting" => to = "getting" /\ closing = "open"
  BY LeftFacts
<1>3. to = "complete" => Left(x, to).place = "complete"
  <2>1. to = "complete" => Left(x, to) = [x EXCEPT !.place = to, !.after = "none"]
    BY LeftFacts
  <2> QED
    BY <2>1 DEF Generators
<1> QED
  BY <1>1, <1>2, <1>3 DEF Ended

\* Where a generator is after its cleanup: it has left, or it asks the server to
\* cancel its stream.
Cleaned(s, x, to, y) ==
  /\ st' = [st EXCEPT ![s] = y]
  /\ subs' = [subs EXCEPT ![x.on] = @ \ {s}]
  /\ \/ y = Left(x, to) /\ (x.id = 0 \/ link[x.on] # "open")
     \/ /\ x.id # 0 /\ link[x.on] = "open"
        /\ y = [x EXCEPT !.place = "unwinding", !.after = to]

\* What the finally clause of _subscribe_remote does to the generator.
LEMMA CleanupFacts ==
  ASSUME NEW s, NEW x \in Generators, NEW to \in {"getting"} \cup Ended, Cleanup(s, x, to)
  PROVE  \E y \in Generators : Cleaned(s, x, to, y) /\ Len(y.queue) <= Len(x.queue)
<1>1. Len(x.queue) \in Nat
  BY DEF Generators
<1>2. CASE x.id = 0 \/ link[x.on] # "open"
  <2>1. Cleaned(s, x, to, Left(x, to))
    BY <1>2 DEF Cleanup, Leave, Cleaned
  <2> QED
    BY <2>1, LeftFacts
<1>3. CASE ~(x.id = 0 \/ link[x.on] # "open")
  <2> DEFINE y == [x EXCEPT !.place = "unwinding", !.after = to]
  <2>1. y \in Generators /\ y.queue = x.queue
    BY DEF Generators, Places, Ended
  <2>2. Cleaned(s, x, to, y)
    BY <1>3 DEF Cleanup, Cleaned
  <2> HIDE DEF y
  <2> QED
    BY <1>1, <2>1, <2>2
<1> QED
  BY <1>2, <1>3

\* The error leads to another transport only if its own is known to be lost.
RaiseTo(x) ==
  IF Reconnect /\ closing = "open" /\ Settled(x.on) THEN "getting" ELSE "error"

LEMMA RaiseFacts ==
  ASSUME NEW s, NEW x \in Generators, Raise(s, x)
  PROVE  \E y \in Generators :
           Cleaned(s, x, RaiseTo(x), y) /\ Len(y.queue) <= Len(x.queue)
<1>1. RaiseTo(x) \in {"getting"} \cup Ended
  BY DEF RaiseTo, Ended
<1>2. Cleanup(s, x, RaiseTo(x))
  BY DEF Raise, RaiseTo
<1> QED
  BY <1>1, <1>2, CleanupFacts

-----------------------------------------------------------------------------
(* Where a generator is, and what it has by then. *)

Live == {"opening", "held", "reading"}

\* The transports are opened one after the other.
InOrder ==
  \E n \in 0..MaxTransports : \A t \in Transports : link[t] # "none" <=> t <= n

\* on, ack, id, told and after of a generator are what its place makes them.
PlaceOK(x) ==
  /\ x.place \in Live \cup {"unwinding"} => x.on \in Transports /\ link[x.on] # "none"
  /\ x.place \in {"none", "getting"} => Fresh(x)
  /\ x.place = "none" => ~x.opened
  /\ x.place = "opening" => x.id = 0 /\ x.got = <<>> /\ x.ack # "none"
  /\ x.place = "opening" => x.after \in {"none", "closed"}
  /\ x.place \in {"held", "reading"} => x.after \in {"none", "closed"} /\ x.opened
  /\ x.ack = "pending" => x.place = "opening" /\ link[x.on] = "open" /\ x.told = 0
  /\ x.ack = "answered" => x.told # 0
  /\ x.ack = "retiring" => x.place = "opening" /\ link[x.on] = "retired"
  /\ x.place \in {"held", "reading", "unwinding", "complete"} =>
       x.ack = "answered" /\ x.id = x.told
  /\ x.place = "unwinding" => x.after \in Ended
  /\ x.place \in {"error", "closed"} => x.got = <<>> /\ x.id = 0
  /\ x.terminal = "overflow" => x.queue = <<>>

AllPlaces == \A s \in Streams : PlaceOK(st[s])

\* The subscribers of a hub are the generators that wait for a stream of its
\* transport, or read it.
Subscribed == \A s \in Streams, t \in Transports :
  s \in subs[t] <=> st[s].place \in Live /\ st[s].on = t

\* The server handles a request to open once, and a generator that the server has
\* opened, or will, waits for its stream or has it, unless it has ended.
Known(s, t) == <<s, t>> \in asked \/ \E k \in 1..Len(served[t]) : served[t][k] = s

AskedOnce ==
  \A s \in Streams, t \in Transports : <<s, t>> \in asked =>
    \A k \in 1..Len(served[t]) : served[t][k] # s

ServedOnce ==
  \A t \in Transports : \A k, l \in 1..Len(served[t]) :
    served[t][k] = served[t][l] => k = l

KnownThere ==
  \A s \in Streams, t \in Transports :
    Known(s, t) /\ link[t] \in {"none", "open"} /\ st[s].place \notin Ended =>
      st[s].on = t /\ st[s].place \notin {"none", "getting"}

\* close() of the client goes on to the pumps when every generator has ended.
Rest == closing \in {"source", "closed"} => Idling

\* The transports that are not "none" are the first ones, up to Current.
LEMMA CurrentFacts ==
  ASSUME Typed, InOrder
  PROVE  /\ Current \in 0..MaxTransports
         /\ \A t \in Transports : link[t] # "none" <=> t <= Current
<1>1. PICK n \in 0..MaxTransports : \A t \in Transports : link[t] # "none" <=> t <= n
  BY DEF InOrder
<1>2. {t \in Transports : link[t] # "none"} = 1..n
  BY <1>1 DEF Transports
<1>3. Cardinality(1..n) = n
  BY FS_Interval
<1> QED
  BY <1>1, <1>2, <1>3 DEF Current

-----------------------------------------------------------------------------
(* Which steps touch which variables. *)

\* The steps of one generator that leave the others alone.
Solo(s) ==
  \/ Start(s) \/ Get(s) \/ GetFails(s) \/ Acknowledged(s) \/ OpenFails(s)
  \/ OpenTimesOut(s) \/ Ask(s) \/ Read(s) \/ ReadTerminal(s) \/ Unwound(s)
  \/ CloseStream(s) /\ ~Retire(s, "closed")

\* A generator in its place takes the messages of its queue.
Skips(s, y) ==
  /\ st[s].place = "reading" /\ st[s].queue # <<>> /\ closing = "open"
  /\ Head(st[s].queue).id # st[s].id
  /\ y = [st[s] EXCEPT !.queue = Tail(@)] /\ UNCHANGED subs

Takes(s, y) ==
  LET m == Head(st[s].queue) IN
  /\ st[s].place = "reading" /\ st[s].queue # <<>> /\ closing = "open"
  /\ m.id = st[s].id /\ ~Completes(m)
  /\ y = [st[s] EXCEPT !.queue = Tail(@), !.got = Append(@, m), !.place = "held"]
  /\ UNCHANGED subs

Finishes(s, y) ==
  LET m == Head(st[s].queue)
      x == [st[s] EXCEPT !.queue = Tail(@)] IN
  /\ st[s].place = "reading" /\ st[s].queue # <<>> /\ closing = "open"
  /\ m.id = st[s].id /\ Completes(m)
  /\ Cleaned(s, x, "complete", y)

\* What Read does with the first message.
LEMMA ReadFacts ==
  ASSUME Typed, NEW s \in Streams, Read(s)
  PROVE  \E y \in Generators :
           /\ st' = [st EXCEPT ![s] = y]
           /\ Skips(s, y) \/ Takes(s, y) \/ Finishes(s, y)
           /\ Len(y.queue) <= Len(st[s].queue)
<1> DEFINE m == Head(st[s].queue)
           x == [st[s] EXCEPT !.queue = Tail(@)]
<1>1. st[s] \in Generators /\ st[s].queue # <<>> /\ st[s].queue \in Seq(Msgs)
      /\ st[s].place = "reading" /\ closing = "open"
  BY DEF Typed, Read, Generators
<1>2. /\ m \in Msgs /\ Tail(st[s].queue) \in Seq(Msgs)
      /\ Len(Tail(st[s].queue)) <= Len(st[s].queue)
  BY <1>1
<1>3. x \in Generators /\ x.queue = Tail(st[s].queue)
  BY <1>1, <1>2 DEF Generators
<1>4. CASE m.id # x.id
  <2>1. st' = [st EXCEPT ![s] = x] /\ UNCHANGED subs
    BY <1>4 DEF Read
  <2>2. Skips(s, x)
    BY <1>1, <1>4, <2>1 DEF Skips, Generators
  <2> QED
    BY <1>2, <1>3, <2>1, <2>2
<1>5. CASE m.id = x.id /\ Completes(m)
  <2>1. Cleanup(s, x, "complete")
    BY <1>5 DEF Read
  <2>2. PICK y \in Generators :
          Cleaned(s, x, "complete", y) /\ Len(y.queue) <= Len(x.queue)
    BY <1>3, <2>1, CleanupFacts DEF Ended
  <2>3. Finishes(s, y) /\ st' = [st EXCEPT ![s] = y]
    BY <1>1, <1>5, <2>2 DEF Finishes, Cleaned, Generators
  <2> HIDE DEF x
  <2>4. Len(y.queue) \in Nat /\ Len(x.queue) \in Nat /\ Len(st[s].queue) \in Nat
    BY <1>1, <1>3, QueueType
  <2>5. Len(y.queue) <= Len(st[s].queue)
    BY <1>2, <1>3, <2>2, <2>4
  <2> QED
    BY <2>3, <2>5
<1>6. CASE m.id = x.id /\ ~Completes(m)
  <2> DEFINE y == [st[s] EXCEPT !.queue = Tail(@), !.got = Append(@, m), !.place = "held"]
  <2>1. [x EXCEPT !.got = Append(@, m), !.place = "held"] = y
    BY <1>1 DEF Generators
  <2>2. st' = [st EXCEPT ![s] = y] /\ UNCHANGED subs
    BY <1>6, <2>1 DEF Read
  <2>3. Append(st[s].got, m) \in Seq(Msgs)
    BY <1>1, <1>2 DEF Generators
  <2>4. y \in Generators /\ y.queue = Tail(st[s].queue)
    BY <1>1, <1>2, <2>3 DEF Generators, Places
  <2>5. Takes(s, y)
    BY <1>1, <1>6, <2>2 DEF Takes, Generators
  <2> QED
    BY <1>2, <2>2, <2>4, <2>5
<1> QED
  BY <1>4, <1>5, <1>6

\* Nothing but the generator, its hub and what the server is to give up changes.
Quietly == UNCHANGED <<link, inbox, pump, served, said, asked, closing>>

\* The pump of the hub that get() asks for runs.
PumpStarts(t) == pump' = [pump EXCEPT ![t] = IF @ = "none" THEN "running" ELSE @]

\* A generator begins, or is given its transport.
Begins(s, y) ==
  /\ st[s].place = "none" /\ closing = "open"
  /\ y = [st[s] EXCEPT !.place = "getting"]
  /\ Quietly /\ UNCHANGED <<subs, stopped, abandoned>>

Opens(s, y) ==
  /\ st[s].place = "getting" /\ closing = "open"
  /\ \E t \in Transports :
       /\ y = [st[s] EXCEPT !.place = "opening", !.on = t, !.ack = "pending",
                            !.stale = st[s].queue # <<>>]
       /\ subs' = [subs EXCEPT ![t] = @ \cup {s}]
       /\ PumpStarts(t) /\ asked' = asked \cup {<<s, t>>}
       /\ \/ link[t] = "open" /\ UNCHANGED link
          \/ /\ t = Current + 1 /\ link[t] = "none"
             /\ link' = [link EXCEPT ![t] = "open"]
  /\ UNCHANGED <<inbox, served, said, stopped, abandoned, closing>>

\* get() fails.
Misses(s, y) ==
  /\ st[s].place = "getting" /\ closing = "open" /\ y = Left(st[s], "error")
  /\ UNCHANGED <<link, inbox, subs, serverV, closing>>
  /\ \/ UNCHANGED pump
     \/ Current # 0 /\ link[Current] = "failing" /\ PumpStarts(Current)

\* The task learns the id.
Learns(s, y) ==
  /\ st[s].place = "opening" /\ st[s].ack = "answered" /\ closing = "open"
  /\ y = [st[s] EXCEPT !.id = st[s].told, !.opened = TRUE,
                       !.place = IF st[s].opened THEN "reading" ELSE "held"]
  /\ Quietly /\ UNCHANGED <<subs, stopped, abandoned>>

\* The consumer asks.
Asks(s, y) ==
  /\ st[s].place = "held" /\ y = [st[s] EXCEPT !.place = "reading"]
  /\ Quietly /\ UNCHANGED <<subs, stopped, abandoned>>

Reads(s, y) ==
  /\ Skips(s, y) \/ Takes(s, y) \/ Finishes(s, y)
  /\ Quietly /\ UNCHANGED <<stopped, abandoned>>

\* A generator leaves its hub before its stream has completed.  A request that
\* it no longer waits for is given up.
Departs(s, y) ==
  /\ st[s].place \in {"opening", "held", "reading"}
  /\ st[s].place = "opening" => st[s].ack # "retiring"
  /\ \E to \in {"getting", "error", "closed"} :
       /\ Cleaned(s, st[s], to, y)
       /\ to = "getting" => Settled(st[s].on) /\ closing = "open"
  /\ \/ abandoned' = abandoned \cup {<<s, st[s].on>>}
     \/ /\ UNCHANGED abandoned
        /\ st[s].place = "opening" => st[s].ack = "failed"
  /\ Quietly /\ UNCHANGED stopped

\* A generator ends that waits for a transport, or for its stream to be cancelled.
Resigns(s, y) ==
  /\ \E to \in {"closed", st[s].after} :
       /\ y = Left(st[s], to)
       /\ st[s].place = "getting" => to = "closed"
  /\ \/ st[s].place = "getting" /\ UNCHANGED <<stopped, abandoned>>
     \/ /\ st[s].place = "unwinding"
        /\ \/ link[st[s].on] # "open" /\ UNCHANGED <<stopped, abandoned>>
           \/ /\ stopped' = stopped \cup {<<st[s].on, st[s].id>>}
              /\ UNCHANGED abandoned
           \/ /\ abandoned' = abandoned \cup {<<s, st[s].on>>} /\ UNCHANGED stopped
  /\ Quietly /\ UNCHANGED subs

Moves(s, y) ==
  \/ Begins(s, y) \/ Opens(s, y) \/ Misses(s, y) \/ Learns(s, y) \/ Asks(s, y)
  \/ Reads(s, y) \/ Departs(s, y) \/ Resigns(s, y)

\* A generator that departs after an error, or because it is closed.
LEMMA RaiseDeparts ==
  ASSUME Typed, NEW s \in Streams, Raise(s, st[s]),
         st[s].place \in {"opening", "reading"},
         st[s].place = "opening" => st[s].ack # "retiring",
         \/ abandoned' = abandoned \cup {<<s, st[s].on>>}
         \/ /\ UNCHANGED abandoned
            /\ st[s].place = "opening" => st[s].ack = "failed",
         Quietly, UNCHANGED stopped
  PROVE  \E y \in Generators :
           /\ st' = [st EXCEPT ![s] = y] /\ Departs(s, y)
           /\ Len(y.queue) <= Len(st[s].queue)
<1>1. st[s] \in Generators
  BY DEF Typed
<1>2. PICK y \in Generators :
        Cleaned(s, st[s], RaiseTo(st[s]), y) /\ Len(y.queue) <= Len(st[s].queue)
  BY <1>1, RaiseFacts
<1>3. /\ RaiseTo(st[s]) \in {"getting", "error", "closed"}
      /\ RaiseTo(st[s]) = "getting" => Settled(st[s].on) /\ closing = "open"
  BY DEF RaiseTo
<1>4. Departs(s, y)
  BY <1>2, <1>3, Zenon DEF Departs
<1>5. st' = [st EXCEPT ![s] = y]
  BY <1>2 DEF Cleaned
<1> QED
  BY <1>2, <1>4, <1>5

LEMMA CloseDeparts ==
  ASSUME Typed, NEW s \in Streams, Cleanup(s, st[s], "closed"),
         st[s].place \in {"opening", "held", "reading"},
         st[s].place = "opening" => st[s].ack # "retiring",
         \/ abandoned' = abandoned \cup {<<s, st[s].on>>}
         \/ /\ UNCHANGED abandoned
            /\ st[s].place = "opening" => st[s].ack = "failed",
         Quietly, UNCHANGED stopped
  PROVE  \E y \in Generators :
           /\ st' = [st EXCEPT ![s] = y] /\ Departs(s, y)
           /\ Len(y.queue) <= Len(st[s].queue)
<1>1. st[s] \in Generators
  BY DEF Typed
<1>2. PICK y \in Generators :
        Cleaned(s, st[s], "closed", y) /\ Len(y.queue) <= Len(st[s].queue)
  BY <1>1, CleanupFacts DEF Ended
<1>3. Departs(s, y)
  BY <1>2, Zenon DEF Departs
<1>4. st' = [st EXCEPT ![s] = y]
  BY <1>2 DEF Cleaned
<1> QED
  BY <1>2, <1>3, <1>4

\* The cases of close().
LEMMA ClosesFacts ==
  ASSUME Typed, NEW s \in Streams, CloseStream(s), ~Retire(s, "closed")
  PROVE  \E y \in Generators :
           st' = [st EXCEPT ![s] = y] /\ Moves(s, y) /\ Len(y.queue) <= Len(st[s].queue)
<1>1. st[s] \in Generators
  BY DEF Typed
<1>2. CASE st[s].place = "getting" /\ Leave(s, st[s], "closed")
           /\ UNCHANGED <<link, inbox, pump, subs, serverV, closing>>
  <2> DEFINE y == Left(st[s], "closed")
  <2>1. y \in Generators /\ Len(y.queue) <= Len(st[s].queue)
    BY <1>1, LeftFacts DEF Ended
  <2>2. st' = [st EXCEPT ![s] = y]
    BY <1>2 DEF Leave
  <2>3. Resigns(s, y)
    BY <1>2 DEF Resigns, Quietly, serverV
  <2> QED
    BY <2>1, <2>2, <2>3 DEF Moves
<1>3. CASE /\ st[s].place \in {"reading", "held"} /\ Cleanup(s, st[s], "closed")
           /\ UNCHANGED <<link, inbox, pump, serverV, closing>>
  <2>1. Quietly /\ UNCHANGED <<stopped, abandoned>> /\ st[s].place # "opening"
    BY <1>3 DEF Quietly, serverV
  <2>2. PICK y \in Generators :
          /\ st' = [st EXCEPT ![s] = y] /\ Departs(s, y)
          /\ Len(y.queue) <= Len(st[s].queue)
    BY <1>3, <2>1, CloseDeparts
  <2> QED
    BY <2>2 DEF Moves
<1>4. CASE /\ st[s].place = "opening" /\ st[s].ack # "retiring"
           /\ Cleanup(s, st[s], "closed") /\ GiveUp(s)
           /\ UNCHANGED <<link, inbox, pump, served, said, stopped, asked, closing>>
  <2>1. Quietly /\ UNCHANGED stopped /\ abandoned' = abandoned \cup {<<s, st[s].on>>}
    BY <1>4 DEF Quietly, GiveUp
  <2>2. PICK y \in Generators :
          /\ st' = [st EXCEPT ![s] = y] /\ Departs(s, y)
          /\ Len(y.queue) <= Len(st[s].queue)
    BY <1>4, <2>1, CloseDeparts
  <2> QED
    BY <2>2 DEF Moves
<1>5. CASE /\ st[s].place = "unwinding" /\ Leave(s, st[s], "closed") /\ GiveUp(s)
           /\ UNCHANGED <<link, inbox, pump, subs, served, said, stopped, asked, closing>>
  <2> DEFINE y == Left(st[s], "closed")
  <2>1. y \in Generators /\ Len(y.queue) <= Len(st[s].queue)
    BY <1>1, LeftFacts DEF Ended
  <2>2. st' = [st EXCEPT ![s] = y]
    BY <1>5 DEF Leave
  <2>3. Resigns(s, y)
    BY <1>5 DEF Resigns, Quietly, GiveUp
  <2> QED
    BY <2>1, <2>2, <2>3 DEF Moves
<1> QED
  BY <1>2, <1>3, <1>4, <1>5 DEF CloseStream

\* A request to cancel that has an outcome.
LEMMA UnwoundFacts ==
  ASSUME Typed, NEW s \in Streams, Unwound(s), st[s].after \in Ended
  PROVE  \E y \in Generators :
           st' = [st EXCEPT ![s] = y] /\ Moves(s, y) /\ Len(y.queue) <= Len(st[s].queue)
<1> DEFINE y == Left(st[s], st[s].after)
<1>1. y \in Generators /\ Len(y.queue) <= Len(st[s].queue)
  BY LeftFacts DEF Typed
<1>2. st' = [st EXCEPT ![s] = y]
  BY DEF Unwound, Leave
<1>3. Resigns(s, y)
  BY DEF Unwound, Resigns, Quietly, GiveUp
<1> QED
  BY <1>1, <1>2, <1>3 DEF Moves

\* What get() does to its caller.
LEMMA GetFacts ==
  ASSUME Typed, InOrder, NEW s \in Streams, Get(s)
  PROVE  \E y \in Generators :
           st' = [st EXCEPT ![s] = y] /\ Moves(s, y) /\ Len(y.queue) <= Len(st[s].queue)
<1> DEFINE y(t) == [st[s] EXCEPT !.place = "opening", !.on = t,
                                 !.ack = "pending", !.stale = st[s].queue # <<>>]
<1>1. st[s] \in Generators /\ Len(st[s].queue) \in Nat
  BY QueueType DEF Typed
<1>2. \A t \in Transports : y(t) \in Generators /\ y(t).queue = st[s].queue
  <2> SUFFICES ASSUME NEW t \in Transports
               PROVE  y(t) \in Generators /\ y(t).queue = st[s].queue
    OBVIOUS
  <2>1. t \in 0..MaxTransports /\ (st[s].queue # <<>>) \in BOOLEAN
    BY DEF Transports
  <2> QED
    BY <1>1, <2>1 DEF Generators, Places, Acks
<1>3. \E t \in Transports :
        /\ \/ link[t] = "open" /\ UNCHANGED link
           \/ /\ t = Current + 1 /\ link[t] = "none"
              /\ link' = [link EXCEPT ![t] = "open"]
        /\ Subscribe(s, t)
  <2>1. CASE Current # 0 /\ link[Current] = "open" /\ Subscribe(s, Current) /\ UNCHANGED link
    <3>1. Current \in Transports
      BY <2>1, CurrentFacts DEF Transports
    <3> QED
      BY <2>1, <3>1
  <2>2. CASE /\ Current < MaxTransports /\ link' = [link EXCEPT ![Current + 1] = "open"]
             /\ Subscribe(s, Current + 1)
    <3>1. Current + 1 \in Transports /\ link[Current + 1] = "none"
      BY <2>2, CurrentFacts DEF Transports
    <3> QED
      BY <2>2, <3>1
  <2> QED
    BY <2>1, <2>2 DEF Get
<1>4. PICK t \in Transports :
        /\ \/ link[t] = "open" /\ UNCHANGED link
           \/ /\ t = Current + 1 /\ link[t] = "none"
              /\ link' = [link EXCEPT ![t] = "open"]
        /\ Subscribe(s, t)
  BY <1>3
<1>5. st' = [st EXCEPT ![s] = y(t)]
  BY <1>4 DEF Subscribe
<1>6. Opens(s, y(t))
  BY <1>4 DEF Subscribe, Opens, PumpStarts, Get
<1> HIDE DEF y
<1>7. Moves(s, y(t)) /\ y(t) \in Generators /\ Len(y(t).queue) <= Len(st[s].queue)
  <2>1. Moves(s, y(t))
    BY <1>6 DEF Moves
  <2> QED
    BY <1>1, <1>2, <2>1
<1>8. PICK z \in Generators : z = y(t)
  BY <1>7
<1>9. st' = [st EXCEPT ![s] = z] /\ Moves(s, z) /\ Len(z.queue) <= Len(st[s].queue)
  BY <1>5, <1>7, <1>8
<1> QED
  BY <1>9, Zenon

\* A step of one generator is a move, and adds nothing to its queue.
LEMMA SoloFacts ==
  ASSUME Typed, InOrder, AllPlaces, NEW s \in Streams, Solo(s)
  PROVE  \E y \in Generators :
           st' = [st EXCEPT ![s] = y] /\ Moves(s, y) /\ Len(y.queue) <= Len(st[s].queue)
<1>1. st[s] \in Generators /\ Len(st[s].queue) \in Nat /\ PlaceOK(st[s])
  BY QueueType DEF Typed, AllPlaces
<1>2. CASE Start(s)
  <2> DEFINE y == [st[s] EXCEPT !.place = "getting"]
  <2>1. y \in Generators /\ y.queue = st[s].queue
    BY <1>1 DEF Generators, Places
  <2>2. st' = [st EXCEPT ![s] = y]
    BY <1>1, <1>2 DEF Start
  <2>3. Begins(s, y)
    BY <1>2 DEF Start, Begins, Quietly, serverV
  <2>4. Moves(s, y) /\ Len(y.queue) <= Len(st[s].queue)
    BY <1>1, <2>1, <2>3 DEF Moves
  <2> HIDE DEF y
  <2> QED
    BY <2>1, <2>2, <2>4
<1>3. CASE Get(s)
  BY <1>3, GetFacts
<1>4. CASE GetFails(s)
  <2> DEFINE y == Left(st[s], "error")
  <2>1. y \in Generators /\ Len(y.queue) <= Len(st[s].queue)
    BY <1>1, LeftFacts DEF Ended
  <2>2. st' = [st EXCEPT ![s] = y]
    BY <1>4 DEF GetFails, Leave
  <2>3. Misses(s, y)
    BY <1>4 DEF GetFails, Misses, PumpStarts
  <2> QED
    BY <2>1, <2>2, <2>3 DEF Moves
<1>5. CASE Acknowledged(s)
  <2> DEFINE y == [st[s] EXCEPT !.id = st[s].told, !.opened = TRUE,
                                !.place = IF st[s].opened THEN "reading" ELSE "held"]
  <2>1. y \in Generators /\ y.queue = st[s].queue
    BY <1>1 DEF Generators, Places
  <2>2. st' = [st EXCEPT ![s] = y]
    BY <1>5 DEF Acknowledged
  <2>3. Learns(s, y)
    BY <1>5 DEF Acknowledged, Learns, Quietly, serverV
  <2>4. Moves(s, y) /\ Len(y.queue) <= Len(st[s].queue)
    BY <1>1, <2>1, <2>3 DEF Moves
  <2> HIDE DEF y
  <2> QED
    BY <2>1, <2>2, <2>4
<1>6. CASE OpenFails(s)
  <2>1. Quietly /\ UNCHANGED <<stopped, abandoned>> /\ st[s].place = "opening"
        /\ st[s].ack = "failed"
    BY <1>6 DEF OpenFails, Quietly, serverV
  <2>2. CASE Cleanup(s, st[s], "closed")
    BY <2>1, <2>2, CloseDeparts DEF Moves
  <2>3. CASE Raise(s, st[s])
    BY <2>1, <2>3, RaiseDeparts DEF Moves
  <2> QED
    BY <1>6, <2>2, <2>3 DEF OpenFails
<1>7. CASE OpenTimesOut(s)
  <2>1. /\ Quietly /\ UNCHANGED stopped /\ st[s].place = "opening" /\ st[s].ack = "pending"
        /\ Raise(s, st[s]) /\ abandoned' = abandoned \cup {<<s, st[s].on>>}
    BY <1>7 DEF OpenTimesOut, Quietly, GiveUp
  <2> QED
    BY <2>1, RaiseDeparts DEF Moves
<1>8. CASE Ask(s)
  <2> DEFINE y == [st[s] EXCEPT !.place = "reading"]
  <2>1. y \in Generators /\ y.queue = st[s].queue
    BY <1>1 DEF Generators, Places
  <2>2. st' = [st EXCEPT ![s] = y]
    BY <1>1, <1>8 DEF Ask
  <2>3. Asks(s, y)
    BY <1>8 DEF Ask, Asks, Quietly, serverV
  <2>4. Moves(s, y) /\ Len(y.queue) <= Len(st[s].queue)
    BY <1>1, <2>1, <2>3 DEF Moves
  <2> HIDE DEF y
  <2> QED
    BY <2>1, <2>2, <2>4
<1>9. CASE Read(s)
  <2>1. Quietly /\ UNCHANGED <<stopped, abandoned>>
    BY <1>9 DEF Read, Quietly, serverV
  <2>2. PICK y \in Generators :
          /\ st' = [st EXCEPT ![s] = y]
          /\ Skips(s, y) \/ Takes(s, y) \/ Finishes(s, y)
          /\ Len(y.queue) <= Len(st[s].queue)
    BY <1>9, ReadFacts
  <2> QED
    BY <2>1, <2>2 DEF Moves, Reads
<1>10. CASE ReadTerminal(s)
  <2>1. /\ Quietly /\ UNCHANGED <<stopped, abandoned>> /\ st[s].place = "reading"
        /\ Raise(s, st[s])
    BY <1>10 DEF ReadTerminal, Quietly, serverV
  <2> QED
    BY <2>1, RaiseDeparts DEF Moves
<1>11. CASE Unwound(s)
  <2>1. st[s].after \in Ended
    BY <1>1, <1>11 DEF Unwound, PlaceOK
  <2> QED
    BY <1>11, <2>1, UnwoundFacts
<1>12. CASE CloseStream(s) /\ ~Retire(s, "closed")
  BY <1>12, ClosesFacts
<1> QED
  BY <1>2, <1>3, <1>4, <1>5, <1>6, <1>7, <1>8, <1>9, <1>10, <1>11, <1>12 DEF Solo

\* What a generator's departure leaves of the hubs.
LEMMA CleanedSubs ==
  ASSUME Typed, NEW s \in Streams, NEW x \in Generators, NEW to, NEW y,
         Cleaned(s, x, to, y)
  PROVE  /\ \A q \in Streams, t \in Transports : q # s => (q \in subs'[t] <=> q \in subs[t])
         /\ (\A t \in Transports : s \in subs[t] => t = x.on) =>
              \A t \in Transports : s \notin subs'[t]
  BY DEF Cleaned, Typed

\* A move keeps the types of the variables.
LEMMA MovesTyped ==
  ASSUME Typed, AllPlaces, NEW s \in Streams, NEW y \in Generators, Moves(s, y),
         st' = [st EXCEPT ![s] = y], faults' \in 0..MaxFaults
  PROVE  Typed'
<1>1. st[s] \in Generators /\ PlaceOK(st[s]) /\ st' \in [Streams -> Generators]
  BY DEF Typed, AllPlaces
<1>2. CASE Begins(s, y) \/ Learns(s, y) \/ Asks(s, y)
  BY <1>1, <1>2 DEF Begins, Learns, Asks, Quietly, Typed
<1>3. CASE Opens(s, y)
  <2>1. PICK t \in Transports :
          /\ subs' = [subs EXCEPT ![t] = @ \cup {s}]
          /\ PumpStarts(t) /\ asked' = asked \cup {<<s, t>>}
          /\ link' = link \/ link' = [link EXCEPT ![t] = "open"]
    BY <1>3, Zenon DEF Opens
  <2>2. UNCHANGED <<inbox, served, said, stopped, abandoned, closing>>
    BY <1>3 DEF Opens
  <2>3. link' \in [Transports -> Links]
    BY <2>1 DEF Typed, Links
  <2>4. subs' \in [Transports -> SUBSET Streams] /\ asked' \subseteq Streams \X Transports
    BY <2>1 DEF Typed
  <2>5. pump' \in [Transports -> {"none", "running", "over"}]
    BY <2>1 DEF Typed, PumpStarts
  <2> QED
    BY <1>1, <2>2, <2>3, <2>4, <2>5 DEF Typed
<1>4. CASE Misses(s, y)
  BY <1>1, <1>4 DEF Misses, PumpStarts, Typed, serverV
<1>5. CASE Reads(s, y)
  <2>1. subs' \in [Transports -> SUBSET Streams]
    <3>1. CASE UNCHANGED subs
      BY <3>1 DEF Typed
    <3>2. CASE Finishes(s, y)
      BY <3>2 DEF Finishes, Cleaned, Typed
    <3> QED
      BY <1>5, <3>1, <3>2 DEF Reads, Skips, Takes
  <2>2. Quietly /\ UNCHANGED <<stopped, abandoned>>
    BY <1>5 DEF Reads
  <2> QED
    BY <1>1, <2>1, <2>2 DEF Quietly, Typed
<1>6. CASE Departs(s, y)
  <2>1. subs' \in [Transports -> SUBSET Streams]
    <3>1. PICK to : Cleaned(s, st[s], to, y)
      BY <1>6, Zenon DEF Departs
    <3> QED
      BY <3>1 DEF Cleaned, Typed
  <2>2. <<s, st[s].on>> \in Streams \X Transports
    BY <1>1, <1>6 DEF Departs, PlaceOK, Live
  <2>3. abandoned' \subseteq Streams \X Transports
    BY <1>6, <2>2 DEF Departs, Typed
  <2>4. Quietly /\ UNCHANGED stopped
    BY <1>6 DEF Departs
  <2> QED
    BY <1>1, <2>1, <2>3, <2>4 DEF Quietly, Typed
<1>7. CASE Resigns(s, y)
  <2>1. st[s].place = "unwinding" =>
          <<s, st[s].on>> \in Streams \X Transports /\ <<st[s].on, st[s].id>> \in Transports \X Streams
    BY <1>1 DEF PlaceOK, Generators, Streams
  <2>2. abandoned' \subseteq Streams \X Transports /\ stopped' \subseteq Transports \X Streams
    BY <1>7, <2>1 DEF Resigns, Typed
  <2>3. Quietly /\ UNCHANGED subs
    BY <1>7 DEF Resigns
  <2> QED
    BY <1>1, <2>2, <2>3 DEF Quietly, Typed
<1> QED
  BY <1>2, <1>3, <1>4, <1>5, <1>6, <1>7 DEF Moves

-----------------------------------------------------------------------------
(* The steps of transports, of the server and of several generators. *)

\* What a generator whose transport fails is told.
Failed(x, t) ==
  IF x.place = "opening" /\ x.on = t /\ x.ack = "pending"
  THEN [x EXCEPT !.ack = "failed"] ELSE x

LEMMA FailedType ==
  ASSUME NEW x \in Generators, NEW t
  PROVE  Failed(x, t) \in Generators /\ Failed(x, t).queue = x.queue
  BY DEF Failed, Generators, Acks

\* The transport of a lost connection knows no stream any more.
LEMMA LoseTyped ==
  ASSUME Typed, NEW t \in Transports, Lose(t)
  PROVE  /\ served' \in [Transports -> Seq(Streams)]
         /\ said' \in [Transports -> [Streams -> 0..(MaxItems + 1)]]
         /\ stopped' \subseteq Transports \X Streams
         /\ asked' \subseteq Streams \X Transports
         /\ abandoned' \subseteq Streams \X Transports
<1>1. <<>> \in Seq(Streams) /\ Silence \in [Streams -> 0..(MaxItems + 1)]
  BY DEF Silence
<1>2. served' \in [Transports -> Seq(Streams)] /\ said' \in [Transports -> [Streams -> 0..(MaxItems + 1)]]
  BY <1>1 DEF Lose, Typed
<1>3. /\ stopped' \subseteq stopped /\ asked' \subseteq asked /\ abandoned' \subseteq abandoned
  BY DEF Lose
<1> QED
  BY <1>2, <1>3 DEF Typed

\* A transport that loses its connection.
LEMMA TransportFailsFacts ==
  ASSUME Typed, NEW t \in Transports, TransportFails(t)
  PROVE  /\ Typed'
         /\ \A q \in Streams : st'[q] = Failed(st[q], t)
<1>1. link' = [link EXCEPT ![t] = "failing"] /\ FailPending(t, 0, Idle) /\ Lose(t)
      /\ UNCHANGED <<inbox, pump, subs, closing>> /\ faults' \in 0..MaxFaults
  BY DEF TransportFails, Fault, Typed
<1>2. \A q \in Streams : q # 0
  BY DEF Streams
<1>3. st' = [q \in Streams |-> Failed(st[q], t)]
  BY <1>1, <1>2 DEF FailPending, Failed
<1>4. st' \in [Streams -> Generators]
  BY <1>3, FailedType DEF Typed
<1>5. link' \in [Transports -> Links]
  BY <1>1 DEF Typed, Links
<1> QED
  BY <1>1, <1>3, <1>4, <1>5, LoseTyped DEF Typed

\* A generator whose send retires the transport waits until that is closed.
Retires(x, to) == [x EXCEPT !.ack = "retiring", !.after = to]

LEMMA RetireFacts ==
  ASSUME Typed, AllPlaces, NEW s \in Streams, NEW to \in {"none", "closed"}, Retire(s, to),
         faults' \in 0..MaxFaults
  PROVE  /\ Typed' /\ st[s].on \in Transports
         /\ st' = [q \in Streams |-> IF q = s THEN Retires(st[s], to)
                                     ELSE Failed(st[q], st[s].on)]
         /\ Retires(st[s], to).queue = st[s].queue
<1>1. st[s] \in Generators /\ st[s].on \in Transports
  BY DEF Typed, AllPlaces, PlaceOK, Retire, Live
<1>2. /\ link' = [link EXCEPT ![st[s].on] = "retired"] /\ Lose(st[s].on)
      /\ UNCHANGED <<inbox, pump, subs, closing>>
  BY DEF Retire
<1>3. st' = [q \in Streams |-> IF q = s THEN Retires(st[s], to)
                               ELSE Failed(st[q], st[s].on)]
  BY DEF Retire, FailPending, Failed, Retires
<1>4. Retires(st[s], to) \in Generators /\ Retires(st[s], to).queue = st[s].queue
  BY <1>1 DEF Retires, Generators, Acks, Ended
<1>5. st' \in [Streams -> Generators]
  BY <1>3, <1>4, FailedType DEF Typed
<1>6. link' \in [Transports -> Links]
  BY <1>2 DEF Typed, Links
<1> QED
  BY <1>1, <1>2, <1>3, <1>4, <1>5, <1>6, LoseTyped DEF Typed

\* The end of a transport that fails, and of one that is retired.
LEMMA EndsFacts ==
  ASSUME Typed, NEW t \in Transports, ReaderEnds(t) \/ RetireEnds(t)
  PROVE  /\ Typed'
         /\ link' = [link EXCEPT ![t] = "failed"]
         /\ \E m \in Msgs : m.kind \in Ends /\ inbox' = [inbox EXCEPT ![t] = Append(@, m)]
         /\ \A q \in Streams :
              st'[q] = IF RetireEnds(t) /\ st[q].ack = "retiring" /\ st[q].on = t
                       THEN [st[q] EXCEPT !.ack = "failed"] ELSE st[q]
<1>1. PICK kind \in Ends : Put(t, End(t, kind))
  BY DEF ReaderEnds, RetireEnds, Ends
<1>2. End(t, kind) \in Msgs /\ End(t, kind).kind = kind
  BY MessageType DEF End
<1>3. /\ link' = [link EXCEPT ![t] = "failed"]
      /\ UNCHANGED <<pump, subs, serverV, closing, faults>>
  BY DEF ReaderEnds, RetireEnds
<1>4. inbox' = [inbox EXCEPT ![t] = Append(@, End(t, kind))]
  BY <1>1 DEF Put
<1>5. inbox' \in [Transports -> Seq(Msgs)]
  BY <1>2, <1>4 DEF Typed
<1>6. link' \in [Transports -> Links]
  BY <1>3 DEF Typed, Links
<1>7. \A q \in Streams : st[q] \in Generators /\ [st[q] EXCEPT !.ack = "failed"] \in Generators
  <2>1. \A x \in Generators : [x EXCEPT !.ack = "failed"] \in Generators
    BY DEF Generators, Acks
  <2> QED
    BY <2>1 DEF Typed
<1>8. CASE RetireEnds(t)
  <2>1. st' = [q \in Streams |-> IF st[q].ack = "retiring" /\ st[q].on = t
                                 THEN [st[q] EXCEPT !.ack = "failed"] ELSE st[q]]
    BY <1>8 DEF RetireEnds
  <2>2. st' \in [Streams -> Generators]
    BY <1>7, <2>1
  <2> QED
    BY <1>2, <1>3, <1>4, <1>5, <1>6, <1>8, <2>1, <2>2 DEF Typed, serverV
<1>9. CASE ~RetireEnds(t)
  <2>1. st' = st
    BY <1>9 DEF ReaderEnds
  <2> QED
    BY <1>2, <1>3, <1>4, <1>5, <1>6, <1>9, <2>1 DEF Typed, serverV
<1> QED
  BY <1>8, <1>9

\* What the pump does to a subscriber.
LEMMA TakenFacts ==
  ASSUME NEW x \in Generators, NEW m \in Msgs, Len(x.queue) <= MaxQueue
  PROVE  /\ Taken(x, m) \in Generators /\ Len(Taken(x, m).queue) <= MaxQueue
         /\ \/ Taken(x, m) = x /\ ~Heeds(x, m)
            \/ Heeds(x, m) /\ Taken(x, m) = [x EXCEPT !.queue = <<>>, !.terminal = "overflow"]
            \/ Heeds(x, m) /\ Taken(x, m) = [x EXCEPT !.queue = Append(@, m)]
<1>1. x.queue \in Seq(Msgs) /\ Len(x.queue) \in Nat
  BY QueueType
<1>2. CASE ~Heeds(x, m)
  BY <1>2 DEF Taken
<1>3. CASE Heeds(x, m) /\ Overflows(x)
  <2>1. Taken(x, m) = [x EXCEPT !.queue = <<>>, !.terminal = "overflow"]
    BY <1>3 DEF Taken
  <2>2. Taken(x, m) \in Generators
    <3>1. <<>> \in Seq(Msgs)
      OBVIOUS
    <3> QED
      BY <2>1, <3>1 DEF Generators
  <2>3. Taken(x, m).queue = <<>> /\ Len(<<>>) = 0
    BY <2>1 DEF Generators
  <2> QED
    BY <1>3, <2>1, <2>2, <2>3
<1>4. CASE Heeds(x, m) /\ ~Overflows(x)
  <2>1. Taken(x, m) = [x EXCEPT !.queue = Append(@, m)]
    BY <1>4 DEF Taken
  <2>2. Append(x.queue, m) \in Seq(Msgs) /\ Len(Append(x.queue, m)) = Len(x.queue) + 1
    BY <1>1
  <2>3. Taken(x, m) \in Generators
    BY <2>1, <2>2 DEF Generators
  <2>4. Taken(x, m).queue = Append(x.queue, m)
    BY <2>1 DEF Generators
  <2>5. Len(x.queue) + 1 <= MaxQueue
    BY <1>1, <1>4 DEF Overflows
  <2> QED
    BY <1>4, <2>1, <2>2, <2>3, <2>4, <2>5
<1> QED
  BY <1>2, <1>3, <1>4

\* It changes nothing but the queue and the terminal.
Alike(x, y) ==
  /\ y.place = x.place /\ y.after = x.after /\ y.on = x.on /\ y.ack = x.ack
  /\ y.told = x.told /\ y.id = x.id /\ y.got = x.got /\ y.opened = x.opened
  /\ y.stale = x.stale

LEMMA TakenAlike ==
  ASSUME NEW x \in Generators, NEW m \in Msgs, Len(x.queue) <= MaxQueue
  PROVE  Alike(x, Taken(x, m))
<1>1. CASE Taken(x, m) = x
  BY <1>1 DEF Alike
<1>2. CASE Taken(x, m) = [x EXCEPT !.queue = <<>>, !.terminal = "overflow"]
  BY <1>2 DEF Alike, Generators
<1>3. CASE Taken(x, m) = [x EXCEPT !.queue = Append(@, m)]
  BY <1>3 DEF Alike, Generators
<1> QED
  BY <1>1, <1>2, <1>3, TakenFacts

\* The pump gives the first message to the subscribers of its hub.
LEMMA PumpFacts ==
  ASSUME Typed, QueuesBounded, NEW t \in Transports, Pump(t)
  PROVE  /\ Typed' /\ QueuesBounded'
         /\ \A q \in Streams :
              \/ q \notin subs[t] /\ st'[q] = st[q]
              \/ /\ q \in subs[t] /\ Head(inbox[t]).kind \in Ends
                 /\ st'[q] = [st[q] EXCEPT !.terminal = Head(inbox[t]).kind]
              \/ /\ q \in subs[t] /\ Head(inbox[t]).kind \notin Ends
                 /\ st'[q] = Taken(st[q], Head(inbox[t]))
<1> DEFINE m == Head(inbox[t])
<1>1. m \in Msgs /\ Tail(inbox[t]) \in Seq(Msgs)
  BY DEF Pump, Typed
<1>2. inbox' = [inbox EXCEPT ![t] = Tail(@)] /\ UNCHANGED <<link, subs, serverV, closing, faults>>
  BY DEF Pump
<1>3. inbox' \in [Transports -> Seq(Msgs)]
  BY <1>1, <1>2 DEF Typed
<1>4. \A q \in Streams : st[q] \in Generators /\ Len(st[q].queue) <= MaxQueue
  BY DEF Typed, QueuesBounded
<1>5. CASE /\ m.kind \in Ends /\ pump' = [pump EXCEPT ![t] = "over"]
           /\ st' = [s \in Streams |-> IF s \in subs[t] THEN Finished(st[s], m.kind) ELSE st[s]]
  <2>1. \A q \in Streams :
          /\ [st[q] EXCEPT !.terminal = m.kind] \in Generators
          /\ [st[q] EXCEPT !.terminal = m.kind].queue = st[q].queue
    BY <1>4, <1>5 DEF Generators
  <2>2. \A q \in Streams : st'[q] = IF q \in subs[t] THEN [st[q] EXCEPT !.terminal = m.kind]
                                    ELSE st[q]
    BY <1>5 DEF Finished
  <2>3. st' \in [Streams -> Generators]
    BY <1>4, <1>5, <2>1, <2>2
  <2>4. pump' \in [Transports -> {"none", "running", "over"}]
    BY <1>5 DEF Typed
  <2>5. QueuesBounded'
    BY <1>4, <2>1, <2>2 DEF QueuesBounded
  <2> QED
    BY <1>2, <1>3, <1>5, <2>2, <2>3, <2>4, <2>5 DEF Typed, serverV
<1>6. CASE /\ m.kind \notin Ends /\ UNCHANGED pump
           /\ st' = [s \in Streams |-> IF s \in subs[t] THEN Taken(st[s], m) ELSE st[s]]
  <2>1. \A q \in Streams : Taken(st[q], m) \in Generators /\ Len(Taken(st[q], m).queue) <= MaxQueue
    BY <1>1, <1>4, TakenFacts
  <2>2. \A q \in Streams : st'[q] = IF q \in subs[t] THEN Taken(st[q], m) ELSE st[q]
    BY <1>6
  <2>3. st' \in [Streams -> Generators]
    BY <1>4, <1>6, <2>1, <2>2
  <2>4. QueuesBounded'
    BY <1>4, <2>1, <2>2 DEF QueuesBounded
  <2> QED
    BY <1>2, <1>3, <1>6, <2>2, <2>3, <2>4 DEF Typed, serverV
<1> QED
  BY <1>5, <1>6 DEF Pump

\* The ids of a transport suffice: no stream is opened twice on it.
LEMMA IdsSuffice ==
  ASSUME Typed, AskedOnce, ServedOnce, NEW s \in Streams, NEW t \in Transports,
         <<s, t>> \in asked
  PROVE  Len(served[t]) + 1 <= MaxStreams
<1> DEFINE n == Len(served[t])
           f == [k \in 1..(n + 1) |-> IF k = n + 1 THEN s ELSE served[t][k]]
<1>1. served[t] \in Seq(Streams) /\ n \in Nat
  BY DEF Typed
<1>2. f \in [1..(n + 1) -> Streams]
  BY <1>1
<1>3. \A k, l \in 1..(n + 1) : f[k] = f[l] => k = l
  <2> SUFFICES ASSUME NEW k \in 1..(n + 1), NEW l \in 1..(n + 1), f[k] = f[l], k # l
               PROVE  FALSE
    OBVIOUS
  <2>1. \A j \in 1..n : served[t][j] # s
    BY DEF AskedOnce
  <2>2. CASE k = n + 1
    BY <1>1, <2>1, <2>2
  <2>3. CASE l = n + 1
    BY <1>1, <2>1, <2>3
  <2>4. CASE k \in 1..n /\ l \in 1..n
    BY <1>1, <2>4 DEF ServedOnce
  <2> QED
    BY <1>1, <2>2, <2>3, <2>4
<1>4. IsFiniteSet(1..(n + 1)) /\ Cardinality(1..(n + 1)) = n + 1
      /\ IsFiniteSet(Streams) /\ Cardinality(Streams) = MaxStreams
  <2>1. IsFiniteSet(1..(n + 1)) /\ Cardinality(1..(n + 1)) = n + 1
    BY <1>1, FS_Interval
  <2>2. IsFiniteSet(1..MaxStreams) /\ Cardinality(1..MaxStreams) = MaxStreams
    <3>1. MaxStreams >= 1
      BY DEF Typed, Streams
    <3> QED
      BY <3>1, FS_Interval
  <2> QED
    BY <2>1, <2>2 DEF Streams
<1> HIDE DEF f
<1>5. ~(Cardinality(Streams) < Cardinality(1..(n + 1)))
  BY <1>2, <1>3, <1>4, FS_PigeonHole
<1> QED
  BY <1>1, <1>4, <1>5

\* What the answer to a request to open does.
LEMMA ServerOpensFacts ==
  ASSUME Typed, AskedOnce, ServedOnce, NEW s \in Streams, NEW t \in Transports,
         ServerOpens(s, t)
  PROVE  /\ Typed' /\ Len(served[t]) + 1 \in 1..MaxStreams
         /\ \/ /\ served' = [served EXCEPT ![t] = Append(@, s)]
               /\ st' = IF Waits(s, t)
                        THEN [st EXCEPT ![s] = [st[s] EXCEPT !.ack = "answered",
                                                             !.told = Len(served[t]) + 1]]
                        ELSE st
            \/ ~Waits(s, t) /\ UNCHANGED <<served, st>>
            \/ /\ Waits(s, t) /\ UNCHANGED served
               /\ st' = [st EXCEPT ![s] = [st[s] EXCEPT !.ack = "failed"]]
<1> DEFINE n == Len(served[t])
           x == [st[s] EXCEPT !.ack = "answered", !.told = n + 1]
           y == [st[s] EXCEPT !.ack = "failed"]
<1>1. /\ <<s, t>> \in asked /\ asked' = asked \ {<<s, t>>}
      /\ UNCHANGED <<link, inbox, pump, subs, said, stopped, abandoned, closing>>
  BY DEF ServerOpens
<1>2. n + 1 \in 1..MaxStreams
  <2>1. n \in Nat
    BY DEF Typed
  <2> QED
    BY <1>1, <2>1, IdsSuffice
<1>3. st[s] \in Generators
  BY DEF Typed
<1>4. x \in Generators
  <2>1. n + 1 \in 0..MaxStreams
    BY <1>2
  <2> HIDE DEF n
  <2> QED
    BY <1>3, <2>1 DEF Generators, Acks
<1>5. y \in Generators
  BY <1>3 DEF Generators, Acks
<1>6. CASE /\ served' = [served EXCEPT ![t] = Append(@, s)]
           /\ st' = IF Waits(s, t)
                    THEN [st EXCEPT ![s].ack = "answered", ![s].told = Len(served[t]) + 1]
                    ELSE st
           /\ UNCHANGED faults
  <2>1. served' \in [Transports -> Seq(Streams)]
    BY <1>6 DEF Typed
  <2>2. st' = IF Waits(s, t) THEN [st EXCEPT ![s] = x] ELSE st
    BY <1>3, <1>6 DEF Typed
  <2>3. st' \in [Streams -> Generators]
    BY <1>4, <2>2 DEF Typed
  <2>4. Typed'
    BY <1>1, <1>6, <2>1, <2>3 DEF Typed
  <2> QED
    BY <1>2, <1>6, <2>2, <2>4
<1>7. CASE ~Waits(s, t) /\ UNCHANGED <<served, st, faults>>
  BY <1>1, <1>2, <1>7 DEF Typed
<1>8. CASE /\ Waits(s, t) /\ Fault("refused")
           /\ st' = [st EXCEPT ![s].ack = "failed"] /\ UNCHANGED served
  <2>1. st' = [st EXCEPT ![s] = y]
    BY <1>3, <1>8 DEF Typed
  <2>2. st' \in [Streams -> Generators]
    BY <1>5, <2>1 DEF Typed
  <2>3. faults' \in 0..MaxFaults
    BY <1>8 DEF Fault, Typed
  <2>4. Typed'
    BY <1>1, <1>8, <2>2, <2>3 DEF Typed
  <2> QED
    BY <1>2, <1>8, <2>1, <2>4
<1> QED
  BY <1>6, <1>7, <1>8 DEF ServerOpens

\* What the server does when it sends.
LEMMA ServerSendsFacts ==
  ASSUME Typed, NEW t \in Transports, NEW i \in Streams, ServerSends(t, i)
  PROVE  /\ Typed'
         /\ served[t][i] \in Streams /\ said[t][i] + 1 \in 1..(MaxItems + 1)
         /\ Message(t, i, served[t][i], said[t][i] + 1) \in Msgs
<1>1. /\ served[t] \in Seq(Streams) /\ i \in 1..Len(served[t])
      /\ said[t] \in [Streams -> 0..(MaxItems + 1)] /\ said[t][i] <= MaxItems
  <2>1. Len(served[t]) \in Nat /\ i \in Nat /\ i >= 1
    BY DEF Typed, Streams
  <2>2. i <= Len(served[t]) /\ said[t][i] <= MaxItems
    BY DEF ServerSends
  <2> QED
    BY <2>1, <2>2 DEF Typed
<1>2. served[t][i] \in Streams /\ said[t][i] + 1 \in 1..(MaxItems + 1)
  BY <1>1
<1>3. Message(t, i, served[t][i], said[t][i] + 1) \in Msgs
  BY <1>2, MessageType
<1>4. said' \in [Transports -> [Streams -> 0..(MaxItems + 1)]]
  BY <1>1, <1>2 DEF ServerSends, Typed
<1>5. inbox' \in [Transports -> Seq(Msgs)]
  BY <1>3 DEF ServerSends, Put, Typed
<1> QED
  BY <1>2, <1>3, <1>4, <1>5 DEF ServerSends, Typed

\* The steps of close().
LEMMA ClosingTyped ==
  ASSUME Typed, CloseClient \/ ClosePumps \/ CloseSource
  PROVE  Typed' /\ UNCHANGED <<inbox, subs, serverV, st, faults>>
<1>1. CASE CloseClient
  BY <1>1 DEF CloseClient, Typed, serverV
<1>2. CASE ClosePumps
  <2>1. pump' \in [Transports -> {"none", "running", "over"}]
    BY <1>2 DEF ClosePumps, Typed
  <2> QED
    BY <1>2, <2>1 DEF ClosePumps, Typed, serverV
<1>3. CASE CloseSource
  <2>1. link' \in [Transports -> Links]
    BY <1>3 DEF CloseSource, Typed, Links
  <2> QED
    BY <1>3, <2>1 DEF CloseSource, Typed, serverV
<1> QED
  BY <1>1, <1>2, <1>3

-----------------------------------------------------------------------------
(* Every step, by what it does. *)

Base ==
  /\ Typed /\ QueuesBounded /\ InOrder /\ AllPlaces /\ Subscribed /\ Rest
  /\ AskedOnce /\ ServedOnce /\ KnownThere

\* A step of one generator.
Moved == \E s \in Streams : \E y \in Generators :
  st' = [st EXCEPT ![s] = y] /\ Moves(s, y) /\ Len(y.queue) <= Len(st[s].queue)

Closed == CloseClient \/ ClosePumps \/ CloseSource

\* The number of faults stays within its bound.
LEMMA FaultsBounded ==
  ASSUME Typed, Next
  PROVE  faults' \in 0..MaxFaults
<1>1. faults \in 0..MaxFaults /\ (\A kind : Fault(kind) => faults' \in 0..MaxFaults)
  BY DEF Typed, Fault
<1>2. ASSUME NEW s \in Streams,
             \/ Start(s) \/ Get(s) \/ GetFails(s) \/ Acknowledged(s) \/ OpenFails(s)
             \/ SendFails(s) \/ OpenTimesOut(s)
      PROVE  faults' \in 0..MaxFaults
  BY <1>1, <1>2 DEF Start, Get, Subscribe, GetFails, Acknowledged, OpenFails, SendFails,
                    OpenTimesOut
<1>3. ASSUME NEW s \in Streams,
             Ask(s) \/ Read(s) \/ ReadTerminal(s) \/ Unwound(s) \/ CloseStream(s)
      PROVE  faults' \in 0..MaxFaults
  BY <1>1, <1>3 DEF Ask, Read, ReadTerminal, Unwound, CloseStream
<1>4. ASSUME NEW s \in Streams, NEW t \in Transports, ServerOpens(s, t) \/ ServerSends(t, s)
      PROVE  faults' \in 0..MaxFaults
  BY <1>1, <1>4 DEF ServerOpens, ServerSends
<1>5. ASSUME NEW t \in Transports,
             Pump(t) \/ TransportFails(t) \/ ReaderEnds(t) \/ RetireEnds(t)
      PROVE  faults' \in 0..MaxFaults
  BY <1>1, <1>5 DEF Pump, TransportFails, ReaderEnds, RetireEnds
<1>6. CASE CloseClient \/ ClosePumps \/ CloseSource \/ Over
  BY <1>1, <1>6 DEF CloseClient, ClosePumps, CloseSource, Over, vars
<1> QED
  BY <1>2, <1>3, <1>4, <1>5, <1>6 DEF Next

\* What a step can be.
LEMMA NextCases ==
  ASSUME Next
  PROVE  \/ \E s \in Streams : Solo(s)
         \/ \E s \in Streams, to \in {"none", "closed"} : Retire(s, to)
         \/ \E t \in Transports : TransportFails(t)
         \/ \E t \in Transports : ReaderEnds(t) \/ RetireEnds(t)
         \/ \E t \in Transports : Pump(t)
         \/ \E s \in Streams, t \in Transports : ServerOpens(s, t)
         \/ \E t \in Transports, i \in Streams : ServerSends(t, i)
         \/ Closed
         \/ UNCHANGED vars
<1>1. ASSUME NEW s \in Streams, SendFails(s)
      PROVE  Retire(s, "none")
  BY <1>1 DEF SendFails
<1> QED
  BY <1>1, Zenon DEF Next, Solo, Closed, Over

\* The types hold after every step, and a step of one generator is a move.
LEMMA Steps ==
  ASSUME Base, [Next]_vars
  PROVE  /\ Typed' /\ QueuesBounded'
         /\ \/ Moved
            \/ \E s \in Streams, to \in {"none", "closed"} : Retire(s, to)
            \/ \E t \in Transports : TransportFails(t)
            \/ \E t \in Transports : ReaderEnds(t) \/ RetireEnds(t)
            \/ \E t \in Transports : Pump(t)
            \/ \E s \in Streams, t \in Transports : ServerOpens(s, t)
            \/ \E t \in Transports, i \in Streams : ServerSends(t, i)
            \/ Closed
            \/ UNCHANGED vars
<1>1. Typed /\ QueuesBounded /\ InOrder /\ AllPlaces /\ AskedOnce /\ ServedOnce
  BY DEF Base
<1>2. \A s \in Streams : st[s] \in Generators /\ Len(st[s].queue) \in Nat
                         /\ Len(st[s].queue) <= MaxQueue
  BY <1>1, QueueType DEF Typed, QueuesBounded
<1>3. CASE UNCHANGED vars
  BY <1>1, <1>3 DEF vars, serverV, Typed, QueuesBounded
<1>4. CASE Next
  <2>1. faults' \in 0..MaxFaults
    BY <1>1, <1>4, FaultsBounded
  <2>2. ASSUME NEW s \in Streams, Solo(s)
        PROVE  Typed' /\ QueuesBounded' /\ Moved
    <3>1. PICK y \in Generators :
            st' = [st EXCEPT ![s] = y] /\ Moves(s, y) /\ Len(y.queue) <= Len(st[s].queue)
      BY <1>1, <2>2, SoloFacts
    <3>2. Typed'
      BY <1>1, <2>1, <3>1, MovesTyped
    <3>3. \A q \in Streams : st'[q] = IF q = s THEN y ELSE st[q]
      BY <1>1, <3>1 DEF Typed
    <3>4. Len(y.queue) <= MaxQueue
      BY <1>2, <3>1, QueueType
    <3> QED
      BY <1>2, <3>1, <3>2, <3>3, <3>4 DEF Moved, QueuesBounded
  <2>3. ASSUME NEW s \in Streams, NEW to \in {"none", "closed"}, Retire(s, to)
        PROVE  Typed' /\ QueuesBounded'
    <3>1. \A q \in Streams : st'[q].queue = st[q].queue
      BY <1>1, <1>2, <2>1, <2>3, RetireFacts, FailedType
    <3> QED
      BY <1>1, <1>2, <2>1, <2>3, <3>1, RetireFacts DEF QueuesBounded
  <2>4. ASSUME NEW t \in Transports, TransportFails(t)
        PROVE  Typed' /\ QueuesBounded'
    <3>1. \A q \in Streams : st'[q].queue = st[q].queue
      BY <1>1, <1>2, <2>4, TransportFailsFacts, FailedType
    <3> QED
      BY <1>1, <1>2, <2>4, <3>1, TransportFailsFacts DEF QueuesBounded
  <2>5. ASSUME NEW t \in Transports, ReaderEnds(t) \/ RetireEnds(t)
        PROVE  Typed' /\ QueuesBounded'
    <3>1. \A q \in Streams : [st[q] EXCEPT !.ack = "failed"].queue = st[q].queue
      BY <1>2 DEF Generators
    <3>2. \A q \in Streams : st'[q].queue = st[q].queue
      BY <1>1, <2>5, <3>1, EndsFacts
    <3> QED
      BY <1>1, <1>2, <2>5, <3>2, EndsFacts DEF QueuesBounded
  <2>6. ASSUME NEW s \in Streams, NEW t \in Transports, ServerOpens(s, t)
        PROVE  Typed' /\ QueuesBounded'
    <3> DEFINE n == Len(served[t]) + 1
    <3>1. /\ [st[s] EXCEPT !.ack = "answered", !.told = n].queue = st[s].queue
          /\ [st[s] EXCEPT !.ack = "failed"].queue = st[s].queue
      BY <1>2 DEF Generators
    <3>2. \/ st' = st
          \/ st' = [st EXCEPT ![s] = [st[s] EXCEPT !.ack = "answered", !.told = n]]
          \/ st' = [st EXCEPT ![s] = [st[s] EXCEPT !.ack = "failed"]]
      BY <1>1, <2>6, ServerOpensFacts
    <3> HIDE DEF n
    <3>3. \A q \in Streams : st'[q].queue = st[q].queue
      BY <1>1, <3>1, <3>2 DEF Typed
    <3> QED
      BY <1>1, <1>2, <2>6, <3>3, ServerOpensFacts DEF QueuesBounded
  <2>7. ASSUME NEW t \in Transports, NEW i \in Streams, ServerSends(t, i)
        PROVE  Typed' /\ QueuesBounded'
    BY <1>1, <2>7, ServerSendsFacts DEF ServerSends, QueuesBounded
  <2>8. CASE Closed
    BY <1>1, <2>8, ClosingTyped DEF Closed, QueuesBounded
  <2>9. ASSUME NEW t \in Transports, Pump(t)
        PROVE  Typed' /\ QueuesBounded'
    BY <1>1, <2>9, PumpFacts
  <2> QED
    BY <1>3, <1>4, <2>2, <2>3, <2>4, <2>5, <2>6, <2>7, <2>8, <2>9, NextCases
<1> QED
  BY <1>3, <1>4

\* What a move does to the transports: none, or it opens the next one.
LEMMA MovesLink ==
  ASSUME NEW s, NEW y, Moves(s, y)
  PROVE  \/ UNCHANGED link
         \/ \E t \in Transports : /\ t = Current + 1 /\ link[t] = "none"
                                  /\ link' = [link EXCEPT ![t] = "open"]
                                  /\ Opens(s, y)
<1>1. CASE Opens(s, y)
  <2>1. \E t \in Transports :
          \/ link[t] = "open" /\ UNCHANGED link
          \/ /\ t = Current + 1 /\ link[t] = "none"
             /\ link' = [link EXCEPT ![t] = "open"]
    BY <1>1, Zenon DEF Opens
  <2> QED
    BY <1>1, <2>1, Zenon
<1>2. CASE Begins(s, y) \/ Learns(s, y) \/ Asks(s, y) \/ Reads(s, y) \/ Departs(s, y)
           \/ Resigns(s, y)
  <2>1. Quietly
    BY <1>2, Zenon DEF Begins, Learns, Asks, Reads, Departs, Resigns
  <2> QED
    BY <2>1 DEF Quietly
<1>3. CASE Misses(s, y)
  BY <1>3 DEF Misses
<1> QED
  BY <1>1, <1>2, <1>3 DEF Moves

\* The transports stay in order.
LEMMA InOrderStep ==
  ASSUME Base, [Next]_vars
  PROVE  InOrder'
<1>1. Typed /\ InOrder /\ AllPlaces /\ AskedOnce /\ ServedOnce
  BY DEF Base
<1>2. ASSUME \A t \in Transports : link'[t] # "none" <=> link[t] # "none"
      PROVE  InOrder'
  BY <1>1, <1>2 DEF InOrder
<1>3. CASE Moved
  <2>1. PICK s \in Streams, y \in Generators : Moves(s, y)
    BY <1>3 DEF Moved
  <2>2. CASE UNCHANGED link
    BY <1>2, <2>2
  <2>3. ASSUME NEW t \in Transports, t = Current + 1,
               link' = [link EXCEPT ![t] = "open"]
        PROVE  InOrder'
    <3>1. \A u \in Transports : link'[u] # "none" <=> u <= t
      <4>1. Current \in 0..MaxTransports /\ (\A u \in Transports : link[u] # "none" <=> u <= Current)
        BY <1>1, CurrentFacts
      <4>2. \A u \in Transports : link'[u] = IF u = t THEN "open" ELSE link[u]
        BY <1>1, <2>3 DEF Typed
      <4>3. \A u \in Transports : u \in Nat
        BY DEF Transports
      <4> QED
        BY <2>3, <4>1, <4>2, <4>3
    <3>2. t \in 0..MaxTransports
      BY DEF Transports
    <3> QED
      BY <3>1, <3>2 DEF InOrder
  <2> QED
    BY <2>1, <2>2, <2>3, MovesLink
<1>4. ASSUME NEW s \in Streams, NEW to \in {"none", "closed"}, Retire(s, to)
      PROVE  InOrder'
  BY <1>1, <1>2, <1>4 DEF Retire, Typed
<1>5. ASSUME NEW t \in Transports, TransportFails(t)
      PROVE  InOrder'
  BY <1>1, <1>2, <1>5 DEF TransportFails, Typed
<1>6. ASSUME NEW t \in Transports, ReaderEnds(t) \/ RetireEnds(t)
      PROVE  InOrder'
  BY <1>1, <1>2, <1>6 DEF ReaderEnds, RetireEnds, Typed
<1>7. CASE UNCHANGED link
  BY <1>2, <1>7
<1>8. ASSUME NEW t \in Transports, NEW i \in Streams,
             Pump(t) \/ ServerOpens(i, t) \/ ServerSends(t, i)
      PROVE  UNCHANGED link
  BY <1>8 DEF Pump, ServerOpens, ServerSends
<1>9. CASE CloseSource
  BY <1>1, <1>2, <1>9 DEF CloseSource, Typed
<1>10. CASE CloseClient \/ ClosePumps \/ UNCHANGED vars
  BY <1>7, <1>10 DEF CloseClient, ClosePumps, vars
<1>11. ASSUME NEW t \in Transports, Pump(t)
       PROVE  UNCHANGED link
  BY <1>11 DEF Pump
<1> QED
  BY <1>3, <1>4, <1>5, <1>6, <1>7, <1>8, <1>9, <1>10, <1>11, Steps DEF Closed

-----------------------------------------------------------------------------
(* Places. *)

\* A generator that has ended, or starts again, is what its place makes it.
LEMMA LeftPlace ==
  ASSUME NEW x \in Generators, PlaceOK(x), NEW to \in {"getting"} \cup Ended,
         to = "complete" => x.place \in {"held", "reading", "unwinding"}
  PROVE  PlaceOK(Left(x, to))
<1>1. CASE to = "complete"
  <2>1. Left(x, to) = [x EXCEPT !.place = to, !.after = "none"]
    BY <1>1, LeftFacts
  <2> QED
    BY <1>1, <2>1 DEF PlaceOK, Generators, Live, Ended
<1>2. CASE to # "complete"
  <2>1. Fresh(Left(x, to)) /\ Left(x, to).place \in {"getting", "closed", "error"}
    BY <1>2, LeftFacts
  <2> QED
    BY <2>1 DEF PlaceOK, Fresh, Live, Ended
<1> QED
  BY <1>1, <1>2

\* A generator that leaves its hub.
LEMMA CleanedPlace ==
  ASSUME NEW s, NEW x \in Generators, PlaceOK(x), x.place \in Live,
         NEW to \in {"getting"} \cup Ended, NEW y, Cleaned(s, x, to, y),
         to = "complete" => x.place \in {"held", "reading"},
         to = "getting" => Settled(x.on)
  PROVE  PlaceOK(y) /\ y.place \notin Live
<1>1. CASE y = Left(x, to)
  <2>1. PlaceOK(y)
    BY <1>1, LeftPlace
  <2>2. y.place \in {"complete", "getting", "closed", "error"}
    BY <1>1, LeftFacts DEF Ended
  <2> QED
    BY <2>1, <2>2 DEF Live
<1>2. CASE x.id # 0 /\ link[x.on] = "open" /\ y = [x EXCEPT !.place = "unwinding", !.after = to]
  <2>1. to \in Ended
    BY <1>2 DEF Settled
  <2> QED
    BY <1>2, <2>1 DEF PlaceOK, Live, Ended, Generators
<1> QED
  BY <1>1, <1>2 DEF Cleaned

\* Every move leads to a place where the generator has what it should.
LEMMA MovesPlace ==
  ASSUME Base, NEW s \in Streams, NEW y \in Generators, Moves(s, y)
  PROVE  /\ PlaceOK(y)'
         /\ \A t \in Transports : s \in subs'[t] <=> y.place \in Live /\ y.on = t
<1> DEFINE x == st[s]
<1>1. /\ Typed /\ x \in Generators /\ PlaceOK(x)
      /\ \A t \in Transports : s \in subs[t] <=> x.place \in Live /\ x.on = t
  BY DEF Base, Typed, AllPlaces, Subscribed
<1>2. CASE Begins(s, y)
  <2>1. y = [x EXCEPT !.place = "getting"] /\ x.place = "none" /\ UNCHANGED <<link, subs>>
    BY <1>2 DEF Begins, Quietly
  <2> QED
    BY <1>1, <2>1 DEF PlaceOK, Fresh, Live, Ended, Generators
<1>3. CASE Opens(s, y)
  <2>1. PICK t \in Transports :
          /\ y = [x EXCEPT !.place = "opening", !.on = t, !.ack = "pending",
                            !.stale = x.queue # <<>>]
          /\ subs' = [subs EXCEPT ![t] = @ \cup {s}]
          /\ (link[t] = "open" /\ UNCHANGED link) \/ link' = [link EXCEPT ![t] = "open"]
    BY <1>3, Zenon DEF Opens
  <2>2. x.place = "getting"
    BY <1>3 DEF Opens
  <2>3. link'[t] = "open" /\ (\A u \in Transports : s \in subs'[u] <=> u = t)
    BY <1>1, <2>1, <2>2 DEF Typed, Live
  <2>4. Fresh(x) /\ x.terminal = "none"
    BY <1>1, <2>2 DEF PlaceOK, Fresh
  <2>5. /\ y.place = "opening" /\ y.on = t /\ y.ack = "pending" /\ y.id = 0 /\ y.got = <<>>
        /\ y.after = "none" /\ y.told = 0 /\ y.terminal = "none"
    BY <1>1, <2>1, <2>4 DEF Fresh, Generators
  <2> QED
    BY <2>3, <2>5 DEF PlaceOK, Live, Ended
<1>4. CASE Misses(s, y)
  <2>1. y = Left(x, "error") /\ UNCHANGED <<link, subs>> /\ x.place = "getting"
    BY <1>4 DEF Misses
  <2>2. PlaceOK(y) /\ y.place \in {"getting", "closed", "error"}
    BY <1>1, <2>1, LeftPlace, LeftFacts DEF Ended
  <2> QED
    BY <1>1, <2>1, <2>2 DEF PlaceOK, Live
<1>5. CASE Learns(s, y)
  <2>1. /\ y = [x EXCEPT !.id = x.told, !.opened = TRUE,
                         !.place = IF x.opened THEN "reading" ELSE "held"]
        /\ x.place = "opening" /\ x.ack = "answered" /\ UNCHANGED <<link, subs>>
    BY <1>5 DEF Learns, Quietly
  <2> QED
    BY <1>1, <2>1 DEF PlaceOK, Live, Ended, Generators
<1>6. CASE Asks(s, y)
  <2>1. y = [x EXCEPT !.place = "reading"] /\ x.place = "held" /\ UNCHANGED <<link, subs>>
    BY <1>6 DEF Asks, Quietly
  <2> QED
    BY <1>1, <2>1 DEF PlaceOK, Live, Ended, Generators
<1>7. CASE Reads(s, y)
  <2> DEFINE m == Head(x.queue)
             z == [x EXCEPT !.queue = Tail(@)]
  <2>1. UNCHANGED link /\ x.place = "reading" /\ x.queue # <<>>
    BY <1>7 DEF Reads, Quietly, Skips, Takes, Finishes
  <2>2. x.queue \in Seq(Msgs) /\ Tail(x.queue) \in Seq(Msgs) /\ x.terminal # "overflow"
    BY <1>1, <2>1 DEF PlaceOK, Generators
  <2>3. z \in Generators /\ PlaceOK(z) /\ z.place = "reading" /\ z.on = x.on
    BY <1>1, <2>1, <2>2 DEF Generators, PlaceOK, Live, Ended
  <2>4. CASE Skips(s, y)
    <3>1. y = z /\ UNCHANGED subs
      BY <2>4 DEF Skips
    <3> QED
      BY <1>1, <2>1, <2>3, <3>1 DEF PlaceOK, Live
  <2>5. CASE Takes(s, y)
    <3>1. y = [x EXCEPT !.queue = Tail(@), !.got = Append(@, m), !.place = "held"]
          /\ UNCHANGED subs
      BY <2>5 DEF Takes
    <3> QED
      BY <1>1, <2>1, <2>2, <3>1 DEF PlaceOK, Live, Ended, Generators
  <2>6. CASE Finishes(s, y)
    <3>1. Cleaned(s, z, "complete", y)
      BY <2>6 DEF Finishes
    <3>2. PlaceOK(y) /\ y.place \notin Live
      BY <2>3, <3>1, CleanedPlace DEF Live, Ended
    <3> HIDE DEF z
    <3>3. \A t \in Transports : s \notin subs'[t]
      BY <1>1, <2>3, <3>1, CleanedSubs
    <3> QED
      BY <2>1, <3>2, <3>3 DEF PlaceOK
  <2> QED
    BY <1>7, <2>4, <2>5, <2>6 DEF Reads
<1>8. CASE Departs(s, y)
  <2>1. PICK to \in {"getting", "error", "closed"} :
          Cleaned(s, x, to, y) /\ (to = "getting" => Settled(x.on))
    BY <1>8, Zenon DEF Departs
  <2>2. x.place \in Live /\ UNCHANGED link
    BY <1>8 DEF Departs, Quietly, Live
  <2>3. PlaceOK(y) /\ y.place \notin Live
    BY <1>1, <2>1, <2>2, CleanedPlace DEF Ended
  <2>4. \A t \in Transports : s \notin subs'[t]
    BY <1>1, <2>1, CleanedSubs
  <2> QED
    BY <2>2, <2>3, <2>4 DEF PlaceOK
<1>9. CASE Resigns(s, y)
  <2>1. PICK to \in {"closed", x.after} :
          y = Left(x, to) /\ (x.place = "getting" => to = "closed")
    BY <1>9, Zenon DEF Resigns
  <2>2. x.place \in {"getting", "unwinding"} /\ UNCHANGED <<link, subs>>
    BY <1>9 DEF Resigns, Quietly
  <2>3. to \in Ended /\ (to = "complete" => x.place = "unwinding")
    BY <1>1, <2>1, <2>2 DEF PlaceOK, Ended
  <2>4. PlaceOK(y)
    BY <1>1, <2>1, <2>3, LeftPlace
  <2>5. y.place \in {"complete", "getting", "closed", "error"}
    BY <1>1, <2>1, <2>3, LeftFacts DEF Ended
  <2> QED
    BY <1>1, <2>2, <2>4, <2>5 DEF PlaceOK, Live, Ended
<1> QED
  BY <1>2, <1>3, <1>4, <1>5, <1>6, <1>7, <1>8, <1>9 DEF Moves

\* The place of a generator that no step touches, when its transport may change.
LEMMA PlaceKept ==
  ASSUME NEW x, PlaceOK(x),
         x.place \in Live \cup {"unwinding"} => link'[x.on] # "none",
         x.ack = "pending" => link'[x.on] = "open",
         x.ack = "retiring" => link'[x.on] = "retired"
  PROVE  PlaceOK(x)'
  BY DEF PlaceOK, Fresh, Live

\* A transport that fails leaves no request pending.
LEMMA FailedPlace ==
  ASSUME Typed, NEW t \in Transports, link[t] = "open",
         NEW v \in {"failing", "retired"}, link' = [link EXCEPT ![t] = v],
         NEW x \in Generators, PlaceOK(x)
  PROVE  PlaceOK(Failed(x, t))'
<1>1. \A u \in Transports : link'[u] = IF u = t THEN v ELSE link[u]
  BY DEF Typed
<1>2. x.place \in Live \cup {"unwinding"} => x.on \in Transports /\ link'[x.on] # "none"
  BY <1>1 DEF PlaceOK
<1>3. x.ack \in {"pending", "retiring"} => x.place = "opening" /\ x.on \in Transports
  BY DEF PlaceOK, Live
<1>4. CASE x.place = "opening" /\ x.on = t /\ x.ack = "pending"
  <2>1. Failed(x, t) = [x EXCEPT !.ack = "failed"]
    BY <1>4 DEF Failed
  <2> QED
    BY <1>2, <1>4, <2>1 DEF PlaceOK, Fresh, Live, Generators, Ended
<1>5. CASE ~(x.place = "opening" /\ x.on = t /\ x.ack = "pending")
  <2>1. Failed(x, t) = x
    BY <1>5 DEF Failed
  <2>2. x.ack = "pending" => link'[x.on] = "open"
    BY <1>1, <1>3, <1>5 DEF PlaceOK
  <2>3. x.ack = "retiring" => link'[x.on] = "retired"
    BY <1>1, <1>3 DEF PlaceOK
  <2> QED
    BY <1>2, <2>1, <2>2, <2>3, PlaceKept
<1> QED
  BY <1>4, <1>5

\* The places stay what they are when every generator and the transports do.
LEMMA PlacesKept ==
  ASSUME Base, UNCHANGED <<link, st, subs>>
  PROVE  AllPlaces' /\ Subscribed'
  BY DEF Base, AllPlaces, Subscribed, PlaceOK, Fresh

\* The places after a move.
LEMMA MovedPlaces ==
  ASSUME Base, Moved
  PROVE  AllPlaces' /\ Subscribed'
<1>1. PICK s \in Streams, y \in Generators : st' = [st EXCEPT ![s] = y] /\ Moves(s, y)
  BY DEF Moved
<1>2. PlaceOK(y)' /\ (\A t \in Transports : s \in subs'[t] <=> y.place \in Live /\ y.on = t)
  BY <1>1, MovesPlace
<1>3. \A q \in Streams : /\ st'[q] = IF q = s THEN y ELSE st[q]
                         /\ PlaceOK(st[q])
                         /\ \A t \in Transports :
                              q \in subs[t] <=> st[q].place \in Live /\ st[q].on = t
  BY <1>1 DEF Base, Typed, AllPlaces, Subscribed
<1>4. \A t \in Transports : link[t] = "none" \/ link'[t] = link[t]
  BY <1>1, MovesLink DEF Base, Typed
<1>5. \A q \in Streams, t \in Transports : q # s => (q \in subs'[t] <=> q \in subs[t])
  <2>1. CASE Opens(s, y)
    <3>1. PICK t \in Transports : subs' = [subs EXCEPT ![t] = @ \cup {s}]
      BY <2>1, Zenon DEF Opens
    <3> QED
      BY <3>1 DEF Base, Typed
  <2>2. CASE UNCHANGED subs
    BY <2>2
  <2>3. ASSUME NEW x \in Generators, NEW to, Cleaned(s, x, to, y)
        PROVE  \A q \in Streams, t \in Transports : q # s => (q \in subs'[t] <=> q \in subs[t])
    BY <1>1, <2>3, CleanedSubs DEF Base
  <2>4. CASE Departs(s, y)
    <3>1. \E to : Cleaned(s, st[s], to, y)
      BY <2>4, Zenon DEF Departs
    <3> QED
      BY <2>3, <3>1 DEF Base, Typed
  <2>5. CASE Reads(s, y)
    <3>1. CASE Finishes(s, y)
      <4> DEFINE x == [st[s] EXCEPT !.queue = Tail(@)]
      <4>1. Cleaned(s, x, "complete", y) /\ st[s].queue # <<>> /\ st[s] \in Generators
        BY <3>1 DEF Finishes, Base, Typed
      <4>2. Tail(st[s].queue) \in Seq(Msgs)
        BY <4>1 DEF Generators
      <4>3. x \in Generators
        BY <4>1, <4>2 DEF Generators
      <4> QED
        BY <2>3, <4>1, <4>3
    <3> QED
      BY <2>2, <2>5, <3>1 DEF Reads, Skips, Takes
  <2>6. CASE Begins(s, y) \/ Misses(s, y) \/ Learns(s, y) \/ Asks(s, y) \/ Resigns(s, y)
    <3>1. UNCHANGED subs
      BY <2>6 DEF Begins, Misses, Learns, Asks, Resigns
    <3> QED
      BY <2>2, <3>1
  <2> QED
    BY <1>1, <2>1, <2>4, <2>5, <2>6 DEF Moves
<1>6. ASSUME NEW q \in Streams, q # s
      PROVE  /\ PlaceOK(st[q])'
             /\ \A t \in Transports : q \in subs'[t] <=> st'[q].place \in Live /\ st'[q].on = t
  <2>1. st'[q] = st[q] /\ PlaceOK(st[q])
    BY <1>3, <1>6
  <2>2. st[q].place \in Live \cup {"unwinding"} =>
          st[q].on \in Transports /\ link'[st[q].on] = link[st[q].on] /\ link[st[q].on] # "none"
    BY <1>4, <2>1 DEF PlaceOK
  <2>3. st[q].ack \in {"pending", "retiring"} => st[q].place \in Live
    BY <2>1 DEF PlaceOK, Live
  <2>4. PICK x : x = st[q] /\ x = st'[q]
    BY <2>1
  <2>5. /\ x.ack = "pending" => link'[x.on] = "open"
        /\ x.ack = "retiring" => link'[x.on] = "retired"
        /\ x.place \in Live \cup {"unwinding"} => link'[x.on] # "none"
    BY <2>1, <2>2, <2>3, <2>4 DEF PlaceOK
  <2>6. PlaceOK(x)'
    BY <2>1, <2>4, <2>5, PlaceKept
  <2> QED
    BY <1>3, <1>5, <1>6, <2>1, <2>2, <2>4, <2>6 DEF PlaceOK, Fresh
<1>7. ASSUME NEW q \in Streams
      PROVE  /\ PlaceOK(st[q])'
             /\ \A t \in Transports : q \in subs'[t] <=> st'[q].place \in Live /\ st'[q].on = t
  BY <1>2, <1>3, <1>6
<1> QED
  BY <1>7 DEF AllPlaces, Subscribed

\* The steps that take no generator to another place.
Steady ==
  /\ \A q \in Streams : st'[q].place = st[q].place /\ st'[q].on = st[q].on
  /\ UNCHANGED subs

LEMMA FailedSteady ==
  ASSUME NEW x \in Generators, NEW t
  PROVE  Failed(x, t).place = x.place /\ Failed(x, t).on = x.on
  BY DEF Failed, Generators

\* The places after a send that fails.
LEMMA RetirePlaces ==
  ASSUME Base, NEW s \in Streams, NEW to \in {"none", "closed"}, Retire(s, to), Typed'
  PROVE  AllPlaces' /\ Steady
<1> DEFINE t == st[s].on
<1>1. Typed /\ AllPlaces /\ faults' \in 0..MaxFaults
  BY DEF Base, Typed
<1>2. /\ t \in Transports
      /\ st' = [q \in Streams |-> IF q = s THEN Retires(st[s], to) ELSE Failed(st[q], t)]
  BY <1>1, RetireFacts
<1>3. /\ st[s] \in Generators /\ PlaceOK(st[s]) /\ st[s].place = "opening"
      /\ link[t] = "open" /\ link' = [link EXCEPT ![t] = "retired"] /\ UNCHANGED subs
  BY <1>1 DEF Retire, Typed, AllPlaces
<1>4. link'[t] = "retired"
  BY <1>2, <1>3 DEF Base, Typed
<1>5. st'[s] = [st[s] EXCEPT !.ack = "retiring", !.after = to]
  BY <1>2 DEF Retires
<1>6. /\ st'[s].place = "opening" /\ st'[s].on = t /\ st'[s].ack = "retiring"
      /\ st'[s].after \in {"none", "closed"} /\ st'[s].id = 0 /\ st'[s].got = <<>>
      /\ st'[s].terminal = st[s].terminal /\ st'[s].queue = st[s].queue
  BY <1>3, <1>5 DEF Generators, PlaceOK
<1>7. PlaceOK(st[s])'
  BY <1>2, <1>3, <1>4, <1>6 DEF PlaceOK, Live, Ended
<1>8. ASSUME NEW q \in Streams, q # s
      PROVE  PlaceOK(st[q])' /\ st'[q].place = st[q].place /\ st'[q].on = st[q].on
  <2>1. st[q] \in Generators /\ PlaceOK(st[q]) /\ st'[q] = Failed(st[q], t)
    BY <1>1, <1>2, <1>8 DEF Typed, AllPlaces
  <2>2. PICK x \in Generators : x = st[q]
    BY <2>1
  <2>3. PICK u \in Transports : u = t
    BY <1>2
  <2>4. PlaceOK(Failed(x, u))'
    BY <1>1, <1>3, <2>1, <2>2, <2>3, FailedPlace
  <2>5. PICK y : y = Failed(x, u)
    OBVIOUS
  <2>6. PlaceOK(y)'
    BY <2>4, <2>5
  <2>7. st'[q] = y
    BY <2>1, <2>2, <2>3, <2>5
  <2> QED
    BY <2>1, <2>2, <2>3, <2>5, <2>6, <2>7, FailedSteady DEF PlaceOK, Fresh
<1> QED
  BY <1>3, <1>6, <1>7, <1>8 DEF AllPlaces, Steady

\* The places after a connection is lost.
LEMMA TransportFailsPlaces ==
  ASSUME Base, NEW t \in Transports, TransportFails(t)
  PROVE  AllPlaces' /\ Steady
<1>1. Typed /\ AllPlaces
  BY DEF Base
<1>2. \A q \in Streams : st'[q] = Failed(st[q], t)
  BY <1>1, TransportFailsFacts
<1>3. link[t] = "open" /\ link' = [link EXCEPT ![t] = "failing"] /\ UNCHANGED subs
  BY DEF TransportFails
<1>4. ASSUME NEW q \in Streams
      PROVE  PlaceOK(st[q])' /\ st'[q].place = st[q].place /\ st'[q].on = st[q].on
  <2>1. st[q] \in Generators /\ PlaceOK(st[q]) /\ st'[q] = Failed(st[q], t)
    BY <1>1, <1>2 DEF Typed, AllPlaces
  <2>2. PICK x \in Generators : x = st[q]
    BY <2>1
  <2>3. PlaceOK(Failed(x, t))'
    BY <1>1, <1>3, <2>1, <2>2, FailedPlace
  <2>4. PICK y : y = Failed(x, t)
    OBVIOUS
  <2>5. PlaceOK(y)' /\ st'[q] = y
    BY <2>1, <2>2, <2>3, <2>4
  <2> QED
    BY <2>1, <2>2, <2>4, <2>5, FailedSteady DEF PlaceOK, Fresh
<1> QED
  BY <1>3, <1>4 DEF AllPlaces, Steady

\* The places after a transport has ended.
LEMMA EndsPlaces ==
  ASSUME Base, NEW t \in Transports, ReaderEnds(t) \/ RetireEnds(t)
  PROVE  AllPlaces' /\ Steady
<1>1. Typed /\ AllPlaces
  BY DEF Base
<1>2. /\ link' = [link EXCEPT ![t] = "failed"]
      /\ \A q \in Streams :
           st'[q] = IF RetireEnds(t) /\ st[q].ack = "retiring" /\ st[q].on = t
                    THEN [st[q] EXCEPT !.ack = "failed"] ELSE st[q]
  BY <1>1, EndsFacts
<1>3. UNCHANGED subs /\ link[t] \in {"failing", "retired"} /\ (link[t] = "retired" => RetireEnds(t))
  BY DEF ReaderEnds, RetireEnds
<1>4. \A u \in Transports : link'[u] = IF u = t THEN "failed" ELSE link[u]
  BY <1>1, <1>2 DEF Typed
<1>5. ASSUME NEW q \in Streams
      PROVE  PlaceOK(st[q])' /\ st'[q].place = st[q].place /\ st'[q].on = st[q].on
  <2>1. PICK x \in Generators : x = st[q]
    BY <1>1 DEF Typed
  <2>2. PlaceOK(x)
    BY <1>1, <2>1 DEF AllPlaces
  <2>3. x.place \in Live \cup {"unwinding"} => x.on \in Transports /\ link'[x.on] # "none"
    BY <1>4, <2>2 DEF PlaceOK
  <2>4. x.ack \in {"pending", "retiring"} => x.on \in Transports
    BY <2>2 DEF PlaceOK, Live
  <2>5. CASE x.ack = "retiring" /\ x.on = t
    <3>1. RetireEnds(t)
      BY <1>3, <2>2, <2>5 DEF PlaceOK
    <3>2. st'[q] = [x EXCEPT !.ack = "failed"]
      BY <1>2, <2>1, <2>5, <3>1
    <3>3. x.place = "opening"
      BY <2>2, <2>5 DEF PlaceOK
    <3> QED
      BY <2>1, <2>2, <2>3, <3>2, <3>3 DEF PlaceOK, Fresh, Live, Ended, Generators
  <2>6. CASE ~(x.ack = "retiring" /\ x.on = t)
    <3>1. st'[q] = x
      BY <1>2, <2>1, <2>6
    <3>2. x.ack = "pending" => link'[x.on] = "open"
      BY <1>3, <1>4, <2>2, <2>4 DEF PlaceOK
    <3>3. x.ack = "retiring" => link'[x.on] = "retired"
      BY <1>4, <2>2, <2>4, <2>6 DEF PlaceOK
    <3>4. PlaceOK(x)'
      BY <2>2, <2>3, <3>2, <3>3, PlaceKept
    <3> QED
      BY <2>1, <3>1, <3>4 DEF PlaceOK, Fresh
  <2> QED
    BY <2>5, <2>6
<1> QED
  BY <1>3, <1>5 DEF AllPlaces, Steady

\* The places after a step of the pump.
LEMMA PumpPlaces ==
  ASSUME Base, NEW t \in Transports, Pump(t)
  PROVE  AllPlaces' /\ Steady
<1>1. Typed /\ AllPlaces /\ QueuesBounded
  BY DEF Base
<1>2. UNCHANGED <<link, subs>> /\ Head(inbox[t]) \in Msgs
  BY <1>1 DEF Pump, Typed
<1>3. ASSUME NEW q \in Streams
      PROVE  PlaceOK(st[q])' /\ st'[q].place = st[q].place /\ st'[q].on = st[q].on
  <2>1. PICK x \in Generators : x = st[q]
    BY <1>1 DEF Typed
  <2>2. PICK m \in Msgs : m = Head(inbox[t])
    BY <1>2
  <2>3. PlaceOK(x) /\ Len(x.queue) <= MaxQueue /\ Len(x.queue) \in Nat
    BY <1>1, <2>1, QueueType DEF AllPlaces, QueuesBounded
  <2>4. q \in subs[t] => x.place \in Live
    BY <2>1 DEF Base, Subscribed
  <2>7. CASE st'[q] = x
    BY <1>2, <2>1, <2>3, <2>7 DEF PlaceOK, Fresh
  <2>5. CASE q \in subs[t] /\ m.kind \in Ends /\ st'[q] = [x EXCEPT !.terminal = m.kind]
    BY <1>2, <2>1, <2>3, <2>5, <2>4 DEF PlaceOK, Fresh, Live, Generators, Ends
  <2>6. CASE q \in subs[t] /\ st'[q] = Taken(x, m)
    <3>1. x.place \in Live
      BY <2>6, <2>4
    <3>2. CASE Taken(x, m) = x
      BY <1>2, <2>1, <2>3, <2>6, <3>2 DEF PlaceOK, Fresh
    <3>3. CASE Taken(x, m) = [x EXCEPT !.queue = <<>>, !.terminal = "overflow"]
      BY <1>2, <2>1, <2>3, <2>6, <3>1, <3>3 DEF PlaceOK, Live, Ended, Generators
    <3>4. CASE Heeds(x, m) /\ Taken(x, m) = [x EXCEPT !.queue = Append(@, m)]
      <4>1. x.terminal = "none"
        BY <3>4 DEF Heeds
      <4> QED
        BY <1>2, <2>1, <2>3, <2>6, <3>1, <3>4, <4>1 DEF PlaceOK, Live, Ended, Generators
    <3> QED
      BY <2>3, <3>2, <3>3, <3>4, TakenFacts
  <2> QED
    BY <1>1, <2>1, <2>2, <2>5, <2>6, <2>7, PumpFacts
<1> QED
  BY <1>2, <1>3 DEF AllPlaces, Steady

\* The places after a request to open was handled.
LEMMA ServerOpensPlaces ==
  ASSUME Base, NEW s \in Streams, NEW t \in Transports, ServerOpens(s, t)
  PROVE  AllPlaces' /\ Steady
<1> DEFINE n == Len(served[t]) + 1
<1>1. Typed /\ AllPlaces /\ AskedOnce /\ ServedOnce
  BY DEF Base
<1>2. UNCHANGED <<link, subs>> /\ n \in 1..MaxStreams
  BY <1>1, ServerOpensFacts DEF ServerOpens
<1>3. PICK x \in Generators : x = st[s]
  BY <1>1 DEF Typed
<1>4. \/ st' = st
      \/ Waits(s, t) /\ st' = [st EXCEPT ![s] = [x EXCEPT !.ack = "answered", !.told = n]]
      \/ Waits(s, t) /\ st' = [st EXCEPT ![s] = [x EXCEPT !.ack = "failed"]]
  BY <1>1, <1>3, ServerOpensFacts
<1> HIDE DEF n
<1>5. CASE st' = st
  BY <1>1, <1>2, <1>5 DEF AllPlaces, Steady, PlaceOK, Fresh
<1>6. CASE Waits(s, t) /\ ~(st' = st)
  <2>1. PICK y : st' = [st EXCEPT ![s] = y] /\ (\/ y = [x EXCEPT !.ack = "answered", !.told = n]
                                              \/ y = [x EXCEPT !.ack = "failed"])
    BY <1>4, <1>6
  <2>2. PlaceOK(x) /\ x.place = "opening" /\ x.on = t
    BY <1>1, <1>3, <1>6 DEF AllPlaces, Waits
  <2>3. PlaceOK(y) /\ y.place = x.place /\ y.on = x.on
    <3>1. n # 0
      BY <1>2
    <3>2. CASE y = [x EXCEPT !.ack = "answered", !.told = n]
      <4>1. /\ y.place = "opening" /\ y.on = x.on /\ y.ack = "answered" /\ y.told = n
            /\ y.id = x.id /\ y.got = x.got /\ y.after = x.after
            /\ y.terminal = x.terminal /\ y.queue = x.queue
        BY <2>2, <3>2 DEF Generators
      <4> QED
        BY <2>2, <3>1, <4>1 DEF PlaceOK, Live, Ended
    <3>3. CASE y = [x EXCEPT !.ack = "failed"]
      BY <2>2, <3>3 DEF PlaceOK, Live, Ended, Generators
    <3> QED
      BY <2>1, <3>2, <3>3
  <2>4. \A q \in Streams : st'[q] = IF q = s THEN y ELSE st[q]
    BY <1>1, <2>1 DEF Typed
  <2>5. ASSUME NEW q \in Streams
        PROVE  PlaceOK(st[q])'
    <3>1. PICK z : z = st'[q] /\ PlaceOK(z)
      BY <1>1, <2>3, <2>4 DEF AllPlaces
    <3> QED
      BY <1>2, <3>1 DEF PlaceOK, Fresh
  <2> QED
    BY <1>2, <1>3, <2>3, <2>4, <2>5 DEF AllPlaces, Steady
<1> QED
  BY <1>4, <1>5, <1>6

\* The places after a step of close(): every generator has ended when the
\* transports are closed.
LEMMA ClosedPlaces ==
  ASSUME Base, Closed
  PROVE  AllPlaces' /\ Steady
<1>1. Typed /\ AllPlaces /\ Rest /\ UNCHANGED <<subs, st>>
  BY ClosingTyped DEF Base, Closed
<1>2. CASE CloseClient \/ ClosePumps
  <2>1. UNCHANGED link
    BY <1>2 DEF CloseClient, ClosePumps
  <2> QED
    BY <1>1, <2>1 DEF AllPlaces, Steady, PlaceOK, Fresh
<1>3. CASE CloseSource
  <2>1. \A q \in Streams : st[q].place \in Ended \cup {"none"}
    BY <1>1, <1>3 DEF CloseSource, Rest, Idling
  <2>2. ASSUME NEW q \in Streams
        PROVE  PlaceOK(st[q])'
    <3>1. PICK x : x = st[q] /\ x = st'[q]
      BY <1>1
    <3>2. PlaceOK(x) /\ x.place \in Ended \cup {"none"}
      BY <1>1, <2>1, <3>1 DEF AllPlaces
    <3>3. x.place \notin Live \cup {"unwinding"} /\ x.ack \notin {"pending", "retiring"}
      BY <3>2 DEF PlaceOK, Fresh, Live, Ended
    <3>4. PlaceOK(x)'
      BY <3>2, <3>3, PlaceKept
    <3> QED
      BY <3>1, <3>4 DEF PlaceOK, Fresh
  <2> QED
    BY <1>1, <2>2 DEF AllPlaces, Steady
<1> QED
  BY <1>2, <1>3 DEF Closed

\* The places after every step.
LEMMA PlacesStep ==
  ASSUME Base, [Next]_vars
  PROVE  AllPlaces' /\ Subscribed' /\ (Moved \/ Steady)
<1>1. ASSUME Steady
      PROVE  Subscribed'
  BY <1>1 DEF Steady, Base, Subscribed
<1>2. CASE UNCHANGED <<link, st, subs>>
  BY <1>2, PlacesKept DEF Steady
<1>3. ASSUME NEW t \in Transports, NEW i \in Streams, ServerSends(t, i)
      PROVE  UNCHANGED <<link, st, subs>>
  BY <1>3 DEF ServerSends
<1>4. Typed'
  BY Steps
<1> QED
  BY <1>1, <1>2, <1>3, <1>4, Steps, MovedPlaces, RetirePlaces, TransportFailsPlaces, EndsPlaces,
     PumpPlaces, ServerOpensPlaces, ClosedPlaces DEF vars

\* The generators have ended when close() goes on to the pumps.
LEMMA RestStep ==
  ASSUME Base, [Next]_vars
  PROVE  Rest'
<1>1. Typed /\ Rest
  BY DEF Base
<1>2. CASE Moved
  <2>1. PICK s \in Streams, y \in Generators : st' = [st EXCEPT ![s] = y] /\ Moves(s, y)
    BY <1>2 DEF Moved
  <2>2. CASE Begins(s, y) \/ Opens(s, y) \/ Misses(s, y) \/ Learns(s, y) \/ Reads(s, y)
    <3>1. closing = "open" /\ closing' = closing
      BY <2>2 DEF Begins, Opens, Misses, Learns, Reads, Quietly, Skips, Takes, Finishes
    <3> QED
      BY <3>1 DEF Rest
  <2>3. CASE Asks(s, y) \/ Departs(s, y) \/ Resigns(s, y)
    <3>1. st[s].place \notin Ended \cup {"none"} /\ closing' = closing
      BY <2>3 DEF Asks, Departs, Resigns, Quietly, Ended
    <3> QED
      BY <1>1, <3>1 DEF Rest, Idling
  <2> QED
    BY <2>1, <2>2, <2>3 DEF Moves
<1>3. CASE Steady
  <2>1. Idling => Idling'
    BY <1>3 DEF Steady, Idling
  <2>2. closing' = closing \/ CloseClient \/ ClosePumps \/ CloseSource
    <3>1. CASE Moved
      <4>1. PICK s \in Streams, y \in Generators : Moves(s, y)
        BY <3>1 DEF Moved
      <4> QED
        BY <4>1 DEF Moves, Begins, Opens, Misses, Learns, Asks, Reads, Departs, Resigns, Quietly
    <3>2. ASSUME NEW s \in Streams, NEW t \in Transports,
                 \/ Retire(s, "none") \/ Retire(s, "closed") \/ TransportFails(t)
                 \/ ReaderEnds(t) \/ RetireEnds(t) \/ Pump(t)
                 \/ ServerOpens(s, t) \/ ServerSends(t, s)
          PROVE  closing' = closing
      BY <3>2 DEF Retire, TransportFails, ReaderEnds, RetireEnds, Pump, ServerOpens, ServerSends
    <3>3. CASE UNCHANGED vars
      BY <3>3 DEF vars
    <3>4. ASSUME NEW t \in Transports,
                 TransportFails(t) \/ ReaderEnds(t) \/ RetireEnds(t) \/ Pump(t)
          PROVE  closing' = closing
      BY <3>4 DEF TransportFails, ReaderEnds, RetireEnds, Pump
    <3>5. ASSUME NEW s \in Streams, NEW to \in {"none", "closed"}, Retire(s, to)
          PROVE  closing' = closing
      BY <3>5 DEF Retire
    <3> QED
      BY <3>1, <3>2, <3>3, <3>4, <3>5, Steps DEF Closed
  <2> QED
    BY <1>1, <2>1, <2>2 DEF Rest, CloseClient, ClosePumps, CloseSource
<1> QED
  BY <1>2, <1>3, PlacesStep

-----------------------------------------------------------------------------
(* What the server knows. *)

\* A step that takes no generator elsewhere and adds nothing to what is known.
LEMMA KnownSteady ==
  ASSUME KnownThere, Steady,
         \A q \in Streams, u \in Transports :
           Known(q, u)' /\ link'[u] \in {"none", "open"} =>
             Known(q, u) /\ link[u] \in {"none", "open"}
  PROVE  KnownThere'
  BY DEF KnownThere, Steady

\* The streams of a transport that fails are forgotten.
LEMMA LoseKnown ==
  ASSUME Base, NEW t \in Transports, Lose(t), link[t] = "open",
         NEW v \in {"failing", "retired"}, link' = [link EXCEPT ![t] = v], Steady
  PROVE  AskedOnce' /\ ServedOnce' /\ KnownThere'
<1>1. Typed /\ AskedOnce /\ ServedOnce /\ KnownThere
  BY DEF Base
<1>2. /\ \A u \in Transports : served'[u] = IF u = t THEN <<>> ELSE served[u]
      /\ asked' = {x \in asked : x[2] # t} /\ Len(<<>>) = 0
      /\ \A u \in Transports : link'[u] = IF u = t THEN v ELSE link[u]
  BY <1>1 DEF Typed, Lose
<1>3. \A q \in Streams, u \in Transports : <<q, u>> \in asked' => <<q, u>> \in asked /\ u # t
  BY <1>2
<1>4. AskedOnce'
  BY <1>1, <1>2, <1>3 DEF AskedOnce
<1>5. ServedOnce'
  BY <1>1, <1>2 DEF ServedOnce
<1>6. ASSUME NEW q \in Streams, NEW u \in Transports, Known(q, u)', link'[u] \in {"none", "open"}
      PROVE  Known(q, u) /\ link[u] \in {"none", "open"}
  <2>1. u # t
    BY <1>2, <1>6
  <2>2. served'[u] = served[u] /\ link'[u] = link[u]
    BY <1>2, <2>1
  <2> QED
    BY <1>3, <1>6, <2>2 DEF Known
<1> QED
  BY <1>1, <1>4, <1>5, <1>6, KnownSteady

\* The server handles a request.
LEMMA ServerOpensKnown ==
  ASSUME Base, NEW s \in Streams, NEW t \in Transports, ServerOpens(s, t)
  PROVE  AskedOnce' /\ ServedOnce' /\ KnownThere'
<1>1. Typed /\ AskedOnce /\ ServedOnce /\ KnownThere /\ Steady
  BY ServerOpensPlaces DEF Base
<1>2. /\ <<s, t>> \in asked /\ asked' = asked \ {<<s, t>>} /\ UNCHANGED link
      /\ served' = served \/ served' = [served EXCEPT ![t] = Append(@, s)]
  BY DEF ServerOpens
<1>3. CASE served' = served
  <2>1. AskedOnce' /\ ServedOnce'
    BY <1>1, <1>2, <1>3 DEF AskedOnce, ServedOnce
  <2>2. \A q \in Streams, u \in Transports : Known(q, u)' => Known(q, u)
    BY <1>2, <1>3 DEF Known
  <2> QED
    BY <1>1, <1>2, <2>1, <2>2, KnownSteady
<1>4. CASE served' = [served EXCEPT ![t] = Append(@, s)]
  <2> DEFINE n == Len(served[t])
  <2>1. /\ n \in Nat /\ served'[t] = Append(served[t], s) /\ Len(served'[t]) = n + 1
        /\ \A k \in 1..n : served'[t][k] = served[t][k]
        /\ served'[t][n + 1] = s
        /\ \A u \in Transports : u # t => served'[u] = served[u]
    BY <1>1, <1>4 DEF Typed
  <2>2. \A k \in 1..n : served[t][k] # s
    BY <1>1, <1>2 DEF AskedOnce
  <2>3. AskedOnce'
    <3> SUFFICES ASSUME NEW q \in Streams, NEW u \in Transports, <<q, u>> \in asked',
                        NEW k \in 1..Len(served'[u])
                 PROVE  served'[u][k] # q
      BY DEF AskedOnce
    <3>1. <<q, u>> \in asked /\ <<q, u>> # <<s, t>>
      BY <1>2
    <3>2. CASE u # t
      BY <1>1, <2>1, <3>1, <3>2 DEF AskedOnce
    <3>3. CASE u = t
      <4>1. q # s /\ (\A j \in 1..n : served[t][j] # q) /\ k \in 1..(n + 1)
        BY <1>1, <2>1, <3>1, <3>3 DEF AskedOnce
      <4> HIDE DEF n
      <4>2. k \in 1..n \/ k = n + 1
        BY <2>1, <4>1
      <4> QED
        BY <2>1, <3>3, <4>1, <4>2
    <3> QED
      BY <3>2, <3>3
  <2>4. ServedOnce'
    <3> SUFFICES ASSUME NEW u \in Transports, NEW k \in 1..Len(served'[u]),
                        NEW l \in 1..Len(served'[u]), served'[u][k] = served'[u][l]
                 PROVE  k = l
      BY DEF ServedOnce
    <3>1. CASE u # t
      BY <1>1, <2>1, <3>1 DEF ServedOnce
    <3>2. CASE u = t
      <4>1. k \in 1..(n + 1) /\ l \in 1..(n + 1)
        BY <2>1, <3>2
      <4>2. \A i, j \in 1..n : served[t][i] = served[t][j] => i = j
        BY <1>1 DEF ServedOnce
      <4> HIDE DEF n
      <4>3. (k \in 1..n \/ k = n + 1) /\ (l \in 1..n \/ l = n + 1)
        BY <2>1, <4>1
      <4> QED
        BY <2>1, <2>2, <3>2, <4>2, <4>3
    <3> QED
      BY <3>1, <3>2
  <2>5. ASSUME NEW q \in Streams, NEW u \in Transports, Known(q, u)'
        PROVE  Known(q, u)
    <3>1. CASE <<q, u>> \in asked'
      BY <1>2, <3>1 DEF Known
    <3>2. ASSUME NEW k \in 1..Len(served'[u]), served'[u][k] = q
          PROVE  Known(q, u)
      <4>1. CASE u # t
        BY <2>1, <3>2, <4>1 DEF Known
      <4>2. CASE u = t /\ k \in 1..n
        BY <2>1, <3>2, <4>2 DEF Known
      <4>3. CASE u = t /\ k = n + 1
        BY <1>2, <2>1, <3>2, <4>3 DEF Known
      <4> HIDE DEF n
      <4>4. u = t => k \in 1..n \/ k = n + 1
        BY <2>1, <3>2
      <4> QED
        BY <4>1, <4>2, <4>3, <4>4
    <3> QED
      BY <2>5, <3>1, <3>2 DEF Known
  <2> QED
    BY <1>1, <1>2, <2>3, <2>4, <2>5, KnownSteady
<1> QED
  BY <1>2, <1>3, <1>4

\* A generator that ends or moves on is not known to a transport that is open,
\* and is known to the one that it asks.
LEMMA MovedKnown ==
  ASSUME Base, Moved
  PROVE  AskedOnce' /\ ServedOnce' /\ KnownThere'
<1>1. Typed /\ AllPlaces /\ AskedOnce /\ ServedOnce /\ KnownThere
  BY DEF Base
<1>2. PICK s \in Streams, y \in Generators : st' = [st EXCEPT ![s] = y] /\ Moves(s, y)
  BY DEF Moved
<1>3. \A q \in Streams : st'[q] = IF q = s THEN y ELSE st[q]
  BY <1>1, <1>2 DEF Typed
<1>4. /\ st[s] \in Generators /\ PlaceOK(st[s])
      /\ \A t \in Transports : /\ Known(s, t) /\ link[t] \in {"none", "open"}
                               /\ st[s].place \notin Ended
                               => st[s].on = t /\ st[s].place \notin {"none", "getting"}
  BY <1>1 DEF Typed, AllPlaces, KnownThere
<1>5. CASE Opens(s, y)
  <2>1. PICK t \in Transports :
          /\ y = [st[s] EXCEPT !.place = "opening", !.on = t, !.ack = "pending",
                               !.stale = st[s].queue # <<>>]
          /\ asked' = asked \cup {<<s, t>>}
          /\ (link[t] = "open" /\ UNCHANGED link)
             \/ (link[t] = "none" /\ link' = [link EXCEPT ![t] = "open"])
    BY <1>5, Zenon DEF Opens
  <2>2. st[s].place = "getting" /\ UNCHANGED served
    BY <1>5 DEF Opens
  <2>3. \A u \in Transports : link[u] \in {"none", "open"} => ~Known(s, u)
    BY <1>4, <2>2 DEF Ended
  <2>4. /\ \A u \in Transports : link'[u] \in {"none", "open"} <=> link[u] \in {"none", "open"}
        /\ link[t] \in {"none", "open"}
    BY <1>1, <2>1 DEF Typed
  <2>5. AskedOnce'
    BY <1>1, <2>1, <2>2, <2>3, <2>4 DEF AskedOnce, Known
  <2>6. ServedOnce'
    BY <1>1, <2>2 DEF ServedOnce
  <2>7. \A q \in Streams, u \in Transports : Known(q, u)' => Known(q, u) \/ (q = s /\ u = t)
    BY <2>1, <2>2 DEF Known
  <2>8. y.on = t /\ y.place = "opening"
    BY <1>4, <2>1 DEF Generators
  <2>9. KnownThere'
    BY <1>1, <1>3, <2>3, <2>4, <2>7, <2>8 DEF KnownThere
  <2> QED
    BY <2>5, <2>6, <2>9
<1>6. ASSUME UNCHANGED <<link, served, asked>>,
             \/ y.place \in Ended
             \/ st[s].place = "none"
             \/ /\ y.on = st[s].on /\ y.place \notin {"none", "getting"}
                /\ st[s].place \notin Ended
             \/ Settled(st[s].on) /\ st[s].place \notin Ended
      PROVE  AskedOnce' /\ ServedOnce' /\ KnownThere'
  <2>1. AskedOnce' /\ ServedOnce'
    BY <1>1, <1>6 DEF AskedOnce, ServedOnce
  <2>2. \A q \in Streams, u \in Transports : Known(q, u)' <=> Known(q, u)
    BY <1>6 DEF Known
  <2>3. KnownThere'
    BY <1>1, <1>3, <1>4, <1>6, <2>2 DEF KnownThere, Settled, Ended
  <2> QED
    BY <2>1, <2>3
<1>7. ASSUME Quietly
      PROVE  UNCHANGED <<link, served, asked>>
  BY <1>7 DEF Quietly
<1>8. CASE Begins(s, y)
  BY <1>6, <1>7, <1>8 DEF Begins
<1>9. CASE Misses(s, y)
  <2>1. y = Left(st[s], "error") /\ UNCHANGED <<link, served, asked>>
    BY <1>9 DEF Misses, serverV
  <2>2. y.place \in Ended
    BY <1>4, <2>1, LeftFacts DEF Ended
  <2> QED
    BY <1>6, <2>1, <2>2
<1>10. CASE Learns(s, y)
  <2>1. /\ y = [st[s] EXCEPT !.id = st[s].told, !.opened = TRUE,
                             !.place = IF st[s].opened THEN "reading" ELSE "held"]
        /\ st[s].place = "opening" /\ Quietly
    BY <1>10 DEF Learns
  <2>2. y.on = st[s].on /\ y.place \in {"reading", "held"}
    BY <1>4, <2>1 DEF Generators
  <2> QED
    BY <1>6, <1>7, <2>1, <2>2 DEF Ended
<1>11. CASE Asks(s, y)
  <2>1. y = [st[s] EXCEPT !.place = "reading"] /\ st[s].place = "held" /\ Quietly
    BY <1>11 DEF Asks
  <2>2. y.on = st[s].on /\ y.place = "reading"
    BY <1>4, <2>1 DEF Generators
  <2> QED
    BY <1>6, <1>7, <2>1, <2>2 DEF Ended
<1>12. ASSUME NEW x \in Generators, NEW to \in {"getting"} \cup Ended, Cleaned(s, x, to, y),
              x.on = st[s].on, st[s].place \notin Ended, Quietly,
              to = "getting" => Settled(st[s].on)
       PROVE  AskedOnce' /\ ServedOnce' /\ KnownThere'
  <2>1. CASE y = Left(x, to)
    <3>1. y.place \in Ended \/ Settled(st[s].on)
      BY <1>12, <2>1, LeftWhere
    <3> QED
      BY <1>6, <1>7, <1>12, <3>1
  <2>2. CASE y = [x EXCEPT !.place = "unwinding", !.after = to]
    <3>1. y.on = st[s].on /\ y.place = "unwinding"
      BY <1>12, <2>2 DEF Generators
    <3> QED
      BY <1>6, <1>7, <1>12, <3>1
  <2> QED
    BY <1>12, <2>1, <2>2 DEF Cleaned
<1>13. CASE Reads(s, y)
  <2> DEFINE m == Head(st[s].queue)
             z == [st[s] EXCEPT !.queue = Tail(@)]
  <2>1. Quietly /\ st[s].place = "reading" /\ st[s].queue # <<>>
    BY <1>13 DEF Reads, Skips, Takes, Finishes
  <2>2. Tail(st[s].queue) \in Seq(Msgs)
    BY <1>4, <2>1 DEF Generators
  <2>3. z \in Generators /\ z.on = st[s].on /\ z.place = "reading"
    BY <1>4, <2>1, <2>2 DEF Generators
  <2>4. CASE Skips(s, y)
    <3>1. y = z
      BY <2>4 DEF Skips
    <3> QED
      BY <1>6, <1>7, <2>1, <2>3, <3>1 DEF Ended
  <2>5. CASE Takes(s, y)
    <3>1. y = [st[s] EXCEPT !.queue = Tail(@), !.got = Append(@, m), !.place = "held"]
      BY <2>5 DEF Takes
    <3>2. y.on = st[s].on /\ y.place = "held"
      BY <1>4, <3>1 DEF Generators
    <3> QED
      BY <1>6, <1>7, <2>1, <3>2 DEF Ended
  <2>6. CASE Finishes(s, y)
    <3>1. Cleaned(s, z, "complete", y)
      BY <2>6 DEF Finishes
    <3> HIDE DEF z
    <3> QED
      BY <1>12, <2>1, <2>3, <3>1 DEF Ended
  <2> QED
    BY <1>13, <2>4, <2>5, <2>6 DEF Reads
<1>14. CASE Departs(s, y)
  <2>1. PICK to \in {"getting", "error", "closed"} :
          Cleaned(s, st[s], to, y) /\ (to = "getting" => Settled(st[s].on))
    BY <1>14, Zenon DEF Departs
  <2>2. Quietly /\ st[s].place \notin Ended
    BY <1>14 DEF Departs, Ended
  <2> QED
    BY <1>4, <1>12, <2>1, <2>2 DEF Ended
<1>15. CASE Resigns(s, y)
  <2>1. PICK to \in {"closed", st[s].after} :
          y = Left(st[s], to) /\ (st[s].place = "getting" => to = "closed")
    BY <1>15, Zenon DEF Resigns
  <2>2. Quietly /\ st[s].place \in {"getting", "unwinding"}
    BY <1>15 DEF Resigns
  <2>3. to \in Ended
    BY <1>4, <2>1, <2>2 DEF PlaceOK, Ended
  <2>4. y.place \in Ended
    BY <1>4, <2>1, <2>3, LeftWhere DEF Ended
  <2> QED
    BY <1>6, <1>7, <2>2, <2>4
<1> QED
  BY <1>2, <1>5, <1>8, <1>9, <1>10, <1>11, <1>13, <1>14, <1>15 DEF Moves

\* What the server knows after every step.
LEMMA KnownStep ==
  ASSUME Base, [Next]_vars
  PROVE  AskedOnce' /\ ServedOnce' /\ KnownThere'
<1>1. Typed /\ AllPlaces /\ AskedOnce /\ ServedOnce /\ KnownThere
  BY DEF Base
<1>2. ASSUME UNCHANGED <<served, asked>>, Steady,
             \A t \in Transports : link'[t] \in {"none", "open"} => link[t] \in {"none", "open"}
      PROVE  AskedOnce' /\ ServedOnce' /\ KnownThere'
  <2>1. AskedOnce' /\ ServedOnce'
    BY <1>1, <1>2 DEF AskedOnce, ServedOnce
  <2>2. \A q \in Streams, u \in Transports : Known(q, u)' <=> Known(q, u)
    BY <1>2 DEF Known
  <2> QED
    BY <1>1, <1>2, <2>1, <2>2, KnownSteady
<1>3. ASSUME NEW s \in Streams, NEW to \in {"none", "closed"}, Retire(s, to)
      PROVE  AskedOnce' /\ ServedOnce' /\ KnownThere'
  <2>1. PICK t \in Transports : t = st[s].on
    BY <1>1, <1>3 DEF Retire, AllPlaces, PlaceOK, Live
  <2>2. /\ Lose(t) /\ link[t] = "open" /\ link' = [link EXCEPT ![t] = "retired"]
    BY <1>3, <2>1 DEF Retire
  <2>3. Steady
    BY <1>3, RetirePlaces, Steps
  <2> QED
    BY <2>2, <2>3, LoseKnown
<1>4. ASSUME NEW t \in Transports, TransportFails(t)
      PROVE  AskedOnce' /\ ServedOnce' /\ KnownThere'
  <2>1. /\ Lose(t) /\ link[t] = "open" /\ link' = [link EXCEPT ![t] = "failing"]
    BY <1>4 DEF TransportFails
  <2>2. Steady
    BY <1>4, TransportFailsPlaces
  <2> QED
    BY <2>1, <2>2, LoseKnown
<1>5. ASSUME NEW t \in Transports, ReaderEnds(t) \/ RetireEnds(t)
      PROVE  AskedOnce' /\ ServedOnce' /\ KnownThere'
  <2>1. UNCHANGED <<served, asked>> /\ link' = [link EXCEPT ![t] = "failed"]
    BY <1>5 DEF ReaderEnds, RetireEnds, serverV
  <2>2. Steady
    BY <1>5, EndsPlaces
  <2> QED
    BY <1>1, <1>2, <2>1, <2>2 DEF Typed
<1>6. ASSUME NEW t \in Transports, Pump(t)
      PROVE  AskedOnce' /\ ServedOnce' /\ KnownThere'
  <2>1. UNCHANGED <<served, asked, link>>
    BY <1>6 DEF Pump, serverV
  <2>2. Steady
    BY <1>6, PumpPlaces
  <2> QED
    BY <1>2, <2>1, <2>2
<1>7. ASSUME NEW t \in Transports, NEW i \in Streams, ServerSends(t, i)
      PROVE  AskedOnce' /\ ServedOnce' /\ KnownThere'
  <2>1. UNCHANGED <<served, asked, link, st, subs>>
    BY <1>7 DEF ServerSends
  <2> QED
    BY <1>2, <2>1 DEF Steady
<1>8. CASE Closed
  <2>1. UNCHANGED <<served, asked>>
    BY <1>8 DEF Closed, CloseClient, ClosePumps, CloseSource, serverV
  <2>2. \A t \in Transports : link'[t] \in {"none", "open"} => link[t] \in {"none", "open"}
    BY <1>8 DEF Closed, CloseClient, ClosePumps, CloseSource
  <2> QED
    BY <1>2, <1>8, <2>1, <2>2, ClosedPlaces
<1>9. CASE UNCHANGED vars
  <2>1. UNCHANGED <<served, asked, link, st, subs>>
    BY <1>9 DEF vars, serverV
  <2> QED
    BY <1>2, <2>1 DEF Steady
<1> QED
  BY <1>3, <1>4, <1>5, <1>6, <1>7, <1>8, <1>9, Steps, MovedKnown, ServerOpensKnown

-----------------------------------------------------------------------------
(* Types. *)

\* In the beginning nothing is open.
LEMMA BaseInit ==
  ASSUME Init
  PROVE  Base
<1>1. Idle \in Generators /\ Idle.place = "none" /\ Idle.queue = <<>> /\ Len(<<>>) = 0
      /\ PlaceOK(Idle)
  <2>1. Fresh(Idle) /\ Idle.place = "none" /\ ~Idle.opened /\ Idle.queue = <<>>
    BY DEF Idle, Fresh
  <2> QED
    BY <2>1, IdleType DEF PlaceOK, Fresh, Live, Ended
<1>2. \A s \in Streams : st[s] = Idle
  BY DEF Init
<1>3. Typed
  <2>1. Silence \in [Streams -> 0..(MaxItems + 1)] /\ <<>> \in Seq(Streams) /\ <<>> \in Seq(Msgs)
    BY DEF Silence
  <2>2. /\ link \in [Transports -> Links] /\ inbox \in [Transports -> Seq(Msgs)]
        /\ pump \in [Transports -> {"none", "running", "over"}]
        /\ subs \in [Transports -> SUBSET Streams]
    BY <2>1 DEF Init, Links
  <2>3. /\ served \in [Transports -> Seq(Streams)]
        /\ said \in [Transports -> [Streams -> 0..(MaxItems + 1)]]
    BY <2>1 DEF Init
  <2>4. st \in [Streams -> Generators]
    BY <1>1 DEF Init
  <2> QED
    BY <2>2, <2>3, <2>4 DEF Init, Typed
<1>4. QueuesBounded /\ AllPlaces
  BY <1>1, <1>2 DEF QueuesBounded, AllPlaces
<1>5. InOrder
  <2>1. \A t \in Transports : link[t] # "none" <=> t <= 0
    BY DEF Init, Transports
  <2>2. 0 \in 0..MaxTransports
    OBVIOUS
  <2> QED
    BY <2>1, <2>2 DEF InOrder
<1>6. Subscribed /\ Rest
  BY <1>1, <1>2 DEF Init, Subscribed, Rest, Live
<1>7. AskedOnce /\ ServedOnce
  BY DEF Init, AskedOnce, ServedOnce
<1>8. KnownThere
  BY DEF Init, KnownThere, Known
<1> QED
  BY <1>3, <1>4, <1>5, <1>6, <1>7, <1>8 DEF Base

LEMMA BaseStep ==
  ASSUME Base, [Next]_vars
  PROVE  Base'
  BY Steps, InOrderStep, PlacesStep, RestStep, KnownStep DEF Base

LEMMA TypedGivesTypeOK ==
  ASSUME Typed, QueuesBounded
  PROVE  TypeOK
<1>1. \A s \in Streams : StreamOK(st[s])
  BY DEF Typed, QueuesBounded, Generators, StreamOK, Acks
<1> QED
  BY <1>1 DEF Typed, TypeOK, Links

LEMMA BaseHolds == Spec => []Base
<1>1. Init => Base
  BY BaseInit
<1>2. Base /\ [Next]_vars => Base'
  BY BaseStep
<1> QED
  BY <1>1, <1>2, PTL DEF Spec

\* Every variable has its type, no queue is larger than notification_queue_size, and
\* the server gives no more ids than there are streams (core.py.j2: RpcStream and the
\* subscriptions of the notification hub).
THEOREM TypeCorrect == Spec => []TypeOK
<1>1. Base => TypeOK
  BY TypedGivesTypeOK DEF Base
<1> QED
  BY <1>1, BaseHolds, PTL

-----------------------------------------------------------------------------
(* NoOrphans. *)

\* The server knows nothing of a transport that was never opened.
Unused ==
  \A t \in Transports : link[t] = "none" =>
    /\ inbox[t] = <<>> /\ served[t] = <<>> /\ said[t] = Silence
    /\ \A s \in Streams : <<s, t>> \notin asked

\* Whoever asked to open a stream waits for the answer, or has given it up.
AskedFor ==
  \A s \in Streams, t \in Transports :
    <<s, t>> \in asked => Waits(s, t) \/ <<s, t>> \in abandoned

\* The generator x has, or will soon learn that it has, the stream i of t.
Has(x, t, i) ==
  /\ x.on = t
  /\ \/ x.place = "opening" /\ x.ack = "answered" /\ x.told = i
     \/ x.place \in {"held", "reading", "unwinding"} /\ x.id = i

\* NoOrphans, also while the client is being closed.
Attended ==
  \A t \in Transports : link[t] = "open" =>
    \A i \in 1..Len(served[t]) :
      \/ said[t][i] > MaxItems \/ <<t, i>> \in stopped \/ <<served[t][i], t>> \in abandoned
      \/ Has(st[served[t][i]], t, i)

Waited == Base /\ Unused /\ AskedFor /\ Attended

LEMMA UnusedStep ==
  ASSUME Base, Unused, [Next]_vars
  PROVE  Unused'
<1>1. Typed /\ AllPlaces
  BY DEF Base
<1>2. CASE Moved
  <2>1. PICK s \in Streams, y \in Generators : Moves(s, y)
    BY <1>2 DEF Moved
  <2>2. CASE Opens(s, y)
    <3>1. PICK t \in Transports :
            /\ asked' = asked \cup {<<s, t>>}
            /\ (link[t] = "open" /\ UNCHANGED link) \/ link' = [link EXCEPT ![t] = "open"]
      BY <2>2, Zenon DEF Opens
    <3>2. UNCHANGED <<inbox, served, said>> /\ link'[t] = "open"
      BY <1>1, <2>2, <3>1 DEF Opens, Typed
    <3>3. \A u \in Transports : link'[u] = "none" => link[u] = "none" /\ u # t
      BY <1>1, <3>1, <3>2 DEF Typed
    <3> QED
      BY <3>1, <3>2, <3>3 DEF Unused
  <2>3. CASE UNCHANGED <<link, inbox, served, said, asked>>
    BY <2>3 DEF Unused
  <2>4. CASE Quietly
    BY <2>3, <2>4 DEF Quietly
  <2>5. CASE Begins(s, y) \/ Learns(s, y) \/ Asks(s, y) \/ Reads(s, y) \/ Departs(s, y)
             \/ Resigns(s, y)
    <3>1. Quietly
      BY <2>5, Zenon DEF Begins, Learns, Asks, Reads, Departs, Resigns
    <3> QED
      BY <2>4, <3>1
  <2>6. CASE Misses(s, y)
    BY <2>3, <2>6 DEF Misses, serverV
  <2> QED
    BY <2>1, <2>2, <2>5, <2>6 DEF Moves
<1>3. ASSUME NEW t \in Transports, Lose(t), UNCHANGED inbox,
             NEW v, v # "none", link' = [link EXCEPT ![t] = v]
      PROVE  Unused'
  <2>1. \A u \in Transports : link'[u] = "none" => link[u] = "none" /\ u # t
    BY <1>1, <1>3 DEF Typed
  <2>2. /\ \A u \in Transports : u # t => served'[u] = served[u] /\ said'[u] = said[u]
        /\ asked' \subseteq asked
    BY <1>1, <1>3 DEF Typed, Lose
  <2> QED
    BY <1>3, <2>1, <2>2 DEF Unused
<1>4. ASSUME NEW s \in Streams, NEW to \in {"none", "closed"}, Retire(s, to)
      PROVE  Unused'
  <2>1. st[s].on \in Transports
    BY <1>1, <1>4 DEF Retire, AllPlaces, PlaceOK, Live
  <2>2. Lose(st[s].on) /\ link' = [link EXCEPT ![st[s].on] = "retired"] /\ UNCHANGED inbox
    BY <1>4 DEF Retire
  <2>3. PICK t \in Transports : t = st[s].on
    BY <2>1
  <2> QED
    BY <1>3, <2>2, <2>3
<1>5. ASSUME NEW t \in Transports, TransportFails(t)
      PROVE  Unused'
  <2>1. Lose(t) /\ link' = [link EXCEPT ![t] = "failing"] /\ UNCHANGED inbox
    BY <1>5 DEF TransportFails
  <2> QED
    BY <1>3, <2>1
<1>6. ASSUME NEW t \in Transports, ReaderEnds(t) \/ RetireEnds(t)
      PROVE  Unused'
  <2>1. UNCHANGED <<served, said, asked>>
    BY <1>6 DEF ReaderEnds, RetireEnds, serverV
  <2>2. /\ \A u \in Transports : link'[u] = "none" => link[u] = "none" /\ u # t
        /\ \A u \in Transports : u # t => inbox'[u] = inbox[u]
    <3>1. link' = [link EXCEPT ![t] = "failed"]
          /\ \E m \in Msgs : inbox' = [inbox EXCEPT ![t] = Append(@, m)]
      BY <1>1, <1>6, EndsFacts
    <3>2. \A u \in Transports : link'[u] = "none" => link[u] = "none" /\ u # t
      BY <1>1, <3>1 DEF Typed
    <3>3. PICK m \in Msgs : inbox' = [inbox EXCEPT ![t] = Append(@, m)]
      BY <3>1
    <3> QED
      BY <1>1, <3>2, <3>3 DEF Typed
  <2> QED
    BY <2>1, <2>2 DEF Unused
<1>7. ASSUME NEW t \in Transports, Pump(t)
      PROVE  Unused'
  <2>1. UNCHANGED <<served, said, asked, link>> /\ inbox' = [inbox EXCEPT ![t] = Tail(@)]
        /\ inbox[t] # <<>>
    BY <1>7 DEF Pump, serverV
  <2> QED
    BY <1>1, <2>1 DEF Unused, Typed
<1>8. ASSUME NEW s \in Streams, NEW t \in Transports, ServerOpens(s, t)
      PROVE  Unused'
  <2>1. /\ UNCHANGED <<said, link, inbox>> /\ <<s, t>> \in asked /\ asked' \subseteq asked
        /\ served' = served \/ served' = [served EXCEPT ![t] = Append(@, s)]
    BY <1>8 DEF ServerOpens
  <2>2. \A u \in Transports : u # t => served'[u] = served[u]
    BY <1>1, <2>1 DEF Typed
  <2> QED
    BY <2>1, <2>2 DEF Unused
<1>9. ASSUME NEW t \in Transports, NEW i \in Streams, ServerSends(t, i)
      PROVE  Unused'
  <2>1. /\ UNCHANGED <<served, link, asked>> /\ link[t] = "open"
        /\ \A u \in Transports : u # t => inbox'[u] = inbox[u] /\ said'[u] = said[u]
    BY <1>1, <1>9 DEF ServerSends, Put, Typed
  <2> QED
    BY <2>1 DEF Unused
<1>10. CASE Closed \/ UNCHANGED vars
  <2>1. /\ UNCHANGED <<served, said, asked, inbox>>
        /\ \A u \in Transports : link'[u] = "none" => link[u] = "none"
    BY <1>10 DEF Closed, CloseClient, ClosePumps, CloseSource, serverV, vars
  <2> QED
    BY <2>1 DEF Unused
<1> QED
  BY <1>2, <1>4, <1>5, <1>6, <1>7, <1>8, <1>9, <1>10, Steps

\* A step that takes no stream from its generator without having it cancelled, and
\* no request without giving it up.
LEMMA AttendedKept ==
  ASSUME AskedFor, Attended,
         \A q \in Streams, u \in Transports :
           <<q, u>> \in asked' =>
             /\ <<q, u>> \in asked
             /\ Waits(q, u) => Waits(q, u)' \/ <<q, u>> \in abandoned'
             /\ <<q, u>> \in abandoned => <<q, u>> \in abandoned',
         \A u \in Transports : link'[u] = "open" =>
           /\ link[u] = "open" /\ served'[u] = served[u]
           /\ \A i \in 1..Len(served[u]) :
                /\ said[u][i] > MaxItems => said'[u][i] > MaxItems
                /\ <<u, i>> \in stopped => <<u, i>> \in stopped'
                /\ \A q \in Streams : <<q, u>> \in abandoned => <<q, u>> \in abandoned'
                /\ \A q \in Streams : Has(st[q], u, i) =>
                     Has(st[q], u, i)' \/ <<u, i>> \in stopped' \/ <<q, u>> \in abandoned',
         Typed
  PROVE  AskedFor' /\ Attended'
<1>1. AskedFor'
  BY DEF AskedFor
<1>2. ASSUME NEW u \in Transports, link'[u] = "open", NEW i \in 1..Len(served'[u])
      PROVE  \/ said'[u][i] > MaxItems \/ <<u, i>> \in stopped'
             \/ <<served'[u][i], u>> \in abandoned' \/ Has(st[served[u][i]], u, i)'
  <2>1. /\ link[u] = "open" /\ served'[u] = served[u] /\ i \in 1..Len(served[u])
        /\ served[u][i] \in Streams
    BY <1>2 DEF Typed
  <2>2. PICK q \in Streams : q = served[u][i] /\ q = served'[u][i]
    BY <2>1
  <2>3. \/ said[u][i] > MaxItems \/ <<u, i>> \in stopped \/ <<q, u>> \in abandoned
        \/ Has(st[q], u, i)
    BY <2>1, <2>2 DEF Attended
  <2>4. \/ said'[u][i] > MaxItems \/ <<u, i>> \in stopped' \/ <<q, u>> \in abandoned'
        \/ Has(st[q], u, i)'
    BY <1>2, <2>1, <2>3
  <2> QED
    BY <2>2, <2>4 DEF Has
<1>3. Attended'
  BY <1>2 DEF Attended, Has
<1> QED
  BY <1>1, <1>3

\* The generators that are told of a failure had no stream yet.
LEMMA LoseAttended ==
  ASSUME Waited, NEW t \in Transports, Lose(t),
         NEW v \in {"failing", "retired"}, link' = [link EXCEPT ![t] = v],
         \A q \in Streams : st'[q] = Failed(st[q], t) \/ st[q].on = t
  PROVE  AskedFor' /\ Attended'
<1>1. Typed /\ AskedFor /\ Attended
  BY DEF Waited, Base
<1>2. /\ asked' = {x \in asked : x[2] # t} /\ stopped' = {x \in stopped : x[1] # t}
      /\ abandoned' = {x \in abandoned : x[2] # t}
      /\ \A u \in Transports : u # t => served'[u] = served[u] /\ said'[u] = said[u]
      /\ \A u \in Transports : link'[u] = IF u = t THEN v ELSE link[u]
  BY <1>1 DEF Typed, Lose
<1>3. ASSUME NEW q \in Streams, NEW u \in Transports, u # t, st[q].on = u
      PROVE  st'[q] = st[q]
  BY <1>3 DEF Failed
<1>4. ASSUME NEW q \in Streams, NEW u \in Transports, <<q, u>> \in asked'
      PROVE  /\ <<q, u>> \in asked /\ (Waits(q, u) => Waits(q, u)')
             /\ <<q, u>> \in abandoned => <<q, u>> \in abandoned'
  <2>1. u # t /\ <<q, u>> \in asked
    BY <1>2, <1>4
  <2> QED
    BY <1>2, <1>3, <2>1 DEF Waits
<1>5. ASSUME NEW u \in Transports, link'[u] = "open"
      PROVE  /\ link[u] = "open" /\ served'[u] = served[u]
             /\ \A i \in 1..Len(served[u]) :
                  /\ said[u][i] > MaxItems => said'[u][i] > MaxItems
                  /\ <<u, i>> \in stopped => <<u, i>> \in stopped'
                  /\ \A q \in Streams : <<q, u>> \in abandoned => <<q, u>> \in abandoned'
                  /\ \A q \in Streams : Has(st[q], u, i) => Has(st[q], u, i)'
  <2>1. u # t
    BY <1>2, <1>5
  <2> QED
    BY <1>2, <1>3, <1>5, <2>1 DEF Has
<1> QED
  BY <1>1, <1>4, <1>5, AttendedKept

\* A stream that the server opens has a generator that waits for it, or was given up.
LEMMA ServerOpensAttended ==
  ASSUME Waited, NEW s \in Streams, NEW t \in Transports, ServerOpens(s, t)
  PROVE  AskedFor' /\ Attended'
<1> DEFINE n == Len(served[t])
<1>1. Typed /\ AskedFor /\ Attended /\ AskedOnce /\ ServedOnce
  BY DEF Waited, Base
<1>2. /\ <<s, t>> \in asked /\ asked' = asked \ {<<s, t>>}
      /\ UNCHANGED <<link, said, stopped, abandoned>> /\ n \in Nat
  BY <1>1 DEF ServerOpens, Typed
<1>3. /\ \/ /\ served' = [served EXCEPT ![t] = Append(@, s)]
            /\ st' = IF Waits(s, t)
                     THEN [st EXCEPT ![s] = [st[s] EXCEPT !.ack = "answered",
                                                          !.told = n + 1]]
                     ELSE st
         \/ ~Waits(s, t) /\ UNCHANGED <<served, st>>
         \/ /\ Waits(s, t) /\ UNCHANGED served
            /\ st' = [st EXCEPT ![s] = [st[s] EXCEPT !.ack = "failed"]]
  BY <1>1, ServerOpensFacts
<1> HIDE DEF n
<1>4. /\ \A q \in Streams : q # s => st'[q] = st[q]
      /\ ~Waits(s, t) => st' = st
  BY <1>1, <1>3 DEF Typed
<1>5. \A q \in Streams, u \in Transports, i \in Nat : Has(st[q], u, i) => Has(st[q], u, i)'
  <2>1. \A u \in Transports, i \in Nat : Waits(s, t) => ~Has(st[s], u, i)
    BY DEF Waits, Has
  <2> QED
    BY <1>4, <2>1 DEF Has
<1>6. ASSUME NEW q \in Streams, NEW u \in Transports, <<q, u>> \in asked'
      PROVE  /\ <<q, u>> \in asked /\ (Waits(q, u) => Waits(q, u)')
             /\ <<q, u>> \in abandoned => <<q, u>> \in abandoned'
  <2>1. <<q, u>> \in asked /\ ~(q = s /\ u = t)
    BY <1>2, <1>6
  <2>2. CASE q # s
    BY <1>2, <1>4, <2>1, <2>2 DEF Waits
  <2>3. CASE q = s /\ Waits(s, t)
    BY <1>2, <2>1, <2>3 DEF Waits
  <2>4. CASE ~Waits(s, t)
    BY <1>2, <1>4, <2>1, <2>4 DEF Waits
  <2> QED
    BY <2>2, <2>3, <2>4
<1>7. CASE UNCHANGED served
  <2>1. ASSUME NEW u \in Transports, link'[u] = "open"
        PROVE  /\ link[u] = "open" /\ served'[u] = served[u]
               /\ \A i \in 1..Len(served[u]) :
                    /\ said[u][i] > MaxItems => said'[u][i] > MaxItems
                    /\ <<u, i>> \in stopped => <<u, i>> \in stopped'
                    /\ \A q \in Streams : <<q, u>> \in abandoned => <<q, u>> \in abandoned'
                    /\ \A q \in Streams : Has(st[q], u, i) => Has(st[q], u, i)'
    <3>1. \A i \in 1..Len(served[u]) : i \in Nat
      OBVIOUS
    <3> QED
      BY <1>2, <1>5, <1>7, <2>1, <3>1
  <2> QED
    BY <1>1, <1>6, <2>1, AttendedKept
<1>8. CASE /\ served' = [served EXCEPT ![t] = Append(@, s)]
           /\ st' = IF Waits(s, t)
                    THEN [st EXCEPT ![s] = [st[s] EXCEPT !.ack = "answered", !.told = n + 1]]
                    ELSE st
  <2>1. AskedFor'
    BY <1>1, <1>6 DEF AskedFor
  <2>2. /\ served'[t] = Append(served[t], s) /\ Len(served'[t]) = n + 1
        /\ \A k \in 1..n : served'[t][k] = served[t][k]
        /\ served'[t][n + 1] = s /\ n = Len(served[t])
        /\ \A u \in Transports : u # t => served'[u] = served[u]
    BY <1>1, <1>2, <1>8 DEF Typed, n
  <2>3. ASSUME NEW u \in Transports, link'[u] = "open", NEW i \in 1..Len(served'[u])
        PROVE  \/ said'[u][i] > MaxItems \/ <<u, i>> \in stopped'
               \/ <<served'[u][i], u>> \in abandoned' \/ Has(st[served[u][i]], u, i)'
    <3>1. CASE u # t \/ i \in 1..n
      <4>1. served'[u][i] = served[u][i] /\ i \in 1..Len(served[u]) /\ served[u][i] \in Streams
        <5>1. CASE u # t
          <6>1. served'[u] = served[u] /\ i \in 1..Len(served[u])
            BY <2>2, <2>3, <5>1
          <6> QED
            BY <1>1, <6>1 DEF Typed
        <5>2. CASE u = t /\ i \in 1..n
          <6>1. served'[t][i] = served[t][i] /\ i \in 1..Len(served[t])
            BY <2>2, <5>2
          <6>2. served[t] \in Seq(Streams)
            BY <1>1 DEF Typed
          <6>3. served[t][i] \in Streams
            BY <6>1, <6>2
          <6> QED
            BY <5>2, <6>1, <6>3
        <5> QED
          BY <3>1, <5>1, <5>2
      <4>2. PICK q \in Streams : q = served[u][i] /\ q = served'[u][i]
        BY <4>1
      <4>3. \/ said[u][i] > MaxItems \/ <<u, i>> \in stopped \/ <<q, u>> \in abandoned
            \/ Has(st[q], u, i)
        BY <1>1, <1>2, <2>3, <4>1, <4>2 DEF Attended
      <4>4. \/ said'[u][i] > MaxItems \/ <<u, i>> \in stopped' \/ <<q, u>> \in abandoned'
            \/ Has(st[q], u, i)'
        <5>1. i \in Nat
          BY <2>3
        <5> QED
          BY <1>2, <1>5, <4>3, <5>1
      <4> QED
        BY <4>2, <4>4 DEF Has
    <3>2. CASE u = t /\ i = n + 1
      <4>1. served'[u][i] = s
        BY <2>2, <3>2
      <4>2. CASE Waits(s, t)
        <5>1. /\ st'[s].on = t /\ st'[s].place = "opening" /\ st'[s].ack = "answered"
              /\ st'[s].told = n + 1
          BY <1>1, <1>8, <4>2 DEF Typed, Generators, Waits
        <5> QED
          BY <3>2, <4>1, <5>1 DEF Has
      <4>3. CASE ~Waits(s, t)
        BY <1>1, <1>2, <3>2, <4>1, <4>3 DEF AskedFor
      <4> QED
        BY <4>2, <4>3
    <3>3. u = t => i \in 1..n \/ i = n + 1
      BY <1>2, <2>2, <2>3
    <3> QED
      BY <3>1, <3>2, <3>3
  <2>4. Attended'
    BY <2>3 DEF Attended, Has
  <2> QED
    BY <2>1, <2>4
<1> QED
  BY <1>3, <1>7, <1>8

\* A generator that ends with its cleanup has its stream cancelled.
LEMMA CleanedHas ==
  ASSUME NEW s, NEW x \in Generators, NEW to, NEW y, Cleaned(s, x, to, y),
         NEW u \in Transports, NEW i \in Nat \ {0}, Has(x, u, i), link[u] = "open",
         x.place \in {"held", "reading"}
  PROVE  Has(y, u, i)
<1>1. x.on = u /\ x.id = i
  BY DEF Has
<1>2. y = [x EXCEPT !.place = "unwinding", !.after = to]
  BY <1>1 DEF Cleaned
<1> QED
  BY <1>1, <1>2 DEF Has, Generators

\* What a move does to the request and to the stream of its generator.
LEMMA MovesHas ==
  ASSUME Base, AskedFor, NEW s \in Streams, NEW y \in Generators, Moves(s, y), ~Opens(s, y)
  PROVE  /\ UNCHANGED <<link, served, said, asked>>
         /\ stopped \subseteq stopped' /\ abandoned \subseteq abandoned'
         /\ \A u \in Transports : Waits(s, u) => <<s, u>> \in abandoned'
         /\ \A u \in Transports, i \in Nat \ {0} : Has(st[s], u, i) /\ link[u] = "open" =>
              Has(y, u, i) \/ <<u, i>> \in stopped' \/ <<s, u>> \in abandoned'
<1> DEFINE x == st[s]
<1>1. x \in Generators /\ PlaceOK(x)
  BY DEF Base, Typed, AllPlaces
<1>2. ASSUME Quietly
      PROVE  UNCHANGED <<link, served, said, asked>>
  BY <1>2 DEF Quietly
<1>3. CASE Begins(s, y) \/ Misses(s, y)
  <2>1. /\ UNCHANGED <<link, served, said, asked, stopped, abandoned>>
        /\ x.place \in {"none", "getting"}
    BY <1>3 DEF Begins, Misses, Quietly, serverV
  <2> QED
    BY <2>1 DEF Waits, Has
<1>4. CASE Learns(s, y)
  <2>1. /\ UNCHANGED <<link, served, said, asked, stopped, abandoned>>
        /\ x.place = "opening" /\ x.ack = "answered"
        /\ y = [x EXCEPT !.id = x.told, !.opened = TRUE,
                         !.place = IF x.opened THEN "reading" ELSE "held"]
    BY <1>4 DEF Learns, Quietly
  <2>2. y.on = x.on /\ y.id = x.told /\ y.place \in {"reading", "held"}
    BY <1>1, <2>1 DEF Generators
  <2> QED
    BY <2>1, <2>2 DEF Waits, Has
<1>5. CASE Asks(s, y)
  <2>1. /\ UNCHANGED <<link, served, said, asked, stopped, abandoned>>
        /\ x.place = "held" /\ y = [x EXCEPT !.place = "reading"]
    BY <1>5 DEF Asks, Quietly
  <2> QED
    BY <1>1, <2>1 DEF Waits, Has, Generators
<1>6. CASE Reads(s, y)
  <2> DEFINE m == Head(x.queue)
             z == [x EXCEPT !.queue = Tail(@)]
  <2>1. /\ UNCHANGED <<link, served, said, asked, stopped, abandoned>>
        /\ x.place = "reading" /\ x.queue # <<>>
    BY <1>6 DEF Reads, Quietly, Skips, Takes, Finishes
  <2>2. Tail(x.queue) \in Seq(Msgs)
    BY <1>1, <2>1 DEF Generators
  <2>3. z \in Generators /\ z.on = x.on /\ z.place = "reading" /\ z.id = x.id
    BY <1>1, <2>1, <2>2 DEF Generators
  <2>4. ASSUME NEW u \in Transports, NEW i \in Nat \ {0}, Has(x, u, i), link[u] = "open"
        PROVE  Has(y, u, i)
    <3>1. x.on = u /\ x.id = i
      BY <2>1, <2>4 DEF Has
    <3>2. CASE Skips(s, y)
      <4>1. y = z
        BY <3>2 DEF Skips
      <4> QED
        BY <2>3, <3>1, <4>1 DEF Has
    <3>3. CASE Takes(s, y)
      <4>1. y = [x EXCEPT !.queue = Tail(@), !.got = Append(@, m), !.place = "held"]
        BY <3>3 DEF Takes
      <4>2. y.on = x.on /\ y.place = "held" /\ y.id = x.id
        BY <1>1, <4>1 DEF Generators
      <4> QED
        BY <3>1, <4>2 DEF Has
    <3>4. CASE Finishes(s, y)
      <4>1. Cleaned(s, z, "complete", y)
        BY <3>4 DEF Finishes
      <4>2. Has(z, u, i)
        BY <2>3, <3>1 DEF Has
      <4> HIDE DEF z
      <4> QED
        BY <2>3, <2>4, <4>1, <4>2, CleanedHas
    <3> QED
      BY <1>6, <3>2, <3>3, <3>4 DEF Reads
  <2> QED
    BY <2>1, <2>4 DEF Waits
<1>7. CASE Departs(s, y)
  <2>1. PICK to \in {"getting", "error", "closed"} : Cleaned(s, x, to, y)
    BY <1>7, Zenon DEF Departs
  <2>2. /\ UNCHANGED <<link, served, said, asked, stopped>>
        /\ x.place \in {"opening", "held", "reading"}
        /\ \/ abandoned' = abandoned \cup {<<s, x.on>>}
           \/ UNCHANGED abandoned /\ (x.place = "opening" => x.ack = "failed")
    BY <1>7 DEF Departs, Quietly
  <2>3. \A u \in Transports : Waits(s, u) => <<s, u>> \in abandoned'
    BY <2>2 DEF Waits
  <2>4. ASSUME NEW u \in Transports, NEW i \in Nat \ {0}, Has(x, u, i), link[u] = "open"
        PROVE  Has(y, u, i) \/ <<s, u>> \in abandoned'
    <3>1. CASE x.place = "opening"
      BY <2>2, <2>4, <3>1 DEF Has
    <3>2. CASE x.place # "opening"
      BY <1>1, <2>1, <2>2, <2>4, <3>2, CleanedHas
    <3> QED
      BY <3>1, <3>2
  <2> QED
    BY <2>2, <2>3, <2>4
<1>8. CASE Resigns(s, y)
  <2>1. /\ UNCHANGED <<link, served, said, asked>> /\ x.place \in {"getting", "unwinding"}
        /\ stopped \subseteq stopped' /\ abandoned \subseteq abandoned'
        /\ x.place = "unwinding" =>
             \/ link[x.on] # "open"
             \/ <<x.on, x.id>> \in stopped'
             \/ <<s, x.on>> \in abandoned'
    BY <1>8 DEF Resigns, Quietly
  <2> QED
    BY <2>1 DEF Waits, Has
<1> QED
  BY <1>3, <1>4, <1>5, <1>6, <1>7, <1>8 DEF Moves

LEMMA MovedAttended ==
  ASSUME Waited, Moved
  PROVE  AskedFor' /\ Attended'
<1>1. Base /\ Typed /\ AskedFor /\ Attended /\ Unused
  BY DEF Waited, Base
<1>2. PICK s \in Streams, y \in Generators : st' = [st EXCEPT ![s] = y] /\ Moves(s, y)
  BY DEF Moved
<1>3. \A q \in Streams : st'[q] = IF q = s THEN y ELSE st[q]
  BY <1>1, <1>2 DEF Typed
<1>4. \A u \in Transports : \A i \in 1..Len(served[u]) : i \in Nat \ {0}
  OBVIOUS
<1>5. CASE Opens(s, y)
  <2>1. PICK t \in Transports :
          /\ y = [st[s] EXCEPT !.place = "opening", !.on = t, !.ack = "pending",
                               !.stale = st[s].queue # <<>>]
          /\ asked' = asked \cup {<<s, t>>}
          /\ (link[t] = "open" /\ UNCHANGED link)
             \/ (link[t] = "none" /\ link' = [link EXCEPT ![t] = "open"])
    BY <1>5, Zenon DEF Opens
  <2>2. st[s].place = "getting" /\ UNCHANGED <<served, said, stopped, abandoned>>
    BY <1>5 DEF Opens
  <2>3. \A u \in Transports, i \in Nat : ~Has(st[s], u, i) /\ ~Waits(s, u)
    BY <2>2 DEF Has, Waits
  <2>4. y.on = t /\ y.place = "opening" /\ y.ack = "pending"
    BY <1>1, <2>1 DEF Typed, Generators
  <2>5. AskedFor'
    <3> SUFFICES ASSUME NEW q \in Streams, NEW u \in Transports, <<q, u>> \in asked'
                 PROVE  Waits(q, u)' \/ <<q, u>> \in abandoned'
      BY DEF AskedFor
    <3>1. CASE q = s /\ u = t
      BY <1>3, <2>4, <3>1 DEF Waits
    <3>2. CASE ~(q = s /\ u = t)
      <4>1. Waits(q, u) \/ <<q, u>> \in abandoned
        BY <1>1, <2>1, <3>2 DEF AskedFor
      <4>2. Waits(q, u) => q # s
        BY <2>3
      <4> QED
        BY <1>3, <2>2, <4>1, <4>2 DEF Waits
    <3> QED
      BY <3>1, <3>2
  <2>6. ASSUME NEW u \in Transports, link'[u] = "open", NEW i \in 1..Len(served'[u])
        PROVE  \/ said'[u][i] > MaxItems \/ <<u, i>> \in stopped'
               \/ <<served'[u][i], u>> \in abandoned' \/ Has(st[served[u][i]], u, i)'
    <3>1. link[u] = "open"
      <4>1. served[u] # <<>>
        BY <2>2, <2>6
      <4>2. link[u] # "none"
        BY <1>1, <4>1 DEF Unused
      <4> QED
        BY <1>1, <2>1, <2>6, <4>2 DEF Typed
    <3>2. i \in 1..Len(served[u]) /\ served[u][i] \in Streams
      BY <1>1, <2>2, <2>6 DEF Typed
    <3>3. PICK q \in Streams : q = served[u][i] /\ q = served'[u][i]
      BY <2>2, <3>2
    <3>4. \/ said[u][i] > MaxItems \/ <<u, i>> \in stopped \/ <<q, u>> \in abandoned
          \/ Has(st[q], u, i)
      BY <1>1, <3>1, <3>2, <3>3 DEF Attended
    <3>5. Has(st[q], u, i) => q # s
      BY <2>3, <3>2
    <3>6. \/ said'[u][i] > MaxItems \/ <<u, i>> \in stopped' \/ <<q, u>> \in abandoned'
          \/ Has(st[q], u, i)'
      BY <1>3, <2>2, <3>4, <3>5 DEF Has
    <3> QED
      BY <3>3, <3>6 DEF Has
  <2> QED
    BY <2>5, <2>6 DEF Attended, Has
<1>6. CASE ~Opens(s, y)
  <2>1. /\ UNCHANGED <<link, served, said, asked>>
        /\ stopped \subseteq stopped' /\ abandoned \subseteq abandoned'
        /\ \A u \in Transports : Waits(s, u) => <<s, u>> \in abandoned'
        /\ \A u \in Transports, i \in Nat \ {0} : Has(st[s], u, i) /\ link[u] = "open" =>
             Has(y, u, i) \/ <<u, i>> \in stopped' \/ <<s, u>> \in abandoned'
    BY <1>1, <1>2, <1>6, MovesHas
  <2>2. ASSUME NEW q \in Streams, NEW u \in Transports, <<q, u>> \in asked'
        PROVE  /\ <<q, u>> \in asked
               /\ Waits(q, u) => Waits(q, u)' \/ <<q, u>> \in abandoned'
               /\ <<q, u>> \in abandoned => <<q, u>> \in abandoned'
    BY <1>3, <2>1, <2>2 DEF Waits
  <2>3. ASSUME NEW u \in Transports, link'[u] = "open", NEW i \in 1..Len(served[u]),
               NEW q \in Streams, Has(st[q], u, i)
        PROVE  Has(st[q], u, i)' \/ <<u, i>> \in stopped' \/ <<q, u>> \in abandoned'
    <3>1. CASE q = s
      BY <1>3, <1>4, <2>1, <2>3, <3>1 DEF Has
    <3>2. CASE q # s
      BY <1>3, <2>3, <3>2 DEF Has
    <3> QED
      BY <3>1, <3>2
  <2>4. ASSUME NEW u \in Transports, link'[u] = "open"
        PROVE  /\ link[u] = "open" /\ served'[u] = served[u]
               /\ \A i \in 1..Len(served[u]) :
                    /\ said[u][i] > MaxItems => said'[u][i] > MaxItems
                    /\ <<u, i>> \in stopped => <<u, i>> \in stopped'
                    /\ \A q \in Streams : <<q, u>> \in abandoned => <<q, u>> \in abandoned'
                    /\ \A q \in Streams : Has(st[q], u, i) =>
                         Has(st[q], u, i)' \/ <<u, i>> \in stopped' \/ <<q, u>> \in abandoned'
    BY <2>1, <2>3, <2>4
  <2> QED
    BY <1>1, <2>2, <2>4, AttendedKept
<1> QED
  BY <1>5, <1>6

LEMMA AttendedStep ==
  ASSUME Waited, [Next]_vars
  PROVE  AskedFor' /\ Attended'
<1>1. Base /\ Typed /\ AllPlaces /\ AskedFor /\ Attended /\ faults' \in 0..MaxFaults
  BY Steps DEF Waited, Base, Typed
<1>2. ASSUME UNCHANGED <<served, said, stopped, asked, abandoned>>,
             \A q \in Streams : /\ st'[q].place = st[q].place /\ st'[q].on = st[q].on
                                /\ st'[q].told = st[q].told /\ st'[q].id = st[q].id
                                /\ st[q].ack \in {"answered", "pending"} =>
                                     st'[q].ack = st[q].ack,
             \A t \in Transports : link'[t] = "open" => link[t] = "open"
      PROVE  AskedFor' /\ Attended'
  <2>1. ASSUME NEW q \in Streams, NEW u \in Transports, <<q, u>> \in asked'
        PROVE  /\ <<q, u>> \in asked
               /\ Waits(q, u) => Waits(q, u)' \/ <<q, u>> \in abandoned'
               /\ <<q, u>> \in abandoned => <<q, u>> \in abandoned'
    BY <1>2, <2>1 DEF Waits
  <2>2. \A q \in Streams, u \in Transports, i \in Nat : Has(st[q], u, i) => Has(st[q], u, i)'
    BY <1>2 DEF Has
  <2>3. \A u \in Transports : \A i \in 1..Len(served[u]) : i \in Nat
    OBVIOUS
  <2>4. ASSUME NEW u \in Transports, link'[u] = "open"
        PROVE  /\ link[u] = "open" /\ served'[u] = served[u]
               /\ \A i \in 1..Len(served[u]) :
                    /\ said[u][i] > MaxItems => said'[u][i] > MaxItems
                    /\ <<u, i>> \in stopped => <<u, i>> \in stopped'
                    /\ \A q \in Streams : <<q, u>> \in abandoned => <<q, u>> \in abandoned'
                    /\ \A q \in Streams : Has(st[q], u, i) =>
                         Has(st[q], u, i)' \/ <<u, i>> \in stopped' \/ <<q, u>> \in abandoned'
    BY <1>2, <2>2, <2>3, <2>4
  <2> QED
    BY <1>1, <2>1, <2>4, AttendedKept
<1>3. ASSUME NEW s \in Streams, NEW to \in {"none", "closed"}, Retire(s, to)
      PROVE  AskedFor' /\ Attended'
  <2>1. PICK t \in Transports : t = st[s].on
    BY <1>1, <1>3 DEF Retire, AllPlaces, PlaceOK, Live
  <2>2. Lose(t) /\ link' = [link EXCEPT ![t] = "retired"]
    BY <1>3, <2>1 DEF Retire
  <2>3. \A q \in Streams : st'[q] = Failed(st[q], t) \/ st[q].on = t
    BY <1>1, <1>3, <2>1, RetireFacts
  <2> QED
    BY <2>2, <2>3, LoseAttended
<1>4. ASSUME NEW t \in Transports, TransportFails(t)
      PROVE  AskedFor' /\ Attended'
  <2>1. Lose(t) /\ link' = [link EXCEPT ![t] = "failing"]
    BY <1>4 DEF TransportFails
  <2> QED
    BY <1>1, <1>4, <2>1, LoseAttended, TransportFailsFacts
<1>5. ASSUME NEW t \in Transports, ReaderEnds(t) \/ RetireEnds(t)
      PROVE  AskedFor' /\ Attended'
  <2>1. UNCHANGED <<served, said, stopped, asked, abandoned>>
    BY <1>5 DEF ReaderEnds, RetireEnds, serverV
  <2>2. /\ link' = [link EXCEPT ![t] = "failed"]
        /\ \A q \in Streams :
             st'[q] = IF RetireEnds(t) /\ st[q].ack = "retiring" /\ st[q].on = t
                      THEN [st[q] EXCEPT !.ack = "failed"] ELSE st[q]
    BY <1>1, <1>5, EndsFacts
  <2>3. ASSUME NEW q \in Streams
        PROVE  /\ st'[q].place = st[q].place /\ st'[q].on = st[q].on
               /\ st'[q].told = st[q].told /\ st'[q].id = st[q].id
               /\ st[q].ack \in {"answered", "pending"} => st'[q].ack = st[q].ack
    <3>1. st[q] \in Generators
      BY <1>1 DEF Typed
    <3> QED
      BY <2>2, <3>1 DEF Generators
  <2>4. \A u \in Transports : link'[u] = "open" => link[u] = "open"
    BY <1>1, <2>2 DEF Typed
  <2> QED
    BY <1>2, <2>1, <2>3, <2>4
<1>6. ASSUME NEW t \in Transports, Pump(t)
      PROVE  AskedFor' /\ Attended'
  <2>1. UNCHANGED <<served, said, stopped, asked, abandoned, link>> /\ Head(inbox[t]) \in Msgs
    BY <1>1, <1>6 DEF Pump, serverV, Typed
  <2>2. ASSUME NEW q \in Streams
        PROVE  /\ st'[q].place = st[q].place /\ st'[q].on = st[q].on
               /\ st'[q].told = st[q].told /\ st'[q].id = st[q].id /\ st'[q].ack = st[q].ack
    <3>1. PICK x \in Generators : x = st[q] /\ Len(x.queue) <= MaxQueue
      BY <1>1 DEF Typed, Base, QueuesBounded
    <3>2. PICK m \in Msgs : m = Head(inbox[t])
      BY <2>1
    <3>3. CASE st'[q] = x
      BY <3>1, <3>3
    <3>4. CASE st'[q] = [x EXCEPT !.terminal = m.kind]
      BY <3>1, <3>4 DEF Generators
    <3>5. CASE st'[q] = Taken(x, m)
      BY <3>1, <3>5, TakenAlike DEF Alike
    <3> QED
      BY <1>1, <1>6, <3>1, <3>2, <3>3, <3>4, <3>5, PumpFacts DEF Base
  <2> QED
    BY <1>2, <2>1, <2>2
<1>7. ASSUME NEW t \in Transports, NEW i \in Streams, ServerSends(t, i)
      PROVE  AskedFor' /\ Attended'
  <2>1. /\ UNCHANGED <<link, served, stopped, asked, abandoned, st>>
        /\ said' = [said EXCEPT ![t][i] = @ + 1]
    BY <1>7 DEF ServerSends
  <2>2. AskedFor'
    BY <1>1, <2>1 DEF AskedFor, Waits
  <2>3. \A u \in Transports : \A j \in 1..Len(served[u]) :
          said[u][j] > MaxItems => said'[u][j] > MaxItems
    <3> SUFFICES ASSUME NEW u \in Transports, NEW j \in 1..Len(served[u]), said[u][j] > MaxItems
                 PROVE  said'[u][j] > MaxItems
      OBVIOUS
    <3>1. ~(u = t /\ j = i)
      BY <1>1, <1>7 DEF ServerSends, Typed
    <3> QED
      BY <1>1, <2>1, <3>1 DEF Typed
  <2> QED
    BY <1>1, <2>1, <2>2, <2>3 DEF Attended, Has
<1>8. CASE Closed
  <2>1. UNCHANGED <<served, said, stopped, asked, abandoned, st>>
    BY <1>8 DEF Closed, CloseClient, ClosePumps, CloseSource, serverV
  <2>2. \A t \in Transports : link'[t] = "open" => link[t] = "open"
    BY <1>8 DEF Closed, CloseClient, ClosePumps, CloseSource
  <2> QED
    BY <1>2, <2>1, <2>2
<1>9. CASE UNCHANGED vars
  <2>1. UNCHANGED <<served, said, stopped, asked, abandoned, st, link>>
    BY <1>9 DEF vars, serverV
  <2> QED
    BY <1>2, <2>1
<1> QED
  BY <1>1, <1>3, <1>4, <1>5, <1>6, <1>7, <1>8, <1>9, Steps, MovedAttended, ServerOpensAttended

LEMMA WaitedInit ==
  ASSUME Init
  PROVE  Waited
<1>1. Base
  BY BaseInit
<1>2. Unused /\ AskedFor
  BY DEF Init, Unused, AskedFor
<1>3. Attended
  BY DEF Init, Attended
<1> QED
  BY <1>1, <1>2, <1>3 DEF Waited

LEMMA WaitedHolds == Spec => []Waited
<1>1. Init => Waited
  BY WaitedInit
<1>2. Waited /\ [Next]_vars => Waited'
  BY BaseStep, UnusedStep, AttendedStep DEF Waited
<1> QED
  BY <1>1, <1>2, PTL DEF Spec

\* A stream that the server runs has a generator that reads it, will soon know it or
\* is about to cancel it, unless the answer to its request was not waited for
\* (core.py.j2: the finally clause of _subscribe_remote).
THEOREM StreamsHaveReaders == Spec => []NoOrphans
<1>1. Attended => NoOrphans
  BY DEF Attended, NoOrphans, Has
<1>2. Waited => NoOrphans
  BY <1>1 DEF Waited
<1> QED
  BY <1>2, WaitedHolds, PTL

-----------------------------------------------------------------------------
(* ReadersTold. *)

\* The end of a transport waits among the messages of q.
HasEnd(q) == \E k \in 1..Len(q) : q[k].kind \in Ends

\* As long as the client is open, a pump is over only when its transport is, and it
\* runs for whoever has not been told.
PumpsRun ==
  closing = "open" =>
    /\ \A t \in Transports : pump[t] = "over" => link[t] = "failed"
    /\ \A s \in Streams :
         st[s].place \in Live /\ st[s].terminal = "none" => pump[st[s].on] = "running"

\* The end of a transport that is over is on the way to its pump.
EndsSent ==
  \A t \in Transports :
    /\ HasEnd(inbox[t]) => link[t] = "failed"
    /\ link[t] = "failed" /\ pump[t] # "over" => HasEnd(inbox[t])

CleanLast == \A t \in Transports : link[t] = "clean" => closing = "closed"

Pumped == Base /\ PumpsRun /\ EndsSent /\ CleanLast

\* The end is the last message, or it was there before.
LEMMA HasEndAppend ==
  ASSUME NEW q \in Seq(Msgs), NEW m \in Msgs
  PROVE  HasEnd(Append(q, m)) <=> HasEnd(q) \/ m.kind \in Ends
<1>1. /\ Len(Append(q, m)) = Len(q) + 1 /\ Len(q) \in Nat
      /\ \A k \in 1..Len(q) : Append(q, m)[k] = q[k]
      /\ Append(q, m)[Len(q) + 1] = m
  OBVIOUS
<1>2. HasEnd(Append(q, m)) => HasEnd(q) \/ m.kind \in Ends
  <2> SUFFICES ASSUME NEW k \in 1..Len(Append(q, m)), Append(q, m)[k].kind \in Ends
               PROVE  HasEnd(q) \/ m.kind \in Ends
    BY DEF HasEnd
  <2>1. k \in 1..Len(q) \/ k = Len(q) + 1
    BY <1>1
  <2> QED
    BY <1>1, <2>1 DEF HasEnd
<1>3. HasEnd(q) => HasEnd(Append(q, m))
  <2> SUFFICES ASSUME NEW k \in 1..Len(q), q[k].kind \in Ends
               PROVE  HasEnd(Append(q, m))
    BY DEF HasEnd
  <2>1. k \in 1..Len(Append(q, m)) /\ Append(q, m)[k].kind \in Ends
    BY <1>1
  <2> QED
    BY <2>1 DEF HasEnd
<1>4. m.kind \in Ends => HasEnd(Append(q, m))
  <2>1. Len(q) + 1 \in 1..Len(Append(q, m))
    BY <1>1
  <2> QED
    BY <1>1, <2>1 DEF HasEnd
<1> QED
  BY <1>2, <1>3, <1>4

LEMMA HasEndTail ==
  ASSUME NEW q \in Seq(Msgs), q # <<>>
  PROVE  HasEnd(q) <=> HasEnd(Tail(q)) \/ Head(q).kind \in Ends
<1>1. /\ Len(Tail(q)) = Len(q) - 1 /\ Len(q) \in Nat \ {0} /\ Head(q) = q[1]
      /\ \A k \in 1..(Len(q) - 1) : Tail(q)[k] = q[k + 1]
  OBVIOUS
<1>2. HasEnd(q) => HasEnd(Tail(q)) \/ Head(q).kind \in Ends
  <2> SUFFICES ASSUME NEW k \in 1..Len(q), q[k].kind \in Ends, k # 1
               PROVE  HasEnd(Tail(q))
    BY <1>1 DEF HasEnd
  <2>1. k - 1 \in 1..Len(Tail(q)) /\ Tail(q)[k - 1] = q[k]
    BY <1>1
  <2> QED
    BY <2>1 DEF HasEnd
<1>3. HasEnd(Tail(q)) => HasEnd(q)
  <2> SUFFICES ASSUME NEW k \in 1..Len(Tail(q)), Tail(q)[k].kind \in Ends
               PROVE  HasEnd(q)
    BY DEF HasEnd
  <2>1. k + 1 \in 1..Len(q) /\ Tail(q)[k] = q[k + 1]
    BY <1>1
  <2> QED
    BY <2>1 DEF HasEnd
<1>4. Head(q).kind \in Ends => HasEnd(q)
  <2>1. 1 \in 1..Len(q)
    BY <1>1
  <2> QED
    BY <1>1, <2>1 DEF HasEnd
<1> QED
  BY <1>2, <1>3, <1>4

\* What a move does to the pumps: get() starts those of the hubs that it asks for.
LEMMA MovesPump ==
  ASSUME Typed, NEW s, NEW y, Moves(s, y)
  PROVE  /\ UNCHANGED <<inbox, closing>>
         /\ \A t \in Transports : \/ pump'[t] = pump[t]
                                  \/ pump[t] = "none" /\ pump'[t] = "running"
<1>1. ASSUME NEW t, PumpStarts(t)
      PROVE  \A u \in Transports : \/ pump'[u] = pump[u]
                                   \/ pump[u] = "none" /\ pump'[u] = "running"
  BY <1>1 DEF PumpStarts, Typed
<1>2. CASE Opens(s, y)
  <2>1. \E t : PumpStarts(t)
    BY <1>2, Zenon DEF Opens
  <2> QED
    BY <1>1, <1>2, <2>1 DEF Opens
<1>3. CASE Misses(s, y)
  <2>1. UNCHANGED pump \/ PumpStarts(Current)
    BY <1>3 DEF Misses
  <2> QED
    BY <1>1, <1>3, <2>1 DEF Misses
<1>4. CASE Begins(s, y) \/ Learns(s, y) \/ Asks(s, y) \/ Reads(s, y) \/ Departs(s, y)
           \/ Resigns(s, y)
  <2>1. Quietly
    BY <1>4, Zenon DEF Begins, Learns, Asks, Reads, Departs, Resigns
  <2> QED
    BY <2>1 DEF Quietly
<1> QED
  BY <1>2, <1>3, <1>4 DEF Moves

\* A generator that a move leaves untold was untold on the same transport, unless it
\* has just been given one.
LEMMA MovesUntold ==
  ASSUME Base, NEW s \in Streams, NEW y \in Generators, Moves(s, y), y.place \in Live
  PROVE  \/ st[s].place \in Live /\ y.on = st[s].on /\ y.terminal = st[s].terminal
         \/ /\ y.on \in Transports /\ link[y.on] \in {"none", "open"}
            /\ pump[y.on] = "none" => pump'[y.on] = "running"
<1> DEFINE x == st[s]
<1>1. Typed /\ x \in Generators /\ PlaceOK(x)
  BY DEF Base, Typed, AllPlaces
<1>2. CASE Opens(s, y)
  <2>1. PICK t \in Transports :
          /\ y = [x EXCEPT !.place = "opening", !.on = t, !.ack = "pending",
                           !.stale = x.queue # <<>>]
          /\ PumpStarts(t) /\ link[t] \in {"none", "open"}
    BY <1>2, Zenon DEF Opens
  <2>2. y.on = t
    BY <1>1, <2>1 DEF Generators
  <2> QED
    BY <1>1, <2>1, <2>2 DEF PumpStarts, Typed
<1>3. CASE Begins(s, y)
  <2>1. y = [x EXCEPT !.place = "getting"]
    BY <1>3 DEF Begins
  <2> QED
    BY <1>1, <2>1 DEF Generators, Live
<1>4. CASE Misses(s, y)
  <2>1. y = Left(x, "error")
    BY <1>4 DEF Misses
  <2> QED
    BY <1>1, <2>1, LeftWhere DEF Live, Ended
<1>5. CASE Learns(s, y)
  <2>1. /\ y = [x EXCEPT !.id = x.told, !.opened = TRUE,
                         !.place = IF x.opened THEN "reading" ELSE "held"]
        /\ x.place = "opening"
    BY <1>5 DEF Learns
  <2> QED
    BY <1>1, <2>1 DEF Generators, Live
<1>6. CASE Asks(s, y)
  <2>1. y = [x EXCEPT !.place = "reading"] /\ x.place = "held"
    BY <1>6 DEF Asks
  <2> QED
    BY <1>1, <2>1 DEF Generators, Live
<1>7. ASSUME NEW z \in Generators, NEW to \in {"getting"} \cup Ended, Cleaned(s, z, to, y)
      PROVE  FALSE
  <2>1. CASE y = Left(z, to)
    BY <1>7, <2>1, LeftWhere DEF Live, Ended
  <2>2. CASE y = [z EXCEPT !.place = "unwinding", !.after = to]
    BY <1>7, <2>2 DEF Live, Generators
  <2> QED
    BY <1>7, <2>1, <2>2 DEF Cleaned
<1>8. CASE Reads(s, y)
  <2> DEFINE m == Head(x.queue)
             z == [x EXCEPT !.queue = Tail(@)]
  <2>1. x.place = "reading" /\ x.queue # <<>>
    BY <1>8 DEF Reads, Skips, Takes, Finishes
  <2>2. CASE Skips(s, y)
    <3>1. y = z
      BY <2>2 DEF Skips
    <3> QED
      BY <1>1, <2>1, <3>1 DEF Generators, Live
  <2>3. CASE Takes(s, y)
    <3>1. y = [x EXCEPT !.queue = Tail(@), !.got = Append(@, m), !.place = "held"]
      BY <2>3 DEF Takes
    <3> QED
      BY <1>1, <2>1, <3>1 DEF Generators, Live
  <2>4. CASE Finishes(s, y)
    <3>1. Tail(x.queue) \in Seq(Msgs)
      BY <1>1, <2>1 DEF Generators
    <3>2. z \in Generators
      BY <1>1, <3>1 DEF Generators
    <3>3. Cleaned(s, z, "complete", y)
      BY <2>4 DEF Finishes
    <3> HIDE DEF z
    <3> QED
      BY <1>7, <3>2, <3>3 DEF Ended
  <2> QED
    BY <1>8, <2>2, <2>3, <2>4 DEF Reads
<1>9. CASE Departs(s, y)
  <2>1. PICK to \in {"getting", "error", "closed"} : Cleaned(s, x, to, y)
    BY <1>9, Zenon DEF Departs
  <2> QED
    BY <1>1, <1>7, <2>1 DEF Ended
<1>10. CASE Resigns(s, y)
  <2>1. PICK to \in {"closed", x.after} : y = Left(x, to) /\ (x.place = "getting" => to = "closed")
    BY <1>10, Zenon DEF Resigns
  <2>2. x.place \in {"getting", "unwinding"}
    BY <1>10 DEF Resigns
  <2>3. to \in Ended
    BY <1>1, <2>1, <2>2 DEF PlaceOK, Ended
  <2> QED
    BY <1>1, <2>1, <2>3, LeftWhere DEF Live, Ended
<1> QED
  BY <1>2, <1>3, <1>4, <1>5, <1>6, <1>8, <1>9, <1>10 DEF Moves

LEMMA MovedPumped ==
  ASSUME Pumped, Moved
  PROVE  PumpsRun' /\ EndsSent' /\ CleanLast'
<1>1. Base /\ Typed /\ AllPlaces /\ PumpsRun /\ EndsSent /\ CleanLast
  BY DEF Pumped, Base
<1>2. PICK s \in Streams, y \in Generators : st' = [st EXCEPT ![s] = y] /\ Moves(s, y)
  BY DEF Moved
<1>3. \A q \in Streams : st'[q] = IF q = s THEN y ELSE st[q]
  BY <1>1, <1>2 DEF Typed
<1>4. /\ UNCHANGED <<inbox, closing>>
      /\ \A t \in Transports : \/ pump'[t] = pump[t]
                               \/ pump[t] = "none" /\ pump'[t] = "running"
  BY <1>1, <1>2, MovesPump
<1>5. \A t \in Transports : link'[t] = link[t] \/ (link[t] = "none" /\ link'[t] = "open")
  BY <1>1, <1>2, MovesLink DEF Typed
<1>6. PumpsRun'
  <2> SUFFICES ASSUME closing' = "open"
               PROVE  /\ \A t \in Transports : pump'[t] = "over" => link'[t] = "failed"
                      /\ \A q \in Streams :
                           st'[q].place \in Live /\ st'[q].terminal = "none" =>
                             pump'[st'[q].on] = "running"
    BY DEF PumpsRun
  <2>1. /\ \A t \in Transports : pump[t] = "over" => link[t] = "failed"
        /\ \A q \in Streams : st[q].place \in Live /\ st[q].terminal = "none" =>
             st[q].on \in Transports /\ pump[st[q].on] = "running"
    BY <1>1, <1>4 DEF PumpsRun, AllPlaces, PlaceOK
  <2>2. \A t \in Transports : pump'[t] = "over" => link'[t] = "failed"
    BY <1>4, <1>5, <2>1
  <2>3. ASSUME y.place \in Live, y.terminal = "none"
        PROVE  pump'[y.on] = "running"
    <3>1. CASE st[s].place \in Live /\ y.on = st[s].on /\ y.terminal = st[s].terminal
      BY <1>4, <2>1, <2>3, <3>1
    <3>2. CASE /\ y.on \in Transports /\ link[y.on] \in {"none", "open"}
               /\ pump[y.on] = "none" => pump'[y.on] = "running"
      <4>1. pump[y.on] \in {"none", "running"}
        BY <1>1, <2>1, <3>2 DEF Typed
      <4> QED
        BY <1>4, <3>2, <4>1
    <3> QED
      BY <1>1, <1>2, <2>3, <3>1, <3>2, MovesUntold
  <2>4. ASSUME NEW q \in Streams, q # s, st[q].place \in Live, st[q].terminal = "none"
        PROVE  pump'[st[q].on] = "running"
    BY <1>4, <2>1, <2>4
  <2> QED
    BY <1>3, <2>2, <2>3, <2>4
<1>7. EndsSent'
  BY <1>1, <1>4, <1>5 DEF EndsSent
<1>8. CleanLast'
  BY <1>1, <1>4, <1>5 DEF CleanLast
<1> QED
  BY <1>6, <1>7, <1>8

\* A step that starts and stops no pump, sends and takes no end of a transport.
LEMMA PumpedKept ==
  ASSUME Pumped, UNCHANGED <<pump, closing>>,
         \A t \in Transports : /\ HasEnd(inbox'[t]) <=> HasEnd(inbox[t])
                               /\ link'[t] = "failed" <=> link[t] = "failed"
                               /\ link'[t] = "clean" => link[t] = "clean",
         \A q \in Streams : /\ st'[q].place = st[q].place /\ st'[q].on = st[q].on
                            /\ st'[q].terminal = "none" => st[q].terminal = "none"
  PROVE  PumpsRun' /\ EndsSent' /\ CleanLast'
<1>1. PumpsRun /\ EndsSent /\ CleanLast
  BY DEF Pumped
<1>2. PumpsRun'
  BY <1>1 DEF PumpsRun
<1>3. EndsSent'
  BY <1>1 DEF EndsSent
<1>4. CleanLast'
  BY <1>1 DEF CleanLast
<1> QED
  BY <1>2, <1>3, <1>4

\* Whoever reads from a transport that is over is told before its pump is.
LEMMA PumpPumped ==
  ASSUME Pumped, NEW t \in Transports, Pump(t)
  PROVE  PumpsRun' /\ EndsSent' /\ CleanLast'
<1>1. Base /\ Typed /\ QueuesBounded /\ AllPlaces /\ PumpsRun /\ EndsSent /\ CleanLast
  BY DEF Pumped, Base
<1>2. /\ UNCHANGED <<link, subs, closing>> /\ inbox[t] # <<>> /\ inbox[t] \in Seq(Msgs)
      /\ inbox' = [inbox EXCEPT ![t] = Tail(@)] /\ pump[t] = "running"
  BY <1>1 DEF Pump, Typed
<1>3. PICK m \in Msgs : m = Head(inbox[t])
  BY <1>2
<1>4. /\ HasEnd(inbox[t]) <=> HasEnd(inbox'[t]) \/ m.kind \in Ends
      /\ \A u \in Transports : u # t => inbox'[u] = inbox[u]
  BY <1>1, <1>2, <1>3, HasEndTail DEF Typed
<1>5. \A q \in Streams :
        \/ q \notin subs[t] /\ st'[q] = st[q]
        \/ q \in subs[t] /\ m.kind \in Ends /\ st'[q] = [st[q] EXCEPT !.terminal = m.kind]
        \/ q \in subs[t] /\ m.kind \notin Ends /\ st'[q] = Taken(st[q], m)
  BY <1>1, <1>3, PumpFacts
<1>6. CASE m.kind \notin Ends
  <2>1. UNCHANGED pump
    BY <1>3, <1>6 DEF Pump
  <2>2. ASSUME NEW q \in Streams
        PROVE  /\ st'[q].place = st[q].place /\ st'[q].on = st[q].on
               /\ st'[q].terminal = "none" => st[q].terminal = "none"
    <3>1. PICK x \in Generators : x = st[q] /\ Len(x.queue) <= MaxQueue
      BY <1>1 DEF Typed, QueuesBounded
    <3>2. CASE st'[q] = Taken(x, m)
      <4>1. Alike(x, Taken(x, m))
        BY <3>1, TakenAlike
      <4>2. Taken(x, m) = x \/ x.terminal = "none"
        BY <3>1, TakenFacts DEF Heeds
      <4> QED
        BY <3>1, <3>2, <4>1, <4>2 DEF Alike
    <3> QED
      BY <1>5, <1>6, <3>1, <3>2
  <2>3. \A u \in Transports : HasEnd(inbox'[u]) <=> HasEnd(inbox[u])
    BY <1>4, <1>6
  <2> QED
    BY <1>2, <2>1, <2>2, <2>3, PumpedKept
<1>7. CASE m.kind \in Ends
  <2>1. pump' = [pump EXCEPT ![t] = "over"]
    BY <1>3, <1>7 DEF Pump
  <2>2. link[t] = "failed"
    BY <1>1, <1>4, <1>7 DEF EndsSent
  <2>3. \A u \in Transports : pump'[u] = IF u = t THEN "over" ELSE pump[u]
    BY <1>1, <2>1 DEF Typed
  <2>4. EndsSent'
    BY <1>1, <1>2, <1>4, <2>2, <2>3 DEF EndsSent
  <2>5. CleanLast'
    BY <1>1, <1>2 DEF CleanLast
  <2>6. ASSUME closing = "open", NEW q \in Streams,
               st'[q].place \in Live, st'[q].terminal = "none"
        PROVE  pump'[st'[q].on] = "running"
    <3>1. PICK x \in Generators : x = st[q]
      BY <1>1 DEF Typed
    <3>2. CASE q \in subs[t]
      BY <1>5, <1>7, <2>6, <3>1, <3>2 DEF Generators, Ends
    <3>3. CASE q \notin subs[t]
      <4>1. st'[q] = x
        BY <1>5, <3>1, <3>3
      <4>2. x.on \in Transports /\ x.on # t
        BY <1>1, <2>6, <3>1, <3>3, <4>1 DEF Base, Subscribed, AllPlaces, PlaceOK
      <4> QED
        BY <1>1, <2>3, <2>6, <3>1, <4>1, <4>2 DEF PumpsRun
    <3> QED
      BY <3>2, <3>3
  <2>7. PumpsRun'
    BY <1>1, <1>2, <2>2, <2>3, <2>6 DEF PumpsRun
  <2> QED
    BY <2>4, <2>5, <2>7
<1> QED
  BY <1>6, <1>7

LEMMA PumpedStep ==
  ASSUME Pumped, [Next]_vars
  PROVE  PumpsRun' /\ EndsSent' /\ CleanLast'
<1>1. /\ Base /\ Typed /\ AllPlaces /\ Rest /\ PumpsRun /\ EndsSent /\ CleanLast
      /\ faults' \in 0..MaxFaults
  BY Steps DEF Pumped, Base, Typed
<1>2. ASSUME NEW t \in Transports, NEW v \in {"failing", "retired"}, link[t] = "open",
             link' = [link EXCEPT ![t] = v], UNCHANGED <<inbox, pump, closing>>, Steady,
             \A q \in Streams : st'[q].terminal = st[q].terminal
      PROVE  PumpsRun' /\ EndsSent' /\ CleanLast'
  <2>1. \A u \in Transports : /\ link'[u] = "failed" <=> link[u] = "failed"
                              /\ link'[u] = "clean" => link[u] = "clean"
    BY <1>1, <1>2 DEF Typed
  <2> QED
    BY <1>2, <2>1, PumpedKept DEF Steady
<1>3. \A x \in Generators, t \in Transports : Failed(x, t).terminal = x.terminal
  BY DEF Failed, Generators
<1>4. ASSUME NEW s \in Streams, NEW to \in {"none", "closed"}, Retire(s, to)
      PROVE  PumpsRun' /\ EndsSent' /\ CleanLast'
  <2>1. PICK t \in Transports : t = st[s].on
    BY <1>1, <1>4 DEF Retire, AllPlaces, PlaceOK, Live
  <2>2. /\ link[t] = "open" /\ link' = [link EXCEPT ![t] = "retired"]
        /\ UNCHANGED <<inbox, pump, closing>>
    BY <1>4, <2>1 DEF Retire
  <2>3. Steady
    BY <1>1, <1>4, RetirePlaces, Steps
  <2>4. ASSUME NEW q \in Streams
        PROVE  st'[q].terminal = st[q].terminal
    <3>1. st[q] \in Generators
      BY <1>1 DEF Typed
    <3>2. st'[q] = IF q = s THEN Retires(st[s], to) ELSE Failed(st[q], t)
      BY <1>1, <1>4, <2>1, RetireFacts
    <3>3. Retires(st[q], to).terminal = st[q].terminal
      BY <3>1 DEF Retires, Generators
    <3> QED
      BY <1>3, <3>1, <3>2, <3>3
  <2> QED
    BY <1>2, <2>2, <2>3, <2>4
<1>5. ASSUME NEW t \in Transports, TransportFails(t)
      PROVE  PumpsRun' /\ EndsSent' /\ CleanLast'
  <2>1. /\ link[t] = "open" /\ link' = [link EXCEPT ![t] = "failing"]
        /\ UNCHANGED <<inbox, pump, closing>>
    BY <1>5 DEF TransportFails
  <2>2. Steady
    BY <1>1, <1>5, TransportFailsPlaces
  <2>3. \A q \in Streams : st'[q].terminal = st[q].terminal
    <3>1. \A q \in Streams : st'[q] = Failed(st[q], t) /\ st[q] \in Generators
      BY <1>1, <1>5, TransportFailsFacts DEF Typed
    <3> QED
      BY <1>3, <3>1
  <2> QED
    BY <1>2, <2>1, <2>2, <2>3
<1>6. ASSUME NEW t \in Transports, ReaderEnds(t) \/ RetireEnds(t)
      PROVE  PumpsRun' /\ EndsSent' /\ CleanLast'
  <2>1. UNCHANGED <<pump, closing>>
    BY <1>6 DEF ReaderEnds, RetireEnds
  <2>2. /\ link' = [link EXCEPT ![t] = "failed"]
        /\ \E m \in Msgs : m.kind \in Ends /\ inbox' = [inbox EXCEPT ![t] = Append(@, m)]
        /\ \A q \in Streams :
             st'[q] = IF RetireEnds(t) /\ st[q].ack = "retiring" /\ st[q].on = t
                      THEN [st[q] EXCEPT !.ack = "failed"] ELSE st[q]
    BY <1>1, <1>6, EndsFacts
  <2>3. PICK m \in Msgs : m.kind \in Ends /\ inbox' = [inbox EXCEPT ![t] = Append(@, m)]
    BY <2>2
  <2>4. /\ \A u \in Transports : link'[u] = IF u = t THEN "failed" ELSE link[u]
        /\ \A u \in Transports : u # t => inbox'[u] = inbox[u]
        /\ inbox'[t] = Append(inbox[t], m) /\ inbox[t] \in Seq(Msgs)
    BY <1>1, <2>2, <2>3 DEF Typed
  <2>5. HasEnd(inbox'[t])
    BY <2>3, <2>4, HasEndAppend
  <2>6. \A q \in Streams : st'[q].terminal = st[q].terminal
    <3> SUFFICES ASSUME NEW q \in Streams PROVE st'[q].terminal = st[q].terminal
      OBVIOUS
    <3>1. st[q] \in Generators
      BY <1>1 DEF Typed
    <3> QED
      BY <2>2, <3>1 DEF Generators
  <2>7. Steady
    BY <1>1, <1>6, EndsPlaces
  <2>8. PumpsRun'
    BY <1>1, <2>1, <2>4, <2>6, <2>7 DEF PumpsRun, Steady
  <2>9. EndsSent'
    BY <1>1, <2>1, <2>4, <2>5 DEF EndsSent
  <2>10. CleanLast'
    BY <1>1, <2>1, <2>4 DEF CleanLast
  <2> QED
    BY <2>8, <2>9, <2>10
<1>7. ASSUME NEW s \in Streams, NEW t \in Transports, ServerOpens(s, t)
      PROVE  PumpsRun' /\ EndsSent' /\ CleanLast'
  <2>1. UNCHANGED <<link, inbox, pump, closing>>
    BY <1>7 DEF ServerOpens
  <2>2. Steady
    BY <1>1, <1>7, ServerOpensPlaces
  <2>3. ASSUME NEW q \in Streams
        PROVE  st'[q].terminal = st[q].terminal
    <3>1. st[s] \in Generators /\ st[q] \in Generators
      BY <1>1 DEF Typed
    <3>2. \/ st' = st
          \/ st' = [st EXCEPT ![s] = [st[s] EXCEPT !.ack = "answered",
                                                   !.told = Len(served[t]) + 1]]
          \/ st' = [st EXCEPT ![s] = [st[s] EXCEPT !.ack = "failed"]]
      BY <1>1, <1>7, ServerOpensFacts DEF Base
    <3>3. /\ [st[s] EXCEPT !.ack = "answered", !.told = Len(served[t]) + 1].terminal
                = st[s].terminal
          /\ [st[s] EXCEPT !.ack = "failed"].terminal = st[s].terminal
      BY <3>1 DEF Generators
    <3>4. q # s => st'[q] = st[q]
      BY <1>1, <3>2 DEF Typed
    <3>5. st'[s].terminal = st[s].terminal
      BY <1>1, <3>2, <3>3 DEF Typed
    <3> QED
      BY <3>4, <3>5
  <2> QED
    BY <2>1, <2>2, <2>3, PumpedKept DEF Steady
<1>8. ASSUME NEW t \in Transports, NEW i \in Streams, ServerSends(t, i)
      PROVE  PumpsRun' /\ EndsSent' /\ CleanLast'
  <2> DEFINE m == Message(t, i, served[t][i], said[t][i] + 1)
  <2>1. UNCHANGED <<link, pump, closing, st>> /\ inbox' = [inbox EXCEPT ![t] = Append(@, m)]
    BY <1>8 DEF ServerSends, Put
  <2>2. m \in Msgs /\ m.kind \notin Ends
    BY <1>1, <1>8, ServerSendsFacts DEF Message, Ends
  <2> HIDE DEF m
  <2>3. \A u \in Transports : HasEnd(inbox'[u]) <=> HasEnd(inbox[u])
    BY <1>1, <2>1, <2>2, HasEndAppend DEF Typed
  <2> QED
    BY <2>1, <2>3, PumpedKept
<1>9. CASE Closed
  <2>1. UNCHANGED <<inbox, st>>
    BY <1>1, <1>9, ClosingTyped DEF Closed
  <2>2. CASE CloseClient
    BY <1>1, <2>1, <2>2 DEF CloseClient, PumpsRun, EndsSent, CleanLast
  <2>3. CASE ClosePumps
    BY <1>1, <2>1, <2>3 DEF ClosePumps, PumpsRun, EndsSent, CleanLast, Typed
  <2>4. CASE CloseSource
    BY <1>1, <2>1, <2>4 DEF CloseSource, PumpsRun, EndsSent, CleanLast, Typed
  <2> QED
    BY <1>9, <2>2, <2>3, <2>4 DEF Closed
<1>10. CASE UNCHANGED vars
  BY <1>10, PumpedKept DEF vars
<1> QED
  BY <1>1, <1>4, <1>5, <1>6, <1>7, <1>8, <1>9, <1>10, Steps, MovedPumped, PumpPumped

LEMMA PumpedHolds == Spec => []Pumped
<1>1. Init => Pumped
  <2> SUFFICES ASSUME Init PROVE Pumped
    OBVIOUS
  <2>1. Base
    BY BaseInit
  <2>2. Idle.place \notin Live
    BY DEF Idle, Live
  <2>3. PumpsRun
    BY <2>2 DEF Init, PumpsRun
  <2>4. EndsSent /\ CleanLast
    <3>1. Len(<<>>) = 0
      OBVIOUS
    <3>2. ~HasEnd(<<>>)
      BY <3>1 DEF HasEnd
    <3> QED
      BY <3>2 DEF Init, EndsSent, CleanLast
  <2> QED
    BY <2>1, <2>3, <2>4 DEF Pumped
<1>2. Pumped /\ [Next]_vars => Pumped'
  BY BaseStep, PumpedStep DEF Pumped
<1> QED
  BY <1>1, <1>2, PTL DEF Spec

\* Whoever has a stream of a transport that is no more has been told so, or the end
\* of its transport is on the way to a pump that runs (core.py.j2:
\* _pump_notifications and the finish() of its subscribers).
THEOREM NobodyIsForgotten == Spec => []ReadersTold
<1>1. Pumped => ReadersTold
  <2> SUFFICES ASSUME Pumped, NEW s \in Streams, st[s].place \in {"held", "reading"},
                      link[st[s].on] # "open", closing = "open", st[s].terminal = "none"
               PROVE  /\ s \in subs[st[s].on] /\ pump[st[s].on] = "running"
                      /\ \/ link[st[s].on] \in {"failing", "retired"}
                         \/ HasEnd(inbox[st[s].on])
    BY DEF ReadersTold, HasEnd
  <2>1. Typed /\ Subscribed /\ PumpsRun /\ EndsSent /\ CleanLast /\ PlaceOK(st[s])
    BY DEF Pumped, Base, AllPlaces
  <2>2. st[s].place \in Live
    BY DEF Live
  <2>3. PICK t \in Transports : t = st[s].on /\ link[t] # "none"
    BY <2>1, <2>2 DEF PlaceOK
  <2>4. s \in subs[t] /\ pump[t] = "running"
    BY <2>1, <2>2, <2>3 DEF Subscribed, PumpsRun
  <2>5. link[t] \in {"failing", "retired", "failed"}
    BY <2>1, <2>3 DEF Typed, Links, CleanLast
  <2> QED
    BY <2>1, <2>3, <2>4, <2>5 DEF EndsSent
<1> QED
  BY <1>1, PumpedHolds, PTL

-----------------------------------------------------------------------------
(* OwnAndWhole. *)

\* f counts the messages of the stream i of t in q, from a to b: they are those of
\* the stream of s, in order and without a gap.
Counts(f, q, t, i, s, a, b) ==
  /\ f \in [0..Len(q) -> Nat] /\ f[0] = a /\ f[Len(q)] = b
  /\ \A k \in 1..Len(q) :
       /\ q[k].id = i => q[k] = Message(t, i, s, f[k]) /\ f[k] = f[k - 1] + 1
       /\ q[k].id # i => f[k] = f[k - 1]

Run(q, t, i, s, a, b) == \E f : Counts(f, q, t, i, s, a, b)

\* Without a message of the stream the count stays.
LEMMA RunNone ==
  ASSUME NEW q \in Seq(Msgs), NEW t, NEW i, NEW s, NEW a \in Nat,
         \A k \in 1..Len(q) : q[k].id # i
  PROVE  Run(q, t, i, s, a, a)
<1> DEFINE f == [k \in 0..Len(q) |-> a]
<1>1. Len(q) \in Nat
  OBVIOUS
<1>2. Counts(f, q, t, i, s, a, a)
  BY <1>1 DEF Counts
<1> HIDE DEF f
<1> QED
  BY <1>2 DEF Run

\* A message that is added is the next of the stream, or of another.
LEMMA RunAppend ==
  ASSUME NEW q \in Seq(Msgs), NEW m \in Msgs, NEW t, NEW i, NEW s, NEW a \in Nat, NEW b \in Nat,
         Run(q, t, i, s, a, b)
  PROVE  /\ m.id # i => Run(Append(q, m), t, i, s, a, b)
         /\ m = Message(t, i, s, b + 1) => Run(Append(q, m), t, i, s, a, b + 1)
<1>1. PICK f : Counts(f, q, t, i, s, a, b)
  BY DEF Run
<1> DEFINE n == Len(q)
           p == Append(q, m)
<1>2. /\ n \in Nat /\ Len(p) = n + 1 /\ (\A k \in 1..n : p[k] = q[k]) /\ p[n + 1] = m
  OBVIOUS
<1>3. /\ f \in [0..n -> Nat] /\ f[0] = a /\ f[n] = b
      /\ \A k \in 1..n :
           /\ q[k].id = i => q[k] = Message(t, i, s, f[k]) /\ f[k] = f[k - 1] + 1
           /\ q[k].id # i => f[k] = f[k - 1]
  BY <1>1 DEF Counts
<1> HIDE DEF n, p
<1>4. ASSUME NEW c \in Nat,
             m.id = i => m = Message(t, i, s, c) /\ c = b + 1,
             m.id # i => c = b
      PROVE  Run(p, t, i, s, a, c)
  <2> DEFINE g == [k \in 0..(n + 1) |-> IF k = n + 1 THEN c ELSE f[k]]
  <2>1. /\ g \in [0..(n + 1) -> Nat] /\ g[0] = a /\ g[n + 1] = c
        /\ \A k \in 0..n : g[k] = f[k]
    BY <1>2, <1>3, <1>4
  <2> HIDE DEF g
  <2>2. ASSUME NEW k \in 1..(n + 1)
        PROVE  /\ p[k].id = i => p[k] = Message(t, i, s, g[k]) /\ g[k] = g[k - 1] + 1
               /\ p[k].id # i => g[k] = g[k - 1]
    <3>1. CASE k \in 1..n
      <4>1. p[k] = q[k] /\ g[k] = f[k] /\ g[k - 1] = f[k - 1]
        BY <1>2, <2>1, <3>1
      <4> QED
        BY <1>3, <3>1, <4>1
    <3>2. CASE k = n + 1
      <4>1. p[k] = m /\ g[k] = c /\ g[k - 1] = b
        BY <1>2, <1>3, <2>1, <3>2
      <4> QED
        BY <1>4, <4>1
    <3> QED
      BY <1>2, <3>1, <3>2
  <2>3. Counts(g, p, t, i, s, a, c)
    BY <1>2, <2>1, <2>2 DEF Counts
  <2> QED
    BY <2>3 DEF Run
<1>5. m.id # i => Run(p, t, i, s, a, b)
  BY <1>4
<1>6. m = Message(t, i, s, b + 1) => Run(p, t, i, s, a, b + 1)
  <2>1. m = Message(t, i, s, b + 1) => m.id = i
    BY DEF Message
  <2> QED
    BY <1>4, <2>1
<1> QED
  BY <1>5, <1>6 DEF p

\* The first message is the next of the stream, or of another.
LEMMA RunTail ==
  ASSUME NEW q \in Seq(Msgs), q # <<>>, NEW t, NEW i, NEW s, NEW a \in Nat, NEW b \in Nat,
         Run(q, t, i, s, a, b)
  PROVE  /\ Head(q).id # i => Run(Tail(q), t, i, s, a, b)
         /\ Head(q).id = i => /\ Head(q) = Message(t, i, s, a + 1)
                              /\ Run(Tail(q), t, i, s, a + 1, b)
<1>1. PICK f : Counts(f, q, t, i, s, a, b)
  BY DEF Run
<1> DEFINE n == Len(q)
           p == Tail(q)
           m == Head(q)
<1>2. /\ n \in Nat \ {0} /\ Len(p) = n - 1 /\ (\A k \in 1..(n - 1) : p[k] = q[k + 1]) /\ m = q[1]
  OBVIOUS
<1>3. /\ f \in [0..n -> Nat] /\ f[0] = a /\ f[n] = b
      /\ \A k \in 1..n :
           /\ q[k].id = i => q[k] = Message(t, i, s, f[k]) /\ f[k] = f[k - 1] + 1
           /\ q[k].id # i => f[k] = f[k - 1]
  BY <1>1 DEF Counts
<1> HIDE DEF n, p, m
<1> DEFINE g == [k \in 0..(n - 1) |-> f[k + 1]]
<1>4. /\ g \in [0..(n - 1) -> Nat] /\ g[0] = f[1] /\ g[n - 1] = b
      /\ \A k \in 0..(n - 1) : g[k] = f[k + 1]
  BY <1>2, <1>3
<1> HIDE DEF g
<1>5. ASSUME NEW k \in 1..(n - 1)
      PROVE  /\ p[k].id = i => p[k] = Message(t, i, s, g[k]) /\ g[k] = g[k - 1] + 1
             /\ p[k].id # i => g[k] = g[k - 1]
  <2>1. p[k] = q[k + 1] /\ g[k] = f[k + 1] /\ g[k - 1] = f[k] /\ k + 1 \in 1..n /\ (k + 1) - 1 = k
    BY <1>2, <1>4
  <2> QED
    BY <1>3, <2>1
<1>6. Run(p, t, i, s, f[1], b)
  <2>1. Counts(g, p, t, i, s, f[1], b)
    BY <1>2, <1>4, <1>5 DEF Counts
  <2> QED
    BY <2>1 DEF Run
<1>7. /\ m.id = i => m = Message(t, i, s, a + 1) /\ f[1] = a + 1
      /\ m.id # i => f[1] = a
  BY <1>2, <1>3
<1> QED
  BY <1>6, <1>7 DEF p, m

\* What the consumer was given is its own stream from the first item, and a stream
\* that has completed, or is about to, is whole.
Whole(x, s) ==
  ~x.stale =>
    /\ x.got = [n \in 1..Len(x.got) |-> Message(x.on, x.id, s, n)]
    /\ Len(x.got) <= MaxItems
    /\ x.place = "complete" \/ (x.place = "unwinding" /\ x.after = "complete") =>
         Len(x.got) = MaxItems

\* After the first b messages of the stream i of t, the inbox of t has the next ones,
\* and as long as t is open they are all that the server has sent.
Follows(t, i, s, b) ==
  \E c \in Nat :
    /\ Run(inbox[t], t, i, s, b, c)
    /\ link[t] = "open" => c = said[t][i] /\ i <= Len(served[t]) /\ served[t][i] = s

\* A generator whose stream the server has opened.
Ready(x) == ~x.stale /\ x.place \in Live /\ x.ack = "answered"

\* What the queue holds of the stream comes after what the consumer was given, and
\* the inbox after the queue, unless the subscriber has been told of its end.
Lined(x, s) ==
  Ready(x) => \E b \in Nat : /\ Run(x.queue, x.on, x.told, s, Len(x.got), b)
                             /\ x.terminal = "none" => Follows(x.on, x.told, s, b)

\* No message has an id that the server has not given yet.
Within(q, n) == \A k \in 1..Len(q) : q[k].id <= n

Numbered ==
  \A t \in Transports : link[t] = "open" =>
    /\ Within(inbox[t], Len(served[t]))
    /\ \A i \in Streams : i > Len(served[t]) => said[t][i] = 0

Fits(x) == x.ack = "pending" /\ ~x.stale => Within(x.queue, Len(served[x.on]))

Lines == \A s \in Streams : Whole(st[s], s) /\ Lined(st[s], s) /\ Fits(st[s])

Own == Waited /\ Numbered /\ Lines

\* Whoever was given nothing was given its own stream.
LEMMA WholeEmpty ==
  ASSUME NEW x \in Generators, NEW s, x.got = <<>>, x.place \notin {"complete", "unwinding"}
  PROVE  Whole(x, s)
<1>1. Len(x.got) = 0 /\ x.got = [n \in 1..0 |-> Message(x.on, x.id, s, n)]
  OBVIOUS
<1> QED
  BY <1>1 DEF Whole

\* The ids of a queue to which a message is added, or from which one is taken.
LEMMA WithinFacts ==
  ASSUME NEW q \in Seq(Msgs), NEW n \in Nat, Within(q, n)
  PROVE  /\ q # <<>> => Within(Tail(q), n) /\ Head(q).id <= n
         /\ \A m \in Msgs : m.id <= n => Within(Append(q, m), n)
         /\ \A l \in Nat : n <= l => Within(q, l)
         /\ \A i \in Nat : i > n => \A k \in 1..Len(q) : q[k].id # i
<1>1. \A k \in 1..Len(q) : q[k].id <= n /\ q[k].id \in Nat
  <2>1. \A m \in Msgs : m.id \in Nat
    BY DEF Msgs
  <2> QED
    BY <2>1 DEF Within
<1>2. q # <<>> => Within(Tail(q), n) /\ Head(q).id <= n
  <2> SUFFICES ASSUME q # <<>> PROVE Within(Tail(q), n) /\ Head(q).id <= n
    OBVIOUS
  <2>1. /\ Len(q) \in Nat \ {0} /\ Len(Tail(q)) = Len(q) - 1 /\ Head(q) = q[1]
        /\ \A k \in 1..(Len(q) - 1) : Tail(q)[k] = q[k + 1]
    OBVIOUS
  <2> QED
    BY <1>1, <2>1 DEF Within
<1>3. ASSUME NEW m \in Msgs, m.id <= n
      PROVE  Within(Append(q, m), n)
  <2>1. /\ Len(q) \in Nat /\ Len(Append(q, m)) = Len(q) + 1
        /\ \A k \in 1..(Len(q) + 1) : Append(q, m)[k] = IF k = Len(q) + 1 THEN m ELSE q[k]
    OBVIOUS
  <2> QED
    BY <1>1, <1>3, <2>1 DEF Within
<1>4. \A l \in Nat : n <= l => Within(q, l)
  BY <1>1 DEF Within
<1>5. \A i \in Nat : i > n => \A k \in 1..Len(q) : q[k].id # i
  BY <1>1
<1> QED
  BY <1>2, <1>3, <1>4, <1>5

\* What a step does to a transport: nothing, or it is lost; it is opened; its pump
\* takes a message; its end is announced; the server opens a stream on it, or sends.
Stays(t) ==
  /\ inbox'[t] = inbox[t]
  /\ link'[t] = "open" => link[t] = "open" /\ served'[t] = served[t] /\ said'[t] = said[t]

Begun(t) ==
  /\ link[t] = "none" /\ inbox'[t] = <<>> /\ served'[t] = <<>> /\ said'[t] = Silence

Drawn(t) ==
  /\ inbox[t] # <<>> /\ inbox'[t] = Tail(inbox[t]) /\ link'[t] = link[t]
  /\ served'[t] = served[t] /\ said'[t] = said[t]

Announced(t) ==
  /\ link'[t] = "failed" /\ \E kind \in Ends : inbox'[t] = Append(inbox[t], End(t, kind))

Grown(t) ==
  /\ \E s \in Streams : served'[t] = Append(served[t], s)
  /\ inbox'[t] = inbox[t] /\ link'[t] = link[t] /\ said'[t] = said[t]

Told(t) ==
  /\ link[t] = "open" /\ link'[t] = link[t] /\ served'[t] = served[t]
  /\ \E i \in Streams :
       /\ i <= Len(served[t]) /\ served[t][i] \in Streams /\ said[t][i] + 1 \in 1..(MaxItems + 1)
       /\ inbox'[t] = Append(inbox[t], Message(t, i, served[t][i], said[t][i] + 1))
       /\ said'[t] = [said[t] EXCEPT ![i] = @ + 1]

Undrawn(t) == Stays(t) \/ Begun(t) \/ Announced(t) \/ Grown(t) \/ Told(t)

\* What a step of a generator does to a transport.
LEMMA MovedBoxes ==
  ASSUME Base, Unused, Moved, NEW t \in Transports
  PROVE  Stays(t) \/ Begun(t)
<1>1. Typed /\ (\E s \in Streams, y \in Generators : Moves(s, y))
  BY DEF Base, Moved
<1>2. PICK s \in Streams, y \in Generators : Moves(s, y)
  BY <1>1
<1>3. UNCHANGED <<inbox, served, said>>
  <2>1. CASE Opens(s, y)
    BY <2>1 DEF Opens
  <2>2. CASE Misses(s, y)
    BY <2>2 DEF Misses, serverV
  <2>3. CASE Begins(s, y) \/ Learns(s, y) \/ Asks(s, y) \/ Reads(s, y) \/ Departs(s, y)
             \/ Resigns(s, y)
    <3>1. Quietly
      BY <2>3, Zenon DEF Begins, Learns, Asks, Reads, Departs, Resigns
    <3> QED
      BY <3>1 DEF Quietly
  <2> QED
    BY <1>2, <2>1, <2>2, <2>3 DEF Moves
<1>4. CASE UNCHANGED link
  BY <1>3, <1>4 DEF Stays
<1>5. ASSUME NEW u \in Transports, link[u] = "none", link' = [link EXCEPT ![u] = "open"]
      PROVE  Stays(t) \/ Begun(t)
  <2>1. CASE t = u
    BY <1>3, <1>5, <2>1 DEF Unused, Begun
  <2>2. CASE t # u
    <3>1. link'[t] = link[t]
      BY <1>1, <1>5, <2>2 DEF Typed
    <3> QED
      BY <1>3, <3>1 DEF Stays
  <2> QED
    BY <2>1, <2>2
<1> QED
  BY <1>2, <1>4, <1>5, MovesLink

\* What any step does to a transport.
LEMMA Boxes ==
  ASSUME Base, Unused, [Next]_vars, NEW t \in Transports
  PROVE  Undrawn(t) \/ (Drawn(t) /\ Pump(t))
<1>1. Typed /\ AllPlaces
  BY DEF Base
<1>2. ASSUME NEW u \in Transports, NEW v \in {"failing", "retired"},
             link' = [link EXCEPT ![u] = v], Lose(u), UNCHANGED inbox
      PROVE  Stays(t)
  <2>1. t # u => link'[t] = link[t] /\ served'[t] = served[t] /\ said'[t] = said[t]
    BY <1>1, <1>2 DEF Typed, Lose
  <2>2. link'[u] # "open"
    BY <1>1, <1>2 DEF Typed
  <2> QED
    BY <1>2, <2>1, <2>2 DEF Stays
<1>3. ASSUME NEW s \in Streams, NEW to \in {"none", "closed"}, Retire(s, to)
      PROVE  Stays(t)
  <2>1. PICK u \in Transports : u = st[s].on
    BY <1>1, <1>3 DEF Retire, AllPlaces, PlaceOK, Live
  <2> QED
    BY <1>2, <1>3, <2>1 DEF Retire
<1>4. ASSUME NEW u \in Transports, TransportFails(u)
      PROVE  Stays(t)
  BY <1>2, <1>4 DEF TransportFails
<1>5. ASSUME NEW u \in Transports, ReaderEnds(u) \/ RetireEnds(u)
      PROVE  Stays(t) \/ Announced(t)
  <2>1. PICK kind \in Ends : Put(u, End(u, kind))
    BY <1>5 DEF ReaderEnds, RetireEnds, Ends
  <2>2. link' = [link EXCEPT ![u] = "failed"] /\ UNCHANGED <<served, said>>
    BY <1>5 DEF ReaderEnds, RetireEnds, serverV
  <2>3. CASE t = u
    BY <1>1, <2>1, <2>2, <2>3 DEF Announced, Put, Typed
  <2>4. CASE t # u
    BY <1>1, <2>1, <2>2, <2>4 DEF Stays, Put, Typed
  <2> QED
    BY <2>3, <2>4
<1>6. ASSUME NEW u \in Transports, Pump(u)
      PROVE  Stays(t) \/ (Drawn(t) /\ Pump(t))
  <2>1. /\ inbox[u] # <<>> /\ inbox' = [inbox EXCEPT ![u] = Tail(@)]
        /\ UNCHANGED <<link, served, said>>
    BY <1>6 DEF Pump, serverV
  <2>2. CASE t = u
    BY <1>1, <1>6, <2>1, <2>2 DEF Drawn, Typed
  <2>3. CASE t # u
    BY <1>1, <2>1, <2>3 DEF Stays, Typed
  <2> QED
    BY <2>2, <2>3
<1>7. ASSUME NEW s \in Streams, NEW u \in Transports, ServerOpens(s, u)
      PROVE  Stays(t) \/ Grown(t)
  <2>1. /\ UNCHANGED <<said, link, inbox>>
        /\ served' = served \/ served' = [served EXCEPT ![u] = Append(@, s)]
    BY <1>7 DEF ServerOpens
  <2>2. CASE served'[t] = served[t]
    BY <2>1, <2>2 DEF Stays
  <2>3. CASE t = u /\ served' = [served EXCEPT ![u] = Append(@, s)]
    BY <1>1, <2>1, <2>3 DEF Grown, Typed
  <2> QED
    BY <1>1, <2>1, <2>2, <2>3 DEF Typed
<1>8. ASSUME NEW u \in Transports, NEW i \in Streams, ServerSends(u, i)
      PROVE  Stays(t) \/ Told(t)
  <2>1. /\ UNCHANGED <<served, link>> /\ i <= Len(served[u]) /\ link[u] = "open"
        /\ said' = [said EXCEPT ![u][i] = @ + 1]
        /\ inbox' = [inbox EXCEPT ![u] = Append(@, Message(u, i, served[u][i], said[u][i] + 1))]
    BY <1>8 DEF ServerSends, Put
  <2>2. served[u][i] \in Streams /\ said[u][i] + 1 \in 1..(MaxItems + 1)
    BY <1>1, <1>8, ServerSendsFacts
  <2>3. CASE t = u
    BY <1>1, <2>1, <2>2, <2>3 DEF Told, Typed
  <2>4. CASE t # u
    BY <1>1, <2>1, <2>4 DEF Stays, Typed
  <2> QED
    BY <2>3, <2>4
<1>9. CASE Closed
  <2>1. UNCHANGED <<inbox, served, said>> /\ (link'[t] = "open" => link[t] = "open")
    BY <1>1, <1>9 DEF Closed, CloseClient, ClosePumps, CloseSource, serverV, Typed
  <2> QED
    BY <2>1 DEF Stays, Undrawn
<1>10. CASE UNCHANGED vars
  BY <1>10 DEF vars, serverV, Stays, Undrawn
<1> QED
  BY <1>3, <1>4, <1>5, <1>6, <1>7, <1>8, <1>9, <1>10, Steps, MovedBoxes DEF Undrawn

\* What follows a queue still follows it after a step that takes nothing from it.
LEMMA FollowsKept ==
  ASSUME Base, NEW t \in Transports, Undrawn(t), link[t] # "none", NEW i \in Streams,
         NEW s \in Streams, NEW b \in Nat, Follows(t, i, s, b)
  PROVE  Follows(t, i, s, b)'
<1>1. inbox[t] \in Seq(Msgs) /\ served[t] \in Seq(Streams) /\ said[t] \in [Streams -> 0..(MaxItems + 1)]
      /\ i # 0 /\ i \in Nat
  BY DEF Base, Typed, Streams
<1>2. PICK c \in Nat :
        /\ Run(inbox[t], t, i, s, b, c)
        /\ link[t] = "open" => c = said[t][i] /\ i <= Len(served[t]) /\ served[t][i] = s
  BY DEF Follows
<1>3. CASE Stays(t)
  <2>1. Run(inbox'[t], t, i, s, b, c)
    BY <1>2, <1>3 DEF Stays
  <2>2. link'[t] = "open" => c = said'[t][i] /\ i <= Len(served'[t]) /\ served'[t][i] = s
    BY <1>2, <1>3 DEF Stays
  <2> QED
    BY <2>1, <2>2 DEF Follows
<1>4. CASE Announced(t)
  <2>1. PICK kind \in Ends : inbox'[t] = Append(inbox[t], End(t, kind))
    BY <1>4 DEF Announced
  <2>2. End(t, kind) \in Msgs /\ End(t, kind).id # i
    BY <1>1, MessageType DEF End
  <2>3. Run(inbox'[t], t, i, s, b, c)
    BY <1>1, <1>2, <2>1, <2>2, RunAppend
  <2> QED
    BY <1>4, <2>3 DEF Follows, Announced
<1>5. CASE Grown(t)
  <2>1. PICK q \in Streams : served'[t] = Append(served[t], q)
    BY <1>5 DEF Grown
  <2>2. i <= Len(served[t]) => i <= Len(served'[t]) /\ served'[t][i] = served[t][i]
    BY <1>1, <2>1 DEF Streams
  <2>3. Run(inbox'[t], t, i, s, b, c)
    BY <1>2, <1>5 DEF Grown
  <2>4. link'[t] = "open" => c = said'[t][i] /\ i <= Len(served'[t]) /\ served'[t][i] = s
    BY <1>2, <1>5, <2>2 DEF Grown
  <2> QED
    BY <2>3, <2>4 DEF Follows
<1>6. CASE Told(t)
  <2>1. PICK j \in Streams :
          /\ j <= Len(served[t]) /\ served[t][j] \in Streams
          /\ said[t][j] + 1 \in 1..(MaxItems + 1)
          /\ inbox'[t] = Append(inbox[t], Message(t, j, served[t][j], said[t][j] + 1))
          /\ said'[t] = [said[t] EXCEPT ![j] = @ + 1]
    BY <1>6 DEF Told
  <2> DEFINE m == Message(t, j, served[t][j], said[t][j] + 1)
  <2>2. m \in Msgs /\ m.id = j
    <3>1. served[t][j] \in Streams /\ said[t][j] + 1 \in 0..(MaxItems + 1)
      BY <2>1
    <3> QED
      BY <3>1, MessageType DEF Message
  <2>3. CASE j # i
    <3>1. Run(inbox'[t], t, i, s, b, c)
      BY <1>1, <1>2, <2>1, <2>2, <2>3, RunAppend
    <3>2. said'[t][i] = said[t][i]
      BY <1>1, <2>1, <2>3
    <3> QED
      BY <1>2, <1>6, <2>1, <3>1, <3>2 DEF Follows, Told
  <2>4. CASE j = i /\ link[t] = "open"
    <3>1. m = Message(t, i, s, c + 1)
      BY <1>2, <2>4
    <3>2. Run(inbox'[t], t, i, s, b, c + 1)
      BY <1>1, <1>2, <2>1, <2>2, <3>1, RunAppend
    <3>3. said'[t][i] = c + 1 /\ c + 1 \in Nat
      BY <1>1, <1>2, <2>1, <2>4
    <3> QED
      BY <1>2, <1>6, <2>1, <2>4, <3>2, <3>3 DEF Follows, Told
  <2> QED
    BY <1>6, <2>3, <2>4 DEF Told
<1> QED
  BY <1>3, <1>4, <1>5, <1>6 DEF Undrawn, Begun

\* The transport of a generator whose stream is open, and the id of the stream.
Seated(x) ==
  Ready(x) => x.on \in Transports /\ link[x.on] # "none" /\ x.told \in Streams

LEMMA SeatedFacts ==
  ASSUME NEW x \in Generators, PlaceOK(x)
  PROVE  Seated(x)
<1>1. x.told \in 0..MaxStreams
  BY DEF Generators
<1> QED
  BY <1>1 DEF Seated, Ready, PlaceOK, Streams

\* A generator that has moved on in the same stream, with the same messages.
LEMMA LinedAlike ==
  ASSUME NEW x, NEW y, NEW s, Lined(x, s), Seated(x), Ready(y) => Ready(x),
         y.queue = x.queue, y.on = x.on, y.told = x.told, y.got = x.got,
         y.terminal = x.terminal
  PROVE  Lined(y, s) /\ Seated(y)
  BY DEF Lined, Seated

\* The queue of a generator, and what follows it, after a step of others.
LEMMA LinedShift ==
  ASSUME Base, NEW y \in Generators, NEW s \in Streams, Lined(y, s), Seated(y),
         Ready(y) => Undrawn(y.on) \/ y.terminal # "none"
  PROVE  Lined(y, s)'
<1> SUFFICES ASSUME Ready(y)
             PROVE  \E b \in Nat : /\ Run(y.queue, y.on, y.told, s, Len(y.got), b)
                                   /\ y.terminal = "none" => Follows(y.on, y.told, s, b)'
  BY DEF Lined, Ready
<1>1. PICK b \in Nat : /\ Run(y.queue, y.on, y.told, s, Len(y.got), b)
                       /\ y.terminal = "none" => Follows(y.on, y.told, s, b)
  BY DEF Lined
<1>2. PICK t \in Transports : t = y.on
  BY DEF Seated
<1>3. PICK i \in Streams : i = y.told
  BY DEF Seated
<1>4. y.terminal = "none" => Follows(t, i, s, b)'
  BY <1>1, <1>2, <1>3, FollowsKept DEF Seated
<1> QED
  BY <1>1, <1>2, <1>3, <1>4

\* A consumer is given the next item of its own stream.
LEMMA TakesLines ==
  ASSUME Base, NEW s \in Streams, NEW y \in Generators, Takes(s, y),
         Whole(st[s], s), Lined(st[s], s)
  PROVE  Whole(y, s) /\ Lined(y, s) /\ Seated(y)
<1> DEFINE x == st[s]
           q == Tail(x.queue)
           m == Head(x.queue)
<1>1. x \in Generators /\ PlaceOK(x) /\ Seated(x)
  BY SeatedFacts DEF Base, Typed, AllPlaces
<1>2. /\ x.place = "reading" /\ x.queue # <<>> /\ m.id = x.id /\ ~Completes(m)
      /\ y = [x EXCEPT !.queue = q, !.got = Append(x.got, m), !.place = "held"]
  BY DEF Takes
<1>3. /\ y.queue = q /\ y.got = Append(x.got, m) /\ y.place = "held" /\ y.on = x.on
      /\ y.id = x.id /\ y.told = x.told /\ y.terminal = x.terminal /\ y.ack = x.ack
      /\ y.stale = x.stale
  BY <1>1, <1>2 DEF Generators
<1>4. /\ x.queue \in Seq(Msgs) /\ x.got \in Seq(Msgs) /\ m \in Msgs /\ q \in Seq(Msgs)
      /\ Len(x.got) \in Nat /\ Len(Append(x.got, m)) = Len(x.got) + 1
  <2>1. x.queue \in Seq(Msgs) /\ x.got \in Seq(Msgs) /\ x.queue # <<>>
    BY <1>1, <1>2 DEF Generators
  <2> HIDE DEF x
  <2> QED
    BY <2>1
<1>5. x.id = x.told /\ x.ack = "answered"
  BY <1>1, <1>2 DEF PlaceOK
<1>6. Seated(y)
  BY <1>1, <1>2, <1>3 DEF Seated, Ready, Live
<1>7. CASE x.stale
  BY <1>3, <1>6, <1>7 DEF Whole, Lined, Ready
<1>8. CASE ~x.stale
  <2>1. PICK b \in Nat : /\ Run(x.queue, x.on, x.told, s, Len(x.got), b)
                         /\ x.terminal = "none" => Follows(x.on, x.told, s, b)
    BY <1>2, <1>5, <1>8 DEF Lined, Ready, Live
  <2>2. /\ m = Message(x.on, x.told, s, Len(x.got) + 1)
        /\ Run(q, x.on, x.told, s, Len(x.got) + 1, b)
    <3>1. x.queue # <<>> /\ m.id = x.told
      BY <1>2, <1>5
    <3> HIDE DEF x
    <3> QED
      BY <1>4, <2>1, <3>1, RunTail
  <2>3. Lined(y, s)
    BY <1>3, <1>4, <2>1, <2>2 DEF Lined
  <2>4. m.n = Len(x.got) + 1 /\ Len(x.got) + 1 <= MaxItems
    <3>1. m.n = Len(x.got) + 1 /\ m.n \in Nat
      BY <1>4, <2>2 DEF Message
    <3> QED
      BY <1>2, <1>4, <3>1 DEF Completes
  <2>5. y.got = [n \in 1..Len(y.got) |-> Message(y.on, y.id, s, n)]
    <3>1. x.got = [n \in 1..Len(x.got) |-> Message(x.on, x.id, s, n)]
      BY <1>8 DEF Whole
    <3>2. \A n \in 1..(Len(x.got) + 1) :
            Append(x.got, m)[n] = IF n = Len(x.got) + 1 THEN m ELSE x.got[n]
      BY <1>4
    <3>3. \A n \in 1..Len(x.got) : x.got[n] = Message(x.on, x.id, s, n)
      BY <3>1
    <3>4. \A n \in 1..(Len(x.got) + 1) : Append(x.got, m)[n] = Message(x.on, x.id, s, n)
      BY <1>4, <1>5, <2>2, <3>2, <3>3
    <3>5. Append(x.got, m) = [n \in 1..(Len(x.got) + 1) |-> Message(x.on, x.id, s, n)]
      <4>1. Append(x.got, m) = [n \in 1..(Len(x.got) + 1) |-> Append(x.got, m)[n]]
        BY <1>4
      <4> QED
        BY <3>4, <4>1
    <3> QED
      BY <1>3, <1>4, <3>5
  <2>6. Whole(y, s)
    BY <1>3, <1>4, <2>4, <2>5 DEF Whole
  <2> QED
    BY <1>6, <2>3, <2>6
<1> QED
  BY <1>7, <1>8

\* A stream whose completion is read is whole.
LEMMA FinishesLines ==
  ASSUME Base, NEW s \in Streams, NEW y \in Generators, Finishes(s, y),
         Whole(st[s], s), Lined(st[s], s)
  PROVE  Whole(y, s) /\ y.place \in {"complete", "unwinding"}
<1> DEFINE x == st[s]
           q == Tail(x.queue)
           m == Head(x.queue)
           z == [x EXCEPT !.queue = q]
<1>1. x \in Generators /\ PlaceOK(x)
  BY DEF Base, Typed, AllPlaces
<1>2. /\ x.place = "reading" /\ x.queue # <<>> /\ m.id = x.id /\ Completes(m)
      /\ Cleaned(s, z, "complete", y)
  BY DEF Finishes
<1>3. /\ x.queue \in Seq(Msgs) /\ x.got \in Seq(Msgs) /\ m \in Msgs /\ q \in Seq(Msgs)
      /\ Len(x.got) \in Nat
  <2>1. x.queue \in Seq(Msgs) /\ x.got \in Seq(Msgs) /\ x.queue # <<>>
    BY <1>1, <1>2 DEF Generators
  <2> HIDE DEF x
  <2> QED
    BY <2>1
<1>4. z \in Generators
  BY <1>1, <1>3 DEF Generators
<1>5. \/ y = [z EXCEPT !.place = "complete", !.after = "none"]
      \/ y = [z EXCEPT !.place = "unwinding", !.after = "complete"]
  BY <1>2 DEF Cleaned, Left
<1>6. /\ y.place \in {"complete", "unwinding"} /\ y.got = x.got /\ y.on = x.on
      /\ y.id = x.id /\ y.stale = x.stale
  BY <1>1, <1>5 DEF Generators
<1>7. CASE x.stale
  BY <1>6, <1>7 DEF Whole
<1>8. CASE ~x.stale
  <2>1. x.id = x.told /\ x.ack = "answered"
    BY <1>1, <1>2 DEF PlaceOK
  <2>2. PICK b \in Nat : Run(x.queue, x.on, x.told, s, Len(x.got), b)
    BY <1>2, <1>8, <2>1 DEF Lined, Ready, Live
  <2>3. m = Message(x.on, x.told, s, Len(x.got) + 1)
    <3>1. x.queue # <<>> /\ m.id = x.told
      BY <1>2, <2>1
    <3> HIDE DEF x
    <3> QED
      BY <1>3, <2>2, <3>1, RunTail
  <2>4. m.n = Len(x.got) + 1
    BY <2>3 DEF Message
  <2>5. Len(x.got) <= MaxItems
    BY <1>8 DEF Whole
  <2>6. Len(x.got) = MaxItems
    <3>1. Len(x.got) \in Nat /\ Len(x.got) + 1 > MaxItems
      BY <1>2, <1>3, <2>4 DEF Completes
    <3> HIDE DEF x
    <3> QED
      BY <2>5, <3>1
  <2> QED
    BY <1>6, <1>8, <2>6 DEF Whole
<1> QED
  BY <1>6, <1>7, <1>8

\* A generator that leaves its hub keeps what it has, or leaves it all.
LEMMA CleanedLines ==
  ASSUME NEW s, NEW x \in Generators, NEW to \in {"getting", "error", "closed"}, NEW y \in Generators,
         Cleaned(s, x, to, y), Whole(x, s)
  PROVE  Whole(y, s) /\ y.place \notin Live
<1>1. CASE y = Left(x, to)
  <2>1. to # "complete" /\ to \in {"getting"} \cup Ended
    BY DEF Ended
  <2>2. y.got = <<>> /\ y.place \in {"getting", "closed", "error"}
    <3>1. Fresh(Left(x, to)) /\ Left(x, to).place \in {"getting", "closed", "error"}
      BY <2>1, LeftFacts
    <3> QED
      BY <1>1, <3>1 DEF Fresh
  <2> QED
    BY <2>2, WholeEmpty DEF Live
<1>2. CASE y = [x EXCEPT !.place = "unwinding", !.after = to]
  <2>1. /\ y.place = "unwinding" /\ y.after # "complete" /\ y.got = x.got /\ y.on = x.on
        /\ y.id = x.id /\ y.stale = x.stale
    BY <1>2 DEF Generators
  <2> QED
    BY <2>1 DEF Whole, Live
<1> QED
  BY <1>1, <1>2 DEF Cleaned

\* A generator that ends is whole if it has completed.
LEMMA ResignsLines ==
  ASSUME Base, NEW s \in Streams, NEW y \in Generators, Resigns(s, y), Whole(st[s], s)
  PROVE  Whole(y, s) /\ y.place \notin Live
<1> DEFINE x == st[s]
<1>1. x \in Generators /\ PlaceOK(x)
  BY DEF Base, Typed, AllPlaces
<1>2. PICK to \in {"closed", x.after} : y = Left(x, to) /\ (x.place = "getting" => to = "closed")
  BY Zenon DEF Resigns
<1>3. x.place \in {"getting", "unwinding"}
  BY DEF Resigns
<1>4. to \in Ended
  BY <1>1, <1>2, <1>3 DEF PlaceOK, Ended
<1>5. CASE to = "complete"
  <2>1. x.place = "unwinding" /\ x.after = "complete"
    BY <1>2, <1>3, <1>5
  <2>2. y = [x EXCEPT !.place = "complete", !.after = "none"]
    BY <1>2, <1>5 DEF Left
  <2>3. /\ y.place = "complete" /\ y.got = x.got /\ y.on = x.on /\ y.id = x.id
        /\ y.stale = x.stale
    BY <1>1, <2>2 DEF Generators
  <2> QED
    BY <2>1, <2>3 DEF Whole, Live
<1>6. CASE to # "complete"
  <2>1. y.got = <<>> /\ y.place \in {"getting", "closed", "error"}
    <3>1. Fresh(Left(x, to)) /\ Left(x, to).place \in {"getting", "closed", "error"}
      BY <1>1, <1>4, <1>6, LeftFacts
    <3> QED
      BY <1>2, <3>1 DEF Fresh
  <2> QED
    BY <2>1, WholeEmpty DEF Live
<1> QED
  BY <1>5, <1>6

\* A move keeps the consumer's items its own, and what is on the way to it.
LEMMA MovesLines ==
  ASSUME Base, NEW s \in Streams, NEW y \in Generators, Moves(s, y),
         Whole(st[s], s), Lined(st[s], s)
  PROVE  /\ Whole(y, s) /\ Lined(y, s) /\ Seated(y)
         /\ y.place = "opening" /\ ~y.stale => y.queue = <<>>
<1> DEFINE x == st[s]
<1>1. x \in Generators /\ PlaceOK(x) /\ Seated(x)
  BY SeatedFacts DEF Base, Typed, AllPlaces
<1>2. CASE Opens(s, y)
  <2>1. PICK t \in Transports :
          y = [x EXCEPT !.place = "opening", !.on = t, !.ack = "pending",
                        !.stale = x.queue # <<>>]
    BY <1>2, Zenon DEF Opens
  <2>2. /\ y.place = "opening" /\ y.ack = "pending" /\ y.got = x.got /\ y.queue = x.queue
        /\ y.stale = (x.queue # <<>>)
    BY <1>1, <2>1 DEF Generators
  <2>3. x.got = <<>>
    BY <1>1, <1>2 DEF Opens, PlaceOK, Fresh
  <2>4. Whole(y, s)
    BY <2>2, <2>3, WholeEmpty
  <2> QED
    BY <2>2, <2>4 DEF Lined, Seated, Ready
<1>3. CASE Begins(s, y)
  <2>1. y.place = "getting" /\ y.got = <<>>
    BY <1>1, <1>3 DEF Begins, PlaceOK, Fresh, Generators
  <2>2. Whole(y, s)
    BY <2>1, WholeEmpty
  <2> QED
    BY <2>1, <2>2 DEF Lined, Seated, Ready, Live
<1>4. CASE Misses(s, y)
  <2>1. y = Left(x, "error")
    BY <1>4 DEF Misses
  <2>2. y.got = <<>> /\ y.place \in {"getting", "closed", "error"}
    <3>1. "error" \in {"getting"} \cup Ended
      BY DEF Ended
    <3>2. Fresh(Left(x, "error")) /\ Left(x, "error").place \in {"getting", "closed", "error"}
      BY <1>1, <3>1, LeftFacts
    <3> QED
      BY <2>1, <3>2 DEF Fresh
  <2>3. Whole(y, s)
    BY <2>2, WholeEmpty
  <2> QED
    BY <2>2, <2>3 DEF Lined, Seated, Ready, Live
<1>5. CASE Learns(s, y)
  <2>1. /\ y = [x EXCEPT !.id = x.told, !.opened = TRUE,
                         !.place = IF x.opened THEN "reading" ELSE "held"]
        /\ x.place = "opening" /\ x.ack = "answered"
    BY <1>5 DEF Learns
  <2>2. /\ y.place \in {"reading", "held"} /\ y.queue = x.queue /\ y.on = x.on
        /\ y.told = x.told /\ y.got = x.got /\ y.terminal = x.terminal
        /\ y.stale = x.stale /\ x.got = <<>>
    BY <1>1, <2>1 DEF Generators, PlaceOK
  <2>3. Lined(y, s) /\ Seated(y)
    <3>1. Ready(y) => Ready(x)
      BY <2>1, <2>2 DEF Ready, Live
    <3>2. Lined(x, s)
      OBVIOUS
    <3> HIDE DEF x
    <3> QED
      BY <1>1, <2>2, <3>1, <3>2, LinedAlike
  <2>4. Whole(y, s)
    BY <2>2, WholeEmpty
  <2> QED
    BY <2>2, <2>3, <2>4
<1>6. CASE Asks(s, y)
  <2>1. y = [x EXCEPT !.place = "reading"] /\ x.place = "held"
    BY <1>6 DEF Asks
  <2>2. /\ y.place = "reading" /\ y.queue = x.queue /\ y.on = x.on /\ y.id = x.id
        /\ y.told = x.told /\ y.got = x.got /\ y.terminal = x.terminal
        /\ y.stale = x.stale /\ y.ack = x.ack
    BY <1>1, <2>1 DEF Generators
  <2>3. Lined(y, s) /\ Seated(y)
    <3>1. Ready(y) => Ready(x)
      BY <2>1, <2>2 DEF Ready, Live
    <3>2. Lined(x, s)
      OBVIOUS
    <3> HIDE DEF x
    <3> QED
      BY <1>1, <2>2, <3>1, <3>2, LinedAlike
  <2>4. Whole(y, s)
    BY <2>2 DEF Whole
  <2> QED
    BY <2>2, <2>3, <2>4
<1>7. CASE Skips(s, y)
  <2> DEFINE q == Tail(x.queue)
  <2>1. /\ y = [x EXCEPT !.queue = q] /\ x.place = "reading" /\ x.queue # <<>>
        /\ Head(x.queue).id # x.id
    BY <1>7 DEF Skips
  <2>2. /\ y.place = "reading" /\ y.queue = q /\ y.on = x.on /\ y.id = x.id
        /\ y.told = x.told /\ y.got = x.got /\ y.terminal = x.terminal
        /\ y.stale = x.stale /\ y.ack = x.ack /\ x.id = x.told
    BY <1>1, <2>1 DEF Generators, PlaceOK
  <2>3. x.queue \in Seq(Msgs) /\ Len(x.got) \in Nat
    <3>1. x.queue \in Seq(Msgs) /\ x.got \in Seq(Msgs)
      BY <1>1 DEF Generators
    <3> QED
      BY <3>1
  <2>4. Seated(y)
    BY <1>1, <2>1, <2>2 DEF Seated, Ready
  <2>5. Lined(y, s)
    <3> SUFFICES ASSUME Ready(y)
                 PROVE  \E b \in Nat : /\ Run(q, x.on, x.told, s, Len(x.got), b)
                                       /\ x.terminal = "none" => Follows(x.on, x.told, s, b)
      BY <2>2 DEF Lined
    <3>1. Ready(x)
      BY <2>1, <2>2 DEF Ready, Live
    <3>2. PICK b \in Nat : /\ Run(x.queue, x.on, x.told, s, Len(x.got), b)
                           /\ x.terminal = "none" => Follows(x.on, x.told, s, b)
      BY <3>1 DEF Lined
    <3>3. x.queue # <<>> /\ Head(x.queue).id # x.told
      BY <2>1, <2>2
    <3>4. Run(q, x.on, x.told, s, Len(x.got), b)
      <4> HIDE DEF x
      <4> QED
        BY <2>3, <3>2, <3>3, RunTail
    <3> QED
      BY <3>2, <3>4
  <2>6. Whole(y, s)
    BY <2>2 DEF Whole
  <2> QED
    BY <2>2, <2>4, <2>5, <2>6
<1>8. CASE Takes(s, y)
  <2>1. y.place = "held"
    BY <1>1, <1>8 DEF Takes, Generators
  <2> QED
    BY <1>8, <2>1, TakesLines
<1>9. CASE Finishes(s, y)
  BY <1>9, FinishesLines DEF Lined, Seated, Ready, Live
<1>10. CASE Departs(s, y)
  <2>1. PICK to \in {"getting", "error", "closed"} : Cleaned(s, x, to, y)
    BY <1>10, Zenon DEF Departs
  <2> QED
    BY <1>1, <2>1, CleanedLines DEF Lined, Seated, Ready, Live
<1>11. CASE Resigns(s, y)
  BY <1>11, ResignsLines DEF Lined, Seated, Ready, Live
<1> QED
  BY <1>2, <1>3, <1>4, <1>5, <1>6, <1>7, <1>8, <1>9, <1>10, <1>11 DEF Moves, Reads

\* The pump gives a subscriber the next message that is on the way to it.
LEMMA TakenLines ==
  ASSUME Base, NEW s \in Streams, NEW t \in Transports, st[s].on = t, Drawn(t),
         Whole(st[s], s), Lined(st[s], s), Head(inbox[t]).kind \notin Ends,
         NEW y \in Generators, y = Taken(st[s], Head(inbox[t]))
  PROVE  Whole(y, s) /\ Lined(y, s)'
<1> DEFINE x == st[s]
           m == Head(inbox[t])
<1>1. /\ x \in Generators /\ PlaceOK(x) /\ Seated(x) /\ Len(x.queue) <= MaxQueue
      /\ inbox[t] \in Seq(Msgs)
  BY SeatedFacts DEF Base, Typed, AllPlaces, QueuesBounded
<1>2. m \in Msgs /\ inbox[t] # <<>> /\ inbox'[t] = Tail(inbox[t])
  BY <1>1 DEF Drawn
<1>3. Alike(x, y)
  BY <1>1, <1>2, TakenAlike
<1>4. Whole(y, s)
  BY <1>3 DEF Alike, Whole
<1>5. Lined(y, s)'
  <2> SUFFICES ASSUME Ready(y)
               PROVE  \E b \in Nat : /\ Run(y.queue, y.on, y.told, s, Len(y.got), b)
                                     /\ y.terminal = "none" => Follows(y.on, y.told, s, b)'
    BY DEF Lined, Ready
  <2>1. Ready(x) /\ y.on = t /\ y.told = x.told /\ y.got = x.got /\ y.place = x.place
    BY <1>3 DEF Alike, Ready
  <2>2. PICK i \in Streams : i = x.told
    BY <1>1, <2>1 DEF Seated
  <2>3. PICK a \in Nat : a = Len(x.got)
    <3>1. x.got \in Seq(Msgs)
      BY <1>1 DEF Generators
    <3> QED
      BY <3>1
  <2>4. PICK b \in Nat : /\ Run(x.queue, t, i, s, a, b)
                         /\ x.terminal = "none" => Follows(t, i, s, b)
    BY <2>1, <2>2, <2>3 DEF Lined
  <2>5. ASSUME NEW d \in Nat, NEW c \in Nat, Run(Tail(inbox[t]), t, i, s, d, c),
               link[t] = "open" => c = said[t][i] /\ i <= Len(served[t]) /\ served[t][i] = s
        PROVE  Follows(t, i, s, d)'
    BY <1>2, <2>5 DEF Follows, Drawn
  <2>6. SUFFICES \E d \in Nat : Run(y.queue, t, i, s, a, d) /\ (y.terminal = "none" => Follows(t, i, s, d)')
    BY <2>1, <2>2, <2>3
  <2>7. CASE y = x /\ ~Heeds(x, m)
    <3>1. CASE x.terminal # "none"
      BY <2>4, <2>7, <3>1
    <3>2. CASE x.terminal = "none"
      <4>1. x.id # 0 /\ x.id # m.id
        BY <2>7, <3>2 DEF Heeds
      <4>2. m.id # i
        BY <1>1, <2>1, <2>2, <4>1 DEF Ready, Live, PlaceOK
      <4>3. PICK c \in Nat :
              /\ Run(inbox[t], t, i, s, b, c)
              /\ link[t] = "open" => c = said[t][i] /\ i <= Len(served[t]) /\ served[t][i] = s
        BY <2>4, <3>2 DEF Follows
      <4>4. Run(Tail(inbox[t]), t, i, s, b, c)
        BY <1>1, <1>2, <4>2, <4>3, RunTail
      <4> QED
        BY <2>4, <2>5, <2>7, <4>3, <4>4
    <3> QED
      BY <3>1, <3>2
  <2>8. CASE y = [x EXCEPT !.queue = <<>>, !.terminal = "overflow"]
    <3>1. y.queue = <<>> /\ y.terminal = "overflow"
      BY <1>1, <2>8 DEF Generators
    <3>2. <<>> \in Seq(Msgs) /\ Len(<<>>) = 0
      OBVIOUS
    <3>3. Run(<<>>, t, i, s, a, a)
      <4>1. \A k \in 1..Len(<<>>) : <<>>[k].id # i
        BY <3>2
      <4> QED
        BY <3>2, <4>1, RunNone
    <3> QED
      BY <3>1, <3>3
  <2>9. CASE y = [x EXCEPT !.queue = Append(@, m)] /\ Heeds(x, m)
    <3>1. y.queue = Append(x.queue, m) /\ x.queue \in Seq(Msgs) /\ x.terminal = "none"
      BY <1>1, <2>9 DEF Generators, Heeds
    <3>2. PICK c \in Nat :
            /\ Run(inbox[t], t, i, s, b, c)
            /\ link[t] = "open" => c = said[t][i] /\ i <= Len(served[t]) /\ served[t][i] = s
      BY <2>4, <3>1 DEF Follows
    <3>3. CASE m.id # i
      <4>1. Run(Tail(inbox[t]), t, i, s, b, c)
        BY <1>1, <1>2, <3>2, <3>3, RunTail
      <4>2. Run(Append(x.queue, m), t, i, s, a, b)
        BY <1>2, <2>4, <3>1, <3>3, RunAppend
      <4> QED
        BY <2>5, <3>1, <3>2, <4>1, <4>2
    <3>4. CASE m.id = i
      <4>1. m = Message(t, i, s, b + 1) /\ Run(Tail(inbox[t]), t, i, s, b + 1, c)
        <5>1. PICK q \in Seq(Msgs) : q = inbox[t]
          BY <1>1
        <5>2. q # <<>> /\ Run(q, t, i, s, b, c) /\ Head(q).id = i
          BY <1>2, <3>2, <3>4, <5>1
        <5>3. Head(q) = Message(t, i, s, b + 1) /\ Run(Tail(q), t, i, s, b + 1, c)
          BY <5>2, RunTail
        <5> QED
          BY <5>1, <5>3
      <4>2. Run(Append(x.queue, m), t, i, s, a, b + 1)
        BY <1>2, <2>4, <3>1, <4>1, RunAppend
      <4>3. b + 1 \in Nat
        OBVIOUS
      <4>4. Follows(t, i, s, b + 1)'
        BY <2>5, <3>2, <4>1, <4>3
      <4> QED
        BY <3>1, <4>2, <4>3, <4>4
    <3> QED
      BY <3>3, <3>4
  <2> QED
    BY <1>1, <1>2, <2>7, <2>8, <2>9, TakenFacts
<1> QED
  BY <1>4, <1>5

\* A transport whose inbox loses nothing.
LEMMA Undrawing ==
  ASSUME Base, Unused, [Next]_vars, NEW t \in Transports,
         inbox'[t] = inbox[t] \/ \E m : inbox'[t] = Append(inbox[t], m)
  PROVE  Undrawn(t)
<1>1. inbox[t] \in Seq(Msgs)
  BY DEF Base, Typed
<1>2. Undrawn(t) \/ Drawn(t)
  BY Boxes
<1>3. ASSUME Drawn(t) PROVE FALSE
  <2>1. /\ inbox[t] # <<>> /\ Len(inbox[t]) \in Nat \ {0}
        /\ Len(inbox'[t]) = Len(inbox[t]) - 1
    BY <1>1, <1>3 DEF Drawn
  <2>2. ASSUME NEW m, inbox'[t] = Append(inbox[t], m) PROVE FALSE
    <3>1. Len(Append(inbox[t], m)) = Len(inbox[t]) + 1
      BY <1>1
    <3> QED
      BY <2>1, <2>2, <3>1
  <2> QED
    BY <2>1, <2>2
<1> QED
  BY <1>2, <1>3

\* An open transport forgets no stream that it has opened.
LEMMA ServedGrows ==
  ASSUME Base, Unused, [Next]_vars, NEW t \in Transports, link[t] = "open", link'[t] = "open"
  PROVE  Len(served[t]) \in Nat /\ Len(served'[t]) \in Nat /\ Len(served[t]) <= Len(served'[t])
<1>1. served[t] \in Seq(Streams)
  BY DEF Base, Typed
<1>2. ASSUME NEW s \in Streams, served'[t] = Append(served[t], s)
      PROVE  Len(served'[t]) = Len(served[t]) + 1
  BY <1>1, <1>2
<1>3. served'[t] = served[t] \/ \E s \in Streams : served'[t] = Append(served[t], s)
  BY Boxes DEF Undrawn, Stays, Begun, Announced, Grown, Told, Drawn
<1>4. Len(served[t]) \in Nat
  BY <1>1
<1> QED
  BY <1>2, <1>3, <1>4

\* What is queued for a generator without an id has an id that the server has given.
LEMMA FitsKept ==
  ASSUME Base, Base', Unused, [Next]_vars, NEW q \in Streams, NEW y \in Generators, y = st'[q],
         Fits(st[q]),
         y.ack = "pending" /\ ~y.stale =>
           \/ y.queue = <<>>
           \/ /\ st[q].ack = "pending" /\ ~st[q].stale /\ y.on = st[q].on
              /\ y.queue = st[q].queue
  PROVE  Fits(y)'
<1> SUFFICES ASSUME y.ack = "pending", ~y.stale
             PROVE  Within(y.queue, Len(served'[y.on]))
  BY DEF Fits
<1>1. CASE y.queue = <<>>
  <2>1. Len(<<>>) = 0
    OBVIOUS
  <2> QED
    BY <1>1, <2>1 DEF Within
<1>2. CASE /\ st[q].ack = "pending" /\ ~st[q].stale /\ y.on = st[q].on
           /\ y.queue = st[q].queue
  <2>1. PICK t \in Transports : t = y.on /\ link[t] = "open"
    BY <1>2 DEF Base, AllPlaces, PlaceOK, Live
  <2>2. link'[t] = "open"
    <3>1. PlaceOK(st[q])'
      BY DEF Base, AllPlaces
    <3> QED
      BY <2>1, <3>1 DEF PlaceOK
  <2>3. Within(y.queue, Len(served[t]))
    BY <1>2, <2>1 DEF Fits
  <2>4. y.queue \in Seq(Msgs)
    BY QueueType
  <2> QED
    BY <2>1, <2>2, <2>3, <2>4, ServedGrows, WithinFacts
<1> QED
  BY <1>1, <1>2

\* The ids of a transport that is open.
LEMMA NumberedStep ==
  ASSUME Base, Unused, Numbered, [Next]_vars
  PROVE  Numbered'
<1> SUFFICES ASSUME NEW t \in Transports, link'[t] = "open"
             PROVE  /\ Within(inbox'[t], Len(served'[t]))
                    /\ \A i \in Streams : i > Len(served'[t]) => said'[t][i] = 0
  BY DEF Numbered, Within
<1>1. /\ inbox[t] \in Seq(Msgs) /\ served[t] \in Seq(Streams) /\ Len(served[t]) \in Nat
      /\ said[t] \in [Streams -> 0..(MaxItems + 1)]
  <2>1. inbox[t] \in Seq(Msgs) /\ served[t] \in Seq(Streams)
        /\ said[t] \in [Streams -> 0..(MaxItems + 1)]
    BY DEF Base, Typed
  <2> QED
    BY <2>1
<1>2. link[t] = "open" => /\ Within(inbox[t], Len(served[t]))
                          /\ \A i \in Streams : i > Len(served[t]) => said[t][i] = 0
  BY DEF Numbered
<1>3. CASE Stays(t)
  BY <1>2, <1>3 DEF Stays
<1>4. CASE Begun(t)
  <2>1. Len(<<>>) = 0
    OBVIOUS
  <2> QED
    BY <1>4, <2>1 DEF Begun, Within, Silence
<1>5. CASE Announced(t)
  BY <1>5 DEF Announced
<1>6. CASE Grown(t)
  <2>1. PICK s \in Streams : served'[t] = Append(served[t], s)
    BY <1>6 DEF Grown
  <2>2. Len(served'[t]) = Len(served[t]) + 1
    BY <1>1, <2>1
  <2>3. Within(inbox[t], Len(served[t]) + 1)
    BY <1>1, <1>2, <1>6, WithinFacts DEF Grown
  <2>4. \A i \in Streams : i > Len(served'[t]) => i > Len(served[t])
    BY <1>1, <2>2 DEF Streams
  <2> QED
    BY <1>2, <1>6, <2>2, <2>3, <2>4 DEF Grown
<1>7. CASE Told(t)
  <2>1. PICK j \in Streams :
          /\ j <= Len(served[t]) /\ served[t][j] \in Streams
          /\ said[t][j] + 1 \in 1..(MaxItems + 1)
          /\ inbox'[t] = Append(inbox[t], Message(t, j, served[t][j], said[t][j] + 1))
          /\ said'[t] = [said[t] EXCEPT ![j] = @ + 1]
    BY <1>7 DEF Told
  <2> DEFINE m == Message(t, j, served[t][j], said[t][j] + 1)
  <2>2. m \in Msgs /\ m.id = j
    <3>1. served[t][j] \in Streams /\ said[t][j] + 1 \in 0..(MaxItems + 1)
      BY <2>1
    <3> QED
      BY <3>1, MessageType DEF Message
  <2>3. served'[t] = served[t] /\ link[t] = "open"
    BY <1>7 DEF Told
  <2>4. Within(inbox'[t], Len(served[t]))
    <3>1. m.id <= Len(served[t]) /\ inbox'[t] = Append(inbox[t], m)
      BY <2>1, <2>2
    <3> HIDE DEF m
    <3> QED
      BY <1>1, <1>2, <2>2, <2>3, <3>1, WithinFacts
  <2>5. \A i \in Streams : i > Len(served[t]) => said'[t][i] = 0
    <3> SUFFICES ASSUME NEW i \in Streams, i > Len(served[t]) PROVE said'[t][i] = 0
      OBVIOUS
    <3>1. i # j
      BY <1>1, <2>1 DEF Streams
    <3> QED
      BY <1>1, <1>2, <2>1, <2>3, <3>1
  <2> QED
    BY <2>3, <2>4, <2>5
<1>8. CASE Drawn(t)
  <2>1. Within(Tail(inbox[t]), Len(served[t])) /\ link[t] = "open"
    BY <1>1, <1>2, <1>8, WithinFacts DEF Drawn
  <2> QED
    BY <1>2, <1>8, <2>1 DEF Drawn
<1> QED
  BY <1>3, <1>4, <1>5, <1>6, <1>7, <1>8, Boxes DEF Undrawn

\* A generator that learns that its request has failed, or that its pump is over,
\* or nothing at all.
LEMMA SoftLines ==
  ASSUME Base, Base', Unused, [Next]_vars, NEW q \in Streams, NEW y \in Generators, y = st'[q],
         Whole(st[q], q), Lined(st[q], q), Fits(st[q]),
         y.stale = st[q].stale, y.got = st[q].got, y.on = st[q].on, y.id = st[q].id,
         y.place = st[q].place, y.queue = st[q].queue, y.told = st[q].told,
         y.place = "unwinding" => y.after = st[q].after,
         y.terminal = st[q].terminal \/ y.terminal # "none",
         y.ack = st[q].ack \/ y.ack \notin {"answered", "pending"},
         Ready(y) => Undrawn(y.on) \/ y.terminal # "none"
  PROVE  Whole(y, q) /\ Lined(y, q)' /\ Fits(y)'
<1>1. Whole(y, q)
  BY DEF Whole
<1>2. Seated(st[q])
  BY SeatedFacts DEF Base, Typed, AllPlaces
<1>3. Ready(y) => Ready(st[q])
  BY DEF Ready
<1>4. Seated(y)
  BY <1>2, <1>3 DEF Seated
<1>5. Lined(y, q)
  BY <1>3 DEF Lined
<1>6. Lined(y, q)'
  BY <1>4, <1>5, LinedShift
<1>7. Fits(y)'
  BY FitsKept
<1> QED
  BY <1>1, <1>6, <1>7

\* The stream that the server opens is the first with its id.
LEMMA OpenedLines ==
  ASSUME Base, Numbered, NEW s \in Streams, NEW t \in Transports, Waits(s, t), Fits(st[s]),
         Len(served[t]) + 1 \in 1..MaxStreams,
         served' = [served EXCEPT ![t] = Append(@, s)], UNCHANGED <<inbox, said, link>>,
         NEW y \in Generators,
         y = [st[s] EXCEPT !.ack = "answered", !.told = Len(served[t]) + 1]
  PROVE  Whole(y, s) /\ Lined(y, s)' /\ Fits(y)'
<1> DEFINE x == st[s]
<1>1. /\ x \in Generators /\ PlaceOK(x) /\ served[t] \in Seq(Streams) /\ inbox[t] \in Seq(Msgs)
      /\ said[t] \in [Streams -> 0..(MaxItems + 1)]
  BY DEF Base, Typed, AllPlaces
<1>2. PICK n \in Nat : n = Len(served[t])
  <2>1. Len(served[t]) \in Nat
    BY <1>1
  <2> QED
    BY <2>1
<1>3. x.place = "opening" /\ x.on = t /\ x.ack = "pending" /\ link[t] = "open" /\ x.got = <<>>
  BY <1>1 DEF Waits, PlaceOK
<1>4. /\ y.place = "opening" /\ y.on = t /\ y.ack = "answered" /\ y.told = n + 1
      /\ y.got = <<>> /\ y.queue = x.queue /\ y.stale = x.stale
  BY <1>1, <1>2, <1>3 DEF Generators
<1>5. Whole(y, s)
  BY <1>4, WholeEmpty
<1>6. Fits(y)'
  BY <1>4 DEF Fits
<1>7. Lined(y, s)'
  <2> SUFFICES ASSUME ~x.stale
               PROVE  Run(y.queue, t, n + 1, s, 0, 0) /\ Follows(t, n + 1, s, 0)'
    <3>1. Len(<<>>) = 0 /\ 0 \in Nat
      OBVIOUS
    <3> QED
      BY <1>4, <3>1 DEF Lined, Ready
  <2>1. n + 1 \in Nat /\ n + 1 > n /\ n + 1 \in Streams /\ 0 \in Nat
    BY <1>2 DEF Streams
  <2>2. y.queue \in Seq(Msgs)
    BY QueueType
  <2>3. Within(y.queue, n) /\ Within(inbox[t], n) /\ said[t][n + 1] = 0
    BY <1>2, <1>3, <1>4, <2>1 DEF Fits, Numbered
  <2>4. (\A k \in 1..Len(y.queue) : y.queue[k].id # n + 1)
        /\ (\A k \in 1..Len(inbox[t]) : inbox[t][k].id # n + 1)
    BY <1>1, <2>1, <2>2, <2>3, WithinFacts
  <2>5. Run(y.queue, t, n + 1, s, 0, 0) /\ Run(inbox[t], t, n + 1, s, 0, 0)
    BY <1>1, <2>1, <2>2, <2>4, RunNone
  <2>6. Len(served'[t]) = n + 1 /\ served'[t][n + 1] = s
    <3>1. served'[t] = Append(served[t], s)
      BY DEF Base, Typed
    <3> QED
      BY <1>1, <1>2, <3>1
  <2>7. Follows(t, n + 1, s, 0)'
    <3>1. Run(inbox'[t], t, n + 1, s, 0, 0) /\ said'[t][n + 1] = 0 /\ n + 1 <= n + 1
      BY <2>1, <2>3, <2>5
    <3> QED
      BY <2>1, <2>6, <3>1 DEF Follows
  <2> QED
    BY <2>5, <2>7
<1> QED
  BY <1>5, <1>6, <1>7

\* What the pump does to the streams.
LEMMA PumpLines ==
  ASSUME Base, Base', Unused, Numbered, Lines, NEW t \in Transports, Pump(t), [Next]_vars,
         NEW q \in Streams, NEW y \in Generators, y = st'[q]
  PROVE  Whole(y, q) /\ Lined(y, q)' /\ Fits(y)'
<1> DEFINE x == st[q]
           m == Head(inbox[t])
<1>1. /\ x \in Generators /\ PlaceOK(x) /\ Len(x.queue) <= MaxQueue /\ inbox[t] \in Seq(Msgs)
      /\ Typed /\ QueuesBounded
  BY DEF Base, Typed, AllPlaces, QueuesBounded
<1>2. Whole(x, q) /\ Lined(x, q) /\ Fits(x)
  BY DEF Lines
<1>3. /\ inbox[t] # <<>> /\ inbox' = [inbox EXCEPT ![t] = Tail(@)]
      /\ UNCHANGED <<link, served, said>>
  BY DEF Pump, serverV
<1>4. m \in Msgs /\ Drawn(t)
  BY <1>1, <1>3 DEF Drawn, Typed
<1>5. ASSUME NEW u \in Transports, u # t
      PROVE  Undrawn(u)
  BY <1>1, <1>3, <1>5 DEF Undrawn, Stays, Typed
<1>6. CASE q \notin subs[t] /\ y = x
  <2>1. Ready(y) => y.on \in Transports /\ y.on # t
    BY <1>1, <1>6 DEF Base, Subscribed, Ready, PlaceOK
  <2>2. Ready(y) => Undrawn(y.on)
    BY <1>5, <2>1
  <2> QED
    BY <1>2, <1>6, <2>2, SoftLines
<1>7. CASE q \in subs[t] /\ m.kind \in Ends /\ y = [x EXCEPT !.terminal = m.kind]
  <2>1. /\ y.stale = x.stale /\ y.got = x.got /\ y.on = x.on /\ y.id = x.id
        /\ y.place = x.place /\ y.queue = x.queue /\ y.told = x.told /\ y.after = x.after
        /\ y.terminal = m.kind /\ y.ack = x.ack
    BY <1>1, <1>7 DEF Generators
  <2>2. y.terminal # "none"
    BY <1>7, <2>1 DEF Ends
  <2> QED
    BY <1>2, <2>1, <2>2, SoftLines
<1>8. CASE q \in subs[t] /\ m.kind \notin Ends /\ y = Taken(x, m)
  <2>1. x.on = t
    BY <1>8 DEF Base, Subscribed
  <2>2. Whole(y, q) /\ Lined(y, q)'
    BY <1>2, <1>4, <1>8, <2>1, TakenLines
  <2>3. Alike(x, y)
    BY <1>1, <1>4, <1>8, TakenAlike
  <2>4. Fits(y)'
    <3>1. CASE y.queue = x.queue \/ y.queue = <<>>
      BY <1>2, <2>3, <3>1, FitsKept DEF Alike
    <3>2. CASE y.queue = Append(x.queue, m)
      <4> SUFFICES ASSUME y.ack = "pending", ~y.stale
                   PROVE  Within(Append(x.queue, m), Len(served[t]))
        BY <1>3, <2>1, <2>3, <3>2 DEF Fits, Alike
      <4>1. x.ack = "pending" /\ ~x.stale /\ link[t] = "open"
        BY <1>1, <2>1, <2>3 DEF Alike, PlaceOK
      <4>2. Within(x.queue, Len(served[t])) /\ Within(inbox[t], Len(served[t]))
        BY <1>2, <2>1, <4>1 DEF Fits, Numbered
      <4>3. Len(served[t]) \in Nat /\ x.queue \in Seq(Msgs)
        <5>1. served[t] \in Seq(Streams)
          BY <1>1 DEF Typed
        <5> QED
          BY <1>1, <5>1, QueueType
      <4>4. m.id <= Len(served[t])
        BY <1>1, <1>3, <4>2, <4>3, WithinFacts
      <4> HIDE DEF x, m
      <4> QED
        BY <1>4, <4>2, <4>3, <4>4, WithinFacts
    <3>3. \/ Taken(x, m) = x \/ Taken(x, m) = [x EXCEPT !.queue = <<>>, !.terminal = "overflow"]
          \/ Taken(x, m) = [x EXCEPT !.queue = Append(@, m)]
      BY <1>1, <1>4, TakenFacts
    <3>4. y.queue = x.queue \/ y.queue = <<>> \/ y.queue = Append(x.queue, m)
      <4>1. x \in Generators /\ y = Taken(x, m)
        BY <1>1, <1>8
      <4> HIDE DEF x, m
      <4> QED
        BY <3>3, <4>1 DEF Generators
    <3> QED
      BY <3>1, <3>2, <3>4
  <2> QED
    BY <2>2, <2>4
<1> QED
  BY <1>1, <1>6, <1>7, <1>8, PumpFacts

\* Every step keeps the items of every consumer its own.
LEMMA LinesStep ==
  ASSUME Base, Base', Unused, Numbered, Lines, [Next]_vars
  PROVE  Lines'
<1>1. Typed /\ AllPlaces /\ AskedOnce /\ ServedOnce /\ Typed' /\ faults' \in 0..MaxFaults
  BY DEF Base, Typed
<1> SUFFICES ASSUME NEW q \in Streams, NEW y \in Generators, y = st'[q]
             PROVE  Whole(y, q) /\ Lined(y, q)' /\ Fits(y)'
  <2>1. ASSUME NEW q \in Streams
        PROVE  Whole(st'[q], q) /\ Lined(st[q], q)' /\ Fits(st[q])'
    <3>1. PICK y \in Generators : y = st'[q]
      BY <1>1 DEF Typed
    <3>2. Whole(y, q) /\ Lined(y, q)' /\ Fits(y)'
      BY <2>1, <3>1
    <3> QED
      BY <3>1, <3>2 DEF Lined, Ready, Fits
  <2> QED
    BY <2>1 DEF Lines, Whole
<1> DEFINE x == st[q]
<1>2. x \in Generators /\ PlaceOK(x) /\ Whole(x, q) /\ Lined(x, q) /\ Fits(x)
  BY <1>1 DEF Typed, AllPlaces, Lines
<1>3. PlaceOK(y)'
  <2>1. PlaceOK(st[q])'
    BY DEF Base, AllPlaces
  <2> QED
    BY <2>1 DEF PlaceOK
<1>4. ASSUME \A t \in Transports :
               inbox'[t] = inbox[t] \/ \E m : inbox'[t] = Append(inbox[t], m)
      PROVE  \A t \in Transports : Undrawn(t)
  BY <1>4, Undrawing
<1>5. Ready(y) => y.on \in Transports
  BY <1>3 DEF Ready, PlaceOK
<1>6. ASSUME UNCHANGED inbox
      PROVE  Ready(y) => Undrawn(y.on)
  BY <1>4, <1>5, <1>6
<1>7. ASSUME y = x, Ready(y) => Undrawn(y.on)
      PROVE  Whole(y, q) /\ Lined(y, q)' /\ Fits(y)'
  BY <1>2, <1>7, SoftLines
<1>8. ASSUME NEW v \in {"failed", "retiring"}, y = [x EXCEPT !.ack = v], Ready(y) => Undrawn(y.on)
      PROVE  Whole(y, q) /\ Lined(y, q)' /\ Fits(y)'
  <2>1. /\ y.stale = x.stale /\ y.got = x.got /\ y.on = x.on /\ y.id = x.id
        /\ y.place = x.place /\ y.queue = x.queue /\ y.told = x.told /\ y.after = x.after
        /\ y.terminal = x.terminal /\ y.ack = v
    BY <1>2, <1>8 DEF Generators
  <2> QED
    BY <1>2, <1>8, <2>1, SoftLines
<1>9. CASE Moved
  <2>1. PICK s \in Streams, z \in Generators : st' = [st EXCEPT ![s] = z] /\ Moves(s, z)
    BY <1>9 DEF Moved
  <2>2. UNCHANGED inbox
    BY <1>1, <2>1, MovesPump
  <2>3. Ready(y) => Undrawn(y.on)
    BY <1>6, <2>2
  <2>4. CASE q # s
    <3>1. y = x
      BY <1>1, <2>1, <2>4 DEF Typed
    <3> QED
      BY <1>7, <2>3, <3>1
  <2>5. CASE q = s
    <3>1. y = z
      BY <1>1, <2>1, <2>5 DEF Typed
    <3>2. /\ Whole(y, q) /\ Lined(y, q) /\ Seated(y)
          /\ y.place = "opening" /\ ~y.stale => y.queue = <<>>
      BY <1>2, <2>1, <2>5, <3>1, MovesLines
    <3>3. Lined(y, q)'
      BY <2>3, <3>2, LinedShift
    <3>4. y.ack = "pending" => y.place = "opening"
      BY <1>3 DEF PlaceOK
    <3>5. Fits(y)'
      BY <1>2, <3>2, <3>4, FitsKept
    <3> QED
      BY <3>2, <3>3, <3>5
  <2> QED
    BY <2>4, <2>5
<1>10. ASSUME NEW t \in Transports, y = Failed(x, t), Ready(y) => Undrawn(y.on)
       PROVE  Whole(y, q) /\ Lined(y, q)' /\ Fits(y)'
  <2>1. y = x \/ y = [x EXCEPT !.ack = "failed"]
    BY <1>10 DEF Failed
  <2> QED
    BY <1>7, <1>8, <1>10, <2>1
<1>11. ASSUME NEW s \in Streams, NEW to \in {"none", "closed"}, Retire(s, to)
       PROVE  Whole(y, q) /\ Lined(y, q)' /\ Fits(y)'
  <2>1. UNCHANGED inbox /\ st[s].place = "opening"
    BY <1>11 DEF Retire
  <2>2. Ready(y) => Undrawn(y.on)
    BY <1>6, <2>1
  <2>3. /\ st[s].on \in Transports
        /\ y = IF q = s THEN Retires(st[s], to) ELSE Failed(x, st[s].on)
    BY <1>1, <1>11, RetireFacts
  <2>4. CASE q # s
    <3>1. PICK t \in Transports : t = st[s].on
      BY <2>3
    <3> QED
      BY <1>10, <2>2, <2>3, <2>4, <3>1
  <2>5. CASE q = s
    <3>1. y = Retires(x, to) /\ x.place = "opening"
      BY <2>1, <2>3, <2>5
    <3>2. /\ y.stale = x.stale /\ y.got = x.got /\ y.on = x.on /\ y.id = x.id
          /\ y.place = "opening" /\ y.queue = x.queue /\ y.told = x.told
          /\ y.terminal = x.terminal /\ y.ack = "retiring"
      BY <1>2, <3>1 DEF Generators, Retires
    <3> QED
      BY <1>2, <2>2, <3>1, <3>2, SoftLines
  <2> QED
    BY <2>4, <2>5
<1>12. ASSUME NEW t \in Transports, TransportFails(t)
       PROVE  Whole(y, q) /\ Lined(y, q)' /\ Fits(y)'
  <2>1. UNCHANGED inbox
    BY <1>12 DEF TransportFails
  <2>2. Ready(y) => Undrawn(y.on)
    BY <1>6, <2>1
  <2>3. y = Failed(x, t)
    BY <1>1, <1>12, TransportFailsFacts
  <2> QED
    BY <1>10, <2>2, <2>3
<1>13. ASSUME NEW t \in Transports, ReaderEnds(t) \/ RetireEnds(t)
       PROVE  Whole(y, q) /\ Lined(y, q)' /\ Fits(y)'
  <2>1. /\ \E m \in Msgs : inbox' = [inbox EXCEPT ![t] = Append(@, m)]
        /\ y = x \/ y = [x EXCEPT !.ack = "failed"]
    BY <1>1, <1>13, EndsFacts
  <2>2. PICK m \in Msgs : inbox' = [inbox EXCEPT ![t] = Append(@, m)]
    BY <2>1
  <2>3. \A u \in Transports : inbox'[u] = inbox[u] \/ inbox'[u] = Append(inbox[u], m)
    BY <1>1, <2>2 DEF Typed
  <2>4. Ready(y) => Undrawn(y.on)
    BY <1>4, <1>5, <2>3
  <2> QED
    BY <1>7, <1>8, <2>1, <2>4
<1>14. ASSUME NEW s \in Streams, NEW t \in Transports, ServerOpens(s, t)
       PROVE  Whole(y, q) /\ Lined(y, q)' /\ Fits(y)'
  <2>1. UNCHANGED <<inbox, said, link>>
    BY <1>14 DEF ServerOpens
  <2>2. Ready(y) => Undrawn(y.on)
    BY <1>6, <2>1
  <2>3. /\ Len(served[t]) + 1 \in 1..MaxStreams
        /\ \/ /\ served' = [served EXCEPT ![t] = Append(@, s)]
              /\ st' = IF Waits(s, t)
                       THEN [st EXCEPT ![s] = [st[s] EXCEPT !.ack = "answered",
                                                            !.told = Len(served[t]) + 1]]
                       ELSE st
           \/ ~Waits(s, t) /\ UNCHANGED <<served, st>>
           \/ /\ Waits(s, t) /\ UNCHANGED served
              /\ st' = [st EXCEPT ![s] = [st[s] EXCEPT !.ack = "failed"]]
    BY <1>1, <1>14, ServerOpensFacts
  <2>4. CASE /\ served' = [served EXCEPT ![t] = Append(@, s)] /\ Waits(s, t) /\ q = s
             /\ st' = [st EXCEPT ![s] = [st[s] EXCEPT !.ack = "answered",
                                                      !.told = Len(served[t]) + 1]]
    <3>1. y = [x EXCEPT !.ack = "answered", !.told = Len(served[t]) + 1]
      BY <1>1, <2>4 DEF Typed
    <3> QED
      BY <1>2, <2>1, <2>3, <2>4, <3>1, OpenedLines
  <2>5. CASE q = s /\ st' = [st EXCEPT ![s] = [st[s] EXCEPT !.ack = "failed"]]
    <3>1. y = [x EXCEPT !.ack = "failed"]
      BY <1>1, <2>5 DEF Typed
    <3> QED
      BY <1>8, <2>2, <3>1
  <2>6. CASE y = x
    BY <1>7, <2>2, <2>6
  <2>7. q # s => y = x
    BY <1>1, <2>3 DEF Typed
  <2> QED
    BY <2>3, <2>4, <2>5, <2>6, <2>7
<1>15. ASSUME NEW t \in Transports, NEW i \in Streams, ServerSends(t, i)
       PROVE  Whole(y, q) /\ Lined(y, q)' /\ Fits(y)'
  <2>1. UNCHANGED st
        /\ inbox' = [inbox EXCEPT ![t] = Append(@, Message(t, i, served[t][i], said[t][i] + 1))]
    BY <1>15 DEF ServerSends, Put
  <2>2. \A u \in Transports : inbox'[u] = inbox[u] \/ \E m : inbox'[u] = Append(inbox[u], m)
    BY <1>1, <2>1 DEF Typed
  <2>3. Ready(y) => Undrawn(y.on)
    BY <1>4, <1>5, <2>2
  <2> QED
    BY <1>7, <2>1, <2>3
<1>16. CASE Closed \/ UNCHANGED vars
  <2>1. UNCHANGED <<inbox, st>>
    BY <1>1, <1>16, ClosingTyped DEF Closed, vars
  <2> QED
    BY <1>6, <1>7, <2>1
<1>17. ASSUME NEW t \in Transports, Pump(t)
       PROVE  Whole(y, q) /\ Lined(y, q)' /\ Fits(y)'
  BY <1>17, PumpLines
<1> QED
  BY <1>9, <1>11, <1>12, <1>13, <1>14, <1>15, <1>16, <1>17, Steps

LEMMA OwnHolds == Spec => []Own
<1>1. Init => Own
  <2> SUFFICES ASSUME Init PROVE Own
    OBVIOUS
  <2>1. Waited
    BY WaitedInit
  <2>2. Numbered
    BY DEF Init, Numbered
  <2>3. \A s \in Streams : Whole(st[s], s) /\ Lined(st[s], s) /\ Fits(st[s])
    <3> SUFFICES ASSUME NEW s \in Streams
                 PROVE  Whole(Idle, s) /\ Lined(Idle, s) /\ Fits(Idle)
      BY DEF Init
    <3>1. Whole(Idle, s)
      BY IdleType, WholeEmpty DEF Idle
    <3> QED
      BY <3>1 DEF Idle, Lined, Ready, Fits
  <2> QED
    BY <2>1, <2>2, <2>3 DEF Own, Lines
<1>2. Own /\ [Next]_vars => Own'
  <2> SUFFICES ASSUME Own, [Next]_vars PROVE Own'
    OBVIOUS
  <2>1. Waited /\ Base /\ Unused /\ Numbered /\ Lines
    BY DEF Own, Waited
  <2>2. Waited' /\ Base'
    BY <2>1, BaseStep, UnusedStep, AttendedStep DEF Waited
  <2> QED
    BY <2>1, <2>2, NumberedStep, LinesStep DEF Own
<1> QED
  BY <1>1, <1>2, PTL DEF Spec

\* A consumer is given its own stream, from the first item and without a gap, and all
\* of it when it completes (message-streams.md; core.py.j2: _subscribe_remote and
\* _pump_notifications).
THEOREM ConsumersGetTheirOwn == Spec => []OwnAndWhole
<1>1. Own => OwnAndWhole
  BY DEF Own, Lines, Whole, OwnAndWhole
<1> QED
  BY <1>1, OwnHolds, PTL
=============================================================================
