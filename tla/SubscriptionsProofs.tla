------------------------- MODULE SubscriptionsProofs -------------------------
(***************************************************************************)
(* What holds of the streams of one connection for any number of requests, *)
(* items, streams and places in the queue: type correctness, the limit on  *)
(* the streams that run, that a closed session leaves none behind, that a  *)
(* graceful drain tells the end of every stream, and that the messages of  *)
(* an open connection implement StreamProtocol.                            *)
(***************************************************************************)
EXTENDS Subscriptions, FiniteSetTheorems, TLAPS

-----------------------------------------------------------------------------
(* The inductive invariant.  The limit is checked when a request is read and *)
(* the stream is created when its answer is queued: in between, the request  *)
(* holds a place, and the stream is none that exists.                        *)

Opening  == {r \in Requests : request[r] = "opening"}
Targeted == {r \in Requests : target[r] # 0}

\* A pending place belongs to a request that is opening a stream.
PlacesCounted == pending = Cardinality(Opening)

\* Every id was taken by a request of its own.
IdsCounted == next_id <= Cardinality(Targeted) + 1

\* The stream that a request opens does not exist, and nobody else opens it.
TargetsFresh ==
  \A r \in Requests :
    /\ request[r] = "none" => target[r] = 0
    /\ request[r] \in {"joining", "stopping"} => target[r] # 0
    /\ request[r] = "opening" =>
         target[r] # 0 /\ target[r] < next_id /\ stream[target[r]] = "none"

IdsFresh == \A s \in Streams : s >= next_id => stream[s] = "none"

TargetsApart ==
  \A q, r \in Opening : target[q] = target[r] => q = r

\* A task that waits for a place has a message.
BlockedHolds == \A s \in Streams : stream[s] = "blocked" => holding[s] # "none"

\* Unfinished streams are registered until close() has taken them.
Kept ==
  IF session \in {"open", "cancelling"} THEN Unfinished \subseteq tasks
  ELSE Unfinished \subseteq awaited /\ tasks = {} /\ NoRequest

\* Streams and places together are never more than the limit.
RoomHeld ==
  IF session \in {"open", "cancelling"} THEN Cardinality(tasks) + pending <= MaxStreams
  ELSE Cardinality(awaited) <= MaxStreams

SessionOver ==
  /\ session # "open" => closing
  /\ session = "closed" => Unfinished = {}

IInv ==
  /\ TypeOK /\ PlacesCounted /\ IdsCounted /\ TargetsFresh /\ IdsFresh /\ TargetsApart
  /\ BlockedHolds /\ Kept /\ RoomHeld /\ SessionOver

USE BoundsAssumption DEF Kinds, Busy, Active, Unfinished, NoRequest, Opening

-----------------------------------------------------------------------------
(* Facts about the operators *)

\* Sets of requests and of streams are finite and no larger than MaxRequests.
LEMMA SmallSets ==
  ASSUME NEW T \in SUBSET (1..MaxRequests)
  PROVE  IsFiniteSet(T) /\ Cardinality(T) \in 0..MaxRequests
<1>1. IsFiniteSet(1..MaxRequests) /\ Cardinality(1..MaxRequests) = MaxRequests
  BY FS_Interval
<1>2. IsFiniteSet(T) /\ Cardinality(T) <= Cardinality(1..MaxRequests)
  BY <1>1, FS_Subset
<1>3. Cardinality(T) \in Nat
  BY <1>2, FS_CardinalityType
<1> QED
  BY <1>1, <1>2, <1>3

\* A message that is queued keeps the queue within its limit.
LEMMA EnqueueKeeps ==
  ASSUME QueueOK, NEW kind \in Kinds, NEW s \in {0} \cup Streams,
         Enqueue(Message(kind, s))
  PROVE  QueueOK'
<1>1. Message(kind, s) \in [kind : Kinds, stream : {0} \cup Streams]
  BY DEF Message
<1>2. outgoing' \in Seq([kind : Kinds, stream : {0} \cup Streams])
  BY <1>1 DEF Enqueue, QueueOK
<1>3. Len(outgoing') <= MaxQueue
  BY <1>1 DEF Enqueue, QueueOK, QueueFull
<1>4. said' \in [Streams -> Seq(Kinds)]
  <2>1. CASE kind = "refused"
    BY <2>1 DEF Enqueue, QueueOK, Message
  <2>2. CASE kind # "refused"
    <3>1. said' = [said EXCEPT ![s] = Append(@, kind)]
      BY <2>2 DEF Enqueue, Message
    <3>2. \A t \in Streams : Append(said[t], kind) \in Seq(Kinds)
      BY DEF QueueOK
    <3> QED
      BY <3>1, <3>2 DEF QueueOK
  <2> QED
    BY <2>1, <2>2
<1> QED
  BY <1>2, <1>3, <1>4 DEF QueueOK

\* There is an id for a request that is yet to take one.
LEMMA IdLeft ==
  ASSUME IInv, NEW r \in Requests, target[r] = 0
  PROVE  next_id \in Streams
<1>1. Targeted \in SUBSET (1..MaxRequests) /\ Targeted \cup {r} \in SUBSET (1..MaxRequests)
  BY DEF Targeted, Requests
<1>2. r \notin Targeted
  BY DEF Targeted
<1>3. Cardinality(Targeted \cup {r}) = Cardinality(Targeted) + 1
  BY <1>1, <1>2, SmallSets, FS_AddElement
<1>4. Cardinality(Targeted) \in Nat /\ Cardinality(Targeted) + 1 <= MaxRequests
  BY <1>1, <1>3, SmallSets
<1> QED
  BY <1>4 DEF IInv, TypeOK, PlacesOK, IdsCounted, Streams

-----------------------------------------------------------------------------
(* The steps.  What is not counted is kept by the request, the task of the   *)
(* stream or the session that takes the step.                               *)

\* A request opens, cancels, waits, answers or unwinds.
LEMMA RequestKeeps ==
  ASSUME IInv, NEW r \in Requests,
         CallStream(r) \/ Refuse(r) \/ OpenStream(r) \/ Opened(r) \/ StopStream(r)
         \/ Joined(r) \/ Answered(r) \/ InterruptRequest(r) \/ UnwindRequest(r)
  PROVE  (RequestsOK /\ StreamsOK /\ QueueOK /\ SessionOK /\ TargetsFresh /\ IdsFresh
           /\ TargetsApart /\ BlockedHolds /\ Kept /\ SessionOver)'
<1> USE DEF IInv, TypeOK, RequestsOK, PlacesOK, StreamsOK, SessionOK, TargetsFresh,
            IdsFresh, TargetsApart, BlockedHolds, Kept, SessionOver, Requests, Streams
<1>1. CASE CallStream(r)
  <2> USE <1>1 DEF CallStream, Goto, Message, RequestTurn, drainV, placeV, queueV,
                   streamV
  <2>1. (RequestsOK /\ StreamsOK /\ SessionOK)'
    OBVIOUS
  <2>2. (TargetsFresh /\ IdsFresh /\ TargetsApart)'
    OBVIOUS
  <2>3. (BlockedHolds /\ Kept /\ SessionOver)'
    OBVIOUS
  <2>4. QueueOK'
    BY EnqueueKeeps DEF QueueOK
  <2> QED
    BY <2>1, <2>2, <2>3, <2>4
<1>2. CASE Refuse(r)
  <2> USE <1>2 DEF Refuse, Enqueue, Goto, Message, QueueFull, Reply, RequestTurn,
                   Starts, drainV, placeV, queueV, streamV
  <2>1. (RequestsOK /\ StreamsOK /\ SessionOK)'
    OBVIOUS
  <2>2. TargetsFresh'
    OBVIOUS
  <2>3. IdsFresh'
    OBVIOUS
  <2>4. TargetsApart'
    OBVIOUS
  <2>5. (BlockedHolds /\ Kept /\ SessionOver)'
    OBVIOUS
  <2>6. QueueOK'
    BY EnqueueKeeps DEF QueueOK
  <2> QED
    BY <2>1, <2>2, <2>3, <2>4, <2>5, <2>6
<1>3. CASE OpenStream(r)
  <2> USE <1>3 DEF OpenStream, CreateStream, Enqueue, Goto, Message, QueueFull, Reply,
                   RequestTurn, Starts, drainV, queueV, streamV
  <2>1. next_id \in Streams
    BY IdLeft
  <2>2. RequestsOK'
    BY <2>1
  <2>3. StreamsOK'
    <3>1. CASE QueueFull
      BY <3>1
    <3>2. CASE ~QueueFull
      <4>1. CreateStream(next_id)
        BY <3>2
      <4>2. tasks' \subseteq Streams
        BY <2>1, <4>1
      <4>3. stream' \in [Streams -> Active \cup {"none", "over"}]
        BY <2>1, <4>1
      <4> QED
        BY <4>1, <4>2, <4>3
    <3> QED
      BY <3>1, <3>2
  <2>4. SessionOK'
    BY <2>1
  <2>5. TargetsFresh'
    <3>1. target' = [target EXCEPT ![r] = next_id] /\ next_id' = next_id + 1
      OBVIOUS
    <3>2. request'[r] \in {"done", "opening"} /\ (request'[r] = "opening" => stream' = stream)
      OBVIOUS
    <3>3. \A q \in Requests : q # r => request'[q] = request[q] /\ target'[q] = target[q]
      OBVIOUS
    <3>4. \A t \in Streams : t # next_id => stream'[t] = stream[t]
      BY <2>1
    <3>5. stream[next_id] = "none"
      BY <2>1
    <3>6. target'[r] = next_id
      BY <3>1
    <3> HIDE <1>3
    <3>7. \A q \in Requests : target[q] < next_id => target[q] # next_id /\ target[q] < next_id'
      <4>1. TAKE q \in Requests
      <4>2. target[q] \in Nat /\ next_id \in Nat
        OBVIOUS
      <4> QED
        BY <3>1, <4>2
    <3> QED
      BY <2>1, <3>1, <3>2, <3>3, <3>4, <3>5, <3>6, <3>7, SMTT(30)
  <2>6. IdsFresh'
    BY <2>1
  <2>7. TargetsApart'
    BY <2>1, SMTT(30)
  <2>8. BlockedHolds'
    BY <2>1
  <2>9. Kept'
    BY <2>1
  <2>10. SessionOver'
    BY <2>1
  <2>11. QueueOK'
    BY <2>1, EnqueueKeeps DEF QueueOK
  <2> QED
    BY <2>2, <2>3, <2>4, <2>5, <2>6, <2>7, <2>8, <2>9, <2>10, <2>11
<1>4. CASE Opened(r)
  <2> USE <1>4 DEF Opened, CreateStream, Enqueue, Goto, Message, QueueFull,
                   RequestTurn, drainV, queueV
  <2>1. (RequestsOK /\ StreamsOK /\ SessionOK)'
    <3>1. RequestsOK'
      BY SMTT(30)
    <3>2. target[r] \in Streams
      BY ONLY RequestsOK, TargetsFresh, <1>4, r \in Requests
         DEF RequestsOK, TargetsFresh, Opened, Requests, Streams
    <3>3. /\ tasks' = tasks \cup {target[r]}
          /\ stream' = [stream EXCEPT ![target[r]] = "created"]
          /\ UNCHANGED <<holding, cancelled, items, draining, grace, awaited, session>>
          /\ closing' \in {TRUE, closing}
      BY ONLY <1>4 DEF Opened, CreateStream, RequestTurn, drainV
    <3>4. StreamsOK'
      BY ONLY StreamsOK, <3>2, <3>3 DEF StreamsOK, Active
    <3>5. SessionOK'
      BY ONLY SessionOK, <3>3 DEF SessionOK
    <3> QED
      BY <3>1, <3>4, <3>5
  <2>2. (TargetsFresh /\ IdsFresh /\ TargetsApart)'
    OBVIOUS
  <2>3. (BlockedHolds /\ Kept /\ SessionOver)'
    OBVIOUS
  <2>4. QueueOK'
    BY EnqueueKeeps DEF QueueOK
  <2> QED
    BY <2>1, <2>2, <2>3, <2>4
<1>5. CASE StopStream(r)
  <2> USE <1>5 DEF StopStream, CancelStreams, Enqueue, Goto, Message, QueueFull,
                   Reply, RequestTurn, Starts, drainV, placeV, queueV
  <2>1. (RequestsOK /\ StreamsOK /\ SessionOK)'
    OBVIOUS
  <2>2. TargetsFresh'
    OBVIOUS
  <2>3. IdsFresh'
    OBVIOUS
  <2>4. TargetsApart'
    BY SMTT(30)
  <2>5. (BlockedHolds /\ Kept /\ SessionOver)'
    OBVIOUS
  <2>6. QueueOK'
    BY EnqueueKeeps DEF QueueOK
  <2> QED
    BY <2>1, <2>2, <2>3, <2>4, <2>5, <2>6
<1>6. CASE Joined(r)
  <2> USE <1>6 DEF Joined, Enqueue, Goto, Message, QueueFull, Reply, RequestTurn,
                   drainV, placeV, queueV, streamV
  <2>1. (RequestsOK /\ StreamsOK /\ SessionOK)'
    OBVIOUS
  <2>2. TargetsFresh'
    OBVIOUS
  <2>3. IdsFresh'
    OBVIOUS
  <2>4. TargetsApart'
    OBVIOUS
  <2>5. (BlockedHolds /\ Kept /\ SessionOver)'
    OBVIOUS
  <2>6. QueueOK'
    BY EnqueueKeeps, ZenonT(60) DEF QueueOK
  <2> QED
    BY <2>1, <2>2, <2>3, <2>4, <2>5, <2>6
<1>7. CASE Answered(r)
  <2> USE <1>7 DEF Answered, Enqueue, Goto, Message, QueueFull, RequestTurn, drainV,
                   placeV, queueV, streamV
  <2>1. (RequestsOK /\ StreamsOK /\ SessionOK)'
    OBVIOUS
  <2>2. (TargetsFresh /\ IdsFresh /\ TargetsApart)'
    OBVIOUS
  <2>3. (BlockedHolds /\ Kept /\ SessionOver)'
    OBVIOUS
  <2>4. QueueOK'
    BY EnqueueKeeps DEF QueueOK
  <2> QED
    BY <2>1, <2>2, <2>3, <2>4
<1>8. CASE InterruptRequest(r)
  <2> USE <1>8 DEF InterruptRequest, RequestTurn, drainV, placeV, queueV, streamV
  <2>1. (RequestsOK /\ StreamsOK /\ SessionOK)'
    OBVIOUS
  <2>2. (TargetsFresh /\ IdsFresh /\ TargetsApart)'
    OBVIOUS
  <2>3. (BlockedHolds /\ Kept /\ SessionOver)'
    OBVIOUS
  <2>4. QueueOK'
    BY EnqueueKeeps DEF QueueOK
  <2> QED
    BY <2>1, <2>2, <2>3, <2>4
<1>9. CASE UnwindRequest(r)
  <2> USE <1>9 DEF UnwindRequest, FreedPlaces, Goto, RequestTurn, drainV, queueV,
                   streamV
  <2>1. (RequestsOK /\ StreamsOK /\ SessionOK)'
    OBVIOUS
  <2>2. (TargetsFresh /\ IdsFresh /\ TargetsApart)'
    OBVIOUS
  <2>3. (BlockedHolds /\ Kept /\ SessionOver)'
    OBVIOUS
  <2>4. QueueOK'
    BY EnqueueKeeps DEF QueueOK
  <2> QED
    BY <2>1, <2>2, <2>3, <2>4
<1> QED
  BY <1>1, <1>2, <1>3, <1>4, <1>5, <1>6, <1>7, <1>8, <1>9

\* The task of a stream.
LEMMA StreamKeeps ==
  ASSUME IInv, NEW s \in Streams,
         StartStream(s) \/ YieldItem(s) \/ FinishStream(s) \/ Put(s)
         \/ UnwindStream(s) \/ ForgetStream(s)
  PROVE  (RequestsOK /\ StreamsOK /\ QueueOK /\ SessionOK /\ TargetsFresh /\ IdsFresh
           /\ TargetsApart /\ BlockedHolds /\ Kept /\ SessionOver)'
<1> USE DEF IInv, TypeOK, RequestsOK, PlacesOK, StreamsOK, SessionOK, TargetsFresh,
            IdsFresh, TargetsApart, BlockedHolds, Kept, SessionOver, Requests, Streams
<1>1. CASE StartStream(s)
  <2> USE <1>1 DEF StartStream, Move, StreamTurn, drainV, placeV, queueV, requestV
  <2>1. (RequestsOK /\ StreamsOK /\ SessionOK)'
    OBVIOUS
  <2>2. (TargetsFresh /\ IdsFresh /\ TargetsApart)'
    OBVIOUS
  <2>3. (BlockedHolds /\ Kept /\ SessionOver)'
    OBVIOUS
  <2>4. QueueOK'
    BY EnqueueKeeps DEF QueueOK
  <2> QED
    BY <2>1, <2>2, <2>3, <2>4
<1>2. CASE YieldItem(s)
  <2> USE <1>2 DEF YieldItem, Enqueue, Message, Move, QueueFull, Say, StreamTurn,
                   drainV, placeV, queueV, requestV
  <2>1. (RequestsOK /\ SessionOK)'
    OBVIOUS
  <2>2. StreamsOK'
    <3>1. items[s] \in 0..MaxItems /\ items[s] + 1 \in 0..MaxItems
      OBVIOUS
    <3>2. items' \in [Streams -> 0..MaxItems]
      BY <3>1
    <3>3. UNCHANGED <<tasks, cancelled>>
      OBVIOUS
    <3>4. stream' \in [Streams -> Active \cup {"none", "over"}]
      OBVIOUS
    <3>5. holding' \in [Streams -> {"none", "item", "ended"}]
      OBVIOUS
    <3> QED
      BY <3>2, <3>3, <3>4, <3>5
  <2>3. (TargetsFresh /\ IdsFresh /\ TargetsApart)'
    BY SMTT(30)
  <2>4. (BlockedHolds /\ Kept /\ SessionOver)'
    <3>1. BlockedHolds'
      BY SMTT(30)
    <3>2. Kept'
      BY SMTT(30)
    <3>3. SessionOver'
      BY SMTT(30)
    <3> QED
      BY <3>1, <3>2, <3>3
  <2>5. QueueOK'
    BY EnqueueKeeps DEF QueueOK
  <2> QED
    BY <2>1, <2>2, <2>3, <2>4, <2>5
<1>3. CASE FinishStream(s)
  <2> USE <1>3 DEF FinishStream, Enqueue, Message, Move, QueueFull, Say, StreamTurn,
                   drainV, placeV, queueV, requestV
  <2>1. (RequestsOK /\ StreamsOK /\ SessionOK)'
    OBVIOUS
  <2>2. (TargetsFresh /\ IdsFresh /\ TargetsApart)'
    OBVIOUS
  <2>3. (BlockedHolds /\ Kept /\ SessionOver)'
    BY SMTT(30)
  <2>4. QueueOK'
    BY EnqueueKeeps DEF QueueOK
  <2> QED
    BY <2>1, <2>2, <2>3, <2>4
<1>4. CASE Put(s)
  <2> USE <1>4 DEF Put, Enqueue, Message, Move, QueueFull, StreamTurn, drainV, placeV,
                   queueV, requestV
  <2>1. (RequestsOK /\ StreamsOK /\ SessionOK)'
    OBVIOUS
  <2>2. (TargetsFresh /\ IdsFresh /\ TargetsApart)'
    OBVIOUS
  <2>3. (BlockedHolds /\ Kept /\ SessionOver)'
    OBVIOUS
  <2>4. QueueOK'
    BY EnqueueKeeps DEF QueueOK
  <2> QED
    BY <2>1, <2>2, <2>3, <2>4
<1>5. CASE UnwindStream(s)
  <2> USE <1>5 DEF UnwindStream, Move, StreamTurn, drainV, placeV, queueV, requestV
  <2>1. (RequestsOK /\ StreamsOK /\ SessionOK)'
    OBVIOUS
  <2>2. (TargetsFresh /\ IdsFresh /\ TargetsApart)'
    OBVIOUS
  <2>3. (BlockedHolds /\ Kept /\ SessionOver)'
    OBVIOUS
  <2>4. QueueOK'
    BY EnqueueKeeps DEF QueueOK
  <2> QED
    BY <2>1, <2>2, <2>3, <2>4
<1>6. CASE ForgetStream(s)
  <2> USE <1>6 DEF ForgetStream, StreamTurn, drainV, placeV, queueV, requestV
  <2>1. (RequestsOK /\ StreamsOK /\ SessionOK)'
    OBVIOUS
  <2>2. (TargetsFresh /\ IdsFresh /\ TargetsApart)'
    OBVIOUS
  <2>3. (BlockedHolds /\ Kept /\ SessionOver)'
    OBVIOUS
  <2>4. QueueOK'
    BY EnqueueKeeps DEF QueueOK
  <2> QED
    BY <2>1, <2>2, <2>3, <2>4
<1> QED
  BY <1>1, <1>2, <1>3, <1>4, <1>5, <1>6

\* The writer, the drain and the teardown.
LEMMA SessionKeeps ==
  ASSUME IInv, Write \/ GraceBegin \/ GraceStreams \/ GraceClose \/ Close \/
         CancelRequests \/ CloseSession \/ SessionClosed \/ Over
  PROVE  (RequestsOK /\ StreamsOK /\ QueueOK /\ SessionOK /\ TargetsFresh /\ IdsFresh
           /\ TargetsApart /\ BlockedHolds /\ Kept /\ SessionOver)'
<1> USE DEF IInv, TypeOK, RequestsOK, PlacesOK, StreamsOK, SessionOK, TargetsFresh,
            IdsFresh, TargetsApart, BlockedHolds, Kept, SessionOver, Requests, Streams
<1>1. CASE Write
  <2> USE <1>1 DEF Write, drainV, placeV, requestV, streamV
  <2>1. (RequestsOK /\ StreamsOK /\ SessionOK)'
    OBVIOUS
  <2>2. (TargetsFresh /\ IdsFresh /\ TargetsApart)'
    OBVIOUS
  <2>3. (BlockedHolds /\ Kept /\ SessionOver)'
    OBVIOUS
  <2>4. QueueOK'
    BY EnqueueKeeps DEF QueueOK
  <2> QED
    BY <2>1, <2>2, <2>3, <2>4
<1>2. CASE GraceBegin
  <2> USE <1>2 DEF GraceBegin, DrainTurn, placeV, queueV, requestV, streamV
  <2>1. (RequestsOK /\ StreamsOK /\ SessionOK)'
    OBVIOUS
  <2>2. (TargetsFresh /\ IdsFresh /\ TargetsApart)'
    OBVIOUS
  <2>3. (BlockedHolds /\ Kept /\ SessionOver)'
    OBVIOUS
  <2>4. QueueOK'
    BY EnqueueKeeps DEF QueueOK
  <2> QED
    BY <2>1, <2>2, <2>3, <2>4
<1>3. CASE GraceStreams
  <2> USE <1>3 DEF GraceStreams, DrainTurn, placeV, queueV, requestV, streamV
  <2>1. (RequestsOK /\ StreamsOK /\ SessionOK)'
    OBVIOUS
  <2>2. (TargetsFresh /\ IdsFresh /\ TargetsApart)'
    OBVIOUS
  <2>3. (BlockedHolds /\ Kept /\ SessionOver)'
    OBVIOUS
  <2>4. QueueOK'
    BY EnqueueKeeps DEF QueueOK
  <2> QED
    BY <2>1, <2>2, <2>3, <2>4
<1>4. CASE GraceClose
  <2> USE <1>4 DEF GraceClose, DrainTurn, placeV, queueV, requestV, streamV
  <2>1. (RequestsOK /\ StreamsOK /\ SessionOK)'
    OBVIOUS
  <2>2. (TargetsFresh /\ IdsFresh /\ TargetsApart)'
    OBVIOUS
  <2>3. (BlockedHolds /\ Kept /\ SessionOver)'
    OBVIOUS
  <2>4. QueueOK'
    BY EnqueueKeeps DEF QueueOK
  <2> QED
    BY <2>1, <2>2, <2>3, <2>4
<1>5. CASE Close
  <2> USE <1>5 DEF Close, DrainTurn, drainV, placeV, queueV, requestV, streamV
  <2>1. (RequestsOK /\ StreamsOK /\ SessionOK)'
    OBVIOUS
  <2>2. (TargetsFresh /\ IdsFresh /\ TargetsApart)'
    OBVIOUS
  <2>3. (BlockedHolds /\ Kept /\ SessionOver)'
    OBVIOUS
  <2>4. QueueOK'
    BY EnqueueKeeps DEF QueueOK
  <2> QED
    BY <2>1, <2>2, <2>3, <2>4
<1>6. CASE CancelRequests
  <2> USE <1>6 DEF CancelRequests, drainV, queueV, streamV
  <2>1. (RequestsOK /\ StreamsOK /\ SessionOK)'
    OBVIOUS
  <2>2. (TargetsFresh /\ IdsFresh /\ TargetsApart)'
    OBVIOUS
  <2>3. (BlockedHolds /\ Kept /\ SessionOver)'
    OBVIOUS
  <2>4. QueueOK'
    BY EnqueueKeeps DEF QueueOK
  <2> QED
    BY <2>1, <2>2, <2>3, <2>4
<1>7. CASE CloseSession
  <2> USE <1>7 DEF CloseSession, CancelStreams, placeV, queueV, requestV
  <2>1. (RequestsOK /\ StreamsOK /\ SessionOK)'
    OBVIOUS
  <2>2. (TargetsFresh /\ IdsFresh /\ TargetsApart)'
    OBVIOUS
  <2>3. (BlockedHolds /\ Kept /\ SessionOver)'
    OBVIOUS
  <2>4. QueueOK'
    BY EnqueueKeeps DEF QueueOK
  <2> QED
    BY <2>1, <2>2, <2>3, <2>4
<1>8. CASE SessionClosed
  <2> USE <1>8 DEF SessionClosed, drainV, placeV, queueV, requestV, streamV
  <2>1. (RequestsOK /\ StreamsOK /\ SessionOK)'
    OBVIOUS
  <2>2. (TargetsFresh /\ IdsFresh /\ TargetsApart)'
    OBVIOUS
  <2>3. (BlockedHolds /\ Kept /\ SessionOver)'
    OBVIOUS
  <2>4. QueueOK'
    BY EnqueueKeeps DEF QueueOK
  <2> QED
    BY <2>1, <2>2, <2>3, <2>4
<1>9. CASE Over
  <2> USE <1>9 DEF Over, drainV, placeV, queueV, requestV, streamV, vars
  <2>1. (RequestsOK /\ StreamsOK /\ SessionOK)'
    OBVIOUS
  <2>2. (TargetsFresh /\ IdsFresh /\ TargetsApart)'
    OBVIOUS
  <2>3. (BlockedHolds /\ Kept /\ SessionOver)'
    OBVIOUS
  <2>4. QueueOK'
    BY EnqueueKeeps DEF QueueOK
  <2> QED
    BY <2>1, <2>2, <2>3, <2>4
<1> QED
  BY <1>1, <1>2, <1>3, <1>4, <1>5, <1>6, <1>7, <1>8, <1>9

\* Nothing happens.
LEMMA Unchanged ==
  ASSUME IInv, UNCHANGED vars
  PROVE  IInv'
BY DEF IInv, TypeOK, RequestsOK, PlacesOK, StreamsOK, QueueOK, SessionOK, PlacesCounted,
       IdsCounted, TargetsFresh, IdsFresh, TargetsApart, BlockedHolds, Kept, RoomHeld,
       SessionOver, Targeted, vars, requestV, placeV, streamV, queueV, drainV

-----------------------------------------------------------------------------
(* The counting *)

HIDE DEF Opening

\* Places and ids that are counted are within their bounds.
LEMMA PlacesBounded ==
  ASSUME PlacesCounted', IdsCounted', next_id' \in Nat \ {0}
  PROVE  PlacesOK'
<1>1. Opening' \in SUBSET (1..MaxRequests) /\ Targeted' \in SUBSET (1..MaxRequests)
  BY DEF Opening, Targeted, Requests
<1>2. Cardinality(Opening') \in 0..MaxRequests /\ Cardinality(Targeted') \in 0..MaxRequests
  BY <1>1, SmallSets
<1> QED
  BY <1>2 DEF PlacesCounted, IdsCounted, PlacesOK

\* One element more is at most one more to count.
LEMMA OneMore ==
  ASSUME NEW T, NEW x, IsFiniteSet(T)
  PROVE  Cardinality(T \cup {x}) \in Nat /\ Cardinality(T \cup {x}) <= Cardinality(T) + 1
<1>1. Cardinality(T) \in Nat
  BY FS_CardinalityType
<1>2. Cardinality(T \cup {x}) = IF x \in T THEN Cardinality(T) ELSE Cardinality(T) + 1
  BY FS_AddElement
<1> QED
  BY <1>1, <1>2

\* A step that opens nothing, ends no opening and names no new stream.
LEMMA SameCounts ==
  ASSUME IInv, UNCHANGED <<next_id, pending>>, Opening' = Opening, Targeted' = Targeted
  PROVE  (PlacesCounted /\ IdsCounted /\ PlacesOK)'
BY DEF IInv, TypeOK, PlacesOK, PlacesCounted, IdsCounted

\* A request takes its place, gives it back or turns it into a stream.
LEMMA RequestCounts ==
  ASSUME IInv, NEW r \in Requests,
         CallStream(r) \/ Refuse(r) \/ OpenStream(r) \/ Opened(r) \/ StopStream(r)
         \/ Joined(r) \/ Answered(r) \/ InterruptRequest(r) \/ UnwindRequest(r)
  PROVE  (PlacesCounted /\ IdsCounted /\ PlacesOK /\ RoomHeld)'
<1> USE DEF IInv, TypeOK, RequestsOK, PlacesOK, StreamsOK, SessionOK
<1>1. /\ session' = session /\ session \in {"open", "cancelling"}
      /\ Cardinality(tasks) + pending <= MaxStreams
  BY DEF CallStream, Refuse, OpenStream, Opened, StopStream, Joined, Answered,
         InterruptRequest, UnwindRequest, RequestTurn, Starts, Kept, RoomHeld
<1>2. /\ IsFiniteSet(Opening) /\ Cardinality(Opening) \in Nat
      /\ IsFiniteSet(Targeted) /\ Cardinality(Targeted) \in Nat
      /\ IsFiniteSet(tasks) /\ Cardinality(tasks) \in Nat
  <2>1. Opening \in SUBSET (1..MaxRequests) /\ Targeted \in SUBSET (1..MaxRequests)
        /\ tasks \in SUBSET (1..MaxRequests)
    BY DEF Opening, Targeted, Requests, Streams
  <2> QED
    BY <2>1, SmallSets
<1>3. CASE CallStream(r)
  <2> USE <1>3 DEF CallStream, Goto, RequestTurn, placeV, streamV
  <2>1. Opening' = Opening
    BY DEF Opening
  <2>2. Targeted \in SUBSET Targeted'
    BY DEF Targeted, TargetsFresh
  <2>3. Targeted' \in SUBSET (1..MaxRequests)
    BY DEF Targeted, Requests
  <2>4. IsFiniteSet(Targeted') /\ Cardinality(Targeted') \in Nat
    BY <2>3, SmallSets
  <2>5. Cardinality(Targeted) <= Cardinality(Targeted')
    BY <2>2, <2>4, FS_Subset
  <2>6. UNCHANGED <<next_id, pending, tasks>>
    OBVIOUS
  <2> HIDE <1>3
  <2>7. (PlacesCounted /\ IdsCounted)'
    BY <1>2, <2>1, <2>4, <2>5, <2>6 DEF PlacesCounted, IdsCounted
  <2> QED
    BY <1>1, <2>6, <2>7, PlacesBounded DEF RoomHeld
<1>4. CASE Refuse(r) \/ StopStream(r) \/ Joined(r) \/ Answered(r) \/ InterruptRequest(r)
  <2> USE <1>4 DEF Refuse, StopStream, Joined, Answered, InterruptRequest, Reply, Goto,
                   Starts, RequestTurn, placeV, streamV
  <2>1. Opening' = Opening
    BY DEF Opening
  <2>2. Targeted' = Targeted
    BY DEF Targeted
  <2>3. UNCHANGED <<next_id, pending, tasks>>
    OBVIOUS
  <2> QED
    BY <1>1, <2>1, <2>2, <2>3, SameCounts DEF RoomHeld
<1>5. CASE OpenStream(r)
  <2> USE <1>5 DEF OpenStream, Starts, Goto, LimitReached
  <2>1. next_id \in Streams
    BY IdLeft
  <2>2. r \notin Targeted /\ Targeted' = Targeted \cup {r}
    BY <2>1 DEF Targeted, Streams
  <2>3. Cardinality(Targeted') = Cardinality(Targeted) + 1
    BY <1>2, <2>2, FS_AddElement
  <2>4. next_id' = next_id + 1 /\ IdsCounted'
    BY <1>2, <2>3 DEF IdsCounted
  <2>5. Cardinality(tasks) + pending < MaxStreams
    BY <1>2
  <2>6. CASE QueueFull
    <3>1. r \notin Opening /\ Opening' = Opening \cup {r}
      BY <2>6 DEF Opening, Reply, Enqueue
    <3>2. Cardinality(Opening') = Cardinality(Opening) + 1
      BY <1>2, <3>1, FS_AddElement
    <3>3. pending' = pending + 1 /\ tasks' = tasks
      BY <2>6 DEF streamV
    <3> QED
      BY <1>1, <1>2, <2>4, <2>5, <3>2, <3>3, PlacesBounded DEF PlacesCounted, RoomHeld
  <2>7. CASE ~QueueFull
    <3>1. Opening' = Opening
      BY <2>7 DEF Opening, Reply
    <3>2. pending' = pending /\ tasks' = tasks \cup {next_id}
      BY <2>7 DEF CreateStream
    <3>3. Cardinality(tasks') \in Nat /\ Cardinality(tasks') <= Cardinality(tasks) + 1
      BY <1>2, <3>2, OneMore
    <3> QED
      BY <1>1, <1>2, <2>4, <2>5, <3>1, <3>2, <3>3, PlacesBounded
         DEF PlacesCounted, RoomHeld
  <2> QED
    BY <2>6, <2>7
<1>6. CASE Opened(r) \/ UnwindRequest(r)
  <2> USE <1>6 DEF Opened, UnwindRequest, Goto
  <2>1. Targeted' = Targeted
    BY DEF Targeted
  <2>2. next_id' = next_id /\ IdsCounted'
    BY <2>1 DEF IdsCounted
  <2>3. CASE r \in Opening
    <3>1. Opening' = Opening \ {r}
      BY <2>3 DEF Opening
    <3>2. Cardinality(Opening') = Cardinality(Opening) - 1
      BY <1>2, <2>3, <3>1, FS_RemoveElement
    <3>3. pending' = pending - 1
      BY <2>3 DEF Opening, FreedPlaces
    <3>4. tasks' = tasks \/ tasks' = tasks \cup {target[r]}
      BY <2>3 DEF CreateStream, streamV
    <3>5. Cardinality(tasks') \in Nat /\ Cardinality(tasks') <= Cardinality(tasks) + 1
      <4>1. CASE tasks' = tasks
        BY <1>2, <4>1
      <4>2. CASE tasks' = tasks \cup {target[r]}
        BY <1>2, <4>2, OneMore
      <4> QED
        BY <3>4, <4>1, <4>2
    <3> QED
      BY <1>1, <1>2, <2>2, <3>2, <3>3, <3>5, PlacesBounded DEF PlacesCounted, RoomHeld
  <2>4. CASE r \notin Opening
    <3>1. Opening' = Opening /\ UNCHANGED <<pending, tasks>>
      BY <2>4 DEF Opening, FreedPlaces, streamV
    <3> QED
      BY <1>1, <2>1, <2>2, <3>1, SameCounts DEF RoomHeld
  <2> QED
    BY <2>3, <2>4
<1> QED
  BY <1>3, <1>4, <1>5, <1>6

\* A task of a stream may only be forgotten.
LEMMA StreamCounts ==
  ASSUME IInv, NEW s \in Streams,
         StartStream(s) \/ YieldItem(s) \/ FinishStream(s) \/ Put(s)
         \/ UnwindStream(s) \/ ForgetStream(s)
  PROVE  (PlacesCounted /\ IdsCounted /\ PlacesOK /\ RoomHeld)'
<1> USE DEF IInv, TypeOK, PlacesOK, StreamsOK, StartStream, YieldItem, FinishStream,
            Put,
            UnwindStream, ForgetStream, StreamTurn, requestV, placeV, drainV
<1>1. Opening' = Opening /\ Targeted' = Targeted /\ UNCHANGED <<next_id, pending>>
  BY DEF Opening, Targeted
<1>2. tasks' \subseteq tasks /\ UNCHANGED <<session, awaited>>
  OBVIOUS
<1>3. Cardinality(tasks') \in Nat /\ Cardinality(tasks) \in Nat
      /\ Cardinality(tasks') <= Cardinality(tasks)
  <2>1. tasks \in SUBSET (1..MaxRequests) /\ tasks' \in SUBSET (1..MaxRequests)
    BY <1>2 DEF Streams
  <2> QED
    BY <1>2, <2>1, SmallSets, FS_Subset
<1>4. RoomHeld'
  BY <1>1, <1>2, <1>3 DEF RoomHeld
<1> QED
  BY <1>1, <1>4, SameCounts

\* close() takes all the tasks there are, and nothing else does.
LEMMA SessionCounts ==
  ASSUME IInv, Write \/ GraceBegin \/ GraceStreams \/ GraceClose \/ Close
               \/ CancelRequests \/ CloseSession \/ SessionClosed \/ Over
  PROVE  (PlacesCounted /\ IdsCounted /\ PlacesOK /\ RoomHeld)'
<1> USE DEF IInv, TypeOK, PlacesOK, SessionOK, Write, GraceBegin, GraceStreams,
            GraceClose, Close, CancelRequests, CloseSession, SessionClosed, Over,
            DrainTurn, vars, requestV, placeV, streamV, drainV
<1>1. Opening' = Opening /\ Targeted' = Targeted /\ UNCHANGED <<next_id, pending>>
  BY DEF Opening, Targeted
<1>2. Cardinality(tasks) \in Nat
  <2>1. tasks \in SUBSET (1..MaxRequests)
    BY DEF StreamsOK, Streams
  <2> QED
    BY <2>1, SmallSets
<1>3. CASE CloseSession
  BY <1>1, <1>2, <1>3, SameCounts DEF RoomHeld
<1>4. CASE GraceStreams
  <2>1. session = "open" /\ UNCHANGED <<tasks, session>>
    BY <1>4 DEF SessionOver
  <2> QED
    BY <1>1, <2>1, SameCounts DEF RoomHeld
<1>5. CASE \/ Write \/ GraceBegin \/ GraceClose \/ Close \/ CancelRequests
           \/ SessionClosed \/ Over
  <2>1. UNCHANGED <<tasks, awaited>>
    BY <1>5
  <2>2. session' \in {"open", "cancelling"} <=> session \in {"open", "cancelling"}
    BY <1>5
  <2> QED
    BY <1>1, <2>1, <2>2, SameCounts DEF RoomHeld
<1> QED
  BY <1>3, <1>4, <1>5

-----------------------------------------------------------------------------
(* The theorems *)

\* A new connection satisfies the invariant.
LEMMA InitHolds == Init => IInv
<1> SUFFICES ASSUME Init PROVE IInv
  OBVIOUS
<1> USE DEF Init
<1>1. RequestsOK /\ StreamsOK
  BY DEF RequestsOK, StreamsOK
<1>2. PlacesOK /\ SessionOK
  <2>1. PlacesOK
    BY DEF PlacesOK
  <2>2. SessionOK
    BY DEF SessionOK
  <2> QED
    BY <2>1, <2>2
<1>3. QueueOK
  <2>1. outgoing \in Seq([kind : Kinds, stream : {0} \cup Streams]) /\ Len(outgoing) = 0
    OBVIOUS
  <2>2. \A s \in Streams : said[s] \in Seq(Kinds)
    OBVIOUS
  <2> QED
    BY <2>1, <2>2 DEF QueueOK
<1>4. Opening = {} /\ Targeted = {} /\ tasks = {} /\ Cardinality({}) = 0
  BY FS_EmptySet DEF Opening, Targeted
<1>5. PlacesCounted /\ IdsCounted /\ RoomHeld
  <2>1. pending = 0 /\ next_id = 1 /\ session = "open"
    OBVIOUS
  <2>2. Cardinality(Opening) = 0 /\ Cardinality(Targeted) = 0 /\ Cardinality(tasks) = 0
    BY <1>4
  <2> HIDE DEF Init
  <2> QED
    BY <2>1, <2>2 DEF PlacesCounted, IdsCounted, RoomHeld
<1>6. TargetsFresh /\ IdsFresh /\ TargetsApart /\ BlockedHolds /\ Kept /\ SessionOver
  BY DEF Opening, TargetsFresh, IdsFresh, TargetsApart, BlockedHolds, Kept, SessionOver
<1> QED
  BY <1>1, <1>2, <1>3, <1>5, <1>6 DEF IInv, TypeOK

\* Every step keeps it.
LEMMA StepKeeps == IInv /\ [Next]_vars => IInv'
<1> SUFFICES ASSUME IInv, [Next]_vars PROVE IInv'
  OBVIOUS
<1>1. ASSUME NEW r \in Requests, RequestStep(r) \/ CallStream(r) \/ InterruptRequest(r)
      PROVE  IInv'
  BY <1>1, RequestKeeps, RequestCounts DEF RequestStep, IInv, TypeOK
<1>2. ASSUME NEW s \in Streams, StreamStep(s) \/ YieldItem(s) \/ FinishStream(s)
      PROVE  IInv'
  BY <1>2, StreamKeeps, StreamCounts DEF StreamStep, IInv, TypeOK
<1>3. CASE \/ Write \/ GraceStreams \/ GraceClose \/ CancelRequests \/ CloseSession
           \/ SessionClosed \/ GraceBegin \/ Close \/ Over
  BY <1>3, SessionKeeps, SessionCounts DEF IInv, TypeOK
<1>4. CASE UNCHANGED vars
  BY <1>4, Unchanged
<1> QED
  BY <1>1, <1>2, <1>3, <1>4 DEF Next, Progress

LEMMA Invariance == Spec => []IInv
BY InitHolds, StepKeeps, PTL DEF Spec

\* The variables of the session have their types: an id is never taken twice and
\* the queue never exceeds max_queue_size (subscriptions.py).
THEOREM StreamTypes == Spec => []TypeOK
BY Invariance, PTL DEF IInv

\* limits.max_streams holds for the streams that run, although _handle() checks it
\* before the answer and creates the stream after it.
THEOREM StreamsAreBounded == Spec => []StreamsBounded
<1>1. IInv => StreamsBounded
  <2> SUFFICES ASSUME IInv PROVE StreamsBounded
    OBVIOUS
  <2>1. /\ session \in {"open", "cancelling"} => Unfinished \in SUBSET tasks
        /\ session \notin {"open", "cancelling"} => Unfinished \in SUBSET awaited
    BY DEF IInv, Kept
  <2>2. tasks \in SUBSET (1..MaxRequests) /\ awaited \in SUBSET (1..MaxRequests)
    BY DEF IInv, TypeOK, StreamsOK, SessionOK, Streams
  <2>3. Unfinished \in SUBSET (1..MaxRequests)
    BY DEF Streams
  <2>4. /\ Cardinality(tasks) \in Nat /\ Cardinality(awaited) \in Nat
        /\ Cardinality(Unfinished) \in Nat
        /\ IsFiniteSet(tasks) /\ IsFiniteSet(awaited)
    BY <2>2, <2>3, SmallSets
  <2>5. CASE session \in {"open", "cancelling"}
    <3>1. Cardinality(Unfinished) <= Cardinality(tasks)
      BY <2>1, <2>4, <2>5, FS_Subset
    <3> QED
      BY <2>4, <2>5, <3>1 DEF IInv, TypeOK, PlacesOK, RoomHeld, StreamsBounded
  <2>6. CASE session \notin {"open", "cancelling"}
    <3>1. Cardinality(Unfinished) <= Cardinality(awaited)
      BY <2>1, <2>4, <2>6, FS_Subset
    <3> QED
      BY <2>4, <2>6, <3>1 DEF IInv, RoomHeld, StreamsBounded
  <2> QED
    BY <2>5, <2>6
<1> QED
  BY <1>1, Invariance, PTL

\* close() and the finally clause of _handle(): a closed session has no task and
\* no pending place, wherever opening a stream was interrupted.
THEOREM NoStreamEverOutlives == Spec => []NoStreamOutlives
<1>1. IInv => NoStreamOutlives
  <2> SUFFICES ASSUME IInv, session = "closed" PROVE NoStreamOutlives
    BY DEF NoStreamOutlives
  <2>1. Unfinished = {} /\ tasks = {} /\ NoRequest
    BY DEF IInv, Kept, SessionOver
  <2>2. Opening = {}
    BY <2>1 DEF Opening
  <2>3. pending = 0
    BY <2>2, FS_EmptySet DEF IInv, PlacesCounted
  <2> QED
    BY <2>1, <2>3 DEF NoStreamOutlives
<1> QED
  BY <1>1, Invariance, PTL

-----------------------------------------------------------------------------
(* What was said of a stream follows what became of its task, and a stream   *)
(* that is over without an end of its own was cancelled by a request that    *)
(* answers for it.                                                           *)

Says(kind, s) == \E k \in 1..Len(said[s]) : said[s][k] = kind
Last(s) == said[s][Len(said[s])]
Talk(kind, s) == said' = [said EXCEPT ![s] = Append(@, kind)]

\* A stream that does not exist was not spoken of, one that has not ended was not
\* said to have ended, and every stream was announced.
Spoken ==
  \A s \in Streams :
    /\ stream[s] = "none" => said[s] = <<>>
    /\ said[s] # <<>> => Last(s) \in IF stream[s] \in Active THEN {"opened", "item"}
                                     ELSE {"opened", "item", "ended", "stopped"}
    /\ ~closing /\ stream[s] # "none" => said[s] # <<>>

\* A request cancels a stream that exists, and answers when its task has ended.
TargetsKnown ==
  \A r \in Requests :
    /\ request[r] \in {"called", "joining", "stopping"} /\ target[r] # 0 =>
         stream[target[r]] # "none"
    /\ request[r] = "stopping" => stream[target[r]] = "over"

\* The request has yet to answer, was interrupted, or has answered.
Cancels(r) ==
  \/ request[r] \in {"joining", "stopping"}
  \/ request[r] = "done" /\ (r \in interrupted \/ Says("stopped", target[r]))

Excused(s) == \E r \in Requests : target[r] = s /\ Cancels(r)

Traced ==
  ~closing => \A s \in Streams : s \in cancelled \/ stream[s] = "over" =>
                                  Says("ended", s) \/ Excused(s)

\* From the moment the drain waits for the streams no request is left to open one.
GraceHeld ==
  /\ grace # "off" => draining
  /\ grace \in {"streams", "ended"} => NoRequest /\ Unfinished \subseteq awaited
  /\ grace = "ended" =>
       /\ closing /\ Unfinished = {} /\ outgoing = <<>>
       /\ \A s \in Streams : Says("opened", s) =>
            \/ Says("ended", s) \/ Says("stopped", s)
            \/ \E r \in interrupted : target[r] = s

SpeechInv == Spoken /\ TargetsKnown /\ Traced /\ GraceHeld

\* A message of a kind is counted if and only if there is one.
LEMMA CountSays ==
  ASSUME IInv, NEW s \in Streams, NEW kind
  PROVE  Count(kind, s) \in Nat /\ (Count(kind, s) > 0 <=> Says(kind, s))
<1> DEFINE S == {k \in 1..Len(said[s]) : said[s][k] = kind}
<1>1. Len(said[s]) \in Nat
  BY DEF IInv, TypeOK, QueueOK
<1>2. IsFiniteSet(1..Len(said[s]))
  BY <1>1, FS_Interval
<1>3. IsFiniteSet(S)
  BY <1>2, FS_Subset
<1>4. Cardinality(S) \in Nat /\ (Cardinality(S) = 0 <=> S = {})
  BY <1>3, FS_CardinalityType, FS_EmptySet
<1>5. S = {} <=> ~Says(kind, s)
  BY DEF Says
<1> QED
  BY <1>4, <1>5 DEF Count

\* A message more, after all the others.
LEMMA TalkAdds ==
  ASSUME IInv, NEW s \in Streams, NEW kind \in Kinds, Talk(kind, s)
  PROVE  /\ \A t \in Streams \ {s} : said'[t] = said[t]
         /\ said'[s] # <<>> /\ Last(s)' = kind
         /\ \A k : Says(k, s)' <=> (Says(k, s) \/ k = kind)
         /\ \A k : Count(k, s)' = IF k = kind THEN Count(k, s) + 1 ELSE Count(k, s)
<1>1. /\ said[s] \in Seq(Kinds) /\ Len(said[s]) \in Nat
      /\ \A t \in Streams \ {s} : said'[t] = said[t]
      /\ said'[s] = Append(said[s], kind)
  BY DEF IInv, TypeOK, QueueOK, Talk
<1>2. /\ Len(said'[s]) = Len(said[s]) + 1
      /\ 1..Len(said'[s]) = 1..Len(said[s]) \cup {Len(said[s]) + 1}
      /\ \A i \in 1..Len(said[s]) : said'[s][i] = said[s][i]
      /\ said'[s][Len(said[s]) + 1] = kind
      /\ Len(said[s]) + 1 \notin 1..Len(said[s])
  BY <1>1
<1>3. said'[s] # <<>> /\ Last(s)' = kind
  BY <1>1, <1>2 DEF Last
<1>4. ASSUME NEW k
      PROVE  Says(k, s)' <=> (Says(k, s) \/ k = kind)
  BY <1>2 DEF Says
<1>5. ASSUME NEW k
      PROVE  Count(k, s)' = IF k = kind THEN Count(k, s) + 1 ELSE Count(k, s)
  <2> DEFINE S == {i \in 1..Len(said[s]) : said[s][i] = k}
             T == {i \in 1..Len(said'[s]) : said'[s][i] = k}
  <2>1. Count(k, s) = Cardinality(S) /\ Count(k, s)' = Cardinality(T)
    BY DEF Count
  <2>2. T = IF k = kind THEN S \cup {Len(said[s]) + 1} ELSE S
    BY <1>2
  <2>3. Len(said[s]) + 1 \notin S
    BY <1>2
  <2>4. IsFiniteSet(S)
    <3>1. IsFiniteSet(1..Len(said[s]))
      BY <1>1, FS_Interval
    <3> QED
      BY <3>1, FS_Subset
  <2> HIDE DEF S, T
  <2>5. Cardinality(S \cup {Len(said[s]) + 1}) = Cardinality(S) + 1
    BY <2>3, <2>4, FS_AddElement
  <2> QED
    BY <2>1, <2>2, <2>5
<1> QED
  BY <1>1, <1>3, <1>4, <1>5

\* What is queued is also said, but for a refusal.
LEMMA EnqueueTalks ==
  ASSUME NEW kind, NEW s, Enqueue(Message(kind, s))
  PROVE  IF kind = "refused" THEN UNCHANGED said ELSE Talk(kind, s)
BY DEF Enqueue, Message, Talk

-----------------------------------------------------------------------------
(* What one step may do to a stream and to what is said of it. *)

Opens(t) ==
  /\ stream[t] = "none" /\ stream' = [stream EXCEPT ![t] = "created"]
  /\ \/ Talk("opened", t)
     \/ UNCHANGED said /\ closing'

Runs(t) ==
  /\ stream[t] \in Active /\ \E to \in Active : stream' = [stream EXCEPT ![t] = to]
  /\ UNCHANGED said \/ Talk("item", t)

Ends(t) ==
  /\ stream[t] \in Active /\ stream' = [stream EXCEPT ![t] = "over"]
  /\ UNCHANGED said \/ Talk("ended", t)

Stops(t) == stream[t] = "over" /\ UNCHANGED stream /\ Talk("stopped", t)

Effect ==
  /\ closing => closing'
  /\ \/ UNCHANGED <<said, stream>>
     \/ \E t \in Streams : Opens(t) \/ Runs(t) \/ Ends(t) \/ Stops(t)

\* Such a step keeps what was said in line with the streams; what was said and what
\* is over stay so.
LEMMA EffectKeeps ==
  ASSUME IInv, Spoken, Effect
  PROVE  /\ Spoken'
         /\ \A s \in Streams : \A k : Says(k, s) => Says(k, s)'
         /\ \A s \in Streams : /\ stream[s] # "none" => stream'[s] # "none"
                               /\ stream[s] = "over" => stream'[s] = "over"
<1>1. stream \in [Streams -> Active \cup {"none", "over"}]
  BY DEF IInv, TypeOK, StreamsOK
<1>2. CASE UNCHANGED <<said, stream>>
  BY <1>2 DEF Effect, Spoken, Says, Last
<1>3. ASSUME NEW t \in Streams, Opens(t) \/ Runs(t) \/ Ends(t) \/ Stops(t)
      PROVE  /\ Spoken'
             /\ \A s \in Streams : \A k : Says(k, s) => Says(k, s)'
             /\ \A s \in Streams : /\ stream[s] # "none" => stream'[s] # "none"
                                   /\ stream[s] = "over" => stream'[s] = "over"
  <2>1. \A s \in Streams \ {t} : stream'[s] = stream[s]
    BY <1>1, <1>3 DEF Opens, Runs, Ends, Stops
  <2>2. \/ UNCHANGED said
        \/ \E kind \in Kinds : Talk(kind, t)
    BY <1>3 DEF Opens, Runs, Ends, Stops
  <2>3. \A s \in Streams \ {t} : said'[s] = said[s]
    BY <2>2, TalkAdds
  <2>4. \A s \in Streams : \A k : Says(k, s) => Says(k, s)'
    <3>1. CASE UNCHANGED said
      BY <3>1 DEF Says
    <3>2. ASSUME NEW kind \in Kinds, Talk(kind, t)
          PROVE  \A s \in Streams : \A k : Says(k, s) => Says(k, s)'
      <4>1. \A k : Says(k, t) => Says(k, t)'
        BY <3>2, TalkAdds
      <4>2. ASSUME NEW s \in Streams \ {t}, NEW k
            PROVE  Says(k, s) => Says(k, s)'
        BY <2>3 DEF Says
      <4> QED
        BY <4>1, <4>2
    <3> QED
      BY <2>2, <3>1, <3>2
  <2>5. closing => closing'
    BY DEF Effect
  <2>6. ASSUME NEW s \in Streams \ {t}
        PROVE  /\ stream'[s] = "none" => said'[s] = <<>>
               /\ said'[s] # <<>> => Last(s)' \in IF stream'[s] \in Active
                                                 THEN {"opened", "item"}
                                     ELSE {"opened", "item", "ended", "stopped"}
               /\ ~closing' /\ stream'[s] # "none" => said'[s] # <<>>
    <3>1. stream'[s] = stream[s] /\ said'[s] = said[s] /\ Last(s)' = Last(s)
      BY <2>1, <2>3 DEF Last
    <3> QED
      BY <2>5, <3>1 DEF Spoken
  <2>7. /\ stream'[t] = "none" => said'[t] = <<>>
        /\ said'[t] # <<>> => Last(t)' \in IF stream'[t] \in Active
                                          THEN {"opened", "item"}
                                     ELSE {"opened", "item", "ended", "stopped"}
        /\ ~closing' /\ stream'[t] # "none" => said'[t] # <<>>
    <3>1. UNCHANGED said => said'[t] = said[t] /\ Last(t)' = Last(t)
      BY DEF Last
    <3>2. \A kind \in Kinds : Talk(kind, t) => said'[t] # <<>> /\ Last(t)' = kind
      BY TalkAdds
    <3>3. CASE Opens(t)
      <4>1. stream'[t] = "created" /\ said[t] = <<>>
        BY <1>1, <3>3 DEF Opens, Spoken
      <4> QED
        BY <3>1, <3>2, <3>3, <4>1 DEF Opens
    <3>4. CASE Runs(t)
      <4>1. stream'[t] \in Active /\ stream[t] \in Active
        BY <1>1, <3>4 DEF Runs
      <4> QED
        BY <2>5, <3>1, <3>2, <3>4, <4>1 DEF Runs, Spoken
    <3>5. CASE Ends(t)
      <4>1. stream'[t] = "over" /\ stream[t] \in Active
        BY <1>1, <3>5 DEF Ends
      <4> QED
        BY <2>5, <3>1, <3>2, <3>5, <4>1 DEF Ends, Spoken
    <3>6. CASE Stops(t)
      <4>1. stream'[t] = "over"
        BY <3>6 DEF Stops
      <4> QED
        BY <3>2, <3>6, <4>1 DEF Stops
    <3> QED
      BY <1>3, <3>3, <3>4, <3>5, <3>6
  <2>8. Spoken'
    BY <2>6, <2>7 DEF Spoken
  <2>9. /\ stream[t] # "none" => stream'[t] # "none"
        /\ stream[t] = "over" => stream'[t] = "over"
    BY <1>1, <1>3 DEF Opens, Runs, Ends, Stops
  <2> QED
    BY <2>1, <2>4, <2>8, <2>9
<1> QED
  BY <1>2, <1>3 DEF Effect

\* The answer to a request announces a stream that is created in the same step, or
\* the end of one whose task is over.
LEMMA RequestEffect ==
  ASSUME IInv, SpeechInv, NEW r \in Requests,
         CallStream(r) \/ Refuse(r) \/ OpenStream(r) \/ Opened(r) \/ StopStream(r)
         \/ Joined(r) \/ Answered(r) \/ InterruptRequest(r) \/ UnwindRequest(r)
  PROVE  Effect
<1>1. CASE \/ CallStream(r) \/ InterruptRequest(r) \/ UnwindRequest(r)
  BY <1>1 DEF CallStream, InterruptRequest, UnwindRequest, streamV, queueV, Effect
<1>2. CASE Refuse(r)
  <2>1. UNCHANGED <<stream, closing>>
    BY <1>2 DEF Refuse, streamV
  <2>2. UNCHANGED said
    <3>1. Enqueue(Message("refused", 0)) \/ UNCHANGED queueV
      BY <1>2 DEF Refuse, Reply
    <3> QED
      BY <3>1, EnqueueTalks DEF queueV
  <2> QED
    BY <2>1, <2>2 DEF Effect
<1>3. CASE OpenStream(r)
  <2>1. UNCHANGED closing
    BY <1>3 DEF OpenStream
  <2>2. CASE QueueFull
    <3>1. UNCHANGED <<stream, said>>
      BY <1>3, <2>2 DEF OpenStream, Reply, Enqueue, streamV, queueV
    <3> QED
      BY <2>1, <3>1 DEF Effect
  <2>3. CASE ~QueueFull
    <3>1. Enqueue(Message("opened", next_id)) /\ CreateStream(next_id)
      BY <1>3, <2>3 DEF OpenStream, Reply
    <3>2. next_id \in Streams
      BY <1>3, IdLeft DEF OpenStream
    <3>3. stream[next_id] = "none"
      BY <3>2 DEF IInv, IdsFresh, Streams
    <3>4. Opens(next_id)
      BY <3>1, <3>3, EnqueueTalks DEF Opens, CreateStream
    <3> QED
      BY <2>1, <3>2, <3>4 DEF Effect
  <2> QED
    BY <2>2, <2>3
<1>4. CASE Opened(r)
  <2>1. target[r] \in Streams /\ stream[target[r]] = "none"
    BY <1>4 DEF Opened, IInv, TypeOK, RequestsOK, TargetsFresh
  <2>2. stream' = [stream EXCEPT ![target[r]] = "created"]
    BY <1>4 DEF Opened, CreateStream
  <2>3. \/ Enqueue(Message("opened", target[r])) /\ UNCHANGED closing
        \/ UNCHANGED said /\ closing' = TRUE
    BY <1>4 DEF Opened, queueV
  <2>4. Opens(target[r]) /\ (closing => closing')
    BY <2>1, <2>2, <2>3, EnqueueTalks DEF Opens
  <2> QED
    BY <2>1, <2>4 DEF Effect
<1>5. CASE StopStream(r)
  <2>1. UNCHANGED <<stream, closing>> /\ target[r] # 0 /\ request[r] = "called"
    BY <1>5 DEF StopStream, Starts
  <2>2. CASE UNCHANGED queueV
    BY <2>1, <2>2 DEF Effect, queueV
  <2>3. CASE target[r] \notin tasks /\ Enqueue(Message("stopped", target[r]))
    <3>1. target[r] \in Streams
      BY <2>1 DEF IInv, TypeOK, RequestsOK
    <3>2. Unfinished \subseteq tasks
      BY <2>1 DEF IInv, Kept
    <3>3. stream[target[r]] \notin {"none"} \cup Active
      BY <2>1, <2>3, <3>1, <3>2 DEF SpeechInv, TargetsKnown
    <3>4. stream[target[r]] = "over"
      BY <3>1, <3>3 DEF IInv, TypeOK, StreamsOK
    <3>5. Stops(target[r])
      BY <2>1, <2>3, <3>4, EnqueueTalks DEF Stops
    <3> QED
      BY <2>1, <3>1, <3>5 DEF Effect
  <2> QED
    BY <1>5, <2>2, <2>3 DEF StopStream, Reply
<1>6. CASE Joined(r) \/ Answered(r)
  <2>1. UNCHANGED stream /\ (closing => closing')
    BY <1>6 DEF Joined, Answered, streamV
  <2>2. CASE UNCHANGED queueV
    BY <2>1, <2>2 DEF Effect, queueV
  <2>3. CASE request[r] = "refusing" /\ Enqueue(Message("refused", 0))
    BY <2>1, <2>3, EnqueueTalks DEF Effect
  <2>4. CASE /\ \/ request[r] = "joining" /\ stream[target[r]] = "over"
                \/ request[r] = "stopping"
             /\ Enqueue(Message("stopped", target[r]))
    <3>1. target[r] \in Streams
      BY <2>4 DEF IInv, TypeOK, RequestsOK, TargetsFresh
    <3>2. stream[target[r]] = "over"
      BY <2>4 DEF SpeechInv, TargetsKnown
    <3>3. Stops(target[r])
      BY <2>1, <2>4, <3>2, EnqueueTalks DEF Stops
    <3> QED
      BY <2>1, <3>1, <3>3 DEF Effect
  <2> QED
    BY <1>6, <2>2, <2>3, <2>4 DEF Joined, Answered, Reply
<1> QED
  BY <1>1, <1>2, <1>3, <1>4, <1>5, <1>6

\* A task speaks of its own stream as long as it runs, and last of its end.
LEMMA StreamEffect ==
  ASSUME IInv, SpeechInv, NEW s \in Streams,
         StartStream(s) \/ YieldItem(s) \/ FinishStream(s) \/ Put(s)
         \/ UnwindStream(s) \/ ForgetStream(s)
  PROVE  Effect
<1>1. CASE StartStream(s)
  <2>1. Runs(s) /\ UNCHANGED closing
    BY <1>1 DEF StartStream, Move, queueV, Runs
  <2> QED
    BY <2>1 DEF Effect
<1>2. CASE YieldItem(s)
  <2>1. stream[s] = "running" /\ UNCHANGED closing /\ Say(s, "item", "running")
    BY <1>2 DEF YieldItem
  <2>2. Runs(s)
    BY <2>1, EnqueueTalks DEF Say, Move, queueV, Runs
  <2> QED
    BY <2>1, <2>2 DEF Effect
<1>3. CASE FinishStream(s)
  <2>1. stream[s] = "running" /\ UNCHANGED closing /\ Say(s, "ended", "over")
    BY <1>3 DEF FinishStream
  <2>2. Ends(s) \/ Runs(s)
    BY <2>1, EnqueueTalks DEF Say, Move, queueV, Runs, Ends
  <2> QED
    BY <2>1, <2>2 DEF Effect
<1>4. CASE Put(s)
  <2>1. /\ stream[s] = "blocked" /\ (closing => closing')
        /\ Enqueue(Message(holding[s], s)) \/ UNCHANGED said
        /\ stream' = [stream EXCEPT ![s] = IF holding[s] = "item" THEN "running" ELSE "over"]
    BY <1>4 DEF Put, Move, queueV
  <2>2. holding[s] \in {"item", "ended"}
    BY <2>1 DEF IInv, TypeOK, StreamsOK, BlockedHolds
  <2>3. Talk(holding[s], s) \/ UNCHANGED said
    BY <2>1, <2>2, EnqueueTalks
  <2>4. Ends(s) \/ Runs(s)
    BY <2>1, <2>2, <2>3 DEF Runs, Ends
  <2> QED
    BY <2>1, <2>4 DEF Effect
<1>5. CASE UnwindStream(s)
  <2>1. UNCHANGED closing /\ (Ends(s) \/ Runs(s))
    BY <1>5 DEF UnwindStream, Move, queueV, Runs, Ends
  <2> QED
    BY <2>1 DEF Effect
<1>6. CASE ForgetStream(s)
  BY <1>6 DEF ForgetStream, queueV, Effect
<1> QED
  BY <1>1, <1>2, <1>3, <1>4, <1>5, <1>6

\* The writer, the drain and the teardown say nothing of a stream.
LEMMA SessionEffect ==
  ASSUME Write \/ GraceBegin \/ GraceStreams \/ GraceClose \/ Close
         \/ CancelRequests \/ CloseSession \/ SessionClosed \/ Over
  PROVE  Effect
BY DEF Write, GraceBegin, GraceStreams, GraceClose, Close, CancelRequests, CloseSession,
       SessionClosed, Over, DrainTurn, streamV, queueV, vars, Effect

-----------------------------------------------------------------------------
(* The speech invariant is kept *)

\* A request only takes its own turn, and while one runs or is called the drain
\* does not wait for the streams.
LEMMA RequestTurns ==
  ASSUME IInv, SpeechInv, NEW r \in Requests,
         CallStream(r) \/ Refuse(r) \/ OpenStream(r) \/ Opened(r) \/ StopStream(r)
         \/ Joined(r) \/ Answered(r) \/ InterruptRequest(r) \/ UnwindRequest(r)
  PROVE  /\ GraceHeld'
         /\ \A q \in Requests \ {r} : request'[q] = request[q] /\ target'[q] = target[q]
         /\ interrupted \subseteq interrupted'
         /\ \A s \in Streams : stream'[s] = "over" => stream[s] = "over"
         /\ \/ cancelled' = cancelled
            \/ /\ StopStream(r) /\ request'[r] = "joining"
               /\ cancelled' \subseteq cancelled \cup {target[r]}
<1> USE DEF IInv, TypeOK, RequestsOK, StreamsOK
<1>1. /\ request[r] \in Busy \/ ~draining
      /\ UNCHANGED <<draining, grace, awaited>>
  BY DEF CallStream, Refuse, OpenStream, Opened, StopStream, Joined, Answered,
         InterruptRequest, UnwindRequest, RequestTurn, Starts, drainV
<1>2. grace \notin {"streams", "ended"}
  BY <1>1 DEF SpeechInv, GraceHeld
<1>3. GraceHeld'
  BY <1>1, <1>2 DEF SpeechInv, GraceHeld
<1>4. /\ \A q \in Requests \ {r} : request'[q] = request[q] /\ target'[q] = target[q]
      /\ interrupted \subseteq interrupted'
  BY DEF CallStream, Refuse, OpenStream, Opened, StopStream, Joined, Answered,
         InterruptRequest, UnwindRequest, Goto, Reply
<1>5. \/ UNCHANGED stream
      \/ \E t \in Streams \cup {0} \cup {next_id} : stream' = [stream EXCEPT ![t] = "created"]
  BY DEF CallStream, Refuse, OpenStream, Opened, StopStream, Joined, Answered,
         InterruptRequest, UnwindRequest, CreateStream, streamV
<1>6. \A s \in Streams : stream'[s] = "over" => stream[s] = "over"
  BY <1>5
<1>7. \/ cancelled' = cancelled
      \/ /\ StopStream(r) /\ request'[r] = "joining"
         /\ cancelled' \subseteq cancelled \cup {target[r]}
  BY DEF CallStream, Refuse, OpenStream, Opened, StopStream, Joined, Answered, Goto,
         InterruptRequest, UnwindRequest, CreateStream, CancelStreams, streamV
<1> QED
  BY <1>3, <1>4, <1>6, <1>7

\* A request that answers for the end of a stream does so until it has answered.
LEMMA ExcuseKeeps ==
  ASSUME IInv, SpeechInv, ~closing', NEW r \in Requests,
         CallStream(r) \/ Refuse(r) \/ OpenStream(r) \/ Opened(r) \/ StopStream(r)
         \/ Joined(r) \/ Answered(r) \/ InterruptRequest(r) \/ UnwindRequest(r),
         NEW s \in Streams, Excused(s)
  PROVE  Excused(s)'
<1>1. PICK q \in Requests : target[q] = s /\ Cancels(q)
  BY DEF Excused
<1>2. Says("stopped", s) => Says("stopped", s)'
  BY RequestEffect, EffectKeeps DEF SpeechInv
<1>3. CASE q # r
  <2>1. request'[q] = request[q] /\ target'[q] = target[q] /\ interrupted \subseteq interrupted'
    BY <1>3, RequestTurns
  <2> QED
    BY <1>1, <1>2, <2>1 DEF Cancels, Excused
<1>4. CASE q = r
  <2> USE <1>1, <1>4 DEF Cancels, IInv, TypeOK, RequestsOK
  <2>1. CASE \/ CallStream(r) \/ Refuse(r) \/ OpenStream(r) \/ Opened(r) \/ StopStream(r)
    BY <2>1 DEF CallStream, Refuse, OpenStream, Opened, StopStream, Starts
  <2>2. CASE InterruptRequest(r)
    BY <1>2, <2>2 DEF InterruptRequest, Excused
  <2>3. CASE UnwindRequest(r)
    <3>1. request'[r] = "done" /\ target'[r] = s /\ r \in interrupted'
      BY <2>3 DEF UnwindRequest, Goto
    <3> QED
      BY <3>1 DEF Excused
  <2>4. CASE Joined(r) \/ Answered(r)
    <3>1. /\ target' = target /\ request[r] \in {"joining", "stopping"}
          /\ \/ request'[r] = "stopping"
             \/ request'[r] = "done" /\ Enqueue(Message("stopped", s))
      BY <2>4 DEF Joined, Answered, Goto, Reply
    <3>2. Enqueue(Message("stopped", s)) => Says("stopped", s)'
      BY EnqueueTalks, TalkAdds
    <3> QED
      BY <3>1, <3>2 DEF Excused
  <2> QED
    BY <2>1, <2>2, <2>3, <2>4
<1> QED
  BY <1>3, <1>4

\* A request cancels a stream it knows, and its own turn is the only one that ends
\* its answering for that.
LEMMA RequestSpeaks ==
  ASSUME IInv, SpeechInv, NEW r \in Requests,
         CallStream(r) \/ Refuse(r) \/ OpenStream(r) \/ Opened(r) \/ StopStream(r)
         \/ Joined(r) \/ Answered(r) \/ InterruptRequest(r) \/ UnwindRequest(r)
  PROVE  SpeechInv'
<1>1. /\ Spoken'
      /\ \A s \in Streams : \A k : Says(k, s) => Says(k, s)'
      /\ \A s \in Streams : /\ stream[s] # "none" => stream'[s] # "none"
                            /\ stream[s] = "over" => stream'[s] = "over"
      /\ closing => closing'
  BY RequestEffect, EffectKeeps DEF SpeechInv, Effect
<1>2. TargetsKnown'
  <2>1. ASSUME NEW q \in Requests \ {r}
        PROVE  /\ request'[q] \in {"called", "joining", "stopping"} /\ target'[q] # 0 =>
                    stream'[target'[q]] # "none"
               /\ request'[q] = "stopping" => stream'[target'[q]] = "over"
    <3>1. request'[q] = request[q] /\ target'[q] = target[q]
      BY RequestTurns
    <3>2. target[q] \in {0} \cup Streams
      BY DEF IInv, TypeOK, RequestsOK
    <3>3. request[q] = "stopping" => target[q] # 0
      BY DEF IInv, TargetsFresh
    <3> QED
      BY <1>1, <3>1, <3>2, <3>3 DEF SpeechInv, TargetsKnown
  <2>2. /\ request'[r] \in {"called", "joining", "stopping"} /\ target'[r] # 0 =>
             stream'[target'[r]] # "none"
        /\ request'[r] = "stopping" => stream'[target'[r]] = "over"
    <3> USE DEF IInv, TypeOK, RequestsOK
    <3>1. CASE CallStream(r)
      <4>1. request'[r] = "called"
        BY <3>1 DEF CallStream, Goto
      <4>2. target'[r] \in {0} \cup {t \in Streams : Heard("opened", t)}
        BY <3>1 DEF CallStream
      <4>3. ASSUME NEW t \in Streams, Heard("opened", t)
            PROVE  stream'[t] # "none"
        <5>1. Says("opened", t)
          BY <4>3, CountSays DEF Heard
        <5>2. said[t] # <<>>
          BY <5>1 DEF Says
        <5> QED
          BY <1>1, <5>2 DEF SpeechInv, Spoken
      <4> QED
        BY <4>1, <4>2, <4>3
    <3>2. CASE Refuse(r) \/ OpenStream(r) \/ Opened(r) \/ UnwindRequest(r)
      BY <3>2 DEF Refuse, OpenStream, Opened, UnwindRequest, Goto, Reply
    <3>3. CASE InterruptRequest(r)
      BY <3>3 DEF InterruptRequest, SpeechInv, TargetsKnown, streamV
    <3>4. CASE StopStream(r)
      <4>1. /\ target' = target /\ stream' = stream /\ target[r] \in Streams
            /\ request[r] = "called" /\ stream[target[r]] # "none"
        BY <3>4 DEF StopStream, Starts, SpeechInv, TargetsKnown
      <4>2. request'[r] \in {"joining", "done"} \/ target[r] \notin tasks
        BY <3>4 DEF StopStream, Goto
      <4>3. Unfinished \subseteq tasks
        BY <4>1 DEF Kept
      <4>4. target[r] \notin tasks => stream[target[r]] = "over"
        BY <4>1, <4>3 DEF StreamsOK
      <4> QED
        BY <4>1, <4>2, <4>4
    <3>5. CASE Joined(r)
      BY <3>5 DEF Joined, streamV
    <3>6. CASE Answered(r)
      BY <3>6 DEF Answered, Goto
    <3> QED
      BY <3>1, <3>2, <3>3, <3>4, <3>5, <3>6
  <2> QED
    BY <2>1, <2>2 DEF TargetsKnown
<1>3. Traced'
  <2> SUFFICES ASSUME ~closing', NEW s \in Streams, s \in cancelled' \/ stream'[s] = "over"
               PROVE  Says("ended", s)' \/ Excused(s)'
    BY DEF Traced
  <2>1. CASE s \in cancelled \/ stream[s] = "over"
    <3>1. Says("ended", s) \/ Excused(s)
      BY <1>1, <2>1 DEF SpeechInv, Traced
    <3> QED
      BY <1>1, <3>1, ExcuseKeeps
  <2>2. CASE s \notin cancelled /\ stream[s] # "over"
    <3>1. s = target[r] /\ StopStream(r) /\ request'[r] = "joining"
      BY <2>2, RequestTurns
    <3>2. target'[r] = s
      BY <3>1 DEF StopStream
    <3> QED
      BY <3>1, <3>2 DEF Excused, Cancels
  <2> QED
    BY <2>1, <2>2
<1> QED
  BY <1>1, <1>2, <1>3, RequestTurns DEF SpeechInv

\* The task of a stream ends by telling so, or because it was cancelled.
LEMMA StreamSpeaks ==
  ASSUME IInv, SpeechInv, NEW s \in Streams,
         StartStream(s) \/ YieldItem(s) \/ FinishStream(s) \/ Put(s)
         \/ UnwindStream(s) \/ ForgetStream(s)
  PROVE  SpeechInv'
<1>1. /\ Spoken'
      /\ \A t \in Streams : \A k : Says(k, t) => Says(k, t)'
      /\ \A t \in Streams : /\ stream[t] # "none" => stream'[t] # "none"
                            /\ stream[t] = "over" => stream'[t] = "over"
      /\ closing => closing'
  BY StreamEffect, EffectKeeps DEF SpeechInv, Effect
<1>2. UNCHANGED <<request, target, interrupted, draining, grace, awaited>>
  BY DEF StartStream, YieldItem, FinishStream, Put, UnwindStream, ForgetStream,
         StreamTurn, requestV, drainV
<1>3. \A r \in Requests : target[r] \in {0} \cup Streams
  BY DEF IInv, TypeOK, RequestsOK
<1>4. TargetsKnown'
  <2>1. \A r \in Requests : request[r] = "stopping" => target[r] # 0
    BY DEF IInv, TargetsFresh
  <2> QED
    BY <1>1, <1>2, <1>3, <2>1 DEF SpeechInv, TargetsKnown
<1>5. \A t \in Streams : Excused(t) => Excused(t)'
  BY <1>1, <1>2 DEF Excused, Cancels
<1>6. Traced'
  <2> SUFFICES ASSUME ~closing', NEW t \in Streams, t \in cancelled' \/ stream'[t] = "over"
               PROVE  Says("ended", t)' \/ Excused(t)'
    BY DEF Traced
  <2>1. CASE t \in cancelled \/ stream[t] = "over"
    BY <1>1, <1>5, <2>1 DEF SpeechInv, Traced
  <2>2. CASE t \notin cancelled /\ stream[t] # "over"
    <3> USE DEF IInv, TypeOK, StreamsOK
    <3>1. cancelled' \subseteq cancelled
      BY DEF StartStream, YieldItem, FinishStream, Put, UnwindStream, ForgetStream
    <3>2. stream'[t] = "over" /\ t = s
      BY <2>2, <3>1 DEF StartStream, YieldItem, FinishStream, Put, UnwindStream,
                        ForgetStream, Say, Move
    <3>3. Enqueue(Message("ended", s))
      <4>1. CASE FinishStream(s)
        BY <3>2, <4>1 DEF FinishStream, Say, Move
      <4>2. CASE Put(s)
        <5>1. holding[s] # "item" /\ Enqueue(Message(holding[s], s))
          BY <3>2, <4>2 DEF Put, Move
        <5>2. holding[s] = "ended"
          BY <4>2, <5>1 DEF Put, BlockedHolds
        <5> QED
          BY <5>1, <5>2
      <4>3. CASE StartStream(s) \/ YieldItem(s) \/ UnwindStream(s) \/ ForgetStream(s)
        BY <2>2, <3>2, <4>3 DEF StartStream, YieldItem, UnwindStream, ForgetStream, Say, Move
      <4> QED
        BY <4>1, <4>2, <4>3
    <3> QED
      BY <3>2, <3>3, EnqueueTalks, TalkAdds
  <2> QED
    BY <2>1, <2>2
<1>7. GraceHeld'
  <2>1. stream[s] \in Active \/ UNCHANGED queueV
    BY DEF StartStream, YieldItem, FinishStream, Put, UnwindStream, ForgetStream
  <2>2. Unfinished' \subseteq Unfinished
    BY DEF StartStream, YieldItem, FinishStream, Put, UnwindStream, ForgetStream, Say, Move,
           IInv, TypeOK, StreamsOK
  <2>3. CASE grace = "ended"
    <3>1. UNCHANGED queueV
      BY <2>1, <2>3 DEF SpeechInv, GraceHeld
    <3> QED
      BY <1>1, <1>2, <2>2, <2>3, <3>1 DEF SpeechInv, GraceHeld, queueV, Says
  <2>4. CASE grace # "ended"
    BY <1>2, <2>2, <2>4 DEF SpeechInv, GraceHeld
  <2> QED
    BY <2>3, <2>4
<1> QED
  BY <1>1, <1>4, <1>6, <1>7 DEF SpeechInv

\* The drain waits for all the streams there are, and closes the connection when
\* each of them was told to have ended, or is answered for.
LEMMA SessionSpeaks ==
  ASSUME IInv, SpeechInv,
         Write \/ GraceBegin \/ GraceStreams \/ GraceClose \/ Close
         \/ CancelRequests \/ CloseSession \/ SessionClosed \/ Over
  PROVE  SpeechInv'
<1>1. Spoken'
  BY SessionEffect, EffectKeeps DEF SpeechInv
<1>2. UNCHANGED <<request, target, stream, said>> /\ interrupted \subseteq interrupted'
  BY DEF Write, GraceBegin, GraceStreams, GraceClose, Close, CancelRequests, CloseSession,
         SessionClosed, Over, DrainTurn, requestV, streamV, queueV, vars
<1>3. TargetsKnown'
  BY <1>2 DEF SpeechInv, TargetsKnown
<1>4. Traced'
  <2> SUFFICES ASSUME ~closing' PROVE Traced'
    BY DEF Traced
  <2>1. ~closing /\ UNCHANGED cancelled
    BY DEF Write, GraceBegin, GraceStreams, GraceClose, Close, CancelRequests, CloseSession,
           SessionClosed, Over, DrainTurn, streamV, vars, IInv, SessionOver
  <2>2. \A s \in Streams : Excused(s) => Excused(s)'
    BY <1>2 DEF Excused, Cancels, Says
  <2> QED
    BY <1>2, <2>1, <2>2 DEF SpeechInv, Traced, Says
<1>5. GraceHeld'
  <2>1. CASE Write \/ Close \/ CancelRequests \/ SessionClosed \/ Over
    <3>1. /\ UNCHANGED <<draining, grace, awaited>> /\ (closing => closing')
          /\ outgoing = <<>> => outgoing' = <<>>
      BY <2>1 DEF Write, Close, CancelRequests, SessionClosed, Over, DrainTurn, drainV,
                  queueV, vars
    <3> QED
      BY <1>2, <3>1 DEF SpeechInv, GraceHeld, Says
  <2>2. CASE GraceBegin
    BY <2>2 DEF GraceBegin, GraceHeld
  <2>3. CASE GraceStreams
    <3>1. /\ ~closing /\ NoRequest /\ grace' = "streams" /\ awaited' = tasks
          /\ UNCHANGED draining /\ grace = "requests"
      BY <2>3 DEF GraceStreams
    <3>2. Unfinished \subseteq tasks
      BY <3>1 DEF IInv, TypeOK, SessionOK, SessionOver, Kept
    <3> QED
      BY <1>2, <3>1, <3>2 DEF SpeechInv, GraceHeld
  <2>4. CASE GraceClose
    <3>1. /\ grace = "streams" /\ ~closing /\ awaited \cap Unfinished = {} /\ NoRequest
          /\ outgoing = <<>> /\ outgoing' = outgoing /\ grace' = "ended" /\ closing'
          /\ UNCHANGED <<draining, awaited, interrupted>>
      BY <2>4 DEF GraceClose, DrainTurn, queueV, requestV
    <3>2. Unfinished = {}
      BY <3>1 DEF SpeechInv, GraceHeld
    <3>3. ASSUME NEW s \in Streams, Says("opened", s)
          PROVE  \/ Says("ended", s) \/ Says("stopped", s)
                 \/ \E r \in interrupted : target[r] = s
      <4>1. stream[s] # "none"
        BY <3>3 DEF SpeechInv, Spoken, Says
      <4>2. stream[s] = "over"
        BY <3>2, <4>1 DEF IInv, TypeOK, StreamsOK
      <4>3. Says("ended", s) \/ Excused(s)
        BY <3>1, <4>2 DEF SpeechInv, Traced
      <4> QED
        BY <3>1, <4>3 DEF Excused, Cancels
    <3> QED
      BY <1>2, <3>1, <3>2, <3>3 DEF SpeechInv, GraceHeld, Says
  <2>5. CASE CloseSession
    <3>1. /\ session = "cancelling" /\ awaited' = tasks
          /\ UNCHANGED <<draining, grace, closing, outgoing, interrupted>>
      BY <2>5 DEF CloseSession, queueV, requestV
    <3>2. Unfinished \subseteq tasks
      BY <3>1 DEF IInv, Kept
    <3> QED
      BY <1>2, <3>1, <3>2 DEF SpeechInv, GraceHeld, Says
  <2> QED
    BY <2>1, <2>2, <2>3, <2>4, <2>5
<1> QED
  BY <1>1, <1>3, <1>4, <1>5 DEF SpeechInv

\* Nothing was said yet.
LEMMA SpeechInit == Init => SpeechInv
BY DEF Init, SpeechInv, Spoken, TargetsKnown, Traced, GraceHeld

\* Every step keeps what was said in line with what became of the streams.
LEMMA SpeechStep == IInv /\ SpeechInv /\ [Next]_vars => SpeechInv'
<1> SUFFICES ASSUME IInv, SpeechInv, [Next]_vars PROVE SpeechInv'
  OBVIOUS
<1>1. ASSUME NEW r \in Requests, RequestStep(r) \/ CallStream(r) \/ InterruptRequest(r)
      PROVE  SpeechInv'
  BY <1>1, RequestSpeaks DEF RequestStep
<1>2. ASSUME NEW s \in Streams, StreamStep(s) \/ YieldItem(s) \/ FinishStream(s)
      PROVE  SpeechInv'
  BY <1>2, StreamSpeaks DEF StreamStep
<1>3. CASE \/ Write \/ GraceStreams \/ GraceClose \/ CancelRequests \/ CloseSession
           \/ SessionClosed \/ GraceBegin \/ Close \/ Over
  BY <1>3, SessionSpeaks
<1>4. CASE UNCHANGED vars
  BY <1>4, SessionSpeaks DEF vars, requestV, placeV, streamV, queueV, drainV, SpeechInv,
       Spoken, TargetsKnown, Traced, GraceHeld, Says, Last, Excused, Cancels
<1> QED
  BY <1>1, <1>2, <1>3, <1>4 DEF Next, Progress

LEMMA SpeechInvariance == Spec => []SpeechInv
BY SpeechInit, SpeechStep, Invariance, PTL DEF Spec

\* wait_finished(), _GracefulDrain: when a graceful drain has closed the connection,
\* the client was told the end of every stream it knows, or has abandoned its own
\* cancellation of it.
THEOREM DrainFinishes == Spec => []DrainFinishesStreams
<1>1. IInv /\ SpeechInv => DrainFinishesStreams
  <2> SUFFICES ASSUME IInv, SpeechInv, grace = "ended", NEW s \in Streams,
                      Heard("opened", s)
               PROVE  \/ Heard("ended", s) \/ Heard("stopped", s)
                      \/ \E r \in interrupted : target[r] = s
    BY DEF DrainFinishesStreams
  <2>1. Says("opened", s)
    BY CountSays DEF Heard
  <2>2. /\ outgoing = <<>>
        /\ \/ Says("ended", s) \/ Says("stopped", s)
           \/ \E r \in interrupted : target[r] = s
    BY <2>1 DEF SpeechInv, GraceHeld
  <2>3. \A kind : Says(kind, s) => Heard(kind, s)
    BY <2>2, CountSays DEF Heard
  <2> QED
    BY <2>2, <2>3
<1> QED
  BY <1>1, Invariance, SpeechInvariance, PTL

-----------------------------------------------------------------------------
(* The refinement of StreamProtocol *)

\* Nothing was told of any stream.
LEMMA ProtocolInit == Init => Protocol!Init
BY FS_EmptySet DEF Init, Protocol!Init, Told, Count

\* A connection that is being closed has lost its streams, and stays so.
LEMMA ClosedIsLost ==
  ASSUME closing'
  PROVE  Protocol!Lose
BY DEF Protocol!Lose, Told

\* A step that says nothing tells the client nothing.
LEMMA QuietTellsNothing ==
  ASSUME UNCHANGED <<said, closing>>
  PROVE  UNCHANGED <<[s \in Streams |-> Told(s)],
                     [s \in Streams |-> IF closing THEN 0 ELSE Count("item", s)]>>
BY DEF Told, Count

\* What the client was told of a stream is the last that was said of it.
LEMMA ToldIsLast ==
  ASSUME IInv, SpeechInv, NEW s \in Streams, ~closing
  PROVE  Told(s) = IF said[s] = <<>> THEN "nothing"
                   ELSE IF Last(s) \in {"opened", "item"} THEN "open" ELSE Last(s)
BY DEF Told, Last

\* Every message of an open connection is a step of the protocol.
LEMMA TalkIsProtocol ==
  ASSUME IInv, SpeechInv, Effect, ~closing, ~closing', IInv', SpeechInv',
         NEW t \in Streams, Opens(t) \/ Runs(t) \/ Ends(t) \/ Stops(t)
  PROVE  \/ Protocol!Next
         \/ UNCHANGED <<[s \in Streams |-> Told(s)],
                        [s \in Streams |-> IF closing THEN 0 ELSE Count("item", s)]>>
<1> DEFINE told == [s \in Streams |-> Told(s)]
           delivered == [s \in Streams |-> IF closing THEN 0 ELSE Count("item", s)]
<1>1. CASE UNCHANGED said
  <2>1. UNCHANGED <<said, closing>>
    BY <1>1 DEF IInv, TypeOK, SessionOK
  <2> QED
    BY <2>1, QuietTellsNothing
<1>2. ASSUME NEW kind \in Kinds, Talk(kind, t), kind # "refused"
      PROVE  /\ told' = [told EXCEPT ![t] = IF kind \in {"opened", "item"} THEN "open" ELSE kind]
             /\ delivered' = [delivered EXCEPT ![t] = IF kind = "item" THEN @ + 1 ELSE @]
  <2>1. \A s \in Streams \ {t} : said'[s] = said[s]
    BY <1>2, TalkAdds
  <2>2. \A s \in Streams \ {t} : Told(s)' = Told(s) /\ Count("item", s)' = Count("item", s)
    BY <2>1 DEF Told, Count
  <2>3. Told(t)' = IF kind \in {"opened", "item"} THEN "open" ELSE kind
    BY <1>2, TalkAdds DEF Told, Last
  <2>4. Count("item", t)' = IF kind = "item" THEN Count("item", t) + 1 ELSE Count("item", t)
    BY <1>2, TalkAdds
  <2> QED
    BY <2>2, <2>3, <2>4
<1>3. told[t] = IF said[t] = <<>> THEN "nothing"
                ELSE IF Last(t) \in {"opened", "item"} THEN "open" ELSE Last(t)
  BY ToldIsLast
<1>4. CASE Opens(t) /\ Talk("opened", t)
  <2>1. told[t] = "nothing"
    BY <1>3, <1>4 DEF Opens, SpeechInv, Spoken
  <2>2. told' = [told EXCEPT ![t] = "open"] /\ delivered' = delivered
    BY <1>2, <1>4
  <2>3. Protocol!Open(t)
    BY <2>1, <2>2 DEF Protocol!Open
  <2> QED
    BY <2>3 DEF Protocol!Next
<1>5. CASE Runs(t) /\ Talk("item", t)
  <2>1. told[t] = "open"
    BY <1>3, <1>5 DEF Runs, SpeechInv, Spoken
  <2>2. told' = told /\ delivered' = [delivered EXCEPT ![t] = @ + 1]
    BY <1>2, <1>5, <2>1
  <2>3. Protocol!Item(t)
    BY <2>1, <2>2 DEF Protocol!Item
  <2> QED
    BY <2>3 DEF Protocol!Next
<1>6. CASE Ends(t) /\ Talk("ended", t)
  <2>1. told[t] = "open"
    BY <1>3, <1>6 DEF Ends, SpeechInv, Spoken
  <2>2. told' = [told EXCEPT ![t] = "ended"] /\ delivered' = delivered
    BY <1>2, <1>6
  <2>3. Protocol!End(t)
    BY <2>1, <2>2 DEF Protocol!End
  <2> QED
    BY <2>3 DEF Protocol!Next
<1>7. CASE Stops(t)
  <2>1. told[t] \in {"open", "ended", "stopped"}
    BY <1>3, <1>7 DEF Stops, SpeechInv, Spoken
  <2>2. told' = [told EXCEPT ![t] = "stopped"] /\ delivered' = delivered
    BY <1>2, <1>7 DEF Stops
  <2>3. CASE told[t] \in {"open", "ended"}
    <3>1. Protocol!Stop(t)
      BY <2>2, <2>3 DEF Protocol!Stop
    <3> QED
      BY <3>1 DEF Protocol!Next
  <2>4. CASE told[t] = "stopped"
    BY <2>2, <2>4
  <2> QED
    BY <2>1, <2>3, <2>4
<1> QED
  BY <1>1, <1>4, <1>5, <1>6, <1>7 DEF Opens, Runs, Ends

\* Every step of the connection is a step of the protocol or none.
LEMMA ProtocolStep ==
  IInv /\ SpeechInv /\ IInv' /\ SpeechInv' /\ [Next]_vars =>
    [Protocol!Next]_<<[s \in Streams |-> Told(s)],
                      [s \in Streams |-> IF closing THEN 0 ELSE Count("item", s)]>>
<1> SUFFICES ASSUME IInv, SpeechInv, IInv', SpeechInv', [Next]_vars
             PROVE  \/ Protocol!Next
                    \/ UNCHANGED <<[s \in Streams |-> Told(s)],
                         [s \in Streams |-> IF closing THEN 0 ELSE Count("item", s)]>>
  OBVIOUS
<1>1. CASE UNCHANGED vars
  BY <1>1, QuietTellsNothing DEF vars, queueV
<1>2. CASE Next
  <2>1. Effect
    <3>1. ASSUME NEW r \in Requests, RequestStep(r) \/ CallStream(r) \/ InterruptRequest(r)
          PROVE  Effect
      BY <3>1, RequestEffect DEF RequestStep
    <3>2. ASSUME NEW s \in Streams, StreamStep(s) \/ YieldItem(s) \/ FinishStream(s)
          PROVE  Effect
      BY <3>2, StreamEffect DEF StreamStep
    <3>3. CASE \/ Write \/ GraceStreams \/ GraceClose \/ CancelRequests \/ CloseSession
               \/ SessionClosed \/ GraceBegin \/ Close \/ Over
      BY <3>3, SessionEffect
    <3> QED
      BY <1>2, <3>1, <3>2, <3>3 DEF Next, Progress
  <2>2. CASE closing'
    BY <2>2, ClosedIsLost DEF Protocol!Next
  <2>3. CASE ~closing'
    <3>1. ~closing /\ UNCHANGED closing
      BY <2>1, <2>3 DEF Effect, IInv, TypeOK, SessionOK
    <3>2. CASE UNCHANGED said
      BY <3>1, <3>2, QuietTellsNothing
    <3>3. CASE \E t \in Streams : Opens(t) \/ Runs(t) \/ Ends(t) \/ Stops(t)
      BY <2>1, <2>3, <3>1, <3>3, TalkIsProtocol
    <3> QED
      BY <2>1, <3>2, <3>3 DEF Effect
  <2> QED
    BY <2>2, <2>3
<1> QED
  BY <1>1, <1>2

\* SubscriptionSession: as long as no close was requested, the messages of every
\* stream keep to the protocol, for any number of requests, streams and items.
THEOREM StreamsImplementProtocol == Spec => StreamsKeepProtocol
<1>1. Spec => Protocol!Spec
  BY ProtocolInit, ProtocolStep, Invariance, SpeechInvariance, PTL DEF Spec, Protocol!Spec
<1> QED
  BY <1>1 DEF StreamsKeepProtocol

=============================================================================
