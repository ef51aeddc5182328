------------------------ MODULE RpcConnectionProofs ------------------------
(***************************************************************************)
(* What holds of a connection for every number of frames, calls and every  *)
(* limit: type correctness, the reservations, the in-flight ids, the cause *)
(* of a close and that the peer is told it, that every frame is answered   *)
(* exactly once while the connection is open, that a graceful drain leaves *)
(* no answer behind, and that nothing outlives the serving task.           *)
(***************************************************************************)
EXTENDS RpcConnection, FiniteSetTheorems, TLAPS

USE BoundsAssumption, MessagesAssumption, CodesAssumption, SettingsAssumption
    DEF BoundsAssumption, MessagesAssumption, CodesAssumption, SettingsAssumption

-----------------------------------------------------------------------------
(* Type correctness. *)

\* The initial state is well typed.
LEMMA InitType == Init => TypeOK
<1> SUFFICES ASSUME Init PROVE TypeOK
    OBVIOUS
<1> USE DEF Init
<1>1. ReaderOK
  BY DEF ReaderOK, Frames, Item
<1>2. CallsOK
  BY DEF CallsOK, Phases, Routes
<1>3. CollectorOK
  BY DEF CollectorOK
<1>4. WriterOK
  BY DEF WriterOK
<1>5. EventsOK
  BY DEF EventsOK
<1>6. CloseOK
  BY Zenon DEF CloseOK, Codes
<1>7. DrainOK
  BY Zenon DEF DrainOK
<1>8. MainOK
  <2>1. announced \in Seq(Codes)
    OBVIOUS
  <2> QED
    BY <2>1, Zenon DEF MainOK
<1> QED
  BY <1>1, <1>2, <1>3, <1>4, <1>5, <1>6, <1>7, <1>8 DEF TypeOK

\* What cancelling a set of calls returns is an interrupt map.
LEMMA InterruptedType ==
  ASSUME CallsOK, NEW S, NEW by \in {"client", "server"}
  PROVE  Interrupted(S, by) \in [Calls -> {"none", "client", "server"}]
BY DEF CallsOK, Interrupted

\* Likewise for collectors...
LEMMA CancelledCollectorsType ==
  ASSUME CollectorOK, NEW S
  PROVE  CancelledCollectors(S) \in
           [Frames -> {"none", "gathering", "forwarded", "blocked", "cancelling",
            "failing", "ended"}]
BY DEF CollectorOK, CancelledCollectors

\* ...and for the event source.
LEMMA CancelledEventsType ==
  ASSUME EventsOK
  PROVE  CancelledEvents \in {"running", "blocked", "cancelling", "ended"}
BY DEF EventsOK, CancelledEvents

\* request_close keeps the types of the cause.
LEMMA RequestCloseType ==
  ASSUME CloseOK, NEW code \in Codes, RequestClose(code), client_closed' \in BOOLEAN
  PROVE  CloseOK'
BY Zenon DEF CloseOK, RequestClose

\* The frame numbers and the identifier of the call made of the next item.
LEMMA NextCallType ==
  ASSUME ReaderOK, reader = "decoding", rest # <<>>
  PROVE  /\ nframes \in Frames
         /\ Len(rest) \in 1..MaxBatch
         /\ <<nframes, Len(rest)>> \in Calls
         /\ Head(rest) \in Item
         /\ Tail(rest) \in Seq(Item) /\ Len(Tail(rest)) = Len(rest) - 1
<1> USE DEF ReaderOK
<1>1. nframes \in Frames
  BY DEF Frames
<1>2. /\ Len(rest) \in 1..MaxBatch /\ Head(rest) \in Item
      /\ Tail(rest) \in Seq(Item) /\ Len(Tail(rest)) = Len(rest) - 1
  OBVIOUS
<1> QED
  BY <1>1, <1>2 DEF Calls

\* Receiving a frame, or failing to, keeps the types.
LEMMA ReceiveType ==
  ASSUME TypeOK, ReceiveNext
  PROVE  TypeOK'
<1> USE DEF TypeOK
<1>1. ReaderTurn
  BY DEF ReceiveNext, Receive, ReceiveUnreadable, ReceiveDisconnect,
         ReceiveFailure, StopReader
<1>2. WriterOK' /\ EventsOK' /\ DrainOK' /\ MainOK'
  BY <1>1 DEF ReaderTurn, writerV, eventV, drainV, mainV,
         WriterOK, EventsOK, DrainOK, MainOK
<1>3. ASSUME NEW m \in Messages, Receive(m)
      PROVE  ReaderOK' /\ CallsOK' /\ CollectorOK' /\ CloseOK'
  <2>1. CallsOK' /\ CollectorOK' /\ CloseOK'
    BY <1>3 DEF Receive, callV, closeV, causeV, CallsOK, CollectorOK, CloseOK
  <2>2. nframes' \in Frames /\ nframes' > 0 /\ reader' = "decoding"
    BY <1>3 DEF Receive, ReaderOK, Frames
  <2>3. rest' \in Seq(Item) /\ Len(rest') <= MaxBatch
    <3>1. m \in Seq(Item) /\ Len(m) \in Nat
      OBVIOUS
    <3>2. CASE m = <<>> \/ Len(m) > MaxBatch
      <4>1. rest' = <<>>
        BY <1>3, <3>2 DEF Receive
      <4> QED
        BY <4>1
    <3>3. CASE ~(m = <<>> \/ Len(m) > MaxBatch)
      BY <1>3, <3>1, <3>3 DEF Receive
    <3> QED
      BY <3>2, <3>3
  <2>4. controls' \subseteq Frames
    BY <1>3, <2>2 DEF Receive, ReaderOK
  <2> QED
    BY <2>1, <2>2, <2>3, <2>4 DEF ReaderOK, Frames
<1>4. ASSUME NEW code \in Codes, StopReader(code), client_closed' \in BOOLEAN
      PROVE  ReaderOK' /\ CallsOK' /\ CollectorOK' /\ CloseOK'
  <2>1. ReaderOK' /\ CallsOK' /\ CollectorOK'
    BY <1>4 DEF StopReader, callV, ReaderOK, CallsOK, CollectorOK
  <2>2. CloseOK'
    BY <1>4, RequestCloseType DEF StopReader
  <2> QED
    BY <2>1, <2>2
<1>5. CASE ReceiveUnreadable
  BY <1>2, <1>4, <1>5, Zenon DEF ReceiveUnreadable, Codes, CloseOK
<1>6. CASE ReceiveDisconnect
  BY <1>2, <1>4, <1>6, Zenon DEF ReceiveDisconnect
<1>7. CASE ReceiveFailure
  BY <1>2, <1>4, <1>7, Zenon DEF ReceiveFailure, Codes, CloseOK
<1> QED
  BY <1>2, <1>3, <1>5, <1>6, <1>7 DEF ReceiveNext

\* Decoding an item, or ending a frame, keeps the types.
LEMMA DecodeType ==
  ASSUME TypeOK, Decode
  PROVE  TypeOK'
<1> USE DEF TypeOK
<1>1. ReaderTurn
  BY DEF Decode, ReadCancel, ReadPing, ReadOverflow, ReadDuplicate, ReadCall,
         FrameIgnored, FrameOverflow, FrameCollected, StopReader
<1>2. WriterOK' /\ EventsOK' /\ DrainOK' /\ MainOK'
  BY <1>1 DEF ReaderTurn, writerV, eventV, drainV, mainV,
         WriterOK, EventsOK, DrainOK, MainOK
<1>3. CASE ReadCancel
  <2>1. rest' = Tail(rest) /\ ReaderOK'
    BY <1>3, NextCallType DEF ReadCancel, NextItem, ReaderOK
  <2>2. interrupt' \in [Calls -> {"none", "client", "server"}]
    BY <1>3, InterruptedType DEF ReadCancel, CallsOK
  <2>3. cancel_requested' \subseteq Calls
    BY <1>3, NextCallType DEF ReadCancel, NextItem, CallsOK, Item
  <2>4. CallsOK'
    BY <1>3, <2>2, <2>3 DEF ReadCancel, CallsOK
  <2>5. CollectorOK' /\ CloseOK'
    BY <1>3 DEF ReadCancel, closeV, causeV, CollectorOK, CloseOK
  <2> QED
    BY <1>2, <2>1, <2>4, <2>5
<1>4. CASE ReadPing
  <2>1. ReaderOK'
    BY <1>4, NextCallType DEF ReadPing, NextItem, ReaderOK
  <2>2. CallsOK' /\ CollectorOK' /\ CloseOK'
    BY <1>4 DEF ReadPing, callV, closeV, causeV, CallsOK, CollectorOK, CloseOK
  <2> QED
    BY <1>2, <2>1, <2>2
<1>5. ASSUME NEW code \in Codes, StopReader(code), UNCHANGED client_closed
      PROVE  ReaderOK' /\ CallsOK' /\ CollectorOK' /\ CloseOK'
  <2>1. ReaderOK' /\ CallsOK' /\ CollectorOK'
    BY <1>5 DEF StopReader, callV, ReaderOK, CallsOK, CollectorOK
  <2>2. CloseOK'
    BY <1>5, RequestCloseType, Zenon DEF StopReader, CloseOK
  <2> QED
    BY <2>1, <2>2
<1>6. CASE ReadOverflow \/ FrameOverflow \/ ReadDuplicate
  <2>1. "policy_violation" \in Codes /\ "protocol_error" \in Codes
    BY DEF Codes
  <2> QED
    BY <1>2, <1>5, <1>6, <2>1, Zenon DEF ReadOverflow, FrameOverflow, ReadDuplicate
<1>7. CASE ReadCall
  <2> DEFINE c == <<nframes, Len(rest)>>
  <2>1. ReaderOK'
    BY <1>7, NextCallType DEF ReadCall, NextItem, ReaderOK
  <2>2. c \in Calls /\ Head(rest) \in Item
    BY <1>7, NextCallType DEF ReadCall, NextItem
  <2>3. Admission(Head(rest)) \in Routes
    BY DEF Admission, Routes
  <2>4. CallsOK'
    BY <1>7, <2>2, <2>3 DEF ReadCall, CallsOK, Phases, Live, Item
  <2>5. CollectorOK' /\ CloseOK'
    BY <1>7 DEF ReadCall, closeV, causeV, CollectorOK, CloseOK
  <2> QED
    BY <1>2, <2>1, <2>4, <2>5
<1>8. CASE FrameIgnored \/ FrameCollected
  BY <1>2, <1>8 DEF FrameIgnored, FrameCollected, callV, closeV, causeV, ReaderOK,
     CallsOK, CollectorOK, CloseOK
<1> QED
  BY <1>3, <1>4, <1>6, <1>7, <1>8 DEF Decode

\* A step of a call's task keeps the types.
LEMMA CallType ==
  ASSUME TypeOK, NEW c \in Calls, CallNext(c)
  PROVE  TypeOK'
<1> USE DEF TypeOK
<1>1. CallTurn
  BY DEF CallNext, CallProgress, StartCall, NeverStart, AcquireSlot, RefuseCall,
         CompleteCall, ExpireCall, AnswerCancelled, UnwindCall, LeakCancellation,
         FailCall, CallDone, EndCall, CallStep
<1>2. /\ ReaderOK' /\ CollectorOK' /\ WriterOK' /\ EventsOK' /\ CloseOK'
      /\ DrainOK' /\ MainOK'
  BY <1>1 DEF CallTurn, readerV, writerV, eventV, closeV, causeV, drainV, mainV,
         ReaderOK, CollectorOK, WriterOK, EventsOK, CloseOK, DrainOK, MainOK
<1>3. CallsOK'
  <2>1. CASE CallDone(c)
    BY <2>1 DEF CallDone, CallsOK
  <2>2. CASE ~CallDone(c)
    BY <2>2 DEF CallNext, CallProgress, StartCall, NeverStart, AcquireSlot,
         RefuseCall, CompleteCall, ExpireCall, AnswerCancelled, UnwindCall,
         LeakCancellation, FailCall, EndCall, CallStep, Answer, CallsOK, Phases,
         Live, Ended
  <2> QED
    BY <2>1, <2>2
<1> QED
  BY <1>2, <1>3

\* Queueing a message below the limit keeps the types of the queue.
LEMMA EnqueueType ==
  ASSUME WriterOK, NEW f \in 0..MaxFrames, Enqueue(f)
  PROVE  WriterOK'
BY DEF WriterOK, Enqueue, QueueFull

\* A step of a collector keeps the types.
LEMMA CollectorType ==
  ASSUME TypeOK, NEW f \in Frames, CollectorNext(f)
  PROVE  TypeOK'
<1> USE DEF TypeOK
<1>1. CollectorTurn
  BY DEF CollectorNext, CollectorAbort, CollectorUnwound, CollectorAnswer,
         CollectorPut, CollectorTimeout
<1>2. ReaderOK' /\ EventsOK' /\ DrainOK' /\ MainOK'
  BY <1>1 DEF CollectorTurn, readerV, eventV, drainV, mainV,
         ReaderOK, EventsOK, DrainOK, MainOK
<1>3. client_closed' \in BOOLEAN
  BY <1>1 DEF CollectorTurn, CloseOK
<1>4. CallsOK'
  <2>1. interrupt' \in [Calls -> {"none", "client", "server"}]
    BY InterruptedType DEF CollectorNext, CollectorAbort, CollectorUnwound,
       CollectorAnswer, CollectorPut, CollectorTimeout, CallsOK
  <2> QED
    BY <1>1, <2>1 DEF CollectorTurn, CallsOK
<1>5. CollectorOK'
  BY DEF CollectorNext, CollectorAbort, CollectorUnwound, CollectorAnswer,
     CollectorPut, CollectorTimeout, CollectorOK
<1>6. WriterOK'
  <2>1. CASE Enqueue(f)
    BY <2>1, EnqueueType DEF Frames
  <2>2. CASE UNCHANGED writerV
    BY <2>2 DEF writerV, WriterOK
  <2> QED
    BY <2>1, <2>2 DEF CollectorNext, CollectorAbort, CollectorUnwound,
       CollectorAnswer, CollectorPut, CollectorTimeout
<1>7. CloseOK'
  <2>1. CASE UNCHANGED causeV
    BY <1>3, <2>1, Zenon DEF causeV, CloseOK
  <2>2. CASE RequestClose("policy_violation") \/ RequestClose("internal_error")
    BY <1>3, <2>2, RequestCloseType, Zenon DEF Codes
  <2> QED
    BY <2>1, <2>2 DEF CollectorNext, CollectorAbort, CollectorUnwound,
       CollectorAnswer, CollectorPut, CollectorTimeout
<1> QED
  BY <1>2, <1>4, <1>5, <1>6, <1>7

\* A step of the event source keeps the types.
LEMMA EventType ==
  ASSUME TypeOK, EventNext
  PROVE  TypeOK'
<1> USE DEF TypeOK
<1>1. EventTurn
  BY DEF EventNext, EventEmit, EventPut, EventTimeout, EventsComplete,
         EventsFail, EventsUnwound
<1>2. ReaderOK' /\ CallsOK' /\ CollectorOK' /\ DrainOK' /\ MainOK'
  BY <1>1 DEF EventTurn, readerV, callV, drainV, mainV,
         ReaderOK, CallsOK, CollectorOK, DrainOK, MainOK
<1>3. client_closed' \in BOOLEAN
  BY <1>1 DEF EventTurn, CloseOK
<1>4. EventsOK'
  BY DEF EventNext, EventEmit, EventPut, EventTimeout, EventsComplete,
         EventsFail, EventsUnwound, EventsOK
<1>5. WriterOK'
  <2>1. CASE Enqueue(0)
    BY <2>1, EnqueueType
  <2>2. CASE UNCHANGED writerV
    BY <2>2 DEF writerV, WriterOK
  <2> QED
    BY <2>1, <2>2 DEF EventNext, EventEmit, EventPut, EventTimeout,
       EventsComplete, EventsFail, EventsUnwound
<1>6. CloseOK'
  <2>1. CASE UNCHANGED causeV
    BY <1>3, <2>1, Zenon DEF causeV, CloseOK
  <2>2. CASE \E code \in Codes : RequestClose(code)
    BY <1>3, <2>2, RequestCloseType, Zenon
  <2> QED
    BY <2>1, <2>2 DEF EventNext, EventEmit, EventPut, EventTimeout,
       EventsComplete, EventsFail, EventsUnwound, Codes
<1> QED
  BY <1>2, <1>4, <1>5, <1>6

\* A step of the writer keeps the types.
LEMMA WriterType ==
  ASSUME TypeOK, WriterNext
  PROVE  TypeOK'
<1> USE DEF TypeOK
<1>1. WriterTurn
  BY DEF WriterNext, WriterTake, WriterSent, WriterDisconnect, WriterTimeout,
         WriterFailure, WriterStops
<1>2. /\ ReaderOK' /\ CallsOK' /\ CollectorOK' /\ EventsOK'
      /\ DrainOK' /\ MainOK'
  BY <1>1 DEF WriterTurn, readerV, callV, eventV, drainV, mainV,
         ReaderOK, CallsOK, CollectorOK, EventsOK, DrainOK, MainOK
<1>3. WriterOK'
  <2>1. CASE WriterTake
    BY <2>1 DEF WriterTake, WriterOK
  <2>2. CASE WriterSent
    BY <2>2 DEF WriterSent, WriterOK, Frames
  <2>3. CASE \E code \in Codes : WriterStops(code)
    BY <2>3 DEF WriterStops, WriterOK
  <2> QED
    BY <2>1, <2>2, <2>3 DEF WriterNext, WriterDisconnect, WriterTimeout,
       WriterFailure, Codes
<1>4. CloseOK'
  <2>1. CASE WriterTake \/ WriterSent
    BY <2>1, Zenon DEF WriterTake, WriterSent, closeV, causeV, CloseOK
  <2>2. client_closed' \in BOOLEAN
    BY Zenon DEF WriterNext, WriterTake, WriterSent, WriterDisconnect,
       WriterTimeout, WriterFailure, closeV, CloseOK
  <2>3. CASE \E code \in Codes : WriterStops(code)
    BY <2>2, <2>3, RequestCloseType, Zenon DEF WriterStops
  <2> QED
    BY <2>1, <2>3 DEF WriterNext, WriterDisconnect, WriterTimeout,
       WriterFailure, Codes
<1> QED
  BY <1>2, <1>3, <1>4

\* The expiry of the credentials and a close by the application keep the types.
LEMMA CauseType ==
  ASSUME TypeOK, Expire \/ ApplicationClose
  PROVE  TypeOK'
<1> USE DEF TypeOK
<1>1. /\ ReaderOK' /\ CallsOK' /\ CollectorOK' /\ WriterOK' /\ EventsOK'
      /\ DrainOK' /\ MainOK'
  <2>1. ReaderOK' /\ CallsOK' /\ CollectorOK'
    BY DEF Expire, ApplicationClose, readerV, callV, ReaderOK, CallsOK, CollectorOK
  <2>2. WriterOK' /\ EventsOK'
    BY DEF Expire, ApplicationClose, writerV, eventV, WriterOK, EventsOK
  <2>3. DrainOK' /\ MainOK'
    BY DEF Expire, ApplicationClose, drainV, mainV, DrainOK, MainOK
  <2> QED
    BY <2>1, <2>2, <2>3
<1>2. CloseOK'
  BY RequestCloseType, Zenon DEF Expire, ApplicationClose, Codes, CloseOK
<1> QED
  BY <1>1, <1>2

\* The graceful drain of the connection keeps the types.
LEMMA GraceType ==
  ASSUME TypeOK, GraceNext
  PROVE  TypeOK'
<1> USE DEF TypeOK
<1>1. GraceTurn
  BY DEF GraceNext, GraceBegin, GraceCollectors, GraceReader, GraceFlush, GraceClose
<1>2. CallsOK' /\ CollectorOK' /\ WriterOK' /\ MainOK'
  BY <1>1 DEF GraceTurn, callV, writerV, mainV, CallsOK, CollectorOK, WriterOK,
     MainOK
<1>3. ReaderOK'
  BY <1>1 DEF GraceTurn, GraceNext, GraceBegin, GraceCollectors, GraceReader,
     GraceFlush, GraceClose, ReaderOK
<1>4. EventsOK'
  BY <1>1, CancelledEventsType DEF GraceTurn, GraceNext, GraceBegin,
     GraceCollectors, GraceReader, GraceFlush, GraceClose, EventsOK
<1>5. CloseOK'
  <2>1. client_closed' \in BOOLEAN
    BY <1>1, Zenon DEF GraceTurn, CloseOK
  <2>2. CASE UNCHANGED causeV
    BY <2>1, <2>2, Zenon DEF causeV, CloseOK
  <2>3. CASE RequestClose("service_restart")
    BY <2>1, <2>3, RequestCloseType, Zenon DEF Codes
  <2> QED
    BY <2>2, <2>3 DEF GraceNext, GraceBegin, GraceCollectors, GraceReader,
       GraceFlush, GraceClose
<1>6. DrainOK'
  <2>1. /\ draining' \in BOOLEAN /\ drain_stops' \in {0, 1, 2}
    BY <1>1, Zenon DEF GraceTurn, DrainOK
  <2>2. /\ grace' \in {"off", "events", "collectors", "reader", "flush", "ended"}
        /\ grace_tasks' \subseteq Frames
    BY DEF GraceNext, GraceBegin, GraceCollectors, GraceReader, GraceFlush,
       GraceClose, DrainOK, Collectors
  <2> QED
    BY <2>1, <2>2, Zenon DEF DrainOK
<1> QED
  BY <1>2, <1>3, <1>4, <1>5, <1>6

\* The coordinator of the drain and the ASGI server keep the types.
LEMMA StopType ==
  ASSUME TypeOK, DrainStart \/ DrainStop \/ DrainDeadline \/ ServerCancel
  PROVE  TypeOK'
<1> USE DEF TypeOK
<1>1. CASE DrainStart
  <2>1. /\ ReaderOK' /\ CallsOK' /\ CollectorOK' /\ WriterOK' /\ EventsOK'
        /\ CloseOK' /\ MainOK'
    BY <1>1 DEF DrainStart, readerV, callV, writerV, eventV, closeV, causeV, mainV,
       ReaderOK, CallsOK, CollectorOK, WriterOK, EventsOK, CloseOK, MainOK
  <2>2. DrainOK'
    BY <1>1, Zenon DEF DrainStart, DrainOK
  <2> QED
    BY <2>1, <2>2
<1>2. CASE DrainStop
  <2>1. ReaderOK' /\ WriterOK'
    BY <1>2 DEF DrainStop, readerV, writerV, ReaderOK, WriterOK
  <2>2. CallsOK'
    BY <1>2, InterruptedType DEF DrainStop, CallsOK
  <2>3. CollectorOK' /\ EventsOK'
    BY <1>2, CancelledCollectorsType, CancelledEventsType
       DEF DrainStop, CollectorOK, EventsOK
  <2>4. CloseOK'
    BY <1>2, Zenon DEF DrainStop, CloseOK, Codes
  <2>5. DrainOK' /\ MainOK'
    BY <1>2, Zenon DEF DrainStop, DrainOK, MainOK
  <2> QED
    BY <2>1, <2>2, <2>3, <2>4, <2>5
<1>3. CASE DrainDeadline \/ ServerCancel
  <2>1. /\ ReaderOK' /\ CallsOK' /\ CollectorOK' /\ WriterOK' /\ EventsOK'
        /\ CloseOK'
    BY <1>3 DEF DrainDeadline, ServerCancel, readerV, callV, writerV, eventV,
       closeV, causeV, ReaderOK, CallsOK, CollectorOK, WriterOK, EventsOK, CloseOK
  <2>2. DrainOK' /\ MainOK'
    BY <1>3, ZenonT(60) DEF DrainDeadline, ServerCancel, drainV, DrainOK, MainOK
  <2> QED
    BY <2>1, <2>2
<1> QED
  BY <1>1, <1>2, <1>3

\* Cancelling the reader, the event source, the collectors and the calls keeps
\* the types, and so does ending the writer.
LEMMA CancelTasksType ==
  ASSUME TypeOK, CancelTasks
  PROVE  ReaderOK' /\ CallsOK' /\ CollectorOK' /\ EventsOK'
<1> USE DEF TypeOK, CancelTasks
<1>1. ReaderOK'
  BY DEF ReaderOK
<1>2. CallsOK'
  BY InterruptedType DEF CallsOK
<1>3. CollectorOK' /\ EventsOK'
  BY CancelledCollectorsType, CancelledEventsType DEF CollectorOK, EventsOK
<1> QED
  BY <1>1, <1>2, <1>3

\* The serving task keeps the types.
LEMMA MainType ==
  ASSUME TypeOK, MainNext
  PROVE  TypeOK'
<1> USE DEF TypeOK
<1>1. MainTurn
  BY DEF MainNext, Teardown, Joined, FlushEnds, Interrupt, InterruptAgain, CloseSocket,
         SocketClosed, CloseInterrupted
<1>2. DrainOK' /\ close_event' \in BOOLEAN /\ client_closed' \in BOOLEAN
      /\ server_cancelled' \in BOOLEAN
  BY <1>1, Zenon DEF MainTurn, drainV, DrainOK, CloseOK, MainOK
<1>3. ReaderOK' /\ CallsOK' /\ CollectorOK' /\ EventsOK'
  <2>1. CASE CancelTasks
    BY <2>1, CancelTasksType
  <2>2. CASE UNCHANGED <<readerV, callV, collector, eventV>>
    BY <2>2 DEF readerV, callV, eventV, ReaderOK, CallsOK, CollectorOK, EventsOK
  <2> QED
    BY <2>1, <2>2 DEF MainNext, Teardown, Joined, FlushEnds, Interrupt, InterruptAgain,
       CloseSocket, SocketClosed, CloseInterrupted
<1>4. WriterOK'
  <2>1. CASE CancelWriter
    BY <2>1 DEF CancelWriter, WriterOK
  <2>2. CASE UNCHANGED writerV
    BY <2>2 DEF writerV, WriterOK
  <2> QED
    BY <2>1, <2>2 DEF MainNext, Teardown, Joined, FlushEnds, Interrupt, InterruptAgain,
       CloseSocket, SocketClosed, CloseInterrupted
<1>5. close_value' \in Codes /\ close_code' \in Codes \cup {"none"}
  BY Zenon DEF MainNext, Teardown, Joined, FlushEnds, Interrupt, InterruptAgain, CloseSocket,
     SocketClosed, CloseInterrupted, CloseOK, Codes
<1>6. /\ main' \in {"serving", "joining", "flushing", "final", "closing",
                    "closing_final", "closing_outer", "closed", "abandoned"}
      /\ cancelled' \in BOOLEAN /\ cancel_pending' \in BOOLEAN
      /\ closed' \in BOOLEAN
  BY Zenon DEF MainNext, Teardown, Joined, FlushEnds, Interrupt, InterruptAgain, CloseSocket,
     SocketClosed, CloseInterrupted, MainOK
<1>7. announced' \in Seq(Codes)
  <2>1. \/ UNCHANGED announced
        \/ \E code \in Codes : announced' = Append(announced, code)
    BY <1>5, Zenon DEF MainNext, Teardown, Joined, FlushEnds, Interrupt, InterruptAgain,
       CloseSocket, SocketClosed, CloseInterrupted, CloseOK, Codes
  <2> QED
    BY <2>1 DEF MainOK
<1> QED
  BY <1>2, <1>3, <1>4, <1>5, <1>6, <1>7, Zenon DEF CloseOK, MainOK

\* Every step keeps the types.
LEMMA StepType == TypeOK /\ [Next]_vars => TypeOK'
<1> SUFFICES ASSUME TypeOK, [Next]_vars PROVE TypeOK'
    OBVIOUS
<1>1. CASE UNCHANGED vars
  BY <1>1 DEF vars, readerV, callV, writerV, eventV, closeV, causeV, drainV, mainV,
     TypeOK, ReaderOK, CallsOK, CollectorOK, WriterOK, EventsOK, CloseOK, DrainOK,
     MainOK
<1>2. CASE Decode
  BY <1>2, DecodeType
<1>3. CASE TaskNext
  BY <1>3, CallType, CollectorType, EventType, WriterType, GraceType, MainType
     DEF TaskNext
<1>4. CASE Environment
  BY <1>4, ReceiveType, CauseType, StopType DEF Environment
<1> QED
  BY <1>1, <1>2, <1>3, <1>4 DEF Next, Over

\* Every reachable state is well typed, for all bounds, limits and messages.
THEOREM TypeCorrect == Spec => []TypeOK
BY InitType, StepType, PTL DEF Spec

-----------------------------------------------------------------------------
(* Which steps touch the calls. *)

callMap == <<item, route, reserved, call_tasks, requests>>

\* Only the reader and the calls themselves change the admission state.
LEMMA OthersLeaveCalls ==
  ASSUME [Next]_vars, ~ReadCall, \A c \in Calls : ~CallNext(c)
  PROVE  UNCHANGED callMap
<1>1. CASE Decode
  BY <1>1 DEF Decode, ReadCancel, ReadPing, ReadOverflow, ReadDuplicate,
     FrameIgnored, FrameOverflow, FrameCollected, StopReader, callV, callMap
<1>2. CASE ReceiveNext
  BY <1>2 DEF ReceiveNext, Receive, ReceiveUnreadable, ReceiveDisconnect,
     ReceiveFailure, StopReader, callV, callMap
<1>3. CASE \E f \in Frames : CollectorNext(f)
  BY <1>3 DEF CollectorNext, CollectorAbort, CollectorUnwound, CollectorAnswer,
     CollectorPut, CollectorTimeout, CollectorTurn, callMap
<1>4. CASE EventNext
  BY <1>4 DEF EventNext, EventEmit, EventPut, EventTimeout, EventsComplete,
     EventsFail, EventsUnwound, EventTurn, callV, callMap
<1>5. CASE WriterNext
  BY <1>5 DEF WriterNext, WriterTake, WriterSent, WriterDisconnect, WriterTimeout,
     WriterFailure, WriterStops, WriterTurn, callV, callMap
<1>6. CASE GraceNext
  BY <1>6 DEF GraceNext, GraceBegin, GraceCollectors, GraceReader, GraceFlush,
     GraceClose, GraceTurn, callV, callMap
<1>7. CASE MainNext
  BY <1>7 DEF MainNext, Teardown, Joined, FlushEnds, Interrupt, InterruptAgain, CloseSocket,
     SocketClosed, CloseInterrupted, CancelTasks, callV, callMap
<1>8. CASE Expire \/ ApplicationClose \/ DrainStart \/ DrainStop \/ DrainDeadline
           \/ ServerCancel
  BY <1>8 DEF Expire, ApplicationClose, DrainStart, DrainStop, DrainDeadline,
     ServerCancel, callV, callMap
<1>9. CASE UNCHANGED vars
  BY <1>9 DEF vars, callV, callMap
<1> QED
  BY <1>1, <1>2, <1>3, <1>4, <1>5, <1>6, <1>7, <1>8, <1>9
     DEF Next, TaskNext, Environment, Over

\* A step of a call ends it, or leaves the admission state but for releasing its
\* own reservation.
LEMMA CallLeavesOthers ==
  ASSUME NEW c \in Calls, CallNext(c), ~CallDone(c)
  PROVE  /\ UNCHANGED <<item, route, call_tasks, requests>>
         /\ reserved' = reserved \/ reserved' = reserved \ {c}
BY DEF CallNext, CallProgress, StartCall, NeverStart, AcquireSlot, RefuseCall,
   CompleteCall, ExpireCall, AnswerCancelled, UnwindCall, LeakCancellation, FailCall,
   EndCall, CallStep

-----------------------------------------------------------------------------
(* The identity of calls. *)

\* A call is known before its done callback runs, and is not one that the reader
\* has yet to make of the frame it decodes.
CallsIdentified ==
  \A c \in call_tasks :
    /\ item[c] \in Item
    /\ c[1] <= nframes
    /\ reader = "decoding" /\ c[1] = nframes => c[2] > Len(rest)

\* The call that the next item becomes is none of those alive.
LEMMA NextCallNew ==
  ASSUME ReaderOK, CallsIdentified, reader = "decoding", rest # <<>>
  PROVE  <<nframes, Len(rest)>> \notin call_tasks
BY NextCallType DEF CallsIdentified

\* What decoding an item does to the frame and the items left.
LEMMA ItemsLeft ==
  ASSUME TypeOK, [Next]_vars
  PROVE  \/ UNCHANGED <<nframes, rest>> /\ (reader' = "decoding" => reader = "decoding")
         \/ /\ reader = "decoding" /\ rest # <<>>
            /\ nframes' = nframes /\ Len(rest') < Len(rest)
         \/ nframes' = nframes /\ reader' = "stopped"
         \/ nframes' = nframes + 1 /\ reader # "decoding"
<1> USE DEF TypeOK
<1>1. CASE Decode
  <2>1. CASE ReadCancel \/ ReadPing \/ ReadCall
    BY <2>1, NextCallType DEF ReadCancel, ReadPing, ReadCall, NextItem, ReaderOK
  <2>2. CASE ~(ReadCancel \/ ReadPing \/ ReadCall)
    BY <1>1, <2>2 DEF Decode, ReadOverflow, ReadDuplicate, FrameIgnored,
       FrameOverflow, FrameCollected, FrameDecoded, StopReader
  <2> QED
    BY <2>1, <2>2
<1>2. CASE ReceiveNext
  BY <1>2 DEF ReceiveNext, Receive, ReceiveUnreadable, ReceiveDisconnect,
     ReceiveFailure, StopReader
<1>3. CASE TaskNext
  <2>1. ASSUME NEW c \in Calls, CallNext(c) PROVE UNCHANGED <<nframes, rest, reader>>
    BY <2>1 DEF CallNext, CallProgress, StartCall, NeverStart, AcquireSlot, RefuseCall,
       CompleteCall, ExpireCall, AnswerCancelled, UnwindCall, LeakCancellation,
       FailCall, CallDone, EndCall, CallStep, CallTurn, readerV
  <2>2. ASSUME NEW f \in Frames, CollectorNext(f) PROVE UNCHANGED <<nframes, rest, reader>>
    BY <2>2 DEF CollectorNext, CollectorAbort, CollectorUnwound, CollectorAnswer,
       CollectorPut, CollectorTimeout, CollectorTurn, readerV
  <2>3. CASE EventNext \/ WriterNext
    BY <2>3 DEF EventNext, EventEmit, EventPut, EventTimeout, EventsComplete,
       EventsFail, EventsUnwound, EventTurn, WriterNext, WriterTake, WriterSent,
       WriterDisconnect, WriterTimeout, WriterFailure, WriterStops, WriterTurn, readerV
  <2>4. CASE GraceNext
    BY <2>4 DEF GraceNext, GraceBegin, GraceCollectors, GraceReader, GraceFlush,
       GraceClose, GraceTurn
  <2>5. CASE MainNext
    BY <2>5 DEF MainNext, Teardown, Joined, FlushEnds, Interrupt, InterruptAgain, CloseSocket,
       SocketClosed, CloseInterrupted, CancelTasks, readerV
  <2> QED
    BY <1>3, <2>1, <2>2, <2>3, <2>4, <2>5 DEF TaskNext
<1>4. CASE Expire \/ ApplicationClose \/ DrainStart \/ DrainStop \/ DrainDeadline
           \/ ServerCancel \/ UNCHANGED vars
  BY <1>4 DEF Expire, ApplicationClose, DrainStart, DrainStop, DrainDeadline,
     ServerCancel, vars, readerV
<1> QED
  BY <1>1, <1>2, <1>3, <1>4 DEF Next, Environment, Over

\* Every step keeps the calls identified.
LEMMA IdentityStep ==
  TypeOK /\ CallsIdentified /\ [Next]_vars => CallsIdentified'
<1> SUFFICES ASSUME TypeOK, CallsIdentified, [Next]_vars PROVE CallsIdentified'
    OBVIOUS
<1> USE DEF TypeOK
<1>1. CASE ReadCall
  <2> DEFINE c == <<nframes, Len(rest)>>
  <2>1. /\ c \in Calls /\ c \notin call_tasks /\ Head(rest) \in Item
        /\ Len(rest') = Len(rest) - 1 /\ Len(rest) \in Nat /\ nframes \in Nat
    BY <1>1, NextCallType, NextCallNew DEF ReadCall, NextItem, Frames
  <2>2. /\ call_tasks' = call_tasks \cup {c} /\ item' = [item EXCEPT ![c] = Head(rest)]
        /\ nframes' = nframes /\ reader = "decoding"
    BY <1>1 DEF ReadCall, NextItem
  <2>3. \A d \in call_tasks' : item'[d] \in Item
    BY <2>1, <2>2 DEF CallsIdentified, CallsOK
  <2>4. \A d \in call_tasks : d[1] <= nframes /\ (d[1] = nframes => d[2] > Len(rest))
    BY <2>2 DEF CallsIdentified
  <2>5. \A d \in call_tasks : d[1] \in Nat /\ d[2] \in Nat
    BY DEF CallsOK, Calls, Frames
  <2>6. \A d \in call_tasks' : d[1] <= nframes' /\ (d[1] = nframes' => d[2] > Len(rest'))
    BY <2>1, <2>2, <2>4, <2>5
  <2> QED
    BY <2>3, <2>6 DEF CallsIdentified
<1>2. CASE ~ReadCall
  <2>1. call_tasks' \subseteq call_tasks /\ item' = item
    BY <1>2, OthersLeaveCalls, CallLeavesOthers DEF CallDone, callMap
  <2>2. \A d \in call_tasks : d[1] \in Nat /\ d[2] \in Nat
    BY DEF CallsOK, Calls, Frames
  <2>3. /\ nframes \in Nat /\ Len(rest) \in Nat
        /\ ReaderOK' => Len(rest') \in Nat
    BY DEF ReaderOK
  <2>4. ReaderOK'
    BY StepType
  <2>5. \A d \in call_tasks :
          /\ d[1] <= nframes'
          /\ reader' = "decoding" /\ d[1] = nframes' => d[2] > Len(rest')
    BY ItemsLeft, <2>2, <2>3, <2>4 DEF CallsIdentified
  <2> QED
    BY <2>1, <2>5 DEF CallsIdentified
<1> QED
  BY <1>1, <1>2

\* A call never gets the identity of another that is alive.
THEOREM CallsAreIdentified == Spec => []CallsIdentified
<1>1. Init => CallsIdentified
  BY DEF Init, CallsIdentified
<1> QED
  BY <1>1, IdentityStep, TypeCorrect, PTL DEF Spec

-----------------------------------------------------------------------------
(* The reservations. *)

\* The calls of a connection are finitely many.
LEMMA CallsFinite == IsFiniteSet(Calls)
<1>1. IsFiniteSet(1..MaxFrames) /\ IsFiniteSet(1..MaxBatch)
  <2>1. 1 \in Int /\ MaxFrames \in Int /\ MaxBatch \in Int
    OBVIOUS
  <2> QED
    BY <2>1, FS_Interval
<1> QED
  BY <1>1, FS_Product DEF Calls, Frames

\* The number of reservations is a natural number that shrinks with the set.
LEMMA ReservedSize ==
  ASSUME CallsOK, NEW S, S \subseteq reserved
  PROVE  /\ IsFiniteSet(reserved)
         /\ Cardinality(reserved) \in Nat /\ Cardinality(S) \in Nat
         /\ Cardinality(S) <= Cardinality(reserved)
<1>1. IsFiniteSet(reserved)
  BY CallsFinite, FS_Subset DEF CallsOK
<1> QED
  BY <1>1, FS_Subset, FS_CardinalityType

\* One reservation more, below the limit, is within it.
LEMMA ReservationAdded ==
  ASSUME CallsOK, NEW c, Cardinality(reserved) < MaxPending
  PROVE  Cardinality(reserved \cup {c}) <= MaxPending
<1>1. IsFiniteSet(reserved) /\ Cardinality(reserved) \in Nat
  BY ReservedSize
<1>2. \/ Cardinality(reserved \cup {c}) = Cardinality(reserved)
      \/ Cardinality(reserved \cup {c}) = Cardinality(reserved) + 1
  BY <1>1, FS_AddElement, Zenon
<1> QED
  BY <1>1, <1>2

\* Every step keeps the reservations.
LEMMA ReservationsStep ==
  TypeOK /\ CallsIdentified /\ ReservationsHeld /\ [Next]_vars => ReservationsHeld'
<1> SUFFICES ASSUME TypeOK, CallsIdentified, ReservationsHeld, [Next]_vars
    PROVE  ReservationsHeld'
    OBVIOUS
<1> USE DEF TypeOK
<1>1. CASE ReadCall
  <2> DEFINE c == <<nframes, Len(rest)>>
             i == Head(rest)
  <2>1. c \in Calls
    BY <1>1, NextCallType DEF ReadCall, NextItem
  <2>2. /\ call_tasks' = call_tasks \cup {c}
        /\ route' = [route EXCEPT ![c] = Admission(i)]
        /\ reserved' = IF Admission(i) = "serve" THEN reserved \cup {c} ELSE reserved
    BY <1>1 DEF ReadCall
  <2>3. CASE Admission(i) = "serve"
    <3>1. Cardinality(reserved) < MaxPending
      BY <2>3, ReservedSize DEF Admission
    <3>2. Cardinality(reserved') <= MaxPending
      BY <2>2, <2>3, <3>1, ReservationAdded
    <3>3. \A d \in reserved' : d \in call_tasks' /\ route'[d] = "serve"
      BY <2>1, <2>2, <2>3 DEF ReservationsHeld, CallsOK
    <3> QED
      BY <3>2, <3>3 DEF ReservationsHeld
  <2>4. CASE Admission(i) # "serve"
    <3>1. c \notin reserved
      BY <1>1, NextCallNew DEF ReadCall, NextItem, ReservationsHeld
    <3> QED
      BY <2>1, <2>2, <2>4, <3>1 DEF ReservationsHeld, CallsOK
  <2> QED
    BY <2>3, <2>4
<1>2. CASE \E c \in Calls : CallNext(c)
  <2> PICK c \in Calls : CallNext(c)
    BY <1>2
  <2>1. CASE CallDone(c)
    <3>1. /\ reserved' = reserved \ {c} /\ call_tasks' = call_tasks \ {c}
          /\ route' = route
      BY <2>1 DEF CallDone
    <3>2. Cardinality(reserved') <= MaxPending
      BY <3>1, ReservedSize DEF ReservationsHeld
    <3> QED
      BY <3>1, <3>2 DEF ReservationsHeld
  <2>2. CASE ~CallDone(c)
    <3>1. reserved' \subseteq reserved /\ UNCHANGED <<route, call_tasks>>
      BY <2>2, CallLeavesOthers
    <3>2. Cardinality(reserved') <= MaxPending
      BY <3>1, ReservedSize DEF ReservationsHeld
    <3> QED
      BY <3>1, <3>2 DEF ReservationsHeld
  <2> QED
    BY <2>1, <2>2
<1>3. CASE ~ReadCall /\ \A c \in Calls : ~CallNext(c)
  BY <1>3, OthersLeaveCalls DEF callMap, ReservationsHeld
<1> QED
  BY <1>1, <1>2, <1>3

\* The pending limit holds and no reservation outlives its call, for every limit.
THEOREM ReservationsAreHeld == Spec => []ReservationsHeld
<1>1. Init => ReservationsHeld
  BY FS_EmptySet DEF Init, ReservationsHeld
<1> QED
  BY <1>1, ReservationsStep, TypeCorrect, CallsAreIdentified, PTL DEF Spec

-----------------------------------------------------------------------------
(* The in-flight ids. *)

\* Every step keeps the map of in-flight ids and the calls in agreement.
LEMMA InFlightStep ==
  TypeOK /\ CallsIdentified /\ InFlightConsistent /\ [Next]_vars => InFlightConsistent'
<1> SUFFICES ASSUME TypeOK, CallsIdentified, InFlightConsistent, [Next]_vars
    PROVE  InFlightConsistent'
    OBVIOUS
<1> USE NoCallAssumption DEF NoCallAssumption, TypeOK
<1>1. CASE ReadCall
  <2> DEFINE c == <<nframes, Len(rest)>>
             i == Head(rest)
  <2>1. c \in Calls /\ c \notin call_tasks /\ i \in Item
    BY <1>1, NextCallType, NextCallNew DEF ReadCall, NextItem
  <2>2. /\ call_tasks' = call_tasks \cup {c} /\ item' = [item EXCEPT ![c] = i]
        /\ requests' = IF i.op = "call" THEN [requests EXCEPT ![i.id] = c]
                       ELSE requests
        /\ i.op = "call" => requests[i.id] = NoCall
    BY <1>1 DEF ReadCall, InFlight
  <2> HIDE DEF c, i
  <2>3. i.id \in Ids /\ i = [op |-> i.op, id |-> i.id]
    BY <2>1 DEF Item
  <2>4. \A d \in call_tasks : d # c /\ item'[d] = item[d]
    BY <2>1, <2>2 DEF CallsOK
  <2>5. item'[c] = i
    BY <2>1, <2>2 DEF CallsOK
  <2>6. ASSUME NEW j \in Ids, requests'[j] # NoCall
        PROVE  /\ requests'[j] \in call_tasks'
               /\ item'[requests'[j]] = [op |-> "call", id |-> j]
    <3>1. CASE i.op = "call" /\ j = i.id
      BY <2>2, <2>3, <2>5, <3>1 DEF CallsOK
    <3>2. CASE ~(i.op = "call" /\ j = i.id)
      <4>1. requests'[j] = requests[j]
        BY <2>2, <2>3, <3>2 DEF CallsOK
      <4> QED
        BY <2>2, <2>4, <2>6, <4>1 DEF InFlightConsistent
    <3> QED
      BY <3>1, <3>2
  <2>7. ASSUME NEW d \in call_tasks', item'[d].op = "call"
        PROVE  requests'[item'[d].id] = d
    <3>1. CASE d = c
      BY <2>2, <2>3, <2>5, <2>7, <3>1 DEF CallsOK
    <3>2. CASE d # c
      <4>1. d \in call_tasks /\ item[d].op = "call" /\ item'[d] = item[d]
        BY <2>2, <2>4, <2>7, <3>2
      <4>2. requests[item[d].id] = d /\ d \in Calls /\ item[d].id \in Ids
        BY <4>1 DEF InFlightConsistent, CallsIdentified, CallsOK, Item
      <4>3. i.op = "call" => item[d].id # i.id
        BY <2>2, <4>2
      <4> QED
        BY <2>2, <2>3, <4>1, <4>2, <4>3 DEF CallsOK
    <3> QED
      BY <3>1, <3>2
  <2> QED
    BY <2>6, <2>7 DEF InFlightConsistent
<1>2. CASE \E c \in Calls : CallDone(c)
  <2> PICK c \in Calls : CallDone(c)
    BY <1>2
  <2>1. /\ call_tasks' = call_tasks \ {c} /\ item' = item
        /\ requests' = [i \in Ids |-> IF requests[i] = c THEN NoCall ELSE requests[i]]
    BY DEF CallDone
  <2>2. \A d \in call_tasks : item[d] \in Item /\ item[d].id \in Ids
    BY DEF CallsIdentified, Item
  <2> QED
    BY <2>1, <2>2 DEF InFlightConsistent
<1>3. CASE ~ReadCall /\ \A c \in Calls : ~CallDone(c)
  <2>1. UNCHANGED <<item, call_tasks, requests>>
    BY <1>3, OthersLeaveCalls, CallLeavesOthers DEF callMap
  <2> QED
    BY <2>1 DEF InFlightConsistent
<1> QED
  BY <1>1, <1>2, <1>3

\* A cancellation by id reaches the one call that has it, and a duplicate id is
\* always noticed, for every set of ids.
THEOREM InFlightAlwaysConsistent == Spec => []InFlightConsistent
<1>1. Init => InFlightConsistent
  BY DEF Init, InFlightConsistent
<1> QED
  BY <1>1, InFlightStep, TypeCorrect, CallsAreIdentified, PTL DEF Spec

-----------------------------------------------------------------------------
(* The cause of a close. *)

CauseKnown == close_event => close_code # "none"

\* Once a close is requested every step keeps its cause.
LEMMA CauseStep ==
  ASSUME CloseOK, CauseKnown, [Next]_vars
  PROVE  /\ CauseKnown'
         /\ close_event => close_event' /\ close_code' = close_code
<1>1. ASSUME NEW code \in Codes, RequestClose(code)
      PROVE  /\ CauseKnown'
             /\ close_event => close_event' /\ close_code' = close_code
  BY <1>1, Zenon DEF RequestClose, CauseKnown, Codes
<1>2. CASE UNCHANGED causeV
  BY <1>2, Zenon DEF causeV, CauseKnown
<1>3. CASE Decode
  BY <1>1, <1>2, <1>3, Zenon DEF Decode, ReadCancel, ReadPing, ReadOverflow,
     ReadDuplicate, ReadCall, FrameIgnored, FrameOverflow, FrameCollected,
     StopReader, closeV, Codes
<1>4. CASE ReceiveNext
  <2>1. CASE ReceiveDisconnect
    BY <1>1, <2>1, Zenon DEF ReceiveDisconnect, StopReader
  <2> QED
    BY <1>1, <1>2, <1>4, <2>1, Zenon DEF ReceiveNext, Receive, ReceiveUnreadable,
       ReceiveFailure, StopReader, closeV, Codes
<1>5. CASE TaskNext
  <2>1. ASSUME NEW c \in Calls, CallNext(c) PROVE UNCHANGED causeV
    BY <2>1, Zenon DEF CallNext, CallProgress, StartCall, NeverStart, AcquireSlot,
       RefuseCall, CompleteCall, ExpireCall, AnswerCancelled, UnwindCall,
       LeakCancellation, FailCall, CallDone, EndCall, CallStep, CallTurn, closeV
  <2>2. ASSUME NEW f \in Frames, CollectorNext(f)
        PROVE  UNCHANGED causeV \/ \E code \in Codes : RequestClose(code)
    BY <2>2, Zenon DEF CollectorNext, CollectorAbort, CollectorUnwound, CollectorAnswer,
       CollectorPut, CollectorTimeout, Codes
  <2>3. CASE EventNext \/ WriterNext
    <3>1. UNCHANGED causeV \/ \E code \in Codes : RequestClose(code)
      BY <2>3, Zenon DEF EventNext, EventEmit, EventPut, EventTimeout, EventsComplete,
         EventsFail, EventsUnwound, WriterNext, WriterTake, WriterSent,
         WriterDisconnect, WriterTimeout, WriterFailure, WriterStops, closeV, Codes
    <3> QED
      BY <1>1, <1>2, <3>1
  <2>4. CASE GraceNext
    BY <1>1, <1>2, <2>4, Zenon DEF GraceNext, GraceBegin, GraceCollectors, GraceReader,
       GraceFlush, GraceClose, Codes
  <2>5. CASE MainNext
    <3>1. CASE CloseSocket
      BY <3>1, Zenon DEF CloseSocket, MainTurn, CauseKnown
    <3>2. CASE ~CloseSocket
      <4>1. UNCHANGED <<close_event, close_code>>
        BY <2>5, <3>2, Zenon DEF MainNext, Teardown, Joined, FlushEnds, Interrupt, InterruptAgain,
           SocketClosed, CloseInterrupted, MainTurn
      <4> QED
        BY <4>1, Zenon DEF CauseKnown
    <3> QED
      BY <3>1, <3>2
  <2> QED
    BY <1>1, <1>2, <1>5, <2>1, <2>2, <2>3, <2>4, <2>5, Zenon DEF TaskNext
<1>6. CASE Expire \/ ApplicationClose \/ DrainStart \/ DrainDeadline \/ ServerCancel
  BY <1>1, <1>2, <1>6, Zenon DEF Expire, ApplicationClose, DrainStart, DrainDeadline,
     ServerCancel, closeV, Codes
<1>7. CASE DrainStop
  BY <1>7, Zenon DEF DrainStop, CauseKnown
<1>8. CASE UNCHANGED vars
  BY <1>2, <1>8, Zenon DEF vars, closeV
<1> QED
  BY <1>3, <1>4, <1>5, <1>6, <1>7, <1>8, Zenon DEF Next, Environment, Over

\* The first requested cause of a close is the one middleware and peer see, for
\* every order of failures, expiry, drain and cancellation.
THEOREM CauseIsKept == Spec => CauseKept
<1>1. Init => CauseKnown
  BY DEF Init, CauseKnown
<1>2. TypeOK /\ CauseKnown /\ [Next]_vars =>
        CauseKnown' /\ [close_event => close_event' /\ close_code' = close_code]_vars
  BY CauseStep DEF TypeOK
<1> QED
  BY <1>1, <1>2, TypeCorrect, PTL DEF Spec, CauseKept

-----------------------------------------------------------------------------
(* The teardown. *)

\* What makes NothingOutlives inductive: the reader ends first, the writer last,
\* and a call that is alive has its done callback to come.
TeardownOrder ==
  /\ main # "serving" => reader = "stopped"
  /\ main \notin {"serving", "joining", "flushing"} => writer = "ended"
  /\ \A c \in Calls : phase[c] \in Live => c \in call_tasks

Closing == {"closing", "closing_final", "closing_outer", "closed", "abandoned"}

ClosingJoined == main \in Closing => AllJoined /\ writer = "ended"

\* A reader that has stopped never reads again, and stops the call tasks growing.
LEMMA ReaderStays ==
  ASSUME [Next]_vars, reader = "stopped"
  PROVE  reader' = "stopped" /\ ~Decode /\ ~ReceiveNext
<1>1. ~Decode
  BY DEF Decode, ReadCancel, ReadPing, ReadOverflow, ReadDuplicate, ReadCall, NextItem,
     FrameIgnored, FrameOverflow, FrameCollected, FrameDecoded
<1>2. ~ReceiveNext
  BY DEF ReceiveNext, Receive, ReceiveUnreadable, ReceiveDisconnect, ReceiveFailure
<1>3. CASE TaskNext
  <2>1. ASSUME NEW c \in Calls, CallNext(c) PROVE reader' = reader
    BY <2>1 DEF CallNext, CallProgress, StartCall, NeverStart, AcquireSlot, RefuseCall,
       CompleteCall, ExpireCall, AnswerCancelled, UnwindCall, LeakCancellation,
       FailCall, CallDone, EndCall, CallStep, CallTurn, readerV
  <2>2. ASSUME NEW f \in Frames, CollectorNext(f) PROVE reader' = reader
    BY <2>2 DEF CollectorNext, CollectorAbort, CollectorUnwound, CollectorAnswer,
       CollectorPut, CollectorTimeout, CollectorTurn, readerV
  <2>3. CASE EventNext \/ WriterNext
    BY <1>1, <1>2, <2>3 DEF EventNext, EventEmit, EventPut, EventTimeout, EventsComplete,
       EventsFail, EventsUnwound, EventTurn, WriterNext, WriterTake, WriterSent,
       WriterDisconnect, WriterTimeout, WriterFailure, WriterStops, WriterTurn, readerV
  <2>4. CASE GraceNext
    BY <1>1, <1>2, <2>4 DEF GraceNext, GraceBegin, GraceCollectors, GraceReader, GraceFlush,
       GraceClose
  <2>5. CASE MainNext
    BY <1>1, <1>2, <2>5 DEF MainNext, Teardown, Joined, FlushEnds, Interrupt, InterruptAgain, CloseSocket,
       SocketClosed, CloseInterrupted, CancelTasks, readerV
  <2> QED
    BY <1>1, <1>2, <1>3, <2>1, <2>2, <2>3, <2>4, <2>5 DEF TaskNext
<1> QED
  BY <1>1, <1>2, <1>3 DEF Next, Environment, Over, Expire, ApplicationClose, DrainStart,
     DrainStop, DrainDeadline, ServerCancel, vars, readerV

\* Only the serving task moves its own place.
LEMMA MainStays ==
  ASSUME [Next]_vars, ~MainNext
  PROVE  main' = main
<1>1. CASE Decode
  BY <1>1 DEF Decode, ReadCancel, ReadPing, ReadOverflow, ReadDuplicate, ReadCall,
     FrameIgnored, FrameOverflow, FrameCollected, StopReader, ReaderTurn, mainV
<1>2. CASE ReceiveNext
  BY <1>2 DEF ReceiveNext, Receive, ReceiveUnreadable, ReceiveDisconnect,
     ReceiveFailure, StopReader, ReaderTurn, mainV
<1>3. ASSUME NEW c \in Calls, CallNext(c) PROVE main' = main
  BY <1>3 DEF CallNext, CallProgress, StartCall, NeverStart, AcquireSlot, RefuseCall,
     CompleteCall, ExpireCall, AnswerCancelled, UnwindCall, LeakCancellation,
     FailCall, CallDone, EndCall, CallStep, CallTurn, mainV
<1>4. ASSUME NEW f \in Frames, CollectorNext(f) PROVE main' = main
  BY <1>4 DEF CollectorNext, CollectorAbort, CollectorUnwound, CollectorAnswer,
     CollectorPut, CollectorTimeout, CollectorTurn, mainV
<1>5. CASE EventNext \/ WriterNext
  BY <1>5 DEF EventNext, EventEmit, EventPut, EventTimeout, EventsComplete, EventsFail,
     EventsUnwound, EventTurn, WriterNext, WriterTake, WriterSent, WriterDisconnect,
     WriterTimeout, WriterFailure, WriterStops, WriterTurn, mainV
<1>6. CASE GraceNext
  BY <1>6 DEF GraceNext, GraceBegin, GraceCollectors, GraceReader, GraceFlush,
     GraceClose, GraceTurn, mainV
<1>7. CASE UNCHANGED vars \/ Expire \/ ApplicationClose \/ DrainStart \/ DrainStop
           \/ DrainDeadline \/ ServerCancel
  BY <1>7 DEF Expire, ApplicationClose, DrainStart, DrainStop, DrainDeadline,
     ServerCancel, vars, mainV
<1> QED
  BY <1>1, <1>2, <1>3, <1>4, <1>5, <1>6, <1>7 DEF Next, TaskNext, Environment, Over

\* A writer that has ended stays so.
LEMMA WriterStays ==
  ASSUME [Next]_vars, ~MainNext, writer = "ended"
  PROVE  writer' = "ended"
<1>1. CASE Decode
  BY <1>1 DEF Decode, ReadCancel, ReadPing, ReadOverflow, ReadDuplicate, ReadCall,
     FrameIgnored, FrameOverflow, FrameCollected, StopReader, ReaderTurn, writerV
<1>2. CASE ReceiveNext
  BY <1>2 DEF ReceiveNext, Receive, ReceiveUnreadable, ReceiveDisconnect,
     ReceiveFailure, StopReader, ReaderTurn, writerV
<1>3. ASSUME NEW c \in Calls, CallNext(c) PROVE writer' = writer
  BY <1>3 DEF CallNext, CallProgress, StartCall, NeverStart, AcquireSlot, RefuseCall,
     CompleteCall, ExpireCall, AnswerCancelled, UnwindCall, LeakCancellation,
     FailCall, CallDone, EndCall, CallStep, CallTurn, writerV
<1>4. ASSUME NEW f \in Frames, CollectorNext(f) PROVE writer' = writer
  BY <1>4 DEF CollectorNext, CollectorAbort, CollectorUnwound, CollectorAnswer,
     CollectorPut, CollectorTimeout, Enqueue, writerV
<1>5. CASE EventNext \/ WriterNext
  BY <1>5 DEF EventNext, EventEmit, EventPut, EventTimeout, EventsComplete, EventsFail,
     EventsUnwound, Enqueue, WriterNext, WriterTake, WriterSent, WriterDisconnect,
     WriterTimeout, WriterFailure, WriterStops, writerV
<1>6. CASE GraceNext
  BY <1>6 DEF GraceNext, GraceBegin, GraceCollectors, GraceReader, GraceFlush,
     GraceClose, GraceTurn, writerV
<1>7. CASE UNCHANGED vars \/ Expire \/ ApplicationClose \/ DrainStart \/ DrainStop
           \/ DrainDeadline \/ ServerCancel
  BY <1>7 DEF Expire, ApplicationClose, DrainStart, DrainStop, DrainDeadline,
     ServerCancel, vars, writerV
<1> QED
  BY <1>1, <1>2, <1>3, <1>4, <1>5, <1>6, <1>7 DEF Next, TaskNext, Environment, Over

\* A call is alive only while its done callback is to come.
LEMMA LiveStep ==
  ASSUME TypeOK, [Next]_vars, \A c \in Calls : phase[c] \in Live => c \in call_tasks
  PROVE  \A c \in Calls : phase'[c] \in Live => c \in call_tasks'
<1> USE DEF TypeOK
<1>1. CASE ReadCall
  BY <1>1, NextCallType DEF ReadCall, NextItem, CallsOK
<1>2. CASE \E c \in Calls : CallNext(c)
  <2> PICK c \in Calls : CallNext(c)
    BY <1>2
  <2>1. CASE CallDone(c)
    BY <2>1 DEF CallDone, Ended, Live
  <2>2. CASE ~CallDone(c)
    <3>1. /\ call_tasks' = call_tasks /\ phase[c] \in Live
          /\ \E p \in Phases : phase' = [phase EXCEPT ![c] = p]
      BY <2>2 DEF CallNext, CallProgress, StartCall, NeverStart, AcquireSlot,
         RefuseCall, CompleteCall, ExpireCall, AnswerCancelled, UnwindCall,
         LeakCancellation, FailCall, EndCall, CallStep, Answer, Phases, Live, Ended
    <3> QED
      BY <3>1 DEF CallsOK
  <2> QED
    BY <2>1, <2>2
<1>3. CASE ~ReadCall /\ \A c \in Calls : ~CallNext(c)
  <2>1. call_tasks' = call_tasks
    BY <1>3, OthersLeaveCalls DEF callMap
  <2>2. phase' = phase
    <3>1. CASE Decode \/ ReceiveNext
      BY <1>3, <3>1 DEF Decode, ReadCancel, ReadPing, ReadOverflow, ReadDuplicate,
         FrameIgnored, FrameOverflow, FrameCollected, ReceiveNext, Receive,
         ReceiveUnreadable, ReceiveDisconnect, ReceiveFailure, StopReader, callV
    <3>2. ASSUME NEW f \in Frames, CollectorNext(f) PROVE phase' = phase
      BY <3>2 DEF CollectorNext, CollectorAbort, CollectorUnwound, CollectorAnswer,
         CollectorPut, CollectorTimeout, CollectorTurn
    <3>3. CASE EventNext \/ WriterNext \/ GraceNext \/ MainNext
      BY <3>3 DEF EventNext, EventEmit, EventPut, EventTimeout, EventsComplete,
         EventsFail, EventsUnwound, EventTurn, WriterNext, WriterTake, WriterSent,
         WriterDisconnect, WriterTimeout, WriterFailure, WriterStops, WriterTurn,
         GraceNext, GraceBegin, GraceCollectors, GraceReader, GraceFlush, GraceClose,
         GraceTurn, MainNext, Teardown, Joined, FlushEnds, Interrupt, InterruptAgain, CloseSocket,
         SocketClosed, CloseInterrupted, CancelTasks, callV
    <3>4. CASE UNCHANGED vars \/ Expire \/ ApplicationClose \/ DrainStart \/ DrainStop
               \/ DrainDeadline \/ ServerCancel
      BY <3>4 DEF Expire, ApplicationClose, DrainStart, DrainStop, DrainDeadline,
         ServerCancel, vars, callV
    <3> QED
      BY <1>3, <3>1, <3>2, <3>3, <3>4 DEF Next, TaskNext, Environment, Over
  <2> QED
    BY <2>1, <2>2
<1> QED
  BY <1>1, <1>2, <1>3

\* The reader ends before the serving task joins, the writer before it closes.
LEMMA OrderStep ==
  ASSUME TypeOK, TeardownOrder, [Next]_vars
  PROVE  TeardownOrder'
<1> USE DEF TeardownOrder
<1>1. \A c \in Calls : phase'[c] \in Live => c \in call_tasks'
  BY LiveStep
<1>2. main' # "serving" => reader' = "stopped"
  <2>1. CASE MainNext
    BY <2>1, ReaderStays DEF MainNext, Teardown, Joined, FlushEnds, Interrupt, InterruptAgain,
       CloseSocket, SocketClosed, CloseInterrupted, CancelTasks
  <2>2. CASE ~MainNext
    BY <2>2, MainStays, ReaderStays
  <2> QED
    BY <2>1, <2>2
<1>3. main' \notin {"serving", "joining", "flushing"} => writer' = "ended"
  <2>1. CASE MainNext
    BY <2>1 DEF MainNext, Teardown, Joined, FlushEnds, Interrupt, InterruptAgain, CloseSocket,
       SocketClosed, CloseInterrupted, CancelWriter, writerV
  <2>2. CASE ~MainNext
    BY <2>2, MainStays, WriterStays
  <2> QED
    BY <2>1, <2>2
<1> QED
  BY <1>1, <1>2, <1>3

\* What has ended stays ended, so what was joined stays joined.
LEMMA JoinedStays ==
  ASSUME TypeOK, TeardownOrder, [Next]_vars, AllJoined
  PROVE  AllJoined'
<1> USE DEF TypeOK
<1>1. reader' = "stopped" /\ ~Decode /\ ~ReceiveNext
  BY ReaderStays DEF AllJoined
<1>2. \A c \in Calls : ~CallNext(c)
  BY DEF AllJoined, TeardownOrder, CallNext, CallProgress, StartCall, NeverStart,
     AcquireSlot, RefuseCall, CompleteCall, ExpireCall, AnswerCancelled, UnwindCall,
     LeakCancellation, FailCall, CallDone, EndCall, CallStep, Live
<1>3. call_tasks' = {}
  BY <1>1, <1>2, OthersLeaveCalls DEF callMap, Decode, AllJoined
<1>4. \A f \in Frames : ~CollectorNext(f)
  BY DEF AllJoined, Collectors, Collecting, CollectorNext, CollectorAbort,
     CollectorUnwound, CollectorAnswer, CollectorPut, CollectorTimeout
<1>5. ~(EventEmit \/ EventPut \/ EventTimeout \/ EventsComplete \/ EventsFail
         \/ EventsUnwound)
  BY DEF AllJoined, EventEmit, EventPut, EventTimeout, EventsComplete, EventsFail,
     EventsUnwound
<1>6. \/ UNCHANGED <<collector, events>>
      \/ /\ \E S : collector' = CancelledCollectors(S)
         /\ events' = events \/ events' = CancelledEvents
      \/ UNCHANGED collector /\ events' = CancelledEvents
  <2>1. CASE WriterNext \/ GraceNext
    BY <2>1 DEF WriterNext, WriterTake, WriterSent, WriterDisconnect, WriterTimeout,
       WriterFailure, WriterStops, WriterTurn, eventV, GraceNext, GraceBegin,
       GraceCollectors, GraceReader, GraceFlush, GraceClose, GraceTurn
  <2>2. CASE MainNext
    BY <2>2 DEF MainNext, Teardown, Joined, FlushEnds, Interrupt, InterruptAgain, CloseSocket,
       SocketClosed, CloseInterrupted, CancelTasks, eventV
  <2>3. CASE DrainStop
    BY <2>3 DEF DrainStop
  <2>4. CASE UNCHANGED vars \/ Expire \/ ApplicationClose \/ DrainStart
             \/ DrainDeadline \/ ServerCancel
    BY <2>4 DEF Expire, ApplicationClose, DrainStart, DrainDeadline, ServerCancel,
       vars, eventV
  <2> QED
    BY <1>1, <1>2, <1>4, <1>5, <2>1, <2>2, <2>3, <2>4
       DEF Next, TaskNext, Environment, Over, EventNext
<1>7. events' = "ended"
  BY <1>6 DEF AllJoined, CancelledEvents
<1>8. Collectors' = {}
  <2>1. \A f \in Frames : collector[f] \in {"none", "ended"}
    BY DEF AllJoined, Collectors, Collecting, CollectorOK
  <2>2. ASSUME NEW S PROVE \A f \in Frames : CancelledCollectors(S)[f] = collector[f]
    BY <2>1 DEF CancelledCollectors
  <2>3. \A f \in Frames : collector'[f] = collector[f]
    BY <1>6, <2>2
  <2> QED
    BY <2>1, <2>3 DEF Collectors, Collecting
<1> QED
  BY <1>1, <1>3, <1>7, <1>8 DEF AllJoined

\* Every step keeps what was joined before the socket is closed.
LEMMA ClosingStep ==
  ASSUME TypeOK, TeardownOrder, ClosingJoined, [Next]_vars
  PROVE  ClosingJoined'
<1>1. TeardownOrder'
  BY OrderStep
<1>2. main' \in Closing => writer' = "ended"
  BY <1>1 DEF TeardownOrder, Closing
<1>3. main' \in Closing => AllJoined
  <2>1. CASE MainNext
    BY <2>1 DEF MainNext, Teardown, Joined, FlushEnds, Interrupt, InterruptAgain, CloseSocket,
       SocketClosed, CloseInterrupted, Closing, ClosingJoined
  <2>2. CASE ~MainNext
    BY <2>2, MainStays DEF ClosingJoined
  <2> QED
    BY <2>1, <2>2
<1> QED
  BY <1>2, <1>3, JoinedStays DEF ClosingJoined

\* Nothing outlives the serving task, whatever the number of calls and frames
\* and wherever cancellations hit the teardown.
THEOREM NothingEverOutlives == Spec => []NothingOutlives
<1>1. Init => TeardownOrder /\ ClosingJoined
  BY DEF Init, TeardownOrder, ClosingJoined, Closing, Live
<1>2. TypeOK /\ TeardownOrder /\ ClosingJoined /\ [Next]_vars =>
        TeardownOrder' /\ ClosingJoined'
  BY OrderStep, ClosingStep
<1>3. TypeOK /\ TeardownOrder /\ ClosingJoined /\ ReservationsHeld
        /\ InFlightConsistent => NothingOutlives
  BY DEF TypeOK, CallsOK, TeardownOrder, ClosingJoined, Closing, AllJoined, ReservationsHeld,
     InFlightConsistent, NothingOutlives
<1> QED
  BY <1>1, <1>2, <1>3, TypeCorrect, ReservationsAreHeld, InFlightAlwaysConsistent, PTL
     DEF Spec

-----------------------------------------------------------------------------
(* What a step does to the cause of a close. *)

\* A close is under way: it has a cause, or the serving task is cancelled.
Ending == close_code # "none" \/ cancelled

\* What the cause of a close relates to: the two places that hold it agree, and
\* the serving task, the writer and graceful() only stop for a cause.
CauseOrder ==
  /\ close_event => close_code # "none" /\ close_value = close_code
  /\ close_code # "none" => close_event \/ drain_stops > 0 \/ cancelled
  /\ main # "serving" => close_event \/ cancelled
  /\ writer = "ended" => close_event \/ cancelled
  /\ grace \in {"events", "collectors", "reader", "flush"} => drain_stops = 0

\* session.stop() gives the connection a cause, without a close.
StopCause ==
  /\ UNCHANGED <<close_event, close_value>>
  /\ close_code' # "none" /\ (close_code # "none" => close_code' = close_code)
  /\ drain_stops' > 0 /\ grace' = "ended"

\* The serving task that unwinds gives the connection a cause.
UnwindCause ==
  /\ cancelled' /\ UNCHANGED close_event
  /\ close_code' # "none" /\ (close_code # "none" => close_code' = close_code)
  /\ close_value' = close_code'

\* request_close by the peer, a task or the application, or by graceful().
RequestedCause ==
  \E code \in Codes :
    /\ RequestClose(code)
    /\ code = "service_restart" => client_closed' \/ GraceClose

\* The reader keeps the cause or requests a close.
LEMMA ReaderCause ==
  ASSUME TypeOK, Decode \/ ReceiveNext
  PROVE  /\ UNCHANGED <<writerV, drainV, mainV>> /\ (client_closed => client_closed')
         /\ UNCHANGED causeV \/ RequestedCause
<1>1. UNCHANGED <<writerV, drainV, mainV>>
  BY DEF Decode, ReadCancel, ReadPing, ReadOverflow, ReadDuplicate, ReadCall,
     FrameIgnored, FrameOverflow, FrameCollected, ReceiveNext, Receive,
     ReceiveUnreadable, ReceiveDisconnect, ReceiveFailure, StopReader, ReaderTurn
<1>2. CASE ReceiveDisconnect
  BY <1>1, <1>2 DEF ReceiveDisconnect, StopReader, RequestedCause
<1>3. CASE ~ReceiveDisconnect
  <2>1. /\ UNCHANGED client_closed
        /\ \/ UNCHANGED causeV
           \/ \E code \in {"message_too_big", "protocol_error", "internal_error",
                           "policy_violation"} : RequestClose(code)
    BY <1>3, Zenon DEF Decode, ReadCancel, ReadPing, ReadOverflow, ReadDuplicate, ReadCall,
       FrameIgnored, FrameOverflow, FrameCollected, ReceiveNext, Receive,
       ReceiveUnreadable, ReceiveFailure, StopReader, closeV
  <2>2. \A code \in {"message_too_big", "protocol_error", "internal_error",
                     "policy_violation"} : code \in Codes /\ code # "service_restart"
    BY DEF Codes
  <2> QED
    BY <1>1, <2>1, <2>2, Zenon DEF RequestedCause
<1> QED
  BY <1>2, <1>3

\* So do the tasks of calls, the collectors and the event source.
LEMMA TaskCause ==
  ASSUME TypeOK,
         \/ \E c \in Calls : CallNext(c)
         \/ \E f \in Frames : CollectorNext(f)
         \/ EventNext
  PROVE  /\ UNCHANGED <<drainV, mainV, client_closed, writer, writing, sent>>
         /\ UNCHANGED causeV \/ RequestedCause
<1>1. ASSUME NEW c \in Calls, CallNext(c)
      PROVE  UNCHANGED <<drainV, mainV, closeV, writerV>>
  BY <1>1 DEF CallNext, CallProgress, StartCall, NeverStart, AcquireSlot, RefuseCall,
     CompleteCall, ExpireCall, AnswerCancelled, UnwindCall, LeakCancellation,
     FailCall, CallDone, EndCall, CallStep, CallTurn
<1>2. ASSUME NEW f \in Frames, CollectorNext(f)
      PROVE  /\ UNCHANGED <<drainV, mainV, client_closed, writer, writing, sent>>
             /\ \/ UNCHANGED causeV
                \/ RequestClose("internal_error") \/ RequestClose("policy_violation")
  BY <1>2, Zenon DEF CollectorNext, CollectorAbort, CollectorUnwound, CollectorAnswer,
     CollectorPut, CollectorTimeout, CollectorTurn, Enqueue, writerV
<1>3. ASSUME EventNext
      PROVE  /\ UNCHANGED <<drainV, mainV, client_closed, writer, writing, sent>>
             /\ \/ UNCHANGED causeV
                \/ \E code \in {"normal", "protocol_error", "internal_error",
                                "policy_violation", "try_again_later"} : RequestClose(code)
  BY <1>3, Zenon DEF EventNext, EventEmit, EventPut, EventTimeout, EventsComplete,
     EventsFail, EventsUnwound, EventTurn, Enqueue, writerV
<1>4. \A code \in {"normal", "protocol_error", "internal_error", "policy_violation",
                   "try_again_later"} : code \in Codes /\ code # "service_restart"
  BY DEF Codes
<1>5. CASE \E c \in Calls : CallNext(c)
  BY <1>1, <1>5, Zenon DEF closeV, writerV
<1>6. CASE \E f \in Frames : CollectorNext(f)
  BY <1>2, <1>4, <1>6, Zenon DEF RequestedCause
<1>7. CASE EventNext
  BY <1>3, <1>4, <1>7, Zenon DEF RequestedCause
<1> QED
  BY <1>5, <1>6, <1>7

\* The writer stops only for a cause.
LEMMA WriterCause ==
  ASSUME TypeOK, WriterNext
  PROVE  /\ UNCHANGED <<drainV, mainV>> /\ (client_closed => client_closed')
         /\ UNCHANGED causeV \/ RequestedCause
         /\ writer' = "ended" => close_event'
<1>1. CASE WriterTake \/ WriterSent
  BY <1>1 DEF WriterTake, WriterSent, WriterTurn, closeV
<1>2. ASSUME NEW code, WriterStops(code)
      PROVE  close_event' /\ UNCHANGED <<drainV, mainV>>
  BY <1>2 DEF WriterStops, WriterTurn, RequestClose
<1>3. CASE WriterDisconnect
  BY <1>2, <1>3 DEF WriterDisconnect, WriterStops, RequestedCause
<1>4. CASE WriterTimeout \/ WriterFailure
  <2>1. /\ UNCHANGED client_closed
        /\ WriterStops("policy_violation") \/ WriterStops("internal_error")
    BY <1>4 DEF WriterTimeout, WriterFailure
  <2>2. RequestClose("policy_violation") \/ RequestClose("internal_error")
    BY <2>1 DEF WriterStops
  <2> QED
    BY <1>2, <2>1, <2>2, Zenon DEF RequestedCause, Codes
<1> QED
  BY <1>1, <1>3, <1>4 DEF WriterNext

\* graceful() runs until the drain stops the connection.
LEMMA GraceCause ==
  ASSUME TypeOK, GraceNext, CauseOrder
  PROVE  /\ UNCHANGED <<writerV, mainV, client_closed, drain_stops>>
         /\ UNCHANGED causeV \/ RequestedCause
         /\ drain_stops = 0
<1>1. UNCHANGED <<writerV, mainV, client_closed, drain_stops>>
  BY DEF GraceNext, GraceBegin, GraceCollectors, GraceReader, GraceFlush, GraceClose,
     GraceTurn
<1>2. UNCHANGED causeV \/ RequestedCause
  BY DEF GraceNext, GraceBegin, GraceCollectors, GraceReader, GraceFlush, GraceClose,
     RequestedCause, Codes
<1>3. drain_stops = 0
  BY DEF GraceNext, GraceBegin, GraceCollectors, GraceReader, GraceFlush, GraceClose,
     CauseOrder
<1> QED
  BY <1>1, <1>2, <1>3

\* The serving task leaves its wait for a cause, and stops the writer after it.
LEMMA MainCause ==
  ASSUME TypeOK, MainNext, CauseOrder
  PROVE  /\ UNCHANGED <<drainV, client_closed>> /\ (cancelled => cancelled')
         /\ UNCHANGED causeV \/ UnwindCause
         /\ close_event' \/ cancelled'
         /\ UNCHANGED writerV \/ CancelWriter
<1>1. CASE CloseSocket
  <2>1. /\ UNCHANGED <<drainV, client_closed, close_event, writerV>>
        /\ cancelled' = (cancelled \/ cancel_pending)
        /\ main = "final"
    BY <1>1 DEF CloseSocket, MainTurn
  <2>2. cancelled' \in BOOLEAN
    BY <2>1 DEF TypeOK, MainOK
  <2>3. CASE cancelled'
    <3>1. close_code' = IF close_code = "none" THEN "shutdown" ELSE close_code
      BY <1>1, <2>3 DEF CloseSocket
    <3>2. close_value' = close_code'
      BY <1>1, <2>3 DEF CloseSocket
    <3> QED
      BY <2>1, <2>3, <3>1, <3>2 DEF UnwindCause
  <2>4. CASE ~cancelled'
    BY <1>1, <2>1, <2>4 DEF CloseSocket, CauseOrder, causeV
  <2> QED
    BY <2>2, <2>3, <2>4
<1>2. CASE ~CloseSocket
  <2>1. /\ UNCHANGED <<drainV, client_closed, causeV>> /\ (cancelled => cancelled')
        /\ UNCHANGED writerV \/ CancelWriter
    BY <1>2 DEF MainNext, Teardown, Joined, FlushEnds, Interrupt, InterruptAgain,
       SocketClosed, CloseInterrupted, MainTurn, causeV
  <2>2. main = "serving" => close_event' \/ cancelled'
    BY <1>2, <2>1 DEF MainNext, Teardown, Joined, FlushEnds, Interrupt, InterruptAgain,
       SocketClosed, CloseInterrupted, causeV
  <2>3. main # "serving" => close_event' \/ cancelled'
    BY <2>1 DEF CauseOrder, causeV
  <2> QED
    BY <2>1, <2>2, <2>3
<1> QED
  BY <1>1, <1>2

\* Credentials, application, server and drain.
LEMMA OtherCause ==
  ASSUME TypeOK,
         \/ Expire \/ ApplicationClose \/ DrainStart \/ DrainStop \/ DrainDeadline
         \/ ServerCancel \/ UNCHANGED vars
  PROVE  /\ UNCHANGED <<writerV, client_closed, main, cancelled>>
         /\ UNCHANGED causeV \/ RequestedCause \/ StopCause
         /\ drain_stops > 0 => drain_stops' > 0
<1>1. UNCHANGED <<writerV, client_closed, main, cancelled>>
  BY DEF Expire, ApplicationClose, DrainStart, DrainStop, DrainDeadline, ServerCancel,
     vars, mainV, closeV
<1>2. CASE Expire \/ ApplicationClose
  BY <1>1, <1>2, Zenon DEF Expire, ApplicationClose, RequestedCause, Codes, drainV
<1>3. CASE DrainStop
  <2>1. StopCause
    BY <1>3 DEF DrainStop, StopCause
  <2> QED
    BY <1>1, <2>1 DEF StopCause
<1>4. CASE DrainDeadline
  BY <1>1, <1>4 DEF DrainDeadline, closeV
<1>5. CASE DrainStart \/ ServerCancel \/ UNCHANGED vars
  BY <1>1, <1>5 DEF DrainStart, ServerCancel, vars, closeV, drainV
<1> QED
  BY <1>2, <1>3, <1>4, <1>5

\* What any step does to the cause: it stays, it is requested, or the end of the
\* grace period or of the serving task supplies it; and a close under way goes on.
LEMMA CauseMoves ==
  ASSUME TypeOK, CauseOrder, [Next]_vars
  PROVE  /\ UNCHANGED causeV \/ RequestedCause \/ StopCause \/ UnwindCause
         /\ cancelled => cancelled'
         /\ client_closed => client_closed'
         /\ drain_stops > 0 => drain_stops' > 0
         /\ main' # "serving" => main # "serving" \/ close_event' \/ cancelled'
         /\ writer' = "ended" => writer = "ended" \/ close_event' \/ cancelled'
         /\ \/ drain_stops' = 0 \/ grace' = "ended"
            \/ drain_stops > 0 /\ grace' = grace
<1> USE DEF TypeOK
<1>1. drain_stops \in {0, 1, 2} /\ drain_stops' \in {0, 1, 2}
  BY StepType DEF DrainOK
<1>2. CASE Decode \/ ReceiveNext
  BY <1>1, <1>2, ReaderCause DEF drainV, mainV, writerV
<1>3. CASE \/ \E c \in Calls : CallNext(c)
           \/ \E f \in Frames : CollectorNext(f)
           \/ EventNext
  BY <1>1, <1>3, TaskCause DEF drainV, mainV
<1>4. CASE WriterNext
  BY <1>1, <1>4, WriterCause DEF drainV, mainV
<1>5. CASE GraceNext
  BY <1>1, <1>5, GraceCause DEF writerV, mainV
<1>6. CASE MainNext
  BY <1>1, <1>6, MainCause DEF drainV
<1>7. CASE \/ Expire \/ ApplicationClose \/ DrainStart \/ DrainStop \/ DrainDeadline
           \/ ServerCancel \/ UNCHANGED vars
  <2>1. \/ drain_stops' = 0 \/ grace' = "ended"
        \/ drain_stops > 0 /\ grace' = grace
    <3>1. CASE DrainStop
      BY <3>1 DEF DrainStop
    <3>2. CASE DrainDeadline
      BY <3>2 DEF DrainDeadline
    <3>3. CASE Expire \/ ApplicationClose \/ DrainStart \/ ServerCancel \/ UNCHANGED vars
      <4>1. UNCHANGED <<grace, drain_stops>>
        BY <3>3 DEF Expire, ApplicationClose, DrainStart, ServerCancel, vars, drainV
      <4> QED
        BY <1>1, <4>1
    <3> QED
      BY <1>7, <3>1, <3>2, <3>3
  <2> QED
    BY <1>1, <1>7, <2>1, OtherCause DEF writerV
<1> QED
  BY <1>2, <1>3, <1>4, <1>5, <1>6, <1>7 DEF Next, TaskNext, Environment, Over

\* Every step keeps the two places of the cause, and the order of the stops.
LEMMA CauseOrderStep ==
  ASSUME TypeOK, CauseOrder, [Next]_vars
  PROVE  CauseOrder' /\ (Ending => Ending')
<1>1. \A code \in Codes : code # "none"
  BY DEF Codes
<1>2. CASE UNCHANGED causeV
  BY <1>2, CauseMoves DEF CauseOrder, Ending, causeV
<1>3. CASE RequestedCause
  BY <1>1, <1>3, CauseMoves DEF CauseOrder, Ending, RequestedCause, RequestClose
<1>4. CASE StopCause
  BY <1>4, CauseMoves DEF CauseOrder, Ending, StopCause
<1>5. CASE UnwindCause
  BY <1>5, CauseMoves DEF CauseOrder, Ending, UnwindCause
<1> QED
  BY <1>2, <1>3, <1>4, <1>5, CauseMoves

\* Only the serving task speaks to the peer.
LEMMA OthersAnnounceNothing ==
  ASSUME [Next]_vars, ~CloseSocket, ~CloseInterrupted
  PROVE  announced' = announced
<1>1. CASE Decode \/ ReceiveNext
  BY <1>1 DEF Decode, ReadCancel, ReadPing, ReadOverflow, ReadDuplicate, ReadCall,
     FrameIgnored, FrameOverflow, FrameCollected, ReceiveNext, Receive,
     ReceiveUnreadable, ReceiveDisconnect, ReceiveFailure, StopReader, ReaderTurn, mainV
<1>2. CASE \E c \in Calls : CallNext(c)
  BY <1>2 DEF CallNext, CallProgress, StartCall, NeverStart, AcquireSlot, RefuseCall,
     CompleteCall, ExpireCall, AnswerCancelled, UnwindCall, LeakCancellation,
     FailCall, CallDone, EndCall, CallStep, CallTurn, mainV
<1>3. CASE \E f \in Frames : CollectorNext(f)
  BY <1>3 DEF CollectorNext, CollectorAbort, CollectorUnwound, CollectorAnswer,
     CollectorPut, CollectorTimeout, CollectorTurn, mainV
<1>4. CASE EventNext \/ WriterNext \/ GraceNext
  BY <1>4 DEF EventNext, EventEmit, EventPut, EventTimeout, EventsComplete, EventsFail,
     EventsUnwound, EventTurn, WriterNext, WriterTake, WriterSent, WriterDisconnect,
     WriterTimeout, WriterFailure, WriterStops, WriterTurn, GraceNext, GraceBegin,
     GraceCollectors, GraceReader, GraceFlush, GraceClose, GraceTurn, mainV
<1>5. CASE MainNext
  BY <1>5 DEF MainNext, Teardown, Joined, FlushEnds, Interrupt, InterruptAgain, SocketClosed
<1>6. CASE UNCHANGED vars \/ Expire \/ ApplicationClose \/ DrainStart \/ DrainStop
           \/ DrainDeadline \/ ServerCancel
  BY <1>6 DEF Expire, ApplicationClose, DrainStart, DrainStop, DrainDeadline,
     ServerCancel, vars, mainV
<1> QED
  BY <1>1, <1>2, <1>3, <1>4, <1>5, <1>6 DEF Next, TaskNext, Environment, Over

\* What is told to the peer of a requested close is its cause.
LEMMA AnnouncementStep ==
  ASSUME TypeOK, CauseOrder, [Next]_vars, announced' # announced, close_event
  PROVE  announced'[Len(announced')] = close_code'
<1> USE DEF TypeOK
<1>1. announced \in Seq(Codes) /\ close_value \in Codes /\ close_code \in Codes
  BY DEF MainOK, CloseOK, CauseOrder
<1>2. ASSUME NEW v \in Codes, announced' = Append(announced, v)
      PROVE  announced'[Len(announced')] = v
  BY <1>1, <1>2
<1>3. CASE CloseSocket
  <2>1. close_value' = close_code'
    BY <1>3 DEF CloseSocket, CauseOrder
  <2>2. announced' = Append(announced, close_value')
    BY <1>3 DEF CloseSocket
  <2>3. close_value' \in Codes
    BY StepType DEF CloseOK
  <2> QED
    BY <1>2, <2>1, <2>2, <2>3
<1>4. CASE CloseInterrupted
  <2>1. close_code' = close_code
    BY <1>4 DEF CloseInterrupted
  <2>2. announced' = Append(announced, close_value) \/ announced' = Append(announced, close_code)
    BY <1>4 DEF CloseInterrupted, CauseOrder
  <2> QED
    BY <1>1, <1>2, <2>1, <2>2 DEF CauseOrder
<1> QED
  BY <1>3, <1>4, OthersAnnounceNothing

\* The cause of a close is kept in order, in every run.
THEOREM CauseInOrder == Spec => []CauseOrder
<1>1. Init => CauseOrder
  BY DEF Init, CauseOrder
<1> QED
  BY <1>1, CauseOrderStep, TypeCorrect, PTL DEF Spec

\* The peer is told the cause of a requested close, on the ordinary path and when
\* cancellations unwind the serving task, as often as the socket is closed.
THEOREM CauseIsAnnounced == Spec => CauseAnnounced
<1>1. TypeOK /\ CauseOrder /\ [Next]_vars =>
        [announced' # announced /\ close_event =>
           announced'[Len(announced')] = close_code']_vars
  BY AnnouncementStep
<1> QED
  BY <1>1, CauseInOrder, TypeCorrect, PTL DEF Spec, CauseAnnounced

-----------------------------------------------------------------------------
(* Each answer is sent once. *)

\* A collector goes on, or puts its answer into the queue and ends.
CollectorPuts(f) ==
  /\ collector[f] \in {"gathering", "forwarded", "blocked"}
  /\ collector' = [collector EXCEPT ![f] = "ended"]
  /\ Enqueue(f)

CollectorGoesOn(f) ==
  /\ collector[f] \in {"gathering", "forwarded", "blocked", "cancelling", "failing"}
  /\ \E v \in {"blocked", "cancelling", "failing", "ended"} :
       collector' = [collector EXCEPT ![f] = v]
  /\ UNCHANGED writerV

\* The serving task or session.stop() cuts collectors and writer short.
CutShort ==
  /\ Ending'
  /\ UNCHANGED collector \/ \E S : collector' = CancelledCollectors(S)
  /\ UNCHANGED <<outgoing, sent>>
  /\ UNCHANGED <<writer, writing>> \/ (writer' = "ended" /\ writing' = 0)

\* The writer takes a message, has sent it, or stops for a cause.
WriterMoves ==
  /\ UNCHANGED collector
  /\ \/ WriterTake \/ WriterSent
     \/ /\ writer = "sending" /\ writer' = "ended" /\ writing' = 0
        /\ UNCHANGED <<outgoing, sent>> /\ Ending'

\* What a step does to the collectors and to what they have to say.
LEMMA TrafficMoves ==
  ASSUME TypeOK, CauseOrder, [Next]_vars
  PROVE  \/ UNCHANGED <<collector, writerV>>
         \/ FrameCollected /\ UNCHANGED writerV
         \/ \E f \in Frames :
              CollectorNext(f) /\ (CollectorPuts(f) \/ CollectorGoesOn(f))
         \/ Enqueue(0) /\ UNCHANGED collector
         \/ WriterMoves
         \/ CutShort
<1>1. CauseOrder' /\ TypeOK'
  BY CauseOrderStep, StepType
<1>2. CASE Decode \/ ReceiveNext
  <2>1. UNCHANGED writerV
    BY <1>2, ReaderCause
  <2>2. FrameCollected \/ UNCHANGED collector
    BY <1>2 DEF Decode, ReadCancel, ReadPing, ReadOverflow, ReadDuplicate, ReadCall,
       FrameIgnored, FrameOverflow, ReceiveNext, Receive,
       ReceiveUnreadable, ReceiveDisconnect, ReceiveFailure, StopReader
  <2> QED
    BY <2>1, <2>2
<1>3. ASSUME NEW c \in Calls, CallNext(c) PROVE UNCHANGED <<collector, writerV>>
  BY <1>3 DEF CallNext, CallProgress, StartCall, NeverStart, AcquireSlot, RefuseCall,
     CompleteCall, ExpireCall, AnswerCancelled, UnwindCall, LeakCancellation,
     FailCall, CallDone, EndCall, CallStep, CallTurn
<1>4. ASSUME NEW f \in Frames, CollectorNext(f)
      PROVE  CollectorPuts(f) \/ CollectorGoesOn(f)
  BY <1>4 DEF CollectorNext, CollectorAbort, CollectorUnwound, CollectorAnswer,
     CollectorPut, CollectorTimeout, CollectorPuts, CollectorGoesOn
<1>5. CASE EventNext
  BY <1>5 DEF EventNext, EventEmit, EventPut, EventTimeout, EventsComplete,
     EventsFail, EventsUnwound, EventTurn
<1>6. CASE WriterNext
  <2>1. UNCHANGED collector
    BY <1>6 DEF WriterNext, WriterTake, WriterSent, WriterDisconnect, WriterTimeout,
       WriterFailure, WriterStops, WriterTurn
  <2>2. CASE WriterTake \/ WriterSent
    BY <2>1, <2>2 DEF WriterMoves
  <2>3. CASE ~(WriterTake \/ WriterSent)
    <3>1. \E code : WriterStops(code)
      BY <1>6, <2>3 DEF WriterNext, WriterDisconnect, WriterTimeout, WriterFailure
    <3>2. /\ writer = "sending" /\ writer' = "ended" /\ writing' = 0
          /\ UNCHANGED <<outgoing, sent>>
      BY <3>1 DEF WriterStops
    <3>3. Ending'
      BY <1>1, <1>6, <3>2, WriterCause DEF CauseOrder, Ending
    <3> QED
      BY <2>1, <3>2, <3>3 DEF WriterMoves
  <2> QED
    BY <2>2, <2>3
<1>7. CASE GraceNext
  BY <1>7 DEF GraceNext, GraceBegin, GraceCollectors, GraceReader, GraceFlush,
     GraceClose, GraceTurn
<1>8. CASE MainNext
  <2>1. Ending' /\ (UNCHANGED writerV \/ CancelWriter)
    BY <1>1, <1>8, MainCause DEF CauseOrder, Ending
  <2>2. UNCHANGED collector \/ collector' = CancelledCollectors(Frames)
    BY <1>8 DEF MainNext, Teardown, Joined, FlushEnds, Interrupt, InterruptAgain, CloseSocket,
       SocketClosed, CloseInterrupted, CancelTasks
  <2> QED
    BY <2>1, <2>2 DEF CutShort, CancelWriter, writerV
<1>9. CASE DrainStop
  <2>1. UNCHANGED writerV /\ \E S : collector' = CancelledCollectors(S)
    BY <1>9 DEF DrainStop
  <2>2. close_code' # "none"
    BY <1>9 DEF DrainStop
  <2> QED
    BY <2>1, <2>2 DEF CutShort, Ending, writerV
<1>10. CASE Expire \/ ApplicationClose \/ DrainStart \/ DrainDeadline \/ ServerCancel
            \/ UNCHANGED vars
  BY <1>10 DEF Expire, ApplicationClose, DrainStart, DrainDeadline, ServerCancel, vars
<1> QED
  BY <1>2, <1>3, <1>4, <1>5, <1>6, <1>7, <1>8, <1>9, <1>10
     DEF Next, TaskNext, Environment, Over

\* What becomes of a collector that is cancelled.
LEMMA CancelledStay ==
  ASSUME CollectorOK, NEW S, NEW f \in Frames
  PROVE  /\ collector[f] = "ended" => CancelledCollectors(S)[f] = "ended"
         /\ CancelledCollectors(S)[f] = "none" <=> collector[f] = "none"
         /\ CancelledCollectors(S)[f] \in {"gathering", "failing"} =>
              CancelledCollectors(S)[f] = collector[f]
BY DEF CollectorOK, CancelledCollectors

\* A frame has no collector before it is decoded.
FramesInOrder ==
  /\ \A f \in Frames : f > nframes => collector[f] = "none"
  /\ reader = "decoding" => collector[nframes] = "none"

\* A collector that has ended stays so, and one starts only for the frame that
\* has been decoded.
LEMMA CollectorsMove ==
  ASSUME TypeOK, CauseOrder, FramesInOrder, [Next]_vars, NEW f \in Frames
  PROVE  /\ collector[f] = "ended" => collector'[f] = "ended"
         /\ collector[f] # "none" => collector'[f] # "none"
         /\ collector'[f] # "none" =>
              collector[f] # "none" \/ (FrameCollected /\ f = nframes)
<1> USE DEF TypeOK
<1>1. CASE UNCHANGED collector
  BY <1>1
<1>2. CASE FrameCollected
  <2>1. reader = "decoding" /\ collector' = [collector EXCEPT ![nframes] = "gathering"]
    BY <1>2 DEF FrameCollected, FrameDecoded
  <2>2. nframes \in Frames /\ collector[nframes] = "none"
    BY <2>1 DEF ReaderOK, Frames, FramesInOrder
  <2> QED
    BY <1>2, <2>1, <2>2 DEF CollectorOK
<1>3. ASSUME NEW g \in Frames, CollectorPuts(g) \/ CollectorGoesOn(g)
      PROVE  /\ collector[f] = "ended" => collector'[f] = "ended"
             /\ collector[f] # "none" <=> collector'[f] # "none"
  BY <1>3 DEF CollectorPuts, CollectorGoesOn, CollectorOK
<1>4. ASSUME NEW S, collector' = CancelledCollectors(S)
      PROVE  /\ collector[f] = "ended" => collector'[f] = "ended"
             /\ collector[f] # "none" <=> collector'[f] # "none"
  BY <1>4, CancelledStay
<1> QED
  BY <1>1, <1>2, <1>3, <1>4, TrafficMoves DEF WriterMoves, CutShort

\* Frames are numbered as they arrive, and are collected once they are decoded.
LEMMA FramesInOrderStep ==
  ASSUME TypeOK, CauseOrder, FramesInOrder, [Next]_vars
  PROVE  FramesInOrder'
<1> USE DEF TypeOK
<1>1. nframes \in 0..MaxFrames /\ nframes' \in 0..MaxFrames
  BY StepType DEF ReaderOK
<1>2. nframes' = nframes \/ nframes' = nframes + 1
  BY ItemsLeft
<1>3. FrameCollected => reader = "decoding" /\ reader' = "receiving" /\ nframes' = nframes
  BY DEF FrameCollected, FrameDecoded
<1>4. ASSUME NEW f \in Frames, f > nframes' PROVE collector'[f] = "none"
  <2>1. f > nframes /\ f # nframes
    BY <1>1, <1>2, <1>4 DEF Frames
  <2> QED
    BY <2>1, CollectorsMove DEF FramesInOrder
<1>5. ASSUME reader' = "decoding" PROVE collector'[nframes'] = "none"
  <2>1. ~FrameCollected
    BY <1>3, <1>5
  <2>2. reader' = "decoding" => nframes' \in Frames
    BY StepType DEF ReaderOK, Frames
  <2>3. CASE nframes' = nframes
    <3>1. reader = "decoding"
      BY <1>1, <1>5, <2>3, ItemsLeft
    <3>2. collector[nframes] = "none"
      BY <3>1 DEF FramesInOrder
    <3> QED
      BY <1>5, <2>1, <2>2, <2>3, <3>2, CollectorsMove
  <2>4. CASE nframes' = nframes + 1
    <3>1. nframes' > nframes
      BY <1>1, <2>4
    <3> QED
      BY <1>5, <2>1, <2>2, <3>1, CollectorsMove DEF FramesInOrder
  <2> QED
    BY <1>2, <2>3, <2>4
<1> QED
  BY <1>4, <1>5 DEF FramesInOrder

\* Where the answer of a frame is: in the queue once, or with the writer, or sent,
\* and only after its collector has ended.
Wire ==
  /\ writer # "sending" => writing = 0
  /\ \A k, l \in 1..Len(outgoing) : outgoing[k] = outgoing[l] /\ outgoing[k] # 0 => k = l
  /\ \A k \in 1..Len(outgoing) :
       outgoing[k] # 0 =>
         /\ collector[outgoing[k]] = "ended"
         /\ outgoing[k] # writing /\ outgoing[k] \notin sent
  /\ writing # 0 => collector[writing] = "ended" /\ writing \notin sent
  /\ \A f \in sent : collector[f] = "ended"

\* Steps that leave queue and writer alone, or stop the writer, keep the answers.
LEMMA WireStays ==
  ASSUME TypeOK, Wire,
         UNCHANGED <<outgoing, sent>>,
         UNCHANGED <<writer, writing>> \/ (writer' = "ended" /\ writing' = 0),
         \A f \in Frames : collector[f] = "ended" => collector'[f] = "ended"
  PROVE  Wire'
<1>1. \A k \in 1..Len(outgoing) : outgoing[k] # 0 => outgoing[k] \in Frames
  BY DEF TypeOK, WriterOK, Frames
<1>2. (writing # 0 => writing \in Frames) /\ sent \subseteq Frames
  BY DEF TypeOK, WriterOK, Frames
<1>3. \A k \in 1..Len(outgoing) :
        outgoing[k] # 0 =>
          /\ collector'[outgoing[k]] = "ended"
          /\ outgoing[k] # writing' /\ outgoing[k] \notin sent
  BY <1>1 DEF Wire
<1>4. writing' # 0 => collector'[writing'] = "ended" /\ writing' \notin sent
  BY <1>2 DEF Wire
<1> QED
  BY <1>2, <1>3, <1>4 DEF Wire

\* A message that is put behind those in the queue.
LEMMA WirePut ==
  ASSUME TypeOK, Wire, NEW f \in 0..MaxFrames, Enqueue(f),
         f # 0 => collector'[f] = "ended" /\ collector[f] # "ended",
         \A g \in Frames : collector[g] = "ended" => collector'[g] = "ended"
  PROVE  Wire'
<1> DEFINE n == Len(outgoing)
<1>1. outgoing \in Seq(0..MaxFrames) /\ n \in Nat
  BY DEF TypeOK, WriterOK
<1>2. /\ outgoing' = Append(outgoing, f)
      /\ UNCHANGED <<writer, writing, sent>>
  BY DEF Enqueue
<1>3. /\ Len(outgoing') = n + 1 /\ outgoing'[n + 1] = f
      /\ \A k \in 1..n : outgoing'[k] = outgoing[k]
  BY <1>1, <1>2
<1>4. /\ \A k \in 1..n : outgoing[k] \in 0..MaxFrames
      /\ \A k \in 1..n : outgoing[k] # 0 => outgoing[k] \in Frames
      /\ (writing # 0 => writing \in Frames) /\ sent \subseteq Frames
  BY <1>1 DEF TypeOK, WriterOK, Frames
<1>5. f # 0 => /\ \A k \in 1..n : outgoing[k] # f
               /\ f # writing /\ f \notin sent
  BY DEF Wire
<1>6. \A k \in 1..n :
        outgoing[k] # 0 =>
          /\ collector'[outgoing[k]] = "ended"
          /\ outgoing[k] # writing /\ outgoing[k] \notin sent
  BY <1>4 DEF Wire
<1>7. \A k \in 1..(n + 1) : k \in 1..n \/ k = n + 1
  BY <1>1
<1>8. \A k, l \in 1..(n + 1) :
        outgoing'[k] = outgoing'[l] /\ outgoing'[k] # 0 => k = l
  BY <1>3, <1>5, <1>7 DEF Wire
<1>9. \A k \in 1..(n + 1) :
        outgoing'[k] # 0 =>
          /\ collector'[outgoing'[k]] = "ended"
          /\ outgoing'[k] # writing /\ outgoing'[k] \notin sent
  BY <1>3, <1>5, <1>6, <1>7
<1>10. /\ writing # 0 => collector'[writing] = "ended" /\ writing \notin sent
       /\ \A g \in sent : collector'[g] = "ended"
  BY <1>4 DEF Wire
<1> QED
  BY <1>2, <1>3, <1>8, <1>9, <1>10 DEF Wire

\* The writer takes the first message.
LEMMA WireTake ==
  ASSUME TypeOK, Wire, WriterTake, UNCHANGED collector
  PROVE  Wire'
<1> DEFINE n == Len(outgoing)
<1>1. /\ outgoing # <<>> /\ writing' = Head(outgoing) /\ outgoing' = Tail(outgoing)
      /\ writer' = "sending" /\ writer = "idle" /\ UNCHANGED sent
  BY DEF WriterTake
<1>2. outgoing \in Seq(0..MaxFrames)
  BY DEF TypeOK, WriterOK
<1>3. /\ n \in Nat \ {0} /\ Len(outgoing') = n - 1 /\ writing' = outgoing[1]
      /\ \A k \in 1..(n - 1) : outgoing'[k] = outgoing[k + 1] /\ k + 1 \in 1..n
      /\ 1 \in 1..n
  BY <1>1, <1>2
<1>4. writing = 0
  BY <1>1 DEF Wire
<1>5. \A k, l \in 1..(n - 1) :
        outgoing'[k] = outgoing'[l] /\ outgoing'[k] # 0 => k = l
  <2>1. SUFFICES ASSUME NEW k \in 1..(n - 1), NEW l \in 1..(n - 1),
                        outgoing'[k] = outgoing'[l], outgoing'[k] # 0
                 PROVE  k = l
    OBVIOUS
  <2>2. k + 1 = l + 1
    BY <1>3, <2>1 DEF Wire
  <2> QED
    BY <1>3, <2>2
<1>6. \A k \in 1..(n - 1) :
        outgoing'[k] # 0 =>
          /\ collector[outgoing'[k]] = "ended"
          /\ outgoing'[k] # writing' /\ outgoing'[k] \notin sent
  <2>1. SUFFICES ASSUME NEW k \in 1..(n - 1), outgoing'[k] # 0
                 PROVE  /\ collector[outgoing'[k]] = "ended"
                        /\ outgoing'[k] # writing' /\ outgoing'[k] \notin sent
    OBVIOUS
  <2>2. k + 1 # 1
    BY <1>3
  <2> QED
    BY <1>3, <2>1, <2>2 DEF Wire
<1>7. writing' # 0 => collector[writing'] = "ended" /\ writing' \notin sent
  BY <1>3 DEF Wire
<1> QED
  BY <1>1, <1>3, <1>5, <1>6, <1>7 DEF Wire

\* The socket has accepted the message.
LEMMA WireSent ==
  ASSUME TypeOK, Wire, WriterSent, UNCHANGED collector
  PROVE  Wire'
<1>1. /\ writer' = "idle" /\ writing' = 0 /\ UNCHANGED outgoing
      /\ sent' = sent \cup ({writing} \ {0})
  BY DEF WriterSent
<1>2. \A k \in 1..Len(outgoing) : outgoing[k] # 0 => outgoing[k] \notin sent'
  BY <1>1 DEF Wire
<1>3. \A f \in sent' : collector[f] = "ended"
  BY <1>1 DEF Wire
<1> QED
  BY <1>1, <1>2, <1>3 DEF Wire

\* Every step keeps each answer in one place.
LEMMA WireStep ==
  ASSUME TypeOK, CauseOrder, FramesInOrder, Wire, [Next]_vars
  PROVE  Wire'
<1>1. \A f \in Frames : collector[f] = "ended" => collector'[f] = "ended"
  BY CollectorsMove
<1>2. CASE UNCHANGED writerV
  BY <1>1, <1>2, WireStays DEF writerV
<1>3. ASSUME NEW f \in Frames, CollectorPuts(f) PROVE Wire'
  <2>1. collector'[f] = "ended" /\ collector[f] # "ended" /\ Enqueue(f)
    BY <1>3 DEF CollectorPuts, TypeOK, CollectorOK
  <2>2. f \in 0..MaxFrames
    BY DEF Frames
  <2> QED
    BY <1>1, <2>1, <2>2, WirePut
<1>4. CASE Enqueue(0)
  <2>1. 0 \in 0..MaxFrames
    OBVIOUS
  <2> QED
    BY <1>1, <1>4, <2>1, WirePut
<1>5. CASE WriterMoves
  BY <1>1, <1>5, WireTake, WireSent, WireStays DEF WriterMoves
<1>6. CASE CutShort
  BY <1>1, <1>6, WireStays DEF CutShort
<1> QED
  BY <1>2, <1>3, <1>4, <1>5, <1>6, TrafficMoves DEF CollectorGoesOn

\* An answer that is in one place is sent at most once.
LEMMA WireOnce ==
  ASSUME TypeOK, Wire
  PROVE  AnsweredOnce
<1> SUFFICES ASSUME NEW f \in Frames
             PROVE  LET queued == {k \in 1..Len(outgoing) : outgoing[k] = f}
                        writes == IF writing = f THEN 1 ELSE 0
                        done   == IF f \in sent THEN 1 ELSE 0
                        claim  == IF collector[f] # "ended" THEN 1 ELSE 0
                    IN Cardinality(queued) + writes + done + claim <= 1
    BY DEF AnsweredOnce
<1> DEFINE queued == {k \in 1..Len(outgoing) : outgoing[k] = f}
<1>1. f # 0
  BY DEF Frames
<1>2. CASE \E k \in 1..Len(outgoing) : outgoing[k] = f
  <2>1. PICK k \in 1..Len(outgoing) : outgoing[k] = f
    BY <1>2
  <2>2. queued = {k}
    BY <1>1, <2>1 DEF Wire
  <2>3. Cardinality(queued) = 1
    BY <2>2, FS_Singleton
  <2>4. collector[f] = "ended" /\ writing # f /\ f \notin sent
    BY <1>1, <2>1 DEF Wire
  <2> QED
    BY <2>3, <2>4
<1>3. CASE ~\E k \in 1..Len(outgoing) : outgoing[k] = f
  <2>1. queued = {}
    BY <1>3
  <2>2. Cardinality(queued) = 0
    BY <2>1, FS_EmptySet
  <2>3. /\ writing = f => collector[f] = "ended" /\ f \notin sent
        /\ f \in sent => collector[f] = "ended"
    BY <1>1 DEF Wire
  <2> QED
    BY <2>2, <2>3
<1> QED
  BY <1>2, <1>3

\* What the numbering of frames and the single place of an answer rest on.
THEOREM AnswersInPlace == Spec => [](FramesInOrder /\ Wire)
<1>1. Init => FramesInOrder /\ Wire
  BY DEF Init, FramesInOrder, Wire
<1>2. TypeOK /\ CauseOrder /\ FramesInOrder /\ Wire /\ [Next]_vars =>
        FramesInOrder' /\ Wire'
  BY FramesInOrderStep, WireStep
<1> QED
  BY <1>1, <1>2, CauseInOrder, TypeCorrect, PTL DEF Spec

\* No frame is answered twice, whatever happens to its collector, to the queue and
\* to the writer.
THEOREM NeverAnsweredTwice == Spec => []AnsweredOnce
<1>1. TypeOK /\ Wire => AnsweredOnce
  BY WireOnce
<1> QED
  BY <1>1, AnswersInPlace, TypeCorrect, PTL

-----------------------------------------------------------------------------
(* No answer is lost. *)

\* Calls are made by the reader and go on by themselves.
LEMMA OthersLeavePhases ==
  ASSUME [Next]_vars, ~ReadCall, \A c \in Calls : ~CallNext(c)
  PROVE  UNCHANGED <<phase, item>>
<1>1. CASE Decode \/ ReceiveNext
  BY <1>1 DEF Decode, ReadCancel, ReadPing, ReadOverflow, ReadDuplicate,
     FrameIgnored, FrameOverflow, FrameCollected, ReceiveNext, Receive,
     ReceiveUnreadable, ReceiveDisconnect, ReceiveFailure, StopReader, callV
<1>2. CASE \E f \in Frames : CollectorNext(f)
  BY <1>2 DEF CollectorNext, CollectorAbort, CollectorUnwound, CollectorAnswer,
     CollectorPut, CollectorTimeout, CollectorTurn
<1>3. CASE EventNext \/ WriterNext \/ GraceNext
  BY <1>3 DEF EventNext, EventEmit, EventPut, EventTimeout, EventsComplete,
     EventsFail, EventsUnwound, EventTurn, WriterNext, WriterTake, WriterSent,
     WriterDisconnect, WriterTimeout, WriterFailure, WriterStops, WriterTurn,
     GraceNext, GraceBegin, GraceCollectors, GraceReader, GraceFlush, GraceClose,
     GraceTurn, callV
<1>4. CASE MainNext
  BY <1>4 DEF MainNext, Teardown, Joined, FlushEnds, Interrupt, InterruptAgain, CloseSocket,
     SocketClosed, CloseInterrupted, CancelTasks, callV
<1>5. CASE Expire \/ ApplicationClose \/ DrainStart \/ DrainStop \/ DrainDeadline
           \/ ServerCancel \/ UNCHANGED vars
  BY <1>5 DEF Expire, ApplicationClose, DrainStart, DrainStop, DrainDeadline,
     ServerCancel, vars, callV
<1> QED
  BY <1>1, <1>2, <1>3, <1>4, <1>5 DEF Next, TaskNext, Environment, Over

\* How a call goes on: only while it is alive; silently only if it is a
\* notification; without having begun only if it was cancelled.
LEMMA CallMoves ==
  ASSUME TypeOK, NEW c \in Calls, CallNext(c)
  PROVE  /\ UNCHANGED <<item, interrupt, cancel_requested, controls, reader, nframes>>
         /\ \A d \in Calls : d # c => phase'[d] = phase[d]
         /\ \/ phase'[c] = phase[c]
            \/ /\ phase[c] \in Live /\ phase'[c] \in Live \cup Ended
               /\ phase'[c] = "silent" => item[c].op = "notify"
               /\ phase'[c] = "never" => interrupt[c] # "none"
<1>1. /\ UNCHANGED <<item, interrupt, cancel_requested, controls, reader, nframes>>
  BY DEF CallNext, CallProgress, StartCall, NeverStart, AcquireSlot, RefuseCall,
     CompleteCall, ExpireCall, AnswerCancelled, UnwindCall, LeakCancellation,
     FailCall, CallDone, EndCall, CallStep, CallTurn, readerV
<1>2. CASE CallDone(c)
  BY <1>1, <1>2 DEF CallDone
<1>3. ASSUME NEW from \in SUBSET Live, NEW to \in Live \cup Ended, CallStep(c, from, to)
      PROVE  /\ \A d \in Calls : d # c => phase'[d] = phase[d]
             /\ phase[c] \in Live /\ phase'[c] = to
  BY <1>3 DEF CallStep, TypeOK, CallsOK
<1>4. Answer(c) \in {"silent", "replied"} /\ (Answer(c) = "silent" => item[c].op = "notify")
  BY DEF Answer
<1>5. CASE ~CallDone(c)
  <2>1. \E from \in SUBSET Live, to \in Live \cup Ended :
          /\ CallStep(c, from, to)
          /\ to = "silent" => item[c].op = "notify"
          /\ to = "never" => interrupt[c] # "none"
    <3>1. CASE StartCall(c)
      BY <3>1 DEF StartCall, Live, Ended
    <3>2. CASE NeverStart(c)
      BY <3>2 DEF NeverStart, Live, Ended
    <3>3. CASE AcquireSlot(c)
      BY <3>3 DEF AcquireSlot, Live, Ended
    <3>4. CASE RefuseCall(c)
      BY <1>4, <3>4 DEF RefuseCall, EndCall, Live, Ended
    <3>5. CASE CompleteCall(c) \/ ExpireCall(c)
      BY <1>4, <3>5 DEF CompleteCall, ExpireCall, EndCall, Live, Ended
    <3>6. CASE AnswerCancelled(c)
      BY <1>4, <3>6 DEF AnswerCancelled, EndCall, Live, Ended
    <3>7. CASE UnwindCall(c) \/ LeakCancellation(c) \/ FailCall(c)
      BY <3>7 DEF UnwindCall, LeakCancellation, FailCall, EndCall, Live, Ended
    <3> QED
      BY <1>5, <3>1, <3>2, <3>3, <3>4, <3>5, <3>6, <3>7 DEF CallNext, CallProgress
  <2> QED
    BY <1>1, <1>3, <2>1
<1> QED
  BY <1>2, <1>5

\* Once the collector of a frame has begun, what the frame consists of stays, and
\* what has become of its calls too.
LEMMA FrameSettled ==
  ASSUME TypeOK, FramesInOrder, [Next]_vars, NEW c \in Calls, collector[c[1]] # "none"
  PROVE  /\ item'[c] = item[c]
         /\ phase'[c] = "none" <=> phase[c] = "none"
         /\ phase[c] \in Ended => phase'[c] = phase[c]
<1> USE DEF TypeOK
<1>1. CASE ReadCall
  <2>1. reader = "decoding" /\ rest # <<>>
    BY <1>1 DEF ReadCall, NextItem
  <2>2. c # <<nframes, Len(rest)>>
    BY <2>1 DEF FramesInOrder
  <2>3. <<nframes, Len(rest)>> \in Calls
    BY <2>1, NextCallType
  <2> QED
    BY <1>1, <2>2, <2>3 DEF ReadCall, CallsOK
<1>2. ASSUME NEW d \in Calls, CallNext(d)
      PROVE  /\ item'[c] = item[c]
             /\ phase'[c] = "none" <=> phase[c] = "none"
             /\ phase[c] \in Ended => phase'[c] = phase[c]
  BY <1>2, CallMoves DEF Live, Ended
<1>3. CASE ~ReadCall /\ \A d \in Calls : ~CallNext(d)
  BY <1>3, OthersLeavePhases
<1> QED
  BY <1>1, <1>2, <1>3

\* Likewise for what a frame owes besides its calls.
LEMMA ControlsSettled ==
  ASSUME TypeOK, FramesInOrder, [Next]_vars, NEW f \in Frames, collector[f] # "none"
  PROVE  f \in controls' <=> f \in controls
<1> USE DEF TypeOK
<1>1. nframes \in Nat
  BY DEF ReaderOK
<1>2. ASSUME NEW m, Receive(m) PROVE f \in controls' <=> f \in controls
  <2>1. nframes' = nframes + 1 /\ controls' \in {controls, controls \cup {nframes'}}
    BY <1>2 DEF Receive
  <2>2. f # nframes + 1
    BY <1>1 DEF FramesInOrder
  <2> QED
    BY <2>1, <2>2
<1>3. CASE ReadPing
  <2>1. reader = "decoding" /\ controls' = controls \cup {nframes}
    BY <1>3 DEF ReadPing, NextItem
  <2> QED
    BY <2>1 DEF FramesInOrder
<1>4. CASE ~ReadPing /\ ~\E m \in Messages : Receive(m)
  <2>1. CASE Decode \/ ReceiveNext
    BY <1>4, <2>1 DEF Decode, ReadCancel, ReadOverflow, ReadDuplicate, ReadCall,
       FrameIgnored, FrameOverflow, FrameCollected, ReceiveNext,
       ReceiveUnreadable, ReceiveDisconnect, ReceiveFailure, StopReader
  <2>2. CASE \E c \in Calls : CallNext(c)
    BY <2>2, CallMoves
  <2>3. CASE \E g \in Frames : CollectorNext(g)
    BY <2>3 DEF CollectorNext, CollectorAbort, CollectorUnwound, CollectorAnswer,
       CollectorPut, CollectorTimeout, CollectorTurn, readerV
  <2>4. CASE EventNext \/ WriterNext \/ GraceNext
    BY <2>4 DEF EventNext, EventEmit, EventPut, EventTimeout, EventsComplete,
       EventsFail, EventsUnwound, EventTurn, WriterNext, WriterTake, WriterSent,
       WriterDisconnect, WriterTimeout, WriterFailure, WriterStops, WriterTurn,
       GraceNext, GraceBegin, GraceCollectors, GraceReader, GraceFlush, GraceClose,
       GraceTurn, readerV
  <2>5. CASE MainNext
    BY <2>5 DEF MainNext, Teardown, Joined, FlushEnds, Interrupt, InterruptAgain,
       CloseSocket, SocketClosed, CloseInterrupted, CancelTasks, readerV
  <2>6. CASE Expire \/ ApplicationClose \/ DrainStart \/ DrainStop \/ DrainDeadline
             \/ ServerCancel \/ UNCHANGED vars
    BY <2>6 DEF Expire, ApplicationClose, DrainStart, DrainStop, DrainDeadline,
       ServerCancel, vars, readerV
  <2> QED
    BY <2>1, <2>2, <2>3, <2>4, <2>5, <2>6 DEF Next, TaskNext, Environment, Over
<1> QED
  BY <1>2, <1>3, <1>4

\* So the debt of a frame is settled when its collector begins; one whose answer
\* is dropped stays so.
LEMMA DebtSettled ==
  ASSUME TypeOK, FramesInOrder, [Next]_vars, NEW f \in Frames, collector[f] # "none"
  PROVE  (Owed(f))' = Owed(f) /\ (Dropped(f) => (Dropped(f))')
<1>1. \A c \in {f} \X (1..MaxBatch) :
        /\ item'[c] = item[c]
        /\ phase'[c] = "none" <=> phase[c] = "none"
        /\ phase[c] = "raised" => phase'[c] = "raised"
  <2>1. \A c \in {f} \X (1..MaxBatch) : c \in Calls /\ c[1] = f
    BY DEF Calls
  <2> QED
    BY <2>1, FrameSettled DEF Ended
<1>2. (Members(f))' = Members(f)
  BY <1>1 DEF Members
<1>3. \A c \in Members(f) : c \in {f} \X (1..MaxBatch)
  BY DEF Members
<1>4. (Owed(f))' = Owed(f)
  <2>1. f \in controls' <=> f \in controls
    BY ControlsSettled
  <2>2. (\E c \in Members(f) : item'[c].op \in {"call", "invalid"})
          <=> \E c \in Members(f) : item[c].op \in {"call", "invalid"}
    BY <1>1, <1>3
  <2> QED
    BY <1>2, <2>1, <2>2 DEF Owed
<1>5. Dropped(f) => (Dropped(f))'
  BY <1>1, <1>2, <1>3 DEF Dropped
<1> QED
  BY <1>4, <1>5

\* Who interrupts a call: the client, with a record of it; a task that ends the
\* connection; or the collector of its frame, once another call has failed.
LEMMA InterruptMoves ==
  ASSUME TypeOK, CauseOrder, [Next]_vars, NEW c \in Calls
  PROVE  /\ cancel_requested \subseteq cancel_requested'
         /\ \/ interrupt'[c] = interrupt[c]
            \/ interrupt'[c] = "client" /\ c \in cancel_requested'
            \/ interrupt'[c] = "server" /\ Ending'
            \/ interrupt'[c] = "server" /\ c[1] \in Frames /\ CollectorAbort(c[1])
<1> USE DEF TypeOK
<1>1. CauseOrder'
  BY CauseOrderStep
<1>2. ASSUME NEW S, NEW by
      PROVE  \/ Interrupted(S, by)[c] = interrupt[c]
             \/ Interrupted(S, by)[c] = by /\ c \in S
  BY DEF Interrupted
<1>3. CASE ReadCancel
  <2> DEFINE d == requests[Head(rest).id]
  <2>1. \/ UNCHANGED <<interrupt, cancel_requested>>
        \/ /\ cancel_requested' = cancel_requested \cup {d}
           /\ interrupt' = Interrupted({d}, "client")
    BY <1>3, Zenon DEF ReadCancel
  <2> HIDE DEF d
  <2> QED
    BY <1>2, <2>1
<1>4. CASE \E f \in Frames : CollectorNext(f)
  <2>1. PICK f \in Frames : CollectorNext(f)
    BY <1>4
  <2>2. UNCHANGED cancel_requested
    BY <2>1 DEF CollectorNext, CollectorAbort, CollectorUnwound, CollectorAnswer,
       CollectorPut, CollectorTimeout, CollectorTurn
  <2>3. CASE CollectorAbort(f)
    <3>1. interrupt' = Interrupted(Members(f), "server")
      BY <2>3 DEF CollectorAbort
    <3>2. c \in Members(f) => c[1] = f
      BY DEF Members
    <3> QED
      BY <1>2, <2>2, <2>3, <3>1, <3>2
  <2>4. CASE ~CollectorAbort(f)
    BY <2>1, <2>2, <2>4 DEF CollectorNext, CollectorUnwound, CollectorAnswer,
       CollectorPut, CollectorTimeout
  <2> QED
    BY <2>3, <2>4
<1>5. CASE MainNext
  <2>1. Ending'
    BY <1>1, <1>5, MainCause DEF CauseOrder, Ending
  <2>2. UNCHANGED cancel_requested
    BY <1>5 DEF MainNext, Teardown, Joined, FlushEnds, Interrupt, InterruptAgain, CloseSocket,
       SocketClosed, CloseInterrupted, CancelTasks, callV
  <2>3. UNCHANGED interrupt \/ interrupt' = Interrupted(call_tasks, "server")
    BY <1>5 DEF MainNext, Teardown, Joined, FlushEnds, Interrupt, InterruptAgain, CloseSocket,
       SocketClosed, CloseInterrupted, CancelTasks, callV
  <2> QED
    BY <1>2, <2>1, <2>2, <2>3
<1>6. CASE DrainStop
  <2>1. Ending' /\ UNCHANGED cancel_requested
    BY <1>6 DEF DrainStop, Ending
  <2>2. \E S : interrupt' = Interrupted(S, "server")
    BY <1>6 DEF DrainStop
  <2> QED
    BY <1>2, <2>1, <2>2
<1>7. CASE \E d \in Calls : CallNext(d)
  BY <1>7, CallMoves
<1>8. CASE ~ReadCancel /\ (Decode \/ ReceiveNext)
  BY <1>8 DEF Decode, ReadPing, ReadOverflow, ReadDuplicate, ReadCall,
     FrameIgnored, FrameOverflow, FrameCollected, ReceiveNext, Receive,
     ReceiveUnreadable, ReceiveDisconnect, ReceiveFailure, StopReader, callV
<1>9. CASE EventNext \/ WriterNext \/ GraceNext
  BY <1>9 DEF EventNext, EventEmit, EventPut, EventTimeout, EventsComplete,
     EventsFail, EventsUnwound, EventTurn, WriterNext, WriterTake, WriterSent,
     WriterDisconnect, WriterTimeout, WriterFailure, WriterStops, WriterTurn,
     GraceNext, GraceBegin, GraceCollectors, GraceReader, GraceFlush, GraceClose,
     GraceTurn, callV
<1>10. CASE Expire \/ ApplicationClose \/ DrainStart \/ DrainDeadline \/ ServerCancel
            \/ UNCHANGED vars
  BY <1>10 DEF Expire, ApplicationClose, DrainStart, DrainDeadline, ServerCancel,
     vars, callV
<1> QED
  BY <1>3, <1>4, <1>5, <1>6, <1>7, <1>8, <1>9, <1>10
     DEF Next, TaskNext, Environment, Over

\* What a call says of itself: only a notification ends in silence, a cancellation
\* by the client is on record, and a call that never began was cancelled.
Excused ==
  \A c \in Calls :
    /\ phase[c] = "silent" => item[c].op = "notify"
    /\ interrupt[c] = "client" => c \in cancel_requested
    /\ phase[c] = "never" => interrupt[c] # "none"

\* As long as no close is under way, collectors are not cancelled: one unwinds
\* because a call of its frame has raised, and it alone interrupts those calls.
Blameless ==
  ~Ending =>
    /\ \A f \in Frames : collector[f] # "forwarded"
    /\ \A f \in Frames : collector[f] = "cancelling" => Dropped(f)
    /\ \A c \in Calls : interrupt[c] = "server" =>
         collector[c[1]] \in {"cancelling", "failing", "ended"}

\* Every step keeps the reasons of the calls.
LEMMA ExcusedStep ==
  ASSUME TypeOK, CauseOrder, Excused, [Next]_vars
  PROVE  Excused'
<1> SUFFICES ASSUME NEW c \in Calls
             PROVE  /\ phase'[c] = "silent" => item'[c].op = "notify"
                    /\ interrupt'[c] = "client" => c \in cancel_requested'
                    /\ phase'[c] = "never" => interrupt'[c] # "none"
    BY DEF Excused
<1> USE DEF TypeOK
<1>1. interrupt'[c] = "client" => c \in cancel_requested'
  BY InterruptMoves DEF Excused
<1>2. interrupt[c] # "none" => interrupt'[c] # "none"
  BY InterruptMoves
<1>3. CASE ReadCall
  <2>1. <<nframes, Len(rest)>> \in Calls
    BY <1>3, NextCallType DEF ReadCall, NextItem
  <2>2. \/ phase'[c] = "created"
        \/ phase'[c] = phase[c] /\ item'[c] = item[c]
    BY <1>3, <2>1 DEF ReadCall, CallsOK
  <2> QED
    BY <1>1, <1>2, <2>2 DEF Excused
<1>4. CASE \E d \in Calls : CallNext(d)
  BY <1>1, <1>2, <1>4, CallMoves DEF Excused
<1>5. CASE ~ReadCall /\ \A d \in Calls : ~CallNext(d)
  BY <1>1, <1>2, <1>5, OthersLeavePhases DEF Excused
<1> QED
  BY <1>3, <1>4, <1>5

\* A request to close puts a close under way.
LEMMA RequestEnds ==
  ASSUME CauseOrder, NEW code \in Codes, RequestClose(code)
  PROVE  Ending'
<1>1. code # "none"
  BY DEF Codes
<1> QED
  BY <1>1, Zenon DEF RequestClose, CauseOrder, Ending

\* When a collector gives up although no close is under way, a call has raised,
\* or one has failed.
LEMMA AbortExcused ==
  ASSUME TypeOK, CauseOrder, Excused, Blameless, ~Ending,
         NEW f \in Frames, CollectorAbort(f)
  PROVE  /\ collector' = [collector EXCEPT ![f] = "failing"]
              \/ (collector' = [collector EXCEPT ![f] = "cancelling"] /\ Dropped(f))
         /\ collector[f] \in {"gathering", "forwarded"} /\ UNCHANGED phase
<1>1. /\ collector[f] \in {"gathering", "forwarded"} /\ UNCHANGED phase
  BY DEF CollectorAbort, CollectorTurn
<1>2. ASSUME NEW c \in Members(f), Fatal(f, c) PROVE Dropped(f)
  <2>1. c \in Calls /\ c[1] = f
    BY DEF Members, Calls
  <2>2. collector[f] = "gathering" /\ ~close_event
    BY <1>1 DEF Blameless, CauseOrder, Ending
  <2>3. interrupt[c] \in {"none", "client"}
    BY <2>1, <2>2 DEF Blameless, TypeOK, CallsOK
  <2>4. phase[c] = "never" => c \in cancel_requested
    BY <2>1, <2>3 DEF Excused
  <2>5. phase[c] = "raised"
    BY <1>2, <2>2, <2>4 DEF Fatal, Lost
  <2> QED
    BY <2>5 DEF Dropped
<1> QED
  BY <1>1, <1>2 DEF CollectorAbort

\* Every step that does not put a close under way keeps the collectors blameless.
LEMMA BlamelessStep ==
  ASSUME TypeOK, CauseOrder, FramesInOrder, Excused, Blameless, [Next]_vars
  PROVE  Blameless'
<1> SUFFICES ASSUME ~Ending'
             PROVE  /\ \A f \in Frames : collector'[f] # "forwarded"
                    /\ \A f \in Frames : collector'[f] = "cancelling" => (Dropped(f))'
                    /\ \A c \in Calls : interrupt'[c] = "server" =>
                         collector'[c[1]] \in {"cancelling", "failing", "ended"}
    BY DEF Blameless
<1> USE DEF TypeOK
<1>1. ~Ending
  BY CauseOrderStep
<1>2. \A c \in Calls : c[1] \in Frames
  BY DEF Calls
<1>3. \A f \in Frames : collector[f] # "none" /\ Dropped(f) => (Dropped(f))'
  BY DebtSettled
<1>4. \A c \in Calls : interrupt'[c] = "server" =>
        interrupt[c] = "server" \/ (c[1] \in Frames /\ CollectorAbort(c[1]))
  BY InterruptMoves
<1>5. ASSUME NEW f \in Frames, CollectorAbort(f)
      PROVE  /\ \A g \in Frames : g # f => collector'[g] = collector[g]
             /\ \/ collector'[f] = "failing"
                \/ collector'[f] = "cancelling" /\ (Dropped(f))'
  <2>1. collector[f] # "none"
    BY <1>5 DEF CollectorAbort
  <2> QED
    BY <1>1, <1>3, <1>5, <2>1, AbortExcused DEF CollectorOK
<1>6. ASSUME NEW f \in Frames, CollectorNext(f), ~CollectorAbort(f)
      PROVE  /\ \A g \in Frames : g # f => collector'[g] = collector[g]
             /\ collector'[f] \in {"blocked", "ended"}
             /\ collector[f] \in {"cancelling", "failing"} => collector'[f] = "ended"
  BY <1>6 DEF CollectorNext, CollectorUnwound, CollectorAnswer, CollectorPut,
     CollectorTimeout, CollectorOK
<1>7. CASE UNCHANGED collector
  <2>1. \A f \in Frames : ~CollectorAbort(f)
    BY <1>5, <1>7 DEF CollectorAbort, CollectorOK
  <2> QED
    BY <1>1, <1>2, <1>3, <1>4, <1>7, <2>1 DEF Blameless
<1>8. CASE FrameCollected
  <2>1. /\ nframes \in Frames /\ collector[nframes] = "none" /\ UNCHANGED interrupt
        /\ collector' = [collector EXCEPT ![nframes] = "gathering"]
    BY <1>8 DEF FrameCollected, FrameDecoded, FramesInOrder, ReaderOK, Frames, callV
  <2>2. /\ \A f \in Frames : f # nframes => collector'[f] = collector[f]
        /\ collector'[nframes] = "gathering"
    BY <2>1 DEF CollectorOK
  <2>3. \A c \in Calls : interrupt[c] = "server" => c[1] # nframes
    BY <1>1, <2>1 DEF Blameless
  <2> QED
    BY <1>1, <1>2, <1>3, <2>1, <2>2, <2>3 DEF Blameless
<1>9. ASSUME NEW f \in Frames, CollectorNext(f), CollectorAbort(f)
      PROVE  /\ \A g \in Frames : collector'[g] # "forwarded"
             /\ \A g \in Frames : collector'[g] = "cancelling" => (Dropped(g))'
             /\ \A c \in Calls : interrupt'[c] = "server" =>
                  collector'[c[1]] \in {"cancelling", "failing", "ended"}
  <2>1. \A g \in Frames : CollectorAbort(g) => g = f
    BY <1>5, <1>9 DEF CollectorAbort
  <2> QED
    BY <1>1, <1>2, <1>3, <1>4, <1>5, <1>9, <2>1 DEF Blameless
<1>10. ASSUME NEW f \in Frames, CollectorNext(f), ~CollectorAbort(f)
       PROVE  /\ \A g \in Frames : collector'[g] # "forwarded"
              /\ \A g \in Frames : collector'[g] = "cancelling" => (Dropped(g))'
              /\ \A c \in Calls : interrupt'[c] = "server" =>
                   collector'[c[1]] \in {"cancelling", "failing", "ended"}
  <2>1. \A g \in Frames : ~CollectorAbort(g)
    BY <1>5, <1>6, <1>10 DEF CollectorAbort
  <2>2. /\ \A g \in Frames : g # f => collector'[g] = collector[g]
        /\ collector'[f] \in {"blocked", "ended"}
        /\ collector[f] \in {"cancelling", "failing"} => collector'[f] = "ended"
    BY <1>6, <1>10
  <2>3. collector[f] = "ended" => collector'[f] = "ended"
    BY CollectorsMove
  <2>4. \A c \in Calls : interrupt'[c] = "server" => interrupt[c] = "server"
    BY <1>4, <2>1
  <2> QED
    BY <1>1, <1>2, <1>3, <2>2, <2>3, <2>4 DEF Blameless
<1> QED
  BY <1>7, <1>8, <1>9, <1>10, TrafficMoves DEF WriterMoves, CutShort

\* The answer of a frame is in the queue, with the writer, or sent.
Kept(f) ==
  \/ f \in sent
  \/ writer = "sending" /\ writing = f
  \/ \E k \in 1..Len(outgoing) : outgoing[k] = f

\* Only a close takes an answer from queue and writer; otherwise it moves on.
LEMMA AnswerMoves ==
  ASSUME TypeOK, CauseOrder, [Next]_vars, ~Ending', NEW f \in Frames, Kept(f)
  PROVE  (Kept(f))'
<1>1. outgoing \in Seq(0..MaxFrames) /\ f # 0
  BY DEF TypeOK, WriterOK, Frames
<1>2. CASE UNCHANGED writerV
  BY <1>2 DEF Kept, writerV
<1>3. ASSUME NEW g \in 0..MaxFrames, Enqueue(g) PROVE (Kept(f))'
  <2>1. /\ Len(outgoing') = Len(outgoing) + 1 /\ Len(outgoing) \in Nat
        /\ \A k \in 1..Len(outgoing) : outgoing'[k] = outgoing[k]
        /\ UNCHANGED <<writer, writing, sent>>
    BY <1>1, <1>3 DEF Enqueue
  <2>2. \A k \in 1..Len(outgoing) : k \in 1..Len(outgoing')
    BY <2>1
  <2> QED
    BY <2>1, <2>2 DEF Kept
<1>4. CASE WriterTake
  <2>1. /\ outgoing # <<>> /\ writing' = Head(outgoing) /\ outgoing' = Tail(outgoing)
        /\ writer' = "sending" /\ writer = "idle" /\ UNCHANGED sent
    BY <1>4 DEF WriterTake
  <2>2. /\ Len(outgoing) \in Nat \ {0} /\ Len(outgoing') = Len(outgoing) - 1
        /\ writing' = outgoing[1]
        /\ \A k \in 1..(Len(outgoing) - 1) : outgoing'[k] = outgoing[k + 1]
    BY <1>1, <2>1
  <2>3. CASE f \in sent
    BY <2>1, <2>3 DEF Kept
  <2>4. ASSUME NEW k \in 1..Len(outgoing), outgoing[k] = f PROVE (Kept(f))'
    <3>1. CASE k = 1
      BY <2>1, <2>2, <2>4, <3>1 DEF Kept
    <3>2. CASE k # 1
      <4>1. k - 1 \in 1..(Len(outgoing) - 1) /\ (k - 1) + 1 = k
        BY <2>2, <3>2
      <4>2. outgoing'[k - 1] = f /\ k - 1 \in 1..Len(outgoing')
        BY <2>2, <2>4, <4>1
      <4> QED
        BY <4>2 DEF Kept
    <3> QED
      BY <3>1, <3>2
  <2> QED
    BY <2>1, <2>3, <2>4 DEF Kept
<1>5. CASE WriterSent
  BY <1>1, <1>5 DEF WriterSent, Kept
<1>6. \A g \in Frames : g \in 0..MaxFrames
  BY DEF Frames
<1>7. 0 \in 0..MaxFrames
  OBVIOUS
<1> QED
  BY <1>2, <1>3, <1>4, <1>5, <1>6, <1>7, TrafficMoves
     DEF WriterMoves, CutShort, CollectorPuts, CollectorGoesOn

\* A collector that ends without a word, although no close is under way, owes
\* nothing or has had a call raise.
LEMMA SilenceExcused ==
  ASSUME TypeOK, CauseOrder, Excused, Blameless, ~Ending, ~Ending',
         NEW f \in Frames, CollectorNext(f), ~CollectorPuts(f),
         collector[f] # "ended", collector'[f] = "ended", Owed(f)
  PROVE  Dropped(f)
<1> USE DEF TypeOK
<1>1. "internal_error" \in Codes /\ "policy_violation" \in Codes
  BY DEF Codes
<1>2. ~RequestClose("internal_error") /\ ~RequestClose("policy_violation")
  BY <1>1, RequestEnds
<1>3. CASE CollectorAbort(f)
  BY <1>3 DEF CollectorAbort, CollectorOK
<1>4. CASE CollectorUnwound(f)
  BY <1>2, <1>4 DEF CollectorUnwound, Blameless
<1>5. CASE CollectorAnswer(f)
  <2>1. ~Answers(f)
    BY <1>5 DEF CollectorAnswer, CollectorPuts, CollectorOK
  <2>2. ~close_event /\ collector[f] # "forwarded"
    BY DEF CauseOrder, Ending, Blameless
  <2>3. f \notin controls /\ \A c \in Members(f) : phase[c] = "silent"
    BY <2>1, <2>2 DEF Answers
  <2>4. \A c \in Members(f) : c \in Calls
    BY DEF Members, Calls
  <2>5. \A c \in Members(f) : item[c].op = "notify"
    BY <2>3, <2>4 DEF Excused
  <2> QED
    BY <2>3, <2>5 DEF Owed
<1>6. CASE CollectorPut(f)
  BY <1>6 DEF CollectorPut, CollectorPuts
<1>7. CASE CollectorTimeout(f)
  BY <1>2, <1>7 DEF CollectorTimeout
<1> QED
  BY <1>3, <1>4, <1>5, <1>6, <1>7 DEF CollectorNext

\* Every step keeps the answers of an open connection.
LEMMA AnswersStep ==
  ASSUME TypeOK, CauseOrder, FramesInOrder, Excused, Blameless, NoAnswerLost, [Next]_vars
  PROVE  NoAnswerLost'
<1> SUFFICES ASSUME ~Ending', NEW f \in Frames,
                    collector'[f] = "ended", (Owed(f))', ~(Dropped(f))'
             PROVE  (Kept(f))'
    BY DEF NoAnswerLost, Ending, Kept
<1>1. ~Ending
  BY CauseOrderStep
<1>2. CASE collector[f] = "ended"
  <2>1. Owed(f) /\ ~Dropped(f)
    BY <1>2, DebtSettled
  <2>2. Kept(f)
    BY <1>1, <1>2, <2>1 DEF NoAnswerLost, Ending, Kept
  <2> QED
    BY <2>2, AnswerMoves
<1>3. CASE collector[f] # "ended"
  <2>1. collector \in [Frames -> {"none", "gathering", "forwarded", "blocked",
                                  "cancelling", "failing", "ended"}]
    BY DEF TypeOK, CollectorOK
  <2>2. ~FrameCollected
    BY <1>3, <2>1 DEF FrameCollected
  <2>3. PICK g \in Frames : CollectorNext(g) /\ (CollectorPuts(g) \/ CollectorGoesOn(g))
    BY <1>3, <2>2, TrafficMoves DEF WriterMoves, CutShort
  <2>4. g = f /\ collector[f] # "none"
    BY <1>3, <2>1, <2>3 DEF CollectorPuts, CollectorGoesOn
  <2>5. CASE CollectorPuts(f)
    <3>1. outgoing \in Seq(0..MaxFrames) /\ outgoing' = Append(outgoing, f)
      BY <2>5 DEF CollectorPuts, Enqueue, TypeOK, WriterOK
    <3>2. Len(outgoing') \in 1..Len(outgoing') /\ outgoing'[Len(outgoing')] = f
      BY <3>1
    <3> QED
      BY <3>2 DEF Kept
  <2>6. CASE ~CollectorPuts(f)
    <3>1. Owed(f) /\ ~Dropped(f)
      BY <2>4, DebtSettled
    <3> QED
      BY <1>1, <1>3, <2>3, <2>4, <2>6, <3>1, SilenceExcused
  <2> QED
    BY <2>5, <2>6
<1> QED
  BY <1>2, <1>3

\* The reasons behind an open connection, in every run.
THEOREM OpenIsBlameless == Spec => [](Excused /\ Blameless)
<1>1. Init => Excused /\ Blameless
  BY DEF Init, Excused, Blameless
<1>2. TypeOK /\ CauseOrder /\ FramesInOrder /\ Wire /\ Excused /\ Blameless
        /\ [Next]_vars => Excused' /\ Blameless'
  BY ExcusedStep, BlamelessStep
<1> QED
  BY <1>1, <1>2, AnswersInPlace, CauseInOrder, TypeCorrect, PTL DEF Spec

\* As long as the connection is open every frame that is to be answered is answered
\* exactly once, for every number of frames and calls, every limit, and however
\* calls are cancelled, refused, or end.
THEOREM EveryFrameAnswered == Spec => []Answered
<1>1. Init => NoAnswerLost
  BY DEF Init, NoAnswerLost
<1>2. TypeOK /\ CauseOrder /\ FramesInOrder /\ Wire /\ Excused /\ Blameless
        /\ NoAnswerLost /\ [Next]_vars => NoAnswerLost'
  BY AnswersStep
<1>3. NoAnswerLost /\ AnsweredOnce => Answered
  BY DEF Answered
<1> QED
  BY <1>1, <1>2, <1>3, NeverAnsweredTwice, OpenIsBlameless, AnswersInPlace,
     CauseInOrder, TypeCorrect, PTL DEF Spec

-----------------------------------------------------------------------------
(* A graceful drain answers every request. *)

\* What graceful() has waited for: it stops the reader after the collectors it
\* found, and then waits for those that were started meanwhile.
Waited ==
  /\ grace \in {"reader", "flush"} => reader = "stopped"
  /\ grace = "reader" => Collectors \subseteq grace_tasks
  /\ grace = "flush" => Collectors = {}

\* Only graceful() itself goes on, or session.stop() cancels it.
LEMMA GraceStays ==
  ASSUME TypeOK, CauseOrder, [Next]_vars, ~GraceNext, ~DrainStop
  PROVE  UNCHANGED <<grace, grace_tasks>>
<1>1. CASE Decode \/ ReceiveNext
  BY <1>1, ReaderCause DEF drainV
<1>2. CASE \/ \E c \in Calls : CallNext(c)
           \/ \E f \in Frames : CollectorNext(f)
           \/ EventNext
  BY <1>2, TaskCause DEF drainV
<1>3. CASE WriterNext
  BY <1>3, WriterCause DEF drainV
<1>4. CASE MainNext
  BY <1>4, MainCause DEF drainV
<1>5. CASE Expire \/ ApplicationClose \/ DrainStart \/ DrainDeadline \/ ServerCancel
           \/ UNCHANGED vars
  BY <1>5 DEF Expire, ApplicationClose, DrainStart, DrainDeadline, ServerCancel,
     vars, drainV
<1> QED
  BY <1>1, <1>2, <1>3, <1>4, <1>5 DEF Next, TaskNext, Environment, Over

\* Once the reader has stopped no collector starts.
LEMMA CollectorsShrink ==
  ASSUME TypeOK, CauseOrder, FramesInOrder, [Next]_vars, reader = "stopped"
  PROVE  /\ \A f \in Frames : collector'[f] # "none" => collector[f] # "none"
         /\ Collectors' \subseteq Collectors
<1>1. ~FrameCollected
  BY DEF FrameCollected, FrameDecoded
<1>2. \A f \in Frames : /\ collector'[f] # "none" => collector[f] # "none"
                        /\ collector[f] = "ended" => collector'[f] = "ended"
  BY <1>1, CollectorsMove
<1>3. \A f \in Frames : collector[f] \in {"none", "gathering", "forwarded", "blocked",
                                          "cancelling", "failing", "ended"}
  BY DEF TypeOK, CollectorOK
<1>4. ASSUME NEW f \in Frames, (Collecting(f))' PROVE Collecting(f)
  BY <1>2, <1>3, <1>4 DEF Collecting
<1> QED
  BY <1>2, <1>4 DEF Collectors

\* Every step keeps what graceful() has waited for.
LEMMA WaitedStep ==
  ASSUME TypeOK, CauseOrder, FramesInOrder, Waited, [Next]_vars
  PROVE  Waited'
<1>1. reader = "stopped" => reader' = "stopped" /\ Collectors' \subseteq Collectors
  BY ReaderStays, CollectorsShrink
<1>2. CASE DrainStop
  <2>1. grace' = "ended"
    BY <1>2, Zenon DEF DrainStop
  <2> QED
    BY <2>1 DEF Waited
<1>3. CASE GraceNext
  <2>1. collector' = collector
    BY <1>3 DEF GraceNext, GraceBegin, GraceCollectors, GraceReader, GraceFlush,
       GraceClose, GraceTurn
  <2>2. Collectors' = Collectors
    BY <2>1 DEF Collectors, Collecting
  <2>3. CASE GraceReader
    BY <2>2, <2>3 DEF GraceReader, Waited
  <2>4. CASE GraceFlush
    BY <2>2, <2>4 DEF GraceFlush, Waited
  <2>5. CASE GraceBegin \/ GraceCollectors \/ GraceClose
    BY <2>5 DEF GraceBegin, GraceCollectors, GraceClose, Waited
  <2> QED
    BY <1>3, <2>3, <2>4, <2>5 DEF GraceNext
<1>4. CASE ~GraceNext /\ ~DrainStop
  BY <1>1, <1>4, GraceStays DEF Waited
<1> QED
  BY <1>2, <1>3, <1>4

\* A close by graceful() of a connection that nothing else has ended.
Graceful ==
  close_event /\ close_value = "service_restart" /\ ~client_closed /\ ~cancelled

\* What GracefulAnswersAll needs to stay true: nothing more is read.
GracefulDone ==
  Graceful =>
    /\ reader = "stopped"
    /\ \A f \in Frames : collector[f] # "none" /\ Owed(f) /\ ~Dropped(f) => f \in sent

\* What the socket has accepted stays accepted.
LEMMA SentStays ==
  ASSUME TypeOK, CauseOrder, [Next]_vars
  PROVE  sent \subseteq sent'
BY TrafficMoves DEF CollectorPuts, CollectorGoesOn, Enqueue, writerV, WriterMoves,
   WriterTake, WriterSent, CutShort

\* When graceful() closes the connection every answer is on the wire.
LEMMA GraceCloseAnswers ==
  ASSUME TypeOK, CauseOrder, Waited, NoAnswerLost, GraceClose, ~close_event, ~cancelled
  PROVE  /\ reader = "stopped"
         /\ \A f \in Frames :
              collector[f] # "none" /\ Owed(f) /\ ~Dropped(f) => f \in sent
<1>1. grace = "flush" /\ (Flushed \/ writer = "ended")
  BY DEF GraceClose
<1>2. close_code = "none"
  BY <1>1 DEF CauseOrder
<1>3. outgoing = <<>> /\ writer # "sending"
  BY <1>1 DEF CauseOrder, Flushed
<1>4. reader = "stopped" /\ Collectors = {}
  BY <1>1 DEF Waited
<1>5. ASSUME NEW f \in Frames, collector[f] # "none", Owed(f), ~Dropped(f)
      PROVE  f \in sent
  <2>1. collector[f] = "ended"
    BY <1>4, <1>5 DEF Collectors, Collecting, TypeOK, CollectorOK
  <2>2. ~\E k \in 1..Len(outgoing) : outgoing[k] = f
    BY <1>3
  <2> QED
    BY <1>2, <1>3, <1>5, <2>1, <2>2 DEF NoAnswerLost
<1> QED
  BY <1>4, <1>5

\* Every step keeps a graceful close complete.
LEMMA GracefulStep ==
  ASSUME TypeOK, CauseOrder, FramesInOrder, Waited, NoAnswerLost, GracefulDone,
         [Next]_vars
  PROVE  GracefulDone'
<1> SUFFICES ASSUME Graceful'
             PROVE  /\ reader' = "stopped"
                    /\ \A f \in Frames :
                         collector'[f] # "none" /\ (Owed(f))' /\ ~(Dropped(f))' => f \in sent'
    BY DEF GracefulDone
<1>1. ~client_closed /\ ~client_closed' /\ ~cancelled /\ ~cancelled'
  BY CauseMoves DEF Graceful
<1>2. /\ reader = "stopped"
      /\ \A f \in Frames : collector[f] # "none" /\ Owed(f) /\ ~Dropped(f) => f \in sent
  <2>1. CASE UNCHANGED <<close_event, close_value>>
    BY <1>1, <2>1 DEF Graceful, GracefulDone
  <2>2. CASE RequestedCause
    <3>1. PICK code \in Codes : /\ RequestClose(code)
                                /\ code = "service_restart" => client_closed' \/ GraceClose
      BY <2>2 DEF RequestedCause
    <3>2. CASE close_event
      BY <1>1, <3>1, <3>2 DEF RequestClose, Graceful, GracefulDone
    <3>3. CASE ~close_event
      <4>1. code = "service_restart"
        BY <3>1, <3>3 DEF RequestClose, Graceful
      <4> QED
        BY <1>1, <3>1, <3>3, <4>1, GraceCloseAnswers
    <3> QED
      BY <3>2, <3>3
  <2> QED
    BY <1>1, <2>1, <2>2, CauseMoves DEF causeV, StopCause, UnwindCause
<1>3. ASSUME NEW f \in Frames, collector'[f] # "none", (Owed(f))', ~(Dropped(f))'
      PROVE  f \in sent'
  <2>1. collector[f] # "none"
    BY <1>2, <1>3, CollectorsShrink
  <2>2. Owed(f) /\ ~Dropped(f)
    BY <1>3, <2>1, DebtSettled
  <2> QED
    BY <1>2, <2>1, <2>2, SentStays
<1> QED
  BY <1>2, <1>3, ReaderStays

\* A drain that ends gracefully has answered, on the wire, every request that the
\* reader accepted, for every number of frames and any capacity of the queue.
THEOREM GracefulDrainAnswers == Spec => []GracefulAnswersAll
<1>1. Init => Waited /\ GracefulDone /\ NoAnswerLost
  BY DEF Init, Waited, GracefulDone, Graceful, NoAnswerLost
<1>2. TypeOK /\ CauseOrder /\ FramesInOrder /\ Wire /\ Waited /\ NoAnswerLost
        /\ GracefulDone /\ [Next]_vars => Waited' /\ GracefulDone'
  BY WaitedStep, GracefulStep
<1>3. Answered => NoAnswerLost
  BY DEF Answered
<1>4. GracefulDone => GracefulAnswersAll
  BY DEF GracefulDone, Graceful, GracefulAnswersAll
<1> QED
  BY <1>1, <1>2, <1>3, <1>4, EveryFrameAnswered, AnswersInPlace, CauseInOrder,
     TypeCorrect, PTL DEF Spec
=============================================================================
