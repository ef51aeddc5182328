------------------------- MODULE ClientTransportProofs -------------------------
(***************************************************************************)
(* Theorems about the socket of the generated client (ClientTransport.tla) *)
(* for every number of calls, messages and places in the queue, both       *)
(* overflow policies and every set of faults.                              *)
(*                                                                         *)
(* Two arguments are independent.  A request is marked as sent in the same *)
(* step that creates its future, so a failure never finds a pending future *)
(* whose frame was not handed to the socket.  And while the transport is   *)
(* open the messages of the stream that were received are exactly those    *)
(* taken, followed by those in the queue, in order: anything that would    *)
(* break this closes the transport in the same step.                       *)
(***************************************************************************)
EXTENDS ClientTransport, FiniteSetTheorems, TLAPS

Messages == [kind : {"item", "plain", "ended", "failure"}, n : Nat]

\* The queue q holds messages of a stream of which n were received.
Typed(q, n) ==
  /\ q \in Seq(Messages)
  /\ \A i \in 1..Len(q) : q[i].kind = "item" => q[i].n \in 1..n

\* Of the n messages received, q holds exactly those after the first k, in order.
Rest(q, k, n) ==
  /\ \A i \in 1..Len(q) : q[i].kind = "item" => q[i].n > k
  /\ \A i, j \in 1..Len(q) :
       i < j /\ q[i].kind = "item" /\ q[j].kind = "item" => q[i].n < q[j].n
  /\ \A m \in (k + 1)..n : \E i \in 1..Len(q) : q[i].kind = "item" /\ q[i].n = m

QueueTyped == Typed(queue, items)

\* Only a transport that is closed has a close() under way, or a reader that is
\* cancelled or has left its loop.
Closing ==
  /\ closer # "none" => closed_flag
  /\ stopping => closed_flag
  /\ reader # "reading" => closed_flag

\* A pending future belongs to a request that is marked as sent.
PendingSent ==
  \A r \in Requests : /\ response[r] = "pending" => r \in sent
                      /\ response[r] # "unsent"

\* A call that has not begun has no frame; one that waits has a future.
CallsKept ==
  \A r \in Requests :
    /\ request[r] = "none" => frame[r] = "none"
    /\ request[r] \in {"sending", "waiting"} => response[r] \notin {"none", "dropped"}

\* A call that ended with an unsent error will never have a frame.
UnsentDone ==
  \A r \in Requests : outcome[r] = "unsent" => request[r] = "done" /\ frame[r] = "none"

\* The consumer has taken the first k messages of the stream, and the queue holds
\* all the others that were received.
Whole == ~closed_flag => \E k \in 0..items : taken = 1..k /\ Rest(queue, k, items)

Calls == PendingSent /\ CallsKept /\ UnsentDone
IInv == TypeOK /\ QueueTyped /\ Closing /\ Calls /\ Whole

USE TransportAssumption DEF callV, futureV, taskV, closeV, readV, queueV, Calls

-----------------------------------------------------------------------------
\* A message put at the end of a queue.
LEMMA AppendAt ==
  ASSUME NEW q \in Seq(Messages), NEW m \in Messages
  PROVE  /\ Append(q, m) \in Seq(Messages)
         /\ Len(q) \in Nat /\ Len(Append(q, m)) = Len(q) + 1
         /\ \A i \in 1..Len(q) : Append(q, m)[i] = q[i]
         /\ Append(q, m)[Len(q) + 1] = m
  OBVIOUS

\* The oldest message taken from a queue.
LEMMA TailAt ==
  ASSUME NEW q \in Seq(Messages), q # <<>>
  PROVE  /\ Tail(q) \in Seq(Messages)
         /\ Len(q) \in Nat \ {0} /\ Len(Tail(q)) = Len(q) - 1
         /\ \A i \in 1..(Len(q) - 1) : Tail(q)[i] = q[i + 1]
         /\ Head(q) = q[1] /\ Head(q) \in Messages
  OBVIOUS

\* _notify of a notification that belongs to no stream, and the terminals of
\* _finish_notifications, leave the messages of the stream as they are.
LEMMA AppendOther ==
  ASSUME NEW q, NEW n \in Nat, Typed(q, n), NEW m \in Messages, m.kind # "item"
  PROVE  /\ Typed(Append(q, m), n)
         /\ \A k \in Nat : Rest(q, k, n) => Rest(Append(q, m), k, n)
  <1>1. /\ q \in Seq(Messages) /\ Len(q) \in Nat
        /\ 1..Len(Append(q, m)) = (1..Len(q)) \cup {Len(q) + 1}
        /\ Append(q, m) \in Seq(Messages)
        /\ \A i \in 1..Len(q) : Append(q, m)[i] = q[i]
        /\ Append(q, m)[Len(q) + 1] = m
    BY AppendAt DEF Typed
  <1>2. Typed(Append(q, m), n)
    BY <1>1 DEF Typed
  <1>3. ASSUME NEW k \in Nat, Rest(q, k, n)
        PROVE  Rest(Append(q, m), k, n)
    BY <1>1, <1>3 DEF Rest
  <1> QED BY <1>2, <1>3

\* The next message of the stream goes to the end of the queue.
LEMMA AppendNext ==
  ASSUME NEW q, NEW n \in Nat, Typed(q, n)
  PROVE  /\ Typed(Append(q, Item(n + 1)), n + 1)
         /\ \A k \in 0..n : Rest(q, k, n) => Rest(Append(q, Item(n + 1)), k, n + 1)
  <1> DEFINE m == Item(n + 1)  p == Append(q, m)
  <1>1. m \in Messages /\ m.kind = "item" /\ m.n = n + 1
    BY DEF Item, Messages
  <1>2. /\ q \in Seq(Messages) /\ Len(q) \in Nat
        /\ 1..Len(p) = (1..Len(q)) \cup {Len(q) + 1} /\ p \in Seq(Messages)
        /\ \A i \in 1..Len(q) : p[i] = q[i]
        /\ p[Len(q) + 1] = m
    BY <1>1, AppendAt DEF Typed
  <1> HIDE DEF m, p
  <1>3. Typed(p, n + 1)
    BY <1>1, <1>2 DEF Typed
  <1>4. ASSUME NEW k \in 0..n, Rest(q, k, n)
        PROVE  Rest(p, k, n + 1)
    <2>1. \A i \in 1..Len(p) : p[i].kind = "item" => p[i].n > k
      BY <1>1, <1>2, <1>4 DEF Rest
    <2>2. \A i, j \in 1..Len(p) :
            i < j /\ p[i].kind = "item" /\ p[j].kind = "item" => p[i].n < p[j].n
      <3> SUFFICES ASSUME NEW i \in 1..Len(p), NEW j \in 1..Len(p), i < j,
                          p[i].kind = "item", p[j].kind = "item"
                   PROVE  p[i].n < p[j].n
        OBVIOUS
      <3>1. i \in 1..Len(q)
        BY <1>2
      <3>2. CASE j \in 1..Len(q)
        BY <1>2, <1>4, <3>1, <3>2 DEF Rest
      <3>3. CASE j = Len(q) + 1
        BY <1>1, <1>2, <3>1, <3>3 DEF Typed
      <3> QED BY <1>2, <3>2, <3>3
    <2>3. \A x \in (k + 1)..(n + 1) : \E i \in 1..Len(p) : p[i].kind = "item" /\ p[i].n = x
      <3> TAKE x \in (k + 1)..(n + 1)
      <3>1. CASE x = n + 1
        BY <1>1, <1>2, <3>1
      <3>2. CASE x # n + 1
        <4>1. PICK i \in 1..Len(q) : q[i].kind = "item" /\ q[i].n = x
          BY <1>4, <3>2 DEF Rest
        <4> QED BY <1>2, <4>1
      <3> QED BY <3>1, <3>2
    <2> QED BY <2>1, <2>2, <2>3 DEF Rest
  <1> QED BY <1>3, <1>4 DEF p, m

\* A message that belongs to no stream leaves the queue at its head.
LEMMA DropOther ==
  ASSUME NEW q, NEW n \in Nat, Typed(q, n), q # <<>>
  PROVE  /\ Typed(Tail(q), n)
         /\ \A k \in Nat : Rest(q, k, n) /\ Head(q).kind # "item" => Rest(Tail(q), k, n)
  <1> DEFINE p == Tail(q)
  <1>1. /\ q \in Seq(Messages) /\ Len(q) \in Nat \ {0} /\ Len(p) = Len(q) - 1
        /\ \A i \in 1..Len(p) : p[i] = q[i + 1] /\ i + 1 \in 1..Len(q)
        /\ p \in Seq(Messages) /\ Head(q) = q[1]
    BY TailAt DEF Typed
  <1> HIDE DEF p
  <1>2. Typed(p, n)
    BY <1>1 DEF Typed
  <1>3. ASSUME NEW k \in Nat, Rest(q, k, n), Head(q).kind # "item"
        PROVE  Rest(p, k, n)
    <2>1. \A i \in 1..Len(p) : p[i].kind = "item" => p[i].n > k
      BY <1>1, <1>3 DEF Rest
    <2>2. \A i, j \in 1..Len(p) :
            i < j /\ p[i].kind = "item" /\ p[j].kind = "item" => p[i].n < p[j].n
      <3> TAKE i, j \in 1..Len(p)
      <3>1. i + 1 \in 1..Len(q) /\ j + 1 \in 1..Len(q) /\ (i < j => i + 1 < j + 1)
        BY <1>1
      <3> QED BY <1>1, <1>3, <3>1 DEF Rest
    <2>3. \A x \in (k + 1)..n : \E i \in 1..Len(p) : p[i].kind = "item" /\ p[i].n = x
      <3> TAKE x \in (k + 1)..n
      <3>1. PICK i \in 1..Len(q) : q[i].kind = "item" /\ q[i].n = x
        BY <1>3 DEF Rest
      <3>2. i # 1
        BY <1>1, <1>3, <3>1
      <3>3. i - 1 \in 1..Len(p) /\ (i - 1) + 1 = i
        BY <1>1, <3>2
      <3> QED BY <1>1, <3>1, <3>3
    <2> QED BY <2>1, <2>2, <2>3 DEF Rest
  <1> QED BY <1>2, <1>3 DEF p

\* A message of the stream at the head of the queue is the next one.
LEMMA DropNext ==
  ASSUME NEW q, NEW n \in Nat, Typed(q, n), q # <<>>, Head(q).kind = "item",
         NEW k \in 0..n, Rest(q, k, n)
  PROVE  Head(q).n = k + 1 /\ k + 1 \in 0..n /\ Rest(Tail(q), k + 1, n)
  <1> DEFINE p == Tail(q)
  <1>1. /\ q \in Seq(Messages) /\ Len(q) \in Nat \ {0} /\ Len(p) = Len(q) - 1
        /\ \A i \in 1..Len(p) : p[i] = q[i + 1] /\ i + 1 \in 1..Len(q)
        /\ p \in Seq(Messages) /\ Head(q) = q[1] /\ 1 \in 1..Len(q)
    BY TailAt DEF Typed
  <1>2. \A i \in 1..Len(q) : q[i].n \in Nat
    <2>1. \A i \in 1..Len(q) : q[i] \in Messages
      BY <1>1
    <2> QED BY <2>1 DEF Messages
  <1> HIDE DEF p
  <1>3. q[1].n > k /\ q[1].n \in 1..n /\ k + 1 \in (k + 1)..n
    BY <1>1 DEF Rest, Typed
  <1>4. q[1].n = k + 1
    <2>1. PICK i \in 1..Len(q) : q[i].kind = "item" /\ q[i].n = k + 1
      BY <1>3 DEF Rest
    <2>2. CASE i = 1
      BY <2>1, <2>2
    <2>3. CASE 1 < i
      <3>1. q[1].n < q[i].n
        BY <1>1, <2>1, <2>3 DEF Rest
      <3> QED BY <1>2, <1>3, <2>1, <3>1
    <2> QED BY <2>2, <2>3
  <1>5. \A i \in 1..Len(p) : p[i].kind = "item" => p[i].n > k + 1
    <2> SUFFICES ASSUME NEW i \in 1..Len(p), p[i].kind = "item"
                 PROVE  p[i].n > k + 1
      OBVIOUS
    <2>1. i + 1 \in 1..Len(q) /\ 1 < i + 1 /\ p[i] = q[i + 1]
      BY <1>1
    <2>2. q[1].n < q[i + 1].n
      BY <1>1, <2>1 DEF Rest
    <2> QED BY <1>2, <1>4, <2>1, <2>2
  <1>6. \A i, j \in 1..Len(p) :
          i < j /\ p[i].kind = "item" /\ p[j].kind = "item" => p[i].n < p[j].n
    <2> TAKE i, j \in 1..Len(p)
    <2>1. i + 1 \in 1..Len(q) /\ j + 1 \in 1..Len(q) /\ (i < j => i + 1 < j + 1)
      BY <1>1
    <2> QED BY <1>1, <2>1, SMTT(30) DEF Rest
  <1>7. \A x \in (k + 2)..n : \E i \in 1..Len(p) : p[i].kind = "item" /\ p[i].n = x
    <2> TAKE x \in (k + 2)..n
    <2>1. PICK i \in 1..Len(q) : q[i].kind = "item" /\ q[i].n = x
      BY DEF Rest
    <2>2. i # 1
      BY <1>4, <2>1
    <2>3. i - 1 \in 1..Len(p) /\ (i - 1) + 1 = i
      BY <1>1, <2>2
    <2> QED BY <1>1, <2>1, <2>3
  <1>8. Rest(p, k + 1, n)
    BY <1>5, <1>6, <1>7 DEF Rest
  <1> QED BY <1>1, <1>3, <1>4, <1>8 DEF p

-----------------------------------------------------------------------------
\* FailPending and every step that leaves the futures alone keep what is known of
\* the calls: no future becomes unsent.
LEMMA CallsStay ==
  ASSUME IInv, UNCHANGED <<callV, frame>>, FailPending \/ UNCHANGED futureV
  PROVE  /\ Calls'
         /\ response' \in [Requests -> {"none", "pending", "result", "lost",
                                        "unsent", "dropped"}]
         /\ sent' \subseteq Requests
  BY DEF IInv, TypeOK, PendingSent, CallsKept, UnsentDone, FailPending, Lost

\* A step that touches neither the queue nor the consumer, and never reopens the
\* transport, keeps what is known of the stream.
LEMMA QueueStays ==
  ASSUME IInv, UNCHANGED queueV, closed_flag => closed_flag'
  PROVE  QueueTyped' /\ Whole'
  <1>1. QueueTyped'
    BY DEF IInv, QueueTyped
  <1>2. Whole'
    BY DEF IInv, Whole
  <1> QED BY <1>1, <1>2

\* _cancellations holds at most _MAX_CANCEL_SENDS tasks.
LEMMA CancelsBounded ==
  ASSUME IInv, NEW r \in Requests
  PROVE  /\ Cardinality(cancels \ {r}) <= MaxCancels
         /\ Cardinality(cancels) < MaxCancels => Cardinality(cancels \cup {r}) <= MaxCancels
  <1>1. IsFiniteSet(cancels)
    <2>1. IsFiniteSet(Requests)
      BY FS_Interval DEF Requests
    <2>2. cancels \subseteq Requests
      BY DEF IInv, TypeOK
    <2> QED BY <2>1, <2>2, FS_Subset
  <1>2. Cardinality(cancels) \in Nat /\ Cardinality(cancels) <= MaxCancels
    BY <1>1, FS_CardinalityType DEF IInv, TypeOK
  <1>3. Cardinality(cancels \cup {r}) <= Cardinality(cancels) + 1
    BY <1>1, <1>2, FS_AddElement
  <1>4. Cardinality(cancels \ {r}) <= Cardinality(cancels)
    BY <1>1, <1>2, FS_RemoveElement
  <1>5. /\ Cardinality(cancels \cup {r}) \in Nat
        /\ Cardinality(cancels \ {r}) \in Nat
    BY <1>1, FS_AddElement, FS_RemoveElement, FS_CardinalityType
  <1> QED BY <1>2, <1>3, <1>4, <1>5

-----------------------------------------------------------------------------
\* _retire fails every pending future and closes the transport, whatever call
\* retires it and for whichever reason but "unsent".
LEMMA RetireKeeps ==
  ASSUME IInv, NEW r \in Requests, request[r] = "sending",
         NEW result \in {"lost", "interrupted"}, Retire(r, result)
  PROVE  TypeOK' /\ Closing' /\ Calls'
  <1> USE DEF Retire, Settle, FailPending, StartClose, End, IInv
  <1>1. TypeOK'
    <2>1. CASE closed_flag
      BY <2>1 DEF TypeOK, Lost
    <2>2. CASE ~closed_flag
      BY <2>2 DEF TypeOK, Lost
    <2> QED BY <2>1, <2>2
  <1>2. Closing'
    BY DEF Closing, TypeOK
  <1>3. Calls'
    BY DEF TypeOK, PendingSent, CallsKept, UnsentDone, Lost
  <1> QED BY <1>1, <1>2, <1>3

\* The steps of a call of request() that send its frame and settle its future.
LEMMA CallKeeps ==
  ASSUME IInv, NEW r \in Requests,
         \/ Request(r) \/ Transmit(r) \/ SendReturns(r) \/ SendFails(r)
         \/ Interrupt(r) \/ Resume(r) \/ Retired(r)
         \/ CancellationEnds(r) \/ ReadAnswer(r)
  PROVE  IInv'
  <1> USE DEF IInv
  <1>1. QueueTyped' /\ Whole'
    <2>1. UNCHANGED queueV /\ (closed_flag => closed_flag')
      BY DEF Request, Transmit, SendReturns, SendFails, Interrupt, GiveUp, Retire,
             StartClose, Resume, Retired, CancellationEnds, ReadAnswer
    <2> QED BY <2>1, QueueStays
  <1>2. CASE Request(r)
    <2> USE <1>2 DEF Request, End, MarkSent
    <2>1. TypeOK'
      BY DEF TypeOK
    <2>2. Closing'
      BY DEF Closing
    <2>3. Calls'
      BY DEF TypeOK, PendingSent, CallsKept, UnsentDone
    <2> QED BY <1>1, <2>1, <2>2, <2>3
  <1>3. CASE Transmit(r)
    <2> USE <1>3 DEF Transmit
    <2>1. TypeOK' /\ Closing'
      BY DEF TypeOK, Closing
    <2>2. Calls'
      BY DEF TypeOK, PendingSent, CallsKept, UnsentDone
    <2> QED BY <1>1, <2>1, <2>2
  <1>4. CASE SendReturns(r)
    <2> USE <1>4 DEF SendReturns
    <2>1. TypeOK' /\ Closing'
      BY DEF TypeOK, Closing
    <2>2. Calls'
      BY DEF TypeOK, PendingSent, CallsKept, UnsentDone
    <2> QED BY <1>1, <2>1, <2>2
  <1>5. CASE SendFails(r)
    BY <1>1, <1>5, RetireKeeps DEF SendFails
  <1>6. CASE Interrupt(r)
    <2>1. CASE request[r] = "sending" /\ Retire(r, "interrupted")
      BY <1>1, <2>1, RetireKeeps
    <2>2. CASE request[r] = "waiting" /\ GiveUp(r)
      <3> USE <2>2 DEF GiveUp, End, Forget
      <3>1. /\ cancels' \subseteq Requests
            /\ Cardinality(cancels') <= MaxCancels
        BY CancelsBounded DEF TypeOK
      <3>0. TypeOK'
        BY <3>1 DEF TypeOK
      <3>2. Closing'
        BY DEF Closing
      <3>3. Calls'
        BY DEF TypeOK, PendingSent, CallsKept, UnsentDone
      <3> QED BY <1>1, <3>0, <3>2, <3>3
    <2> QED BY <1>6, <2>1, <2>2 DEF Interrupt
  <1>7. CASE Resume(r)
    <2> USE <1>7 DEF Resume, End, Forget
    <2>1. TypeOK'
      BY DEF TypeOK, CallsKept
    <2>2. Closing'
      BY DEF Closing
    <2>3. Calls'
      BY DEF TypeOK, PendingSent, CallsKept, UnsentDone
    <2> QED BY <1>1, <2>1, <2>2, <2>3
  <1>8. CASE Retired(r)
    <2> USE <1>8 DEF Retired, End
    <2>1. TypeOK'
      BY DEF TypeOK
    <2>2. Closing'
      BY DEF Closing
    <2>3. Calls'
      BY DEF TypeOK, PendingSent, CallsKept, UnsentDone
    <2> QED BY <1>1, <2>1, <2>2, <2>3
  <1>9. CASE CancellationEnds(r)
    <2> USE <1>9 DEF CancellationEnds
    <2>1. TypeOK' /\ Closing'
      BY CancelsBounded DEF TypeOK, Closing
    <2>2. Calls'
      BY CallsStay
    <2> QED BY <1>1, <2>1, <2>2
  <1>10. CASE ReadAnswer(r)
    <2> USE <1>10 DEF ReadAnswer
    <2>1. TypeOK' /\ Closing'
      BY DEF TypeOK, Closing
    <2>2. Calls'
      BY DEF TypeOK, PendingSent, CallsKept, UnsentDone
    <2> QED BY <1>1, <2>1, <2>2
  <1> QED BY <1>2, <1>3, <1>4, <1>5, <1>6, <1>7, <1>8, <1>9, <1>10

\* close() and the tasks that answer the server leave calls and queue alone, but
\* for the futures that are still pending when close() is done.
LEMMA CloseKeeps ==
  ASSUME IInv,
         \/ Close \/ CloseSocket \/ SocketClosed \/ CloseInterrupted
         \/ JoinInterrupted \/ Joined \/ ReadServerRequest \/ AnswerEnds
         \/ ReaderCloses
  PROVE  IInv'
  <1> USE DEF IInv
  <1>1. QueueTyped' /\ Whole'
    <2>1. UNCHANGED queueV /\ (closed_flag => closed_flag')
      BY DEF StartJoining, StartClose, Close, CloseSocket, SocketClosed, CloseInterrupted,
             JoinInterrupted, Joined, ReadServerRequest, AnswerEnds, ReaderCloses
    <2> QED BY <2>1, QueueStays
  <1>2. /\ Calls' /\ sent' \subseteq Requests
        /\ response' \in [Requests -> {"none", "pending", "result", "lost",
                                       "unsent", "dropped"}]
    <2>1. UNCHANGED <<callV, frame>> /\ (FailPending \/ UNCHANGED futureV)
      BY DEF StartJoining, StartClose, Close, CloseSocket, SocketClosed, CloseInterrupted,
             JoinInterrupted, Joined, ReadServerRequest, AnswerEnds, ReaderCloses
    <2> QED BY <2>1, CallsStay
  <1>3. CASE SocketClosed
    <2>1. StartJoining("joining") \/ StartJoining("joining_failed")
      BY <1>3 DEF SocketClosed
    <2>2. closed_flag /\ socket' \in {"open", "closed"} /\ UNCHANGED interrupted
      BY <1>3 DEF SocketClosed, Closing
    <2>3. /\ stopping' \in BOOLEAN
          /\ answering' \in {"none", "sending", "cancelled"}
          /\ closer' \in {"none", "cancelling", "socket", "joining", "joining_failed", "done"}
      BY <2>1 DEF StartJoining, CancelAnswer, TypeOK
    <2>4. UNCHANGED <<callV, futureV, frame, cancels, closed_flag, closed,
                      reader, queueV, interrupted>>
      BY <2>1, <2>2 DEF StartJoining
    <2>5. socket' \in {"open", "closed"}
      BY <2>2
    <2>6. TypeOK'
      BY <2>3, <2>4, <2>5 DEF TypeOK
    <2>7. Closing'
      BY <2>1, <2>2, <2>3 DEF StartJoining, Closing
    <2> QED BY <1>1, <1>2, <2>6, <2>7
  <1>4. CASE CloseInterrupted
    <2>1. StartJoining("joining")
      BY <1>4 DEF CloseInterrupted
    <2>2. closed_flag /\ interrupted' \in BOOLEAN /\ UNCHANGED socket
      BY <1>4 DEF CloseInterrupted, Closing
    <2>3. /\ stopping' \in BOOLEAN
          /\ answering' \in {"none", "sending", "cancelled"}
      BY <2>1 DEF StartJoining, CancelAnswer, TypeOK
    <2>4. UNCHANGED <<callV, futureV, frame, cancels, closed_flag, closed,
                      reader, queueV, socket>>
      BY <2>1, <2>2 DEF StartJoining
    <2>5. interrupted' \in BOOLEAN
      BY <2>2
    <2>6. closer' \in {"none", "cancelling", "socket", "joining", "joining_failed", "done"}
      BY <2>1 DEF StartJoining
    <2>7. TypeOK'
      BY <2>3, <2>4, <2>5, <2>6 DEF TypeOK
    <2>8. Closing'
      BY <2>1, <2>2, <2>3 DEF StartJoining, Closing
    <2> QED BY <1>1, <1>2, <2>7, <2>8
  <1>5. CASE Close
    BY <1>1, <1>2, <1>5 DEF Close, StartClose, TypeOK, Closing
  <1>6. CASE CloseSocket
    BY <1>1, <1>2, <1>6 DEF CloseSocket, TypeOK, Closing
  <1>7. CASE JoinInterrupted
    BY <1>1, <1>2, <1>7 DEF JoinInterrupted, TypeOK, Closing
  <1>8. CASE Joined
    <2>1. closed' \in {"pending", "clean", "failed"}
      BY <1>8 DEF Joined, Settle, TypeOK
    <2>2. TypeOK' /\ Closing'
      BY <1>2, <1>8, <2>1 DEF Joined, TypeOK, Closing
    <2> QED BY <1>1, <1>2, <2>2
  <1>9. CASE ReadServerRequest \/ AnswerEnds
    <2>1. /\ answering' \in {"none", "sending"}
          /\ UNCHANGED <<callV, frame, cancels, closed_flag, closed, closeV, readV,
                         queueV, socket>>
      BY <1>9 DEF ReadServerRequest, AnswerEnds
    <2>2. TypeOK' /\ Closing'
      BY <1>2, <2>1 DEF TypeOK, Closing
    <2> QED BY <1>1, <1>2, <2>2
  <1>10. CASE ReaderCloses
    <2>1. TypeOK'
      BY <1>2, <1>10 DEF ReaderCloses, TypeOK
    <2>2. Closing'
      BY <1>10 DEF ReaderCloses, Closing
    <2> QED BY <1>1, <1>2, <2>1, <2>2
  <1> QED BY <1>3, <1>4, <1>5, <1>6, <1>7, <1>8, <1>9, <1>10

-----------------------------------------------------------------------------
\* What _receive does to everything but the queue when it leaves its loop with a
\* failure, or goes on.
LEMMA ReaderGoesOnOrFails ==
  ASSUME IInv, ReaderFails \/ KeepReading
  PROVE  /\ Calls' /\ sent' \subseteq Requests
         /\ response' \in [Requests -> {"none", "pending", "result", "lost",
                                        "unsent", "dropped"}]
         /\ UNCHANGED <<callV, frame, cancels, closed, closeV, stopping>>
         /\ answering' \in {"none", "sending", "cancelled"}
         /\ closed_flag' \in BOOLEAN /\ (closed_flag => closed_flag')
         /\ reader' \in {"reading", "failing", "closing", "ended", "cut"}
         /\ Closing'
  <1> USE DEF IInv
  <1>1. CASE ReaderFails
    <2>1. UNCHANGED <<callV, frame>> /\ FailPending
      BY <1>1 DEF ReaderFails
    <2> QED BY <1>1, <2>1, CallsStay DEF ReaderFails, CancelAnswer, TypeOK, Closing
  <1>2. CASE KeepReading
    <2>1. UNCHANGED <<callV, frame, futureV>>
      BY <1>2 DEF KeepReading
    <2> QED BY <1>2, <2>1, CallsStay DEF KeepReading, TypeOK, Closing
  <1> QED BY <1>1, <1>2

\* _notify: the queue stays within its bound, and only a notification that belongs
\* to no stream makes room for another one of its kind.
LEMMA NotifyQueue ==
  ASSUME IInv, NEW m \in Messages, Notify(m)
  PROVE  /\ Len(queue') <= MaxQueue
         /\ ReaderFails \/ KeepReading
         /\ \/ queue' = queue /\ (ReaderFails \/ ~listener)
            \/ queue' = <<>> /\ ReaderFails
            \/ queue' = Append(queue, m)
            \/ /\ queue' = Append(Tail(queue), m) /\ queue # <<>>
               /\ m.kind # "item" /\ Head(queue).kind # "item"
  <1>1. /\ queue \in Seq(Messages) /\ Len(queue) \in Nat /\ Len(queue) <= MaxQueue
        /\ MaxQueue \in Nat \ {0}
    BY DEF IInv, QueueTyped, Typed, TypeOK
  <1>2. CASE ~listener /\ UNCHANGED queue /\ KeepReading
    BY <1>1, <1>2
  <1>3. CASE listener /\ ~Full /\ queue' = Append(queue, m) /\ KeepReading
    BY <1>1, <1>3, AppendAt DEF Full
  <1>4. CASE listener /\ Full /\ OnOverflow = "close" /\ UNCHANGED queue /\ ReaderFails
    BY <1>1, <1>4
  <1>5. CASE /\ listener /\ Full
             /\ IF LosesStream(m) THEN queue' = <<>> /\ ReaderFails
                ELSE queue' = Append(Tail(queue), m) /\ KeepReading
    <2>1. queue # <<>>
      BY <1>1, <1>5 DEF Full
    <2>2. Tail(queue) \in Seq(Messages) /\ Len(Tail(queue)) = Len(queue) - 1
      BY <1>1, <2>1, TailAt
    <2>3. Len(Append(Tail(queue), m)) = Len(queue)
      BY <1>1, <2>2, AppendAt
    <2>4. Len(<<>>) = 0
      OBVIOUS
    <2> QED BY <1>1, <1>5, <2>1, <2>3, <2>4 DEF LosesStream
  <1> QED BY <1>2, <1>3, <1>4, <1>5 DEF Notify

\* A message of the stream is kept in its place, or the transport is closed.
LEMMA ItemKeeps ==
  ASSUME IInv, ReadItem
  PROVE  IInv'
  <1> USE DEF IInv
  <1>1. /\ listener /\ items' = items + 1 /\ Notify(Item(items + 1))
        /\ items < MaxItems /\ items \in Nat /\ items' \in 0..MaxItems
        /\ UNCHANGED <<listener, plain, taken, consumer, socket>>
    BY DEF ReadItem, TypeOK
  <1>2. Item(items + 1) \in Messages /\ Item(items + 1).kind = "item"
    BY <1>1 DEF Item, Messages
  <1>3. /\ Len(queue') <= MaxQueue
        /\ ReaderFails \/ KeepReading
        /\ \/ queue' = queue /\ ReaderFails
           \/ queue' = <<>> /\ ReaderFails
           \/ queue' = Append(queue, Item(items + 1))
    BY <1>1, <1>2, NotifyQueue
  <1>4. TypeOK'
    <2>1. taken' \subseteq 1..items'
      BY <1>1 DEF TypeOK
    <2> QED BY <1>1, <1>3, <2>1, ReaderGoesOnOrFails DEF TypeOK
  <1>5. QueueTyped'
    <2>1. CASE queue' = queue
      BY <1>1, <2>1 DEF QueueTyped, Typed
    <2>2. CASE queue' = <<>>
      BY <2>2 DEF QueueTyped, Typed
    <2>3. CASE queue' = Append(queue, Item(items + 1))
      BY <1>1, <2>3, AppendNext DEF QueueTyped
    <2> QED BY <1>3, <2>1, <2>2, <2>3
  <1>6. Whole'
    <2> SUFFICES ASSUME ~closed_flag'
                 PROVE  \E k \in 0..items' : taken' = 1..k /\ Rest(queue', k, items')
      BY DEF Whole
    <2>1. queue' = Append(queue, Item(items + 1))
      BY <1>3 DEF ReaderFails
    <2>2. ~closed_flag
      BY <1>3, ReaderGoesOnOrFails
    <2>3. PICK k \in 0..items : taken = 1..k /\ Rest(queue, k, items)
      BY <2>2 DEF Whole
    <2>4. Rest(queue', k, items')
      BY <1>1, <2>1, <2>3, AppendNext DEF QueueTyped
    <2> QED BY <1>1, <2>3, <2>4
  <1> QED BY <1>3, <1>4, <1>5, <1>6, ReaderGoesOnOrFails

\* A notification that belongs to no stream disturbs no message of the stream.
LEMMA PlainKeeps ==
  ASSUME IInv, ReadPlain
  PROVE  IInv'
  <1> USE DEF IInv
  <1> DEFINE m == Other("plain")
  <1>1. /\ items' = items /\ Notify(m) /\ items \in Nat
        /\ plain' \in 0..MaxPlain
        /\ UNCHANGED <<listener, items, taken, consumer, socket>>
    BY DEF ReadPlain, TypeOK
  <1>2. m \in Messages /\ m.kind # "item"
    BY DEF Other, Messages
  <1> HIDE DEF m
  <1>3. /\ Len(queue') <= MaxQueue
        /\ ReaderFails \/ KeepReading
        /\ \/ queue' = queue
           \/ queue' = <<>> /\ ReaderFails
           \/ queue' = Append(queue, m)
           \/ /\ queue' = Append(Tail(queue), m) /\ queue # <<>>
              /\ Head(queue).kind # "item"
    BY <1>1, <1>2, NotifyQueue
  <1>4. TypeOK'
    BY <1>1, <1>3, ReaderGoesOnOrFails DEF TypeOK
  <1>5. QueueTyped' /\ (~closed_flag' => \A k \in Nat : Rest(queue, k, items)
                                                  => Rest(queue', k, items))
    <2>1. Typed(queue, items)
      BY DEF QueueTyped
    <2>2. CASE queue' = queue
      BY <1>1, <2>1, <2>2 DEF QueueTyped
    <2>3. CASE queue' = <<>> /\ ReaderFails
      BY <2>3 DEF QueueTyped, Typed, ReaderFails
    <2>4. CASE queue' = Append(queue, m)
      BY <1>1, <1>2, <2>1, <2>4, AppendOther DEF QueueTyped
    <2>5. CASE /\ queue' = Append(Tail(queue), m) /\ queue # <<>>
               /\ Head(queue).kind # "item"
      <3>1. /\ Typed(Tail(queue), items)
            /\ \A k \in Nat : Rest(queue, k, items) => Rest(Tail(queue), k, items)
        BY <1>1, <2>1, <2>5, DropOther
      <3> QED BY <1>1, <1>2, <2>5, <3>1, AppendOther DEF QueueTyped
    <2> QED BY <1>3, <2>2, <2>3, <2>4, <2>5
  <1>6. Whole'
    <2> SUFFICES ASSUME ~closed_flag'
                 PROVE  \E k \in 0..items' : taken' = 1..k /\ Rest(queue', k, items')
      BY DEF Whole
    <2>1. ~closed_flag
      BY <1>3, ReaderGoesOnOrFails
    <2>2. PICK k \in 0..items : taken = 1..k /\ Rest(queue, k, items)
      BY <2>1 DEF Whole
    <2> QED BY <1>1, <1>5, <2>2
  <1> QED BY <1>3, <1>4, <1>5, <1>6, ReaderGoesOnOrFails

\* _finish_notifications makes room for the terminal in a full queue.
LEMMA TerminalQueued ==
  ASSUME IInv, NEW k \in {"ended", "failure"}, FinishNotifications(k), UNCHANGED items
  PROVE  QueueTyped' /\ Len(queue') <= MaxQueue
  <1> DEFINE m == Other(k)
  <1>1. m \in Messages /\ m.kind # "item"
    BY DEF Other, Messages
  <1>2. /\ queue \in Seq(Messages) /\ Len(queue) \in Nat /\ Len(queue) <= MaxQueue
        /\ Typed(queue, items) /\ items \in Nat /\ MaxQueue \in Nat \ {0}
        /\ queue' = Append(IF Full THEN Tail(queue) ELSE queue, m)
    BY DEF IInv, QueueTyped, Typed, TypeOK, FinishNotifications
  <1> HIDE DEF m
  <1>3. CASE Full
    <2>1. queue # <<>>
      BY <1>2, <1>3 DEF Full
    <2>2. /\ Tail(queue) \in Seq(Messages) /\ Len(Tail(queue)) = Len(queue) - 1
          /\ Typed(Tail(queue), items)
      BY <1>2, <2>1, TailAt, DropOther
    <2>3. Typed(queue', items) /\ Len(queue') = Len(queue)
      BY <1>1, <1>2, <1>3, <2>2, AppendOther, AppendAt
    <2> QED BY <1>2, <2>3 DEF QueueTyped
  <1>4. CASE ~Full
    <2>1. Typed(queue', items) /\ Len(queue') = Len(queue) + 1
      BY <1>1, <1>2, <1>4, AppendOther, AppendAt
    <2> QED BY <1>2, <1>4, <2>1 DEF QueueTyped, Full
  <1> QED BY <1>3, <1>4

\* _receive that leaves its loop with a failure, ends, is cancelled or is cut short
\* in its cleanup: the transport is closed, so nothing is promised of the stream.
LEMMA ReaderKeeps ==
  ASSUME IInv, ReadFails \/ ReaderEnds \/ ReaderStops
  PROVE  IInv'
  <1> USE DEF IInv
  <1>1. CASE ReadFails
    <2>1. /\ ReaderFails /\ UNCHANGED queueV /\ closed_flag' = TRUE
          /\ socket' \in {"open", "closed"}
      BY <1>1 DEF ReadFails, ReaderFails, TypeOK
    <2>2. QueueTyped' /\ Whole'
      BY <2>1, QueueStays
    <2>3. TypeOK'
      BY <2>1, ReaderGoesOnOrFails DEF TypeOK
    <2> QED BY <2>1, <2>2, <2>3, ReaderGoesOnOrFails
  <1>2. CASE ReaderEnds
    <2>1. closed_flag /\ UNCHANGED closed_flag
      BY <1>2 DEF ReaderEnds, Closing
    <2>2. QueueTyped' /\ Len(queue') <= MaxQueue
      BY <1>2, TerminalQueued DEF ReaderEnds
    <2>3. Calls' /\ Whole'
      BY <1>2, <2>1, CallsStay DEF ReaderEnds, Whole
    <2>4. TypeOK'
      <3>1. closed' \in {"pending", "clean", "failed"}
        BY <1>2 DEF ReaderEnds, Settle, TypeOK
      <3> QED BY <1>2, <2>2, <3>1 DEF ReaderEnds, TypeOK
    <2>5. Closing'
      BY <1>2, <2>1 DEF ReaderEnds, Closing
    <2> QED BY <2>2, <2>3, <2>4, <2>5
  <1>3. CASE stopping /\ reader = "reading" /\ ReaderCancelled
    <2>1. closed_flag /\ UNCHANGED closed_flag
      BY <1>3 DEF ReaderCancelled, Closing
    <2>2. QueueTyped' /\ Len(queue') <= MaxQueue
      BY <1>3, TerminalQueued DEF ReaderCancelled
    <2>3. Calls' /\ Whole'
      BY <1>3, <2>1, CallsStay DEF ReaderCancelled, Whole
    <2>4. TypeOK'
      <3>1. closed' \in {"pending", "clean", "failed"}
        BY <1>3 DEF ReaderCancelled, Settle, TypeOK
      <3>2. /\ UNCHANGED <<callV, futureV, frame, taskV, closed_flag, closeV, listener,
                           items, plain, taken, consumer, socket>>
            /\ reader' \in {"reading", "failing", "closing", "ended", "cut"}
            /\ stopping' \in BOOLEAN
        BY <1>3 DEF ReaderCancelled
      <3> QED BY <2>2, <3>1, <3>2 DEF TypeOK
    <2>5. Closing'
      BY <1>3, <2>1 DEF ReaderCancelled, Closing
    <2> QED BY <2>2, <2>3, <2>4, <2>5
  <1>4. CASE stopping /\ ReaderCut
    <2>1. closed_flag /\ UNCHANGED <<queueV, closed_flag>>
      BY <1>4 DEF ReaderCut, Closing
    <2>2. Calls' /\ QueueTyped' /\ Whole'
      BY <1>4, <2>1, CallsStay, QueueStays DEF ReaderCut
    <2>3. TypeOK'
      <3>1. /\ UNCHANGED <<request, outcome, response, sent, frame, cancels, answering,
                           closed_flag, closed, closer, interrupted, queue, listener,
                           items, plain, taken, consumer, socket>>
            /\ reader' \in {"reading", "failing", "closing", "ended", "cut"}
            /\ stopping' \in BOOLEAN
        BY <1>4 DEF ReaderCut
      <3> QED BY <3>1 DEF TypeOK
    <2>4. Closing'
      BY <1>4, <2>1 DEF ReaderCut, Closing
    <2> QED BY <2>2, <2>3, <2>4
  <1> QED BY <1>1, <1>2, <1>3, <1>4 DEF ReaderStops

\* The iterator of notifications() takes the next message of the stream, or one
\* that belongs to no stream.
LEMMA ConsumerKeeps ==
  ASSUME IInv, Listen \/ Take
  PROVE  IInv'
  <1> USE DEF IInv
  <1>1. CASE Listen
    <2>1. QueueTyped' /\ Whole' /\ Calls'
      BY <1>1, CallsStay DEF Listen, QueueTyped, Whole
    <2>2. TypeOK' /\ Closing'
      BY <1>1 DEF Listen, TypeOK, Closing
    <2> QED BY <2>1, <2>2
  <1>2. CASE Take
    <2> DEFINE m == Head(queue)
    <2>1. /\ queue # <<>> /\ queue' = Tail(queue)
          /\ taken' = IF m.kind = "item" THEN taken \cup {m.n} ELSE taken
          /\ consumer' = IF m.kind \in {"ended", "failure"} THEN m.kind ELSE consumer
          /\ UNCHANGED <<callV, futureV, frame, taskV, closed_flag, closed, closeV,
                         readV, listener, items, plain, socket>>
      BY <1>2 DEF Take
    <2>2. /\ Typed(queue, items) /\ items \in Nat /\ queue \in Seq(Messages)
          /\ Len(queue) \in Nat \ {0} /\ m = queue[1] /\ m \in Messages
          /\ Len(Tail(queue)) = Len(queue) - 1
      BY <2>1, TailAt DEF QueueTyped, Typed, TypeOK
    <2>3. m.kind = "item" => m.n \in 1..items
      BY <2>2 DEF Typed
    <2> HIDE DEF m
    <2>4. QueueTyped'
      BY <2>1, <2>2, DropOther DEF QueueTyped
    <2>5. /\ Len(queue') <= MaxQueue /\ taken' \subseteq 1..items
          /\ consumer' \in {"idle", "waiting", "ended", "failure"}
      <3>1. Len(queue') <= MaxQueue
        BY <2>1, <2>2 DEF TypeOK
      <3>2. taken' \subseteq 1..items
        BY <2>1, <2>3 DEF TypeOK
      <3>3. consumer' \in {"idle", "waiting", "ended", "failure"}
        BY <2>1 DEF TypeOK
      <3> QED BY <3>1, <3>2, <3>3
    <2>6. TypeOK' /\ Closing' /\ Calls'
      BY <2>1, <2>5, CallsStay DEF TypeOK, Closing
    <2>7. Whole'
      <3> SUFFICES ASSUME ~closed_flag
                   PROVE  \E k \in 0..items : taken' = 1..k /\ Rest(queue', k, items)
        BY <2>1 DEF Whole
      <3>1. PICK k \in 0..items : taken = 1..k /\ Rest(queue, k, items)
        BY DEF Whole
      <3>2. CASE m.kind # "item"
        <4>1. Rest(queue', k, items)
          BY <2>1, <2>2, <3>1, <3>2, DropOther DEF m
        <4> QED BY <2>1, <3>1, <3>2, <4>1
      <3>3. CASE m.kind = "item"
        <4>1. m.n = k + 1 /\ k + 1 \in 0..items /\ Rest(queue', k + 1, items)
          BY <2>1, <2>2, <3>1, <3>3, DropNext DEF m
        <4>2. taken' = 1..(k + 1)
          BY <2>1, <2>2, <3>1, <3>3, <4>1
        <4> QED BY <4>1, <4>2
      <3> QED BY <3>2, <3>3
    <2> QED BY <2>4, <2>6, <2>7
  <1> QED BY <1>1, <1>2

-----------------------------------------------------------------------------
\* A new transport.
LEMMA InitHolds == Init => IInv
  <1> SUFFICES ASSUME Init PROVE IInv
    OBVIOUS
  <1> USE DEF Init
  <1>1. TypeOK
    <2>1. Cardinality(cancels) = 0 /\ Len(queue) = 0
      BY FS_EmptySet
    <2>2. Cardinality(cancels) <= MaxCancels /\ Len(queue) <= MaxQueue
      BY <2>1
    <2>3. items \in 0..MaxItems /\ plain \in 0..MaxPlain
      OBVIOUS
    <2>4. taken \subseteq 1..items /\ sent \subseteq Requests /\ cancels \subseteq Requests
      OBVIOUS
    <2> QED BY <2>2, <2>3, <2>4 DEF TypeOK
  <1>2. Closing /\ Calls
    BY DEF Closing, PendingSent, CallsKept, UnsentDone
  <1>3. QueueTyped
    BY DEF QueueTyped, Typed
  <1>4. Whole
    <2>1. taken = 1..0 /\ Rest(queue, 0, items) /\ 0 \in 0..items
      BY DEF Rest
    <2> QED BY <2>1 DEF Whole
  <1> QED BY <1>1, <1>2, <1>3, <1>4 DEF IInv

\* Every step of the program, the server, the socket and a caller.
LEMMA StepKeeps == IInv /\ [Next]_vars => IInv'
  <1> SUFFICES ASSUME IInv, [Next]_vars PROVE IInv'
    OBVIOUS
  <1>1. CASE UNCHANGED vars
    <2>1. QueueTyped' /\ Whole' /\ Calls'
      BY <1>1, CallsStay, QueueStays DEF vars
    <2> QED BY <1>1, <2>1 DEF vars, IInv, TypeOK, Closing
  <1>2. CASE \E r \in Requests :
               \/ Request(r) \/ Transmit(r) \/ SendReturns(r) \/ SendFails(r)
               \/ Interrupt(r) \/ Resume(r) \/ Retired(r)
               \/ CancellationEnds(r) \/ ReadAnswer(r)
    BY <1>2, CallKeeps
  <1>3. CASE Over
    BY <1>1, <1>3 DEF Over
  <1>4. CASE \/ Close \/ CloseSocket \/ SocketClosed \/ CloseInterrupted
             \/ JoinInterrupted \/ Joined \/ ReadServerRequest \/ AnswerEnds
             \/ ReaderCloses
    BY <1>4, CloseKeeps
  <1>5. CASE ReadItem \/ ReadPlain
    BY <1>5, ItemKeeps, PlainKeeps
  <1>6. CASE ReadFails \/ ReaderEnds \/ ReaderStops
    BY <1>6, ReaderKeeps
  <1>7. CASE Listen \/ Take
    BY <1>7, ConsumerKeeps
  <1> QED BY <1>1, <1>2, <1>3, <1>4, <1>5, <1>6, <1>7 DEF Next

\* The inductive invariant of the transport holds in every behaviour.
LEMMA Invariance == Spec => []IInv
  BY InitHolds, StepKeeps, PTL DEF Spec

\* The state of WebSocketTransport is typed: in particular the queue stays within
\* notification_queue_size, _cancellations within _MAX_CANCEL_SENDS, and the
\* consumer only ever takes messages that were received.
THEOREM TypeCorrect == Spec => []TypeOK
  BY Invariance, PTL DEF IInv

\* request: an error with sent = False is only raised for a call whose frame has
\* not reached the server and never will.
THEOREM UnsentNeverSent == Spec => []UnsentStaysUnsent
  <1>1. IInv => UnsentStaysUnsent
    BY DEF IInv, UnsentDone, UnsentStaysUnsent
  <1> QED BY <1>1, Invariance, PTL

\* _receive, _notify: while the transport is open its consumer has taken a prefix
\* of the stream, whatever the size of the queue and its overflow policy.
THEOREM OpenMeansNoGap == Spec => []NoGapWhileOpen
  <1>1. IInv => NoGapWhileOpen
    <2> SUFFICES ASSUME IInv, ~closed_flag PROVE taken = 1..Cardinality(taken)
      BY DEF NoGapWhileOpen
    <2>1. PICK k \in 0..items : taken = 1..k
      BY DEF IInv, Whole
    <2>2. items \in Nat
      BY DEF IInv, TypeOK
    <2>3. Cardinality(1..k) = k
      BY <2>2, FS_Interval
    <2> QED BY <2>1, <2>3
  <1> QED BY <1>1, Invariance, PTL

\* _cancel_request, _resolve_response: the end of a call that waits, and an answer
\* that comes too late, leave the transport open and the other futures alone.
THEOREM WaitersHarmless == Spec => InterruptionHarmless
  <1> DEFINE Harmless ==
        \A r \in Requests :
          (\/ request[r] = "waiting" /\ request'[r] # "waiting"
           \/ frame[r] = "received" /\ frame'[r] = "answered")
            => /\ UNCHANGED <<closed_flag, closed, reader>>
               /\ \A q \in Requests \ {r} : response'[q] = response[q]
  <1>1. IInv /\ [Next]_vars => [Harmless]_vars
    <2> SUFFICES ASSUME IInv, Next PROVE Harmless
      OBVIOUS
    <2>1. CASE UNCHANGED <<callV, frame>>
      BY <2>1
    <2>2. ASSUME NEW r \in Requests, Retire(r, "lost") \/ Retire(r, "interrupted"),
                 request[r] = "sending"
          PROVE  Harmless
      BY <2>2 DEF Retire, End, IInv, TypeOK
    <2>3. ASSUME NEW r \in Requests,
                 \/ Request(r) \/ Transmit(r) \/ SendReturns(r) \/ Retired(r)
                 \/ CancellationEnds(r)
          PROVE  Harmless
      BY <2>3 DEF Request, Transmit, SendReturns, Retired, CancellationEnds, End, IInv,
                  TypeOK
    <2>4. ASSUME NEW r \in Requests, GiveUp(r) \/ Resume(r) \/ ReadAnswer(r)
          PROVE  Harmless
      BY <2>4 DEF GiveUp, Resume, ReadAnswer, End, Forget, IInv, TypeOK
    <2>5. CASE \E r \in Requests :
                 \/ Request(r) \/ Transmit(r) \/ SendReturns(r) \/ SendFails(r)
                 \/ Interrupt(r) \/ Resume(r) \/ Retired(r)
                 \/ CancellationEnds(r) \/ ReadAnswer(r)
      BY <2>2, <2>3, <2>4, <2>5 DEF SendFails, Interrupt
    <2>6. CASE \/ Close \/ CloseSocket \/ SocketClosed \/ CloseInterrupted
               \/ JoinInterrupted \/ Joined \/ ReadServerRequest \/ AnswerEnds
               \/ ReaderCloses
      BY <2>1, <2>6 DEF Close, CloseSocket, SocketClosed, CloseInterrupted, StartJoining,
                        JoinInterrupted, Joined, ReadServerRequest, AnswerEnds, ReaderCloses
    <2>7. CASE ReadItem \/ ReadPlain
      BY <2>1, <2>7 DEF ReadItem, ReadPlain, Notify, KeepReading, ReaderFails
    <2>8. CASE \/ ReadFails \/ ReaderEnds \/ ReaderStops \/ Listen \/ Take \/ Over
      BY <2>1, <2>8 DEF ReadFails, ReaderFails, ReaderEnds, ReaderStops, ReaderCancelled,
                        ReaderCut, Listen, Take, Over, vars
    <2> QED BY <2>5, <2>6, <2>7, <2>8 DEF Next
  <1>2. IInv /\ [Next]_vars => [Harmless]_vars
    BY <1>1
  <1>3. Spec => [][Harmless]_vars
    BY <1>2, Invariance, PTL DEF Spec
  <1> QED BY <1>3 DEF InterruptionHarmless

=============================================================================
