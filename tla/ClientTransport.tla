--------------------------- MODULE ClientTransport ---------------------------
(***************************************************************************)
(* One socket of the generated Python client: WebSocketTransport of        *)
(* codegen/templates/python/transport.py.j2.  Tasks of callers send        *)
(* requests and wait for their answers, one reader receives everything the *)
(* server sends, close() may be called by the application or by a request  *)
(* that retires the transport, and one consumer (the notification pump of  *)
(* the client) takes messages from a bounded queue.                        *)
(*                                                                         *)
(* The server and the socket are external: a frame may reach the server    *)
(* although its send fails, an answer may come at any time after that, and *)
(* a close may take long or fail.  The stream has MaxItems messages, the   *)
(* last of them is its completion.                                         *)
(***************************************************************************)
EXTENDS Naturals, Sequences, FiniteSets

CONSTANTS
  MaxRequests, \* bound on the calls of request()
  MaxItems,    \* messages of the stream
  MaxPlain,    \* bound on the notifications that belong to no stream
  MaxQueue,    \* notification_queue_size
  MaxCancels,  \* _MAX_CANCEL_SENDS
  OnOverflow,  \* notification_overflow
  Faults       \* the environment events that may happen

Requests == 1..MaxRequests

FaultKinds == {"send_failure", "interrupt", "disconnect", "malformed",
               "server_request", "close", "close_failure"}

ASSUME TransportAssumption ==
  /\ MaxRequests \in Nat /\ MaxItems \in Nat /\ MaxPlain \in Nat
  /\ MaxQueue \in Nat \ {0} /\ MaxCancels \in Nat \ {0}
  /\ OnOverflow \in {"drop_oldest", "close"} /\ Faults \subseteq FaultKinds

VARIABLES
  request,     \* the task of a call
  outcome,     \* what the call returned or raised
  response,    \* the future in _pending
  sent,        \* _sent
  frame,       \* what the server did with the frame of a request
  cancels,     \* requests with a task in _cancellations
  answering,   \* the task in _answers that declines a server's request
  closed_flag, \* _closed
  closed,      \* the future closed: pending, clean or failed
  closer,      \* the call of close() that found _closed unset
  interrupted, \* that call was cancelled
  reader,      \* the task _receive
  stopping,    \* the reader was cancelled
  queue,       \* _notifications
  listener,    \* _notification_listener
  items,       \* messages of the stream received so far
  plain,       \* other notifications received so far
  taken,       \* messages of the stream the consumer has taken
  consumer,    \* the iterator returned by notifications()
  socket       \* open or closed

callV   == <<request, outcome>>
futureV == <<response, sent>>
taskV   == <<cancels, answering>>
closeV  == <<closer, interrupted>>
readV   == <<reader, stopping>>
queueV  == <<queue, listener, items, plain, taken, consumer>>
vars == <<callV, futureV, frame, taskV, closed_flag, closed, closeV, readV,
          queueV, socket>>

-----------------------------------------------------------------------------
Item(n)   == [kind |-> "item", n |-> n]
Other(k)  == [kind |-> k, n |-> 0]   \* plain, ended, failure

Full == Len(queue) >= MaxQueue
ReaderDone == reader \in {"ended", "cut"}

Lost(r) == IF r \in sent THEN "lost" ELSE "unsent"

\* _pending is emptied and nobody is told.
BadFailPending == sent' = {} /\ UNCHANGED response
FailPending ==
  /\ response' = [r \in Requests |-> IF response[r] = "pending" THEN Lost(r)
                                     ELSE response[r]]
  /\ sent' = {}

Settle(result) == closed' = IF closed = "pending" THEN result ELSE closed

\* The call ends; its finally clause forgets the future.
End(r, result) ==
  /\ request' = [request EXCEPT ![r] = "done"]
  /\ outcome' = [outcome EXCEPT ![r] = result]

Forget(r) ==
  /\ response' = [response EXCEPT ![r] = IF @ = "pending" THEN "dropped" ELSE @]
  /\ sent' = sent \ {r}

StartClose ==
  /\ closed_flag' = TRUE /\ closer' = "cancelling"
  /\ UNCHANGED interrupted

CancelAnswer == answering' = IF answering = "sending" THEN "cancelled" ELSE answering

\* No room is made for the terminal.
BadFinishNotifications(terminal) == queue' = Append(queue, Other(terminal))

\* The terminal takes the place of the oldest message of a full queue.
FinishNotifications(terminal) ==
  queue' = Append(IF Full THEN Tail(queue) ELSE queue, Other(terminal))

Init ==
  /\ request = [r \in Requests |-> "none"] /\ outcome = [r \in Requests |-> "none"]
  /\ response = [r \in Requests |-> "none"] /\ sent = {}
  /\ frame = [r \in Requests |-> "none"] /\ cancels = {} /\ answering = "none"
  /\ closed_flag = FALSE /\ closed = "pending"
  /\ closer = "none" /\ interrupted = FALSE
  /\ reader = "reading" /\ stopping = FALSE
  /\ queue = <<>> /\ listener = FALSE /\ items = 0 /\ plain = 0
  /\ taken = {} /\ consumer = "idle" /\ socket = "open"

-----------------------------------------------------------------------------
(* request() *)

\* Marked as sent only once the send has returned.
BadMarkSent(r) == UNCHANGED sent
MarkSent(r) == sent' = sent \cup {r}

Request(r) ==
  /\ request[r] = "none" /\ \A q \in Requests : q < r => request[q] # "none"
  /\ IF closed_flag THEN End(r, "unsent") /\ UNCHANGED futureV
     ELSE /\ request' = [request EXCEPT ![r] = "sending"]
          /\ response' = [response EXCEPT ![r] = "pending"]
          /\ MarkSent(r) /\ UNCHANGED outcome
  /\ UNCHANGED <<frame, taskV, closed_flag, closed, closeV, readV, queueV, socket>>

\* The frame reaches the server, whatever becomes of the call that sends it.
Transmit(r) ==
  /\ request[r] = "sending" /\ frame[r] = "none" /\ socket = "open"
  /\ frame' = [frame EXCEPT ![r] = "received"]
  /\ UNCHANGED <<callV, futureV, taskV, closed_flag, closed, closeV,
                 readV, queueV, socket>>

SendReturns(r) ==
  /\ request[r] = "sending" /\ frame[r] # "none"
  /\ request' = [request EXCEPT ![r] = "waiting"]
  /\ UNCHANGED <<outcome, futureV, frame, taskV, closed_flag, closed, closeV,
                 readV, queueV, socket>>

\* _retire(failure) of a call that ends with result.
Retire(r, result) ==
  /\ Settle("failed") /\ FailPending
  /\ IF closed_flag THEN End(r, result) /\ UNCHANGED <<closed_flag, closeV>>
     ELSE /\ StartClose
          /\ request' = [request EXCEPT ![r] = "retiring"]
          /\ outcome' = [outcome EXCEPT ![r] = result]
  /\ UNCHANGED <<frame, taskV, readV, queueV, socket>>

SendFails(r) ==
  /\ request[r] = "sending"
  /\ "send_failure" \in Faults \/ socket = "closed"
  /\ Retire(r, "lost")

\* The answer is no longer waited for; the server is told, at best.
GiveUp(r) ==
  /\ End(r, "interrupted") /\ Forget(r)
  /\ cancels' = IF response[r] = "pending" /\ ~closed_flag
                   /\ Cardinality(cancels) < MaxCancels
                THEN cancels \cup {r} ELSE cancels
  /\ UNCHANGED <<frame, answering, closed_flag, closed, closeV, readV, queueV, socket>>

\* Its own deadline or its caller interrupts a call.
BadInterrupt(r) ==
  /\ "interrupt" \in Faults /\ request[r] \in {"sending", "waiting"}
  /\ Retire(r, "interrupted")
Interrupt(r) ==
  /\ "interrupt" \in Faults
  /\ \/ request[r] = "sending" /\ Retire(r, "interrupted")
     \/ request[r] = "waiting" /\ GiveUp(r)

Resume(r) ==
  /\ request[r] = "waiting" /\ response[r] # "pending"
  /\ End(r, response[r]) /\ Forget(r)
  /\ UNCHANGED <<frame, taskV, closed_flag, closed, closeV, readV, queueV, socket>>

Retired(r) ==
  /\ request[r] = "retiring" /\ closer = "done"
  /\ End(r, IF interrupted THEN "interrupted" ELSE outcome[r])
  /\ UNCHANGED <<futureV, frame, taskV, closed_flag, closed, closeV,
                 readV, queueV, socket>>

\* A best-effort $/cancelRequest was sent, failed, timed out or was cancelled.
CancellationEnds(r) ==
  /\ cancels' = cancels \ {r} /\ r \in cancels
  /\ UNCHANGED <<callV, futureV, frame, answering, closed_flag, closed, closeV,
                 readV, queueV, socket>>

-----------------------------------------------------------------------------
(* close() *)

Close ==
  /\ "close" \in Faults /\ ~closed_flag
  /\ StartClose
  /\ UNCHANGED <<callV, futureV, frame, taskV, closed, readV, queueV, socket>>

CloseSocket ==
  /\ closer = "cancelling" /\ cancels = {}
  /\ closer' = "socket"
  /\ UNCHANGED <<callV, futureV, frame, taskV, closed_flag, closed,
                 interrupted, readV, queueV, socket>>

\* The finally clause: the reader and the answers are cancelled and joined.
StartJoining(how) ==
  /\ closer' = how /\ stopping' = ~ReaderDone /\ CancelAnswer
  /\ UNCHANGED <<callV, futureV, frame, cancels, closed_flag, closed,
                 reader, queueV>>

SocketClosed ==
  /\ closer = "socket" /\ socket' = "closed"
  /\ \/ StartJoining("joining")
     \/ "close_failure" \in Faults /\ StartJoining("joining_failed")
  /\ UNCHANGED interrupted

\* The task that runs close() is cancelled in it.
CloseInterrupted ==
  /\ "interrupt" \in Faults
  /\ closer \in {"cancelling", "socket"} /\ ~interrupted
  /\ interrupted' = TRUE /\ UNCHANGED socket
  /\ StartJoining("joining")

JoinInterrupted ==
  /\ "interrupt" \in Faults /\ closer \in {"joining", "joining_failed"}
  /\ interrupted' = TRUE /\ closer' = "done"
  /\ UNCHANGED <<callV, futureV, frame, taskV, closed_flag, closed, readV,
                 queueV, socket>>

Joined ==
  /\ closer \in {"joining", "joining_failed"}
  /\ ReaderDone /\ answering = "none" /\ cancels = {}
  /\ FailPending
  /\ Settle(IF closer = "joining_failed" THEN "failed" ELSE "clean")
  /\ closer' = "done"
  /\ UNCHANGED <<callV, frame, taskV, closed_flag, interrupted, readV,
                 queueV, socket>>

-----------------------------------------------------------------------------
(* _receive() and what the server sends *)

Reading == reader = "reading" /\ ~stopping /\ socket = "open"

\* Only the future in _pending takes the answer; a late one finds none.
\* It comes in its own time.
ReadAnswer(r) ==
  /\ Reading /\ frame[r] = "received"
  /\ frame' = [frame EXCEPT ![r] = "answered"]
  /\ response' = [response EXCEPT ![r] = IF @ = "pending" THEN "result" ELSE @]
  /\ UNCHANGED <<callV, sent, taskV, closed_flag, closed, closeV, readV, queueV, socket>>

ReadServerRequest ==
  /\ Reading /\ "server_request" \in Faults /\ answering = "none" /\ ~closed_flag
  /\ answering' = "sending"
  /\ UNCHANGED <<callV, futureV, frame, cancels, closed_flag, closed, closeV,
                 readV, queueV, socket>>

AnswerEnds ==
  /\ answering # "none" /\ answering' = "none"
  /\ UNCHANGED <<callV, futureV, frame, cancels, closed_flag, closed, closeV,
                 readV, queueV, socket>>

\* _receive leaves its loop with a failure.
ReaderFails ==
  /\ reader' = "failing" /\ closed_flag' = TRUE
  /\ FailPending /\ CancelAnswer
  /\ UNCHANGED <<callV, frame, cancels, closed, closeV, stopping>>

KeepReading == UNCHANGED <<callV, futureV, frame, taskV, closed_flag, closed,
                           closeV, readV>>

\* Only a message that is itself of a stream makes the overflow a failure.
BadLosesStream(m) == m.kind = "item"
LosesStream(m) == m.kind = "item" \/ Head(queue).kind = "item"

Notify(m) ==
  \/ ~listener /\ UNCHANGED queue /\ KeepReading
  \/ listener /\ ~Full /\ queue' = Append(queue, m) /\ KeepReading
  \/ listener /\ Full /\ OnOverflow = "close" /\ UNCHANGED queue /\ ReaderFails
  \/ /\ listener /\ Full /\ OnOverflow = "drop_oldest"
     /\ IF LosesStream(m) THEN queue' = <<>> /\ ReaderFails
        ELSE queue' = Append(Tail(queue), m) /\ KeepReading

\* A stream is opened after the client has begun to listen.
ReadItem ==
  /\ Reading /\ listener /\ items < MaxItems
  /\ items' = items + 1 /\ Notify(Item(items + 1))
  /\ UNCHANGED <<listener, plain, taken, consumer, socket>>

ReadPlain ==
  /\ Reading /\ plain < MaxPlain
  /\ plain' = plain + 1 /\ Notify(Other("plain"))
  /\ UNCHANGED <<listener, items, taken, consumer, socket>>

\* The connection is lost, or a message cannot be decoded.
ReadFails ==
  /\ reader = "reading" /\ ~stopping
  /\ \/ ("disconnect" \in Faults \/ socket = "closed") /\ socket' = "closed"
     \/ "malformed" \in Faults /\ socket = "open" /\ UNCHANGED socket
  /\ ReaderFails /\ UNCHANGED queueV

ReaderCloses ==
  /\ reader = "failing" /\ answering = "none" /\ cancels = {} /\ ~stopping
  /\ reader' = "closing"
  /\ UNCHANGED <<callV, futureV, frame, taskV, closed_flag, closed, closeV,
                 stopping, queueV, socket>>

ReaderEnds ==
  /\ reader = "closing" /\ ~stopping
  /\ reader' = "ended" /\ socket' = "closed"
  /\ FinishNotifications("failure") /\ Settle("failed")
  /\ UNCHANGED <<callV, futureV, frame, taskV, closed_flag, closeV, stopping,
                 listener, items, plain, taken, consumer>>

ReaderCancelled ==
  /\ reader' = "ended" /\ stopping' = FALSE /\ Settle("clean")
  /\ FinishNotifications("ended")
  /\ UNCHANGED <<callV, futureV, frame, taskV, closed_flag, closeV, listener,
                 items, plain, taken, consumer, socket>>

\* Cancelled in its own cleanup, the reader skips the rest of it.
ReaderCut ==
  /\ reader' = "cut" /\ stopping' = FALSE
  /\ UNCHANGED <<callV, futureV, frame, taskV, closed_flag, closed, closeV,
                 queueV, socket>>

ReaderStops ==
  /\ stopping
  /\ \/ reader = "reading" /\ ReaderCancelled
     \/ reader \in {"failing", "closing"} /\ ReaderCut

-----------------------------------------------------------------------------
(* notifications() *)

Listen ==
  /\ consumer = "idle"
  /\ listener' = TRUE /\ consumer' = "waiting"
  /\ UNCHANGED <<callV, futureV, frame, taskV, closed_flag, closed, closeV, readV,
                 queue, items, plain, taken, socket>>

Take ==
  /\ consumer = "waiting" /\ queue # <<>>
  /\ LET m == Head(queue) IN
       /\ taken' = IF m.kind = "item" THEN taken \cup {m.n} ELSE taken
       /\ consumer' = IF m.kind \in {"ended", "failure"} THEN m.kind ELSE consumer
  /\ queue' = Tail(queue)
  /\ UNCHANGED <<callV, futureV, frame, taskV, closed_flag, closed, closeV, readV,
                 listener, items, plain, socket>>

-----------------------------------------------------------------------------
\* The transport is closed and nobody waits for it.
Over ==
  /\ ReaderDone /\ closer \in {"none", "done"}
  /\ \A r \in Requests : request[r] = "done"
  /\ consumer # "waiting" \/ reader = "cut"
  /\ UNCHANGED vars

\* What the program does by itself, without the server, a caller or a timer.
Progress ==
  \/ \E r \in Requests : \/ socket = "closed" /\ SendFails(r)
                         \/ Resume(r) \/ Retired(r) \/ CancellationEnds(r)
  \/ CloseSocket \/ SocketClosed \/ Joined
  \/ answering = "cancelled" /\ AnswerEnds
  \/ socket = "closed" /\ ReadFails
  \/ ReaderCloses \/ ReaderEnds \/ ReaderStops
  \/ Take

Next ==
  \/ \E r \in Requests :
       \/ Request(r) \/ Transmit(r) \/ SendReturns(r) \/ SendFails(r)
       \/ Interrupt(r) \/ Resume(r) \/ Retired(r)
       \/ CancellationEnds(r) \/ ReadAnswer(r)
  \/ Close \/ CloseSocket \/ SocketClosed \/ CloseInterrupted \/ JoinInterrupted
  \/ Joined
  \/ ReadServerRequest \/ AnswerEnds \/ ReadItem \/ ReadPlain \/ ReadFails
  \/ ReaderCloses \/ ReaderEnds \/ ReaderStops
  \/ Listen \/ Take
  \/ Over

Spec == Init /\ [][Next]_vars
FairSpec == Spec /\ WF_vars(Progress)

-----------------------------------------------------------------------------
TypeOK ==
  /\ request \in [Requests -> {"none", "sending", "waiting", "retiring", "done"}]
  /\ outcome \in [Requests -> {"none", "result", "lost", "unsent", "interrupted"}]
  /\ response \in [Requests -> {"none", "pending", "result", "lost", "unsent",
                                "dropped"}]
  /\ sent \subseteq Requests
  /\ frame \in [Requests -> {"none", "received", "answered"}]
  /\ cancels \subseteq Requests /\ Cardinality(cancels) <= MaxCancels
  /\ answering \in {"none", "sending", "cancelled"}
  /\ closed_flag \in BOOLEAN /\ closed \in {"pending", "clean", "failed"}
  /\ closer \in {"none", "cancelling", "socket", "joining", "joining_failed", "done"}
  /\ interrupted \in BOOLEAN
  /\ reader \in {"reading", "failing", "closing", "ended", "cut"}
  /\ stopping \in BOOLEAN
  /\ Len(queue) <= MaxQueue /\ listener \in BOOLEAN
  /\ items \in 0..MaxItems /\ plain \in 0..MaxPlain /\ taken \subseteq 1..items
  /\ consumer \in {"idle", "waiting", "ended", "failure"}
  /\ socket \in {"open", "closed"}

\* request: an error with sent = False, which allows the client to send the call
\* again, is only raised for a frame that has not reached the server.
UnsentStaysUnsent == \A r \in Requests : outcome[r] = "unsent" => frame[r] = "none"

\* _cancel_request, _resolve_response: a call that gives up waiting and an answer
\* that comes too late disturb neither the transport nor other calls.
InterruptionHarmless ==
  [][\A r \in Requests :
       (\/ request[r] = "waiting" /\ request'[r] # "waiting"
        \/ frame[r] = "received" /\ frame'[r] = "answered")
         => /\ UNCHANGED <<closed_flag, closed, reader>>
            /\ \A q \in Requests \ {r} : response'[q] = response[q]]_vars

\* _receive: while the transport is open its consumer sees a stream without a
\* gap, however many other notifications overflow the queue.
NoGapWhileOpen == ~closed_flag => taken = 1..Cardinality(taken)

\* message-streams.md: the queue never turns a partial result into a successful
\* completion.
CompleteMeansWhole == MaxItems \in taken => taken = 1..MaxItems

\* _retire, close, _receive, _finish_notifications: once the transport is closed
\* or has failed, every call ends without a deadline of its own, unless close()
\* itself was cancelled, and the consumer is told the end, unless close()
\* cancelled the reader in its cleanup.
CloseEndsAll ==
  /\ closed_flag ~> \/ \A r \in Requests : request[r] \in {"none", "done"}
                    \/ interrupted
  /\ closed_flag ~> consumer # "waiting" \/ reader = "cut"
=============================================================================
