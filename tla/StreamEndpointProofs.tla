------------------------ MODULE StreamEndpointProofs ------------------------
(***************************************************************************)
(* What holds of a stream or socket endpoint for any frames, queue limit,  *)
(* failures and faults: type correctness, with it that the serving task is *)
(* cancelled at most four times; that nothing of a connection is left when *)
(* it has ended; and that the cause of a close stays and is what the       *)
(* client is told.                                                         *)
(***************************************************************************)
EXTENDS StreamEndpoint, TLAPS

-----------------------------------------------------------------------------
(* The inductive invariant.  NothingLeft speaks of the end; what makes it   *)
(* true is where the serving task has been before, how often it may have    *)
(* been cancelled, and that a close was requested or an exception raised    *)
(* before the teardown goes on.                                             *)

\* There are no tasks before they are started, and nothing is accepted before
\* the accept.
NotStarted ==
  /\ main \in Before \cup Starting => run = "none" /\ reader = "none" /\ generator = "none"
  /\ main \in Before => ~accepted /\ timer = "off"

\* The tasks have ended when the teardown goes on.
TasksOver ==
  main \in After => run \in {"none"} \cup Settled /\ reader \in {"none", "ended"}

Closing == {"closing", "closing_accepted", "ended"}

\* The generator is closed before the socket is.
GeneratorOver == main \in Closing => generator # "open"

\* The socket is closed at most twice.
AnnouncedInOrder ==
  /\ main \notin Closing => announced = <<>>
  /\ main = "closing" => Len(announced) = 1
  /\ main = "closing_accepted" => announced # <<>>

\* Only a client that has gone, or a handler that has sent on a connection that was
\* closing, closes for the client.
ClientClosed == client_closed => peer = "gone" \/ run = "late"

\* Each cancellation is that of the expiry, the server, the stop or the deadline.
CancelsCounted ==
  LET expired  == IF timer = "fired" \/ closed THEN 1 ELSE 0
      server   == IF stopped THEN 1 ELSE 0
      drained  == IF drain = "stopping" THEN 1 ELSE IF drain = "done" THEN 2 ELSE 0
  IN cancelling <= expired + server + drained

\* What the client will be told is what the connection reports.
CauseKnown ==
  /\ close_event \/ main = "closing_generator_again" => close_code = close_value
  /\ main \in {"joining", "closing_generator", "leaving"} /\ unwinding = "none" => close_event
  /\ main \in Before \cup Starting \cup {"serving"} => unwinding = "none"
  /\ pending = "expiry" => close_code # "none"

Told ==
  main = "ended" /\ accepted /\ peer = "connected" /\ run # "late" => announced # <<>>

IInv ==
  /\ TypeOK /\ NotStarted /\ TasksOver /\ GeneratorOver /\ AnnouncedInOrder
  /\ ClientClosed /\ CancelsCounted /\ CauseKnown /\ Told

-----------------------------------------------------------------------------
(* The steps.  One lemma for each part of the life of a connection. *)

\* The first code that is announced is one of the codes.
LEMMA FirstCode ==
  ASSUME CloseOK', announced' = <<>> \/ announced' = <<close_value'>>
  PROVE  AnnouncedOK'
<1>1. CASE announced' = <<>>
  BY <1>1 DEF AnnouncedOK
<1>2. CASE announced' = <<close_value'>>
  <2>1. close_value' \in Codes
    BY DEF CloseOK
  <2>2. <<close_value'>> \in Seq(Codes)
    BY <2>1
  <2>3. Len(<<close_value'>>) = 1
    OBVIOUS
  <2> QED
    BY <1>2, <2>2, <2>3 DEF AnnouncedOK
<1> QED
  BY <1>1, <1>2

USE EndpointAssumption DEF EndpointAssumption, Codes, FaultKinds

\* From the handshake to the handler.
LEMMA StartKeeps ==
  ASSUME IInv, Arrive \/ Prepared \/ Rejected \/ Accepted \/ Opened \/ OpenFails \/
         Resolved \/ ResolveFails
  PROVE  IInv'
<1> USE DEF IInv, TypeOK, MainOK, ConnOK, CloseOK, AnnouncedOK, TasksOK, QueueOK,
            DrainOK, NotStarted, TasksOver, GeneratorOver, AnnouncedInOrder, Told,
            ClientClosed, CancelsCounted, CauseKnown, Before, Starting, Working,
            After, Closing, Settled
<1>1. CASE Arrive
  BY <1>1 DEF Arrive, ArrivalTurn, closeV, connV, drainV, raiseV, taskV
<1>2. CASE Prepared
  BY <1>2 DEF Prepared, ArrivalTurn, Awaits, closeV, connV, drainV, raiseV, taskV
<1>3. CASE Rejected
  BY <1>3 DEF Rejected, ArrivalTurn, Awaits, closeV, connV, drainV, raiseV, taskV
<1>4. CASE Accepted
  BY <1>4 DEF Accepted, Awaits, closeV, drainV, raiseV, taskV
<1>5. CASE Opened
  <2> USE <1>5 DEF Opened, Awaits, Close, RequestClose, closeV, drainV, raiseV, taskV
  <2>1. (MainOK /\ ConnOK)'
    OBVIOUS
  <2>2. (TasksOK /\ QueueOK /\ DrainOK)'
    OBVIOUS
  <2>3. CloseOK'
    OBVIOUS
  <2>4. AnnouncedOK'
    BY <2>3
  <2>5. (NotStarted /\ TasksOver /\ GeneratorOver /\ AnnouncedInOrder /\ Told)'
    OBVIOUS
  <2>6. (ClientClosed /\ CancelsCounted /\ CauseKnown)'
    OBVIOUS
  <2> QED
    BY <2>1, <2>2, <2>3, <2>4, <2>5, <2>6
<1>6. CASE OpenFails
  <2> USE <1>6 DEF OpenFails, Awaits, Forgiven, Leave, LeaveOpen, drainV, taskV
  <2>1. (MainOK /\ ConnOK)'
    OBVIOUS
  <2>2. (TasksOK /\ QueueOK /\ DrainOK)'
    OBVIOUS
  <2>3. CloseOK'
    OBVIOUS
  <2>4. AnnouncedOK'
    BY <2>3
  <2>5. (NotStarted /\ TasksOver /\ GeneratorOver /\ AnnouncedInOrder /\ Told)'
    OBVIOUS
  <2>6. (ClientClosed /\ CancelsCounted /\ CauseKnown)'
    OBVIOUS
  <2> QED
    BY <2>1, <2>2, <2>3, <2>4, <2>5, <2>6
<1>7. CASE Resolved
  <2> USE <1>7 DEF Resolved, Awaits, closeV, drainV, raiseV
  <2>1. (MainOK /\ ConnOK)'
    OBVIOUS
  <2>2. (TasksOK /\ QueueOK /\ DrainOK)'
    OBVIOUS
  <2>3. CloseOK'
    OBVIOUS
  <2>4. AnnouncedOK'
    BY <2>3
  <2>5. (NotStarted /\ TasksOver /\ GeneratorOver /\ AnnouncedInOrder /\ Told)'
    OBVIOUS
  <2>6. (ClientClosed /\ CancelsCounted /\ CauseKnown)'
    OBVIOUS
  <2> QED
    BY <2>1, <2>2, <2>3, <2>4, <2>5, <2>6
<1>8. CASE ResolveFails
  BY <1>8 DEF ResolveFails, Awaits, closeV, connV, drainV, taskV
<1> QED
  BY <1>1, <1>2, <1>3, <1>4, <1>5, <1>6, <1>7, <1>8

\* The handler, the reader and the client.
LEMMA ServingKeeps ==
  ASSUME IInv, Returns \/ Raises \/ AppClose \/ Receive \/ Received \/ Send \/ Sent \/
         SendFails \/ ReadFrame \/ Put \/ ReadViolation \/ ReadDisconnect \/
         PeerLeaves
  PROVE  IInv'
<1> USE DEF IInv, TypeOK, MainOK, ConnOK, CloseOK, AnnouncedOK, TasksOK, QueueOK,
            DrainOK, NotStarted, TasksOver, GeneratorOver, AnnouncedInOrder, Told,
            ClientClosed, CancelsCounted, CauseKnown, Before, Starting, Working,
            After, Closing, Settled
<1>1. CASE Returns
  BY <1>1 DEF Returns, Close, RequestClose, RunTurn, Runs, connV, drainV, raiseV
<1>2. CASE Raises
  BY <1>2 DEF Raises, Close, RequestClose, RunTurn, Runs, connV, drainV, raiseV
<1>3. CASE AppClose
  BY <1>3 DEF AppClose, Close, RequestClose, RunTurn, Runs, connV, drainV, raiseV
<1>4. CASE Receive
  <2> USE <1>4 DEF Receive, Close, RequestClose, RunTurn, Runs, closeV, connV, drainV,
                   raiseV
  <2>1. (MainOK /\ ConnOK)'
    OBVIOUS
  <2>2. (TasksOK /\ QueueOK /\ DrainOK)'
    OBVIOUS
  <2>3. CloseOK'
    OBVIOUS
  <2>4. AnnouncedOK'
    BY <2>3
  <2>5. (NotStarted /\ TasksOver /\ GeneratorOver /\ AnnouncedInOrder /\ Told)'
    OBVIOUS
  <2>6. (ClientClosed /\ CancelsCounted /\ CauseKnown)'
    OBVIOUS
  <2> QED
    BY <2>1, <2>2, <2>3, <2>4, <2>5, <2>6
<1>5. CASE Received
  BY <1>5 DEF Received, RunTurn, closeV, connV, drainV, raiseV
<1>6. CASE Send
  <2> USE <1>6 DEF Send, Close, Disconnected, RequestClose, RunTurn, Runs, closeV,
                   connV, drainV, raiseV
  <2>1. (MainOK /\ ConnOK)'
    OBVIOUS
  <2>2. (TasksOK /\ QueueOK /\ DrainOK)'
    OBVIOUS
  <2>3. CloseOK'
    OBVIOUS
  <2>4. AnnouncedOK'
    BY <2>3
  <2>5. (NotStarted /\ TasksOver /\ GeneratorOver /\ AnnouncedInOrder /\ Told)'
    OBVIOUS
  <2>6. (ClientClosed /\ CancelsCounted /\ CauseKnown)'
    OBVIOUS
  <2> QED
    BY <2>1, <2>2, <2>3, <2>4, <2>5, <2>6
<1>7. CASE Sent
  BY <1>7 DEF Sent, RunTurn, closeV, connV, drainV, raiseV
<1>8. CASE SendFails
  <2> USE <1>8 DEF SendFails, Close, Disconnected, RequestClose, RunTurn, connV,
                   drainV, raiseV
  <2>1. (MainOK /\ ConnOK)'
    OBVIOUS
  <2>2. (TasksOK /\ QueueOK /\ DrainOK)'
    OBVIOUS
  <2>3. CloseOK'
    OBVIOUS
  <2>4. AnnouncedOK'
    BY <2>3
  <2>5. (NotStarted /\ TasksOver /\ GeneratorOver /\ AnnouncedInOrder /\ Told)'
    OBVIOUS
  <2>6. (ClientClosed /\ CancelsCounted /\ CauseKnown)'
    OBVIOUS
  <2> QED
    BY <2>1, <2>2, <2>3, <2>4, <2>5, <2>6
<1>9. CASE ReadFrame
  BY <1>9 DEF ReadFrame, ReadTurn, Reads, closeV, connV, drainV, raiseV
<1>10. CASE Put
  BY <1>10 DEF Put, ReadTurn, closeV, connV, drainV, raiseV
<1>11. CASE ReadViolation
  BY <1>11 DEF ReadViolation, Close, ReadTurn, Reads, RequestClose, connV, drainV,
               raiseV
<1>12. CASE ReadDisconnect
  BY <1>12 DEF ReadDisconnect, Disconnected, ReadTurn, Reads, RequestClose, connV,
               drainV, raiseV
<1>13. CASE PeerLeaves
  BY <1>13 DEF PeerLeaves, closeV, connV, drainV, raiseV, taskV
<1> QED
  BY <1>1, <1>2, <1>3, <1>4, <1>5, <1>6, <1>7, <1>8, <1>9, <1>10, <1>11, <1>12, <1>13

\* Tasks, generator, scopes and socket are closed.  The scopes may fail once the
\* code is known, so what is announced is told apart from what was requested.
LEMMA TeardownKeeps ==
  ASSUME IInv, StopServing \/ RunUnwinds \/ ReaderUnwinds \/ Joined \/ GeneratorCloses
         \/ ScopesLeft \/ GeneratorClosesAgain \/ SocketClosed
  PROVE  IInv'
<1> USE DEF IInv, TypeOK, MainOK, ConnOK, CloseOK, AnnouncedOK, TasksOK, QueueOK,
            DrainOK, NotStarted, TasksOver, GeneratorOver, AnnouncedInOrder, Told,
            ClientClosed, CancelsCounted, CauseKnown, Before, Starting, Working,
            After, Closing, Settled
<1>1. CASE StopServing
  BY <1>1 DEF StopServing, Awaits, closeV, connV, drainV, raiseV, taskV
<1>2. CASE RunUnwinds
  <2> USE <1>2 DEF RunUnwinds, Close, Disconnected, RequestClose, RunTurn, closeV,
                   connV, drainV, raiseV
  <2>1. (MainOK /\ ConnOK)'
    OBVIOUS
  <2>2. (TasksOK /\ QueueOK /\ DrainOK)'
    OBVIOUS
  <2>3. CloseOK'
    OBVIOUS
  <2>4. AnnouncedOK'
    BY <2>3
  <2>5. (NotStarted /\ TasksOver /\ GeneratorOver /\ AnnouncedInOrder /\ Told)'
    OBVIOUS
  <2>6. (ClientClosed /\ CancelsCounted /\ CauseKnown)'
    OBVIOUS
  <2> QED
    BY <2>1, <2>2, <2>3, <2>4, <2>5, <2>6
<1>3. CASE ReaderUnwinds
  BY <1>3 DEF ReaderUnwinds, ReadTurn, closeV, connV, drainV, raiseV
<1>4. CASE Joined
  BY <1>4 DEF Joined, Awaits, TasksEnded, closeV, connV, drainV, raiseV, taskV
<1>5. CASE GeneratorCloses
  <2> USE <1>5 DEF GeneratorCloses, Awaits, Close, RequestClose, closeV, connV,
                   drainV, raiseV
  <2>1. (MainOK /\ ConnOK)'
    OBVIOUS
  <2>2. (TasksOK /\ QueueOK /\ DrainOK)'
    OBVIOUS
  <2>3. CloseOK'
    OBVIOUS
  <2>4. AnnouncedOK'
    BY <2>3
  <2>5. (NotStarted /\ TasksOver /\ GeneratorOver /\ AnnouncedInOrder /\ Told)'
    OBVIOUS
  <2>6. (ClientClosed /\ CancelsCounted /\ CauseKnown)'
    OBVIOUS
  <2> QED
    BY <2>1, <2>2, <2>3, <2>4, <2>5, <2>6
<1>6. CASE ScopesLeft
  <2> USE <1>6 DEF ScopesLeft, Awaits, Close, Forgiven, Leave, LeaveClosed,
                   RequestClose, Tell, closeV, drainV, taskV
  <2>1. MainOK'
    OBVIOUS
  <2>2. ConnOK'
    OBVIOUS
  <2>3. (TasksOK /\ DrainOK)'
    OBVIOUS
  <2>4. QueueOK'
    OBVIOUS
  <2>5. CloseOK'
    <3>1. \/ /\ close_value' = (IF close_code = "none" THEN "shutdown" ELSE close_code)
             /\ close_code' = close_value' /\ UNCHANGED <<close_event, client_closed>>
          \/ \E c \in Failures : Close(c)
          \/ UNCHANGED closeV
      OBVIOUS
    <3>2. CASE /\ close_value' = (IF close_code = "none" THEN "shutdown" ELSE close_code)
               /\ close_code' = close_value' /\ UNCHANGED <<close_event, client_closed>>
      BY <3>2
    <3>3. ASSUME NEW c \in Failures, Close(c) PROVE CloseOK'
      BY <3>3
    <3>4. CASE UNCHANGED closeV
      BY <3>4
    <3> QED
      BY <3>1, <3>2, <3>3, <3>4
  <2>6. AnnouncedOK'
    <3>1. announced = <<>>
      OBVIOUS
    <3>2. announced' = announced \/ announced' = <<close_value'>>
      BY <3>1
    <3> QED
      BY <2>5, <3>1, <3>2, FirstCode
  <2>7. (NotStarted /\ TasksOver /\ GeneratorOver)'
    OBVIOUS
  <2>8. (AnnouncedInOrder /\ Told)'
    OBVIOUS
  <2>9. (ClientClosed /\ CancelsCounted /\ CauseKnown)'
    OBVIOUS
  <2> QED
    BY <2>1, <2>2, <2>3, <2>4, <2>5, <2>6, <2>7, <2>8, <2>9
<1>7. CASE GeneratorClosesAgain
  <2> USE <1>7 DEF GeneratorClosesAgain, Awaits, Close, Forgiven, Leave, LeaveClosed,
                   RequestClose, Tell, closeV, drainV
  <2>1. MainOK'
    OBVIOUS
  <2>2. ConnOK'
    OBVIOUS
  <2>3. (TasksOK /\ DrainOK)'
    OBVIOUS
  <2>4. QueueOK'
    OBVIOUS
  <2>5. CloseOK'
    OBVIOUS
  <2>6. AnnouncedOK'
    <3>1. announced = <<>>
      OBVIOUS
    <3>2. announced' = announced \/ announced' = <<close_value'>>
      BY <3>1
    <3> QED
      BY <2>5, <3>1, <3>2, FirstCode
  <2>7. (NotStarted /\ TasksOver /\ GeneratorOver)'
    OBVIOUS
  <2>8. (AnnouncedInOrder /\ Told)'
    OBVIOUS
  <2>9. (ClientClosed /\ CancelsCounted /\ CauseKnown)'
    OBVIOUS
  <2> QED
    BY <2>1, <2>2, <2>3, <2>4, <2>5, <2>6, <2>7, <2>8, <2>9
<1>8. CASE SocketClosed
  <2> USE <1>8 DEF SocketClosed, Awaits, Forgiven, Leave, LeaveClosed, closeV, drainV,
                   raiseV, taskV
  <2>1. MainOK'
    OBVIOUS
  <2>2. ConnOK'
    OBVIOUS
  <2>3. (TasksOK /\ DrainOK)'
    OBVIOUS
  <2>4. QueueOK'
    OBVIOUS
  <2>5. CloseOK'
    OBVIOUS
  <2>6. AnnouncedOK'
    BY <2>5
  <2>7. (NotStarted /\ TasksOver /\ GeneratorOver)'
    OBVIOUS
  <2>8. (AnnouncedInOrder /\ Told)'
    <3>1. announced # <<>>
      OBVIOUS
    <3>2. main' = "closing_accepted" \/ main' = "ended"
      OBVIOUS
    <3>3. announced' = announced
      OBVIOUS
    <3> QED
      BY <3>1, <3>2, <3>3
  <2>9. (ClientClosed /\ CancelsCounted /\ CauseKnown)'
    OBVIOUS
  <2> QED
    BY <2>1, <2>2, <2>3, <2>4, <2>5, <2>6, <2>7, <2>8, <2>9
<1> QED
  BY <1>1, <1>2, <1>3, <1>4, <1>5, <1>6, <1>7, <1>8

\* Expiry, server and drain, and the cancellations they make.
LEMMA CancelKeeps ==
  ASSUME IInv, Interrupted \/ Expire \/ ServerCancel \/ StartDrain \/ DrainBegins \/
         DrainStops \/ DrainGivesUp \/ DrainEnds \/ Over
  PROVE  IInv'
<1> USE DEF IInv, TypeOK, MainOK, ConnOK, CloseOK, AnnouncedOK, TasksOK, QueueOK,
            DrainOK, NotStarted, TasksOver, GeneratorOver, AnnouncedInOrder, Told,
            ClientClosed, CancelsCounted, CauseKnown, Before, Starting, Working,
            After, Closing, Settled
<1>1. CASE Interrupted
  <2> USE <1>1 DEF Interrupted, Forgiven, Leave, LeaveOpen, TasksEnded, closeV, drainV
  <2>1. MainOK'
    OBVIOUS
  <2>2. ConnOK'
    OBVIOUS
  <2>3. (TasksOK /\ DrainOK)'
    OBVIOUS
  <2>4. QueueOK'
    OBVIOUS
  <2>5. CloseOK'
    OBVIOUS
  <2>6. AnnouncedOK'
    BY <2>5, SMTT(30)
  <2>7. (NotStarted /\ TasksOver /\ GeneratorOver)'
    OBVIOUS
  <2>8. (AnnouncedInOrder /\ Told)'
    OBVIOUS
  <2>9. (ClientClosed /\ CancelsCounted /\ CauseKnown)'
    OBVIOUS
  <2> QED
    BY <2>1, <2>2, <2>3, <2>4, <2>5, <2>6, <2>7, <2>8, <2>9
<1>2. CASE Expire
  <2> USE <1>2 DEF Expire, Cancel, CancelTurn, Close, NoCancel, RequestClose, closeV,
                   drainV, taskV
  <2>1. MainOK'
    OBVIOUS
  <2>2. ConnOK'
    OBVIOUS
  <2>3. (TasksOK /\ DrainOK)'
    OBVIOUS
  <2>4. QueueOK'
    OBVIOUS
  <2>5. CloseOK'
    OBVIOUS
  <2>6. AnnouncedOK'
    BY <2>5
  <2>7. (NotStarted /\ TasksOver /\ GeneratorOver)'
    OBVIOUS
  <2>8. (AnnouncedInOrder /\ Told)'
    OBVIOUS
  <2>9. (ClientClosed /\ CancelsCounted /\ CauseKnown)'
    OBVIOUS
  <2> QED
    BY <2>1, <2>2, <2>3, <2>4, <2>5, <2>6, <2>7, <2>8, <2>9
<1>3. CASE ServerCancel
  BY <1>3 DEF ServerCancel, Cancel, CancelTurn, closeV, drainV, taskV
<1>4. CASE StartDrain
  BY <1>4 DEF StartDrain, CancelTurn, DrainTurn, closeV, taskV
<1>5. CASE DrainBegins
  BY <1>5 DEF DrainBegins, CancelTurn, DrainTurn, Registered, closeV, taskV
<1>6. CASE DrainStops
  BY <1>6 DEF DrainStops, Cancel, CancelTurn, DrainTurn, taskV
<1>7. CASE DrainGivesUp
  BY <1>7 DEF DrainGivesUp, Cancel, CancelTurn, DrainTurn, closeV, taskV
<1>8. CASE DrainEnds
  BY <1>8 DEF DrainEnds, CancelTurn, DrainTurn, closeV, taskV
<1>9. CASE Over
  BY <1>9 DEF Over, closeV, connV, drainV, raiseV, taskV, vars
<1> QED
  BY <1>1, <1>2, <1>3, <1>4, <1>5, <1>6, <1>7, <1>8, <1>9

-----------------------------------------------------------------------------
(* The cause of a close. *)

\* A step keeps a cause that is not an ordinary end, and tells the client the code
\* that the connection reports.
LEMMA CauseStays ==
  ASSUME IInv, Next
  PROVE  /\ close_event /\ close_value # "normal" => close_value' = close_value
         /\ announced' # announced => announced'[Len(announced')] = close_code'
<1> USE DEF IInv, TypeOK, CloseOK, AnnouncedOK, CauseKnown
<1>1. CASE Arrive
  BY <1>1 DEF Arrive, ArrivalTurn, closeV, connV, drainV, raiseV, taskV
<1>2. CASE Prepared
  BY <1>2 DEF Prepared, ArrivalTurn, Awaits, closeV, connV, drainV, raiseV, taskV
<1>3. CASE Rejected
  BY <1>3 DEF Rejected, ArrivalTurn, Awaits, closeV, connV, drainV, raiseV, taskV
<1>4. CASE Accepted
  BY <1>4 DEF Accepted, Awaits, closeV, drainV, raiseV, taskV
<1>5. CASE Opened
  BY <1>5 DEF Opened, Awaits, Close, RequestClose, closeV, drainV, raiseV, taskV
<1>6. CASE OpenFails
  BY <1>6 DEF OpenFails, Awaits, Forgiven, Leave, LeaveOpen, drainV, taskV
<1>7. CASE Resolved
  BY <1>7 DEF Resolved, Awaits, closeV, drainV, raiseV
<1>8. CASE ResolveFails
  BY <1>8 DEF ResolveFails, Awaits, closeV, connV, drainV, taskV
<1>9. CASE Returns
  BY <1>9 DEF Returns, Close, RequestClose, RunTurn, Runs, connV, drainV, raiseV
<1>10. CASE Raises
  BY <1>10 DEF Raises, Close, RequestClose, RunTurn, Runs, connV, drainV, raiseV
<1>11. CASE AppClose
  BY <1>11 DEF AppClose, Close, RequestClose, RunTurn, Runs, connV, drainV, raiseV
<1>12. CASE Receive
  BY <1>12 DEF Receive, Close, RequestClose, RunTurn, Runs, closeV, connV, drainV,
               raiseV
<1>13. CASE Received
  BY <1>13 DEF Received, RunTurn, closeV, connV, drainV, raiseV
<1>14. CASE Send
  BY <1>14 DEF Send, Close, Disconnected, RequestClose, RunTurn, Runs, closeV, connV,
               drainV, raiseV
<1>15. CASE Sent
  BY <1>15 DEF Sent, RunTurn, closeV, connV, drainV, raiseV
<1>16. CASE SendFails
  BY <1>16 DEF SendFails, Close, Disconnected, RequestClose, RunTurn, connV, drainV,
               raiseV
<1>17. CASE ReadFrame
  BY <1>17 DEF ReadFrame, ReadTurn, Reads, closeV, connV, drainV, raiseV
<1>18. CASE Put
  BY <1>18 DEF Put, ReadTurn, closeV, connV, drainV, raiseV
<1>19. CASE ReadViolation
  BY <1>19 DEF ReadViolation, Close, ReadTurn, Reads, RequestClose, connV, drainV,
               raiseV
<1>20. CASE ReadDisconnect
  BY <1>20 DEF ReadDisconnect, Disconnected, ReadTurn, Reads, RequestClose, connV,
               drainV, raiseV
<1>21. CASE PeerLeaves
  BY <1>21 DEF PeerLeaves, closeV, connV, drainV, raiseV, taskV
<1>22. CASE Expire
  BY <1>22 DEF Expire, Cancel, CancelTurn, Close, NoCancel, RequestClose, closeV,
               drainV, taskV
<1>23. CASE ServerCancel
  BY <1>23 DEF ServerCancel, Cancel, CancelTurn, closeV, drainV, taskV
<1>24. CASE StartDrain
  BY <1>24 DEF StartDrain, CancelTurn, DrainTurn, closeV, taskV
<1>25. CASE Interrupted
  BY <1>25 DEF Interrupted, Forgiven, Leave, LeaveOpen, TasksEnded, closeV, drainV
<1>26. CASE StopServing
  BY <1>26 DEF StopServing, Awaits, closeV, connV, drainV, raiseV, taskV
<1>27. CASE RunUnwinds
  BY <1>27 DEF RunUnwinds, Close, Disconnected, RequestClose, RunTurn, closeV, connV,
               drainV, raiseV
<1>28. CASE ReaderUnwinds
  BY <1>28 DEF ReaderUnwinds, ReadTurn, closeV, connV, drainV, raiseV
<1>29. CASE Joined
  BY <1>29 DEF Joined, Awaits, TasksEnded, closeV, connV, drainV, raiseV, taskV
<1>30. CASE GeneratorCloses
  BY <1>30 DEF GeneratorCloses, Awaits, Close, RequestClose, closeV, connV, drainV,
               raiseV
<1>31. CASE ScopesLeft
  BY <1>31 DEF ScopesLeft, Awaits, Close, Forgiven, Leave, LeaveClosed, RequestClose,
               Tell, closeV, drainV, taskV
<1>32. CASE GeneratorClosesAgain
  BY <1>32 DEF GeneratorClosesAgain, Awaits, Close, Forgiven, Leave, LeaveClosed,
               RequestClose, Tell, closeV, drainV
<1>33. CASE SocketClosed
  BY <1>33 DEF SocketClosed, Awaits, Forgiven, Leave, LeaveClosed, closeV, drainV,
               raiseV, taskV
<1>34. CASE DrainBegins
  BY <1>34 DEF DrainBegins, CancelTurn, DrainTurn, Registered, closeV, taskV
<1>35. CASE DrainStops
  BY <1>35 DEF DrainStops, Cancel, CancelTurn, DrainTurn, taskV
<1>36. CASE DrainGivesUp
  BY <1>36 DEF DrainGivesUp, Cancel, CancelTurn, DrainTurn, closeV, taskV
<1>37. CASE DrainEnds
  BY <1>37 DEF DrainEnds, CancelTurn, DrainTurn, closeV, taskV
<1>38. CASE Over
  BY <1>38 DEF Over, closeV, connV, drainV, raiseV, taskV, vars
<1> QED
  BY <1>1, <1>2, <1>3, <1>4, <1>5, <1>6, <1>7, <1>8, <1>9, <1>10, <1>11, <1>12, <1>13,
       <1>14, <1>15, <1>16, <1>17, <1>18, <1>19, <1>20, <1>21, <1>22, <1>23, <1>24,
       <1>25, <1>26, <1>27, <1>28, <1>29, <1>30, <1>31, <1>32, <1>33, <1>34, <1>35,
       <1>36, <1>37, <1>38 DEF Next, Progress, Handler, Reader

-----------------------------------------------------------------------------
(* The theorems *)

\* A connection that arrives satisfies the invariant.
LEMMA InitHolds == Init => IInv
<1> SUFFICES ASSUME Init PROVE IInv
  OBVIOUS
<1> USE DEF Init
<1>1. MainOK /\ ConnOK /\ CloseOK /\ TasksOK /\ DrainOK
  <2>1. MainOK
    <3>1. cancelling \in 0..4
      OBVIOUS
    <3>2. main \in Before
      BY DEF Before
    <3> QED
      BY <3>1, <3>2 DEF MainOK
  <2>2. ConnOK
    BY DEF ConnOK
  <2>3. CloseOK
    BY DEF CloseOK
  <2>4. TasksOK /\ DrainOK
    BY DEF TasksOK, DrainOK
  <2> QED
    BY <2>1, <2>2, <2>3, <2>4
<1>2. AnnouncedOK
  <2>1. announced \in Seq(Codes) /\ Len(announced) = 0
    OBVIOUS
  <2> QED
    BY <2>1 DEF AnnouncedOK
<1>3. QueueOK
  <2>1. queue \in Seq({"frame"}) /\ Len(queue) = 0
    OBVIOUS
  <2>2. 0 <= MaxQueue /\ 0 \in 0..MaxFrames
    OBVIOUS
  <2> QED
    BY <2>1, <2>2 DEF QueueOK
<1>4. NotStarted /\ TasksOver /\ GeneratorOver /\ AnnouncedInOrder /\ Told
  BY DEF NotStarted, TasksOver, GeneratorOver, AnnouncedInOrder, Told, After, Closing, Settled
<1>5. ClientClosed /\ CancelsCounted /\ CauseKnown
  BY DEF ClientClosed, CancelsCounted, CauseKnown
<1> QED
  BY <1>1, <1>2, <1>3, <1>4, <1>5 DEF IInv, TypeOK

\* Every step keeps it.
LEMMA StepKeeps == IInv /\ [Next]_vars => IInv'
<1> SUFFICES ASSUME IInv, [Next]_vars PROVE IInv'
  OBVIOUS
<1>1. CASE Next
  BY <1>1, StartKeeps, ServingKeeps, TeardownKeeps, CancelKeeps
     DEF Next, Progress, Handler, Reader
<1>2. CASE UNCHANGED vars
  BY <1>2 DEF IInv, TypeOK, MainOK, ConnOK, CloseOK, AnnouncedOK, TasksOK, QueueOK,
              DrainOK, NotStarted, TasksOver, GeneratorOver, AnnouncedInOrder, Told,
              ClientClosed, CancelsCounted, CauseKnown, vars, connV, closeV, taskV,
              raiseV, drainV
<1> QED
  BY <1>1, <1>2

LEMMA Invariance == Spec => []IInv
BY InitHolds, StepKeeps, PTL DEF Spec

\* The variables have their types: the queue never exceeds max_queue_size, the
\* socket is closed at most twice, and the serving task is cancelled at most
\* four times, by expiry, server, stop and deadline (runtime.py, drain.py).
THEOREM EndpointTypes == Spec => []TypeOK
BY Invariance, PTL DEF IInv

\* Wherever cancellations hit the startup and the teardown of _accepted(),
\* _run_stream_endpoint() and _run_socket(), no task and no generator is left
\* behind, and a client that is there was told a code, but by a binary stream whose
\* handler has sent on a connection that was closing (RpcBinaryOutput.send).
THEOREM EndpointLeavesNothing == Spec => []NothingLeft
<1>1. IInv => NothingLeft
  BY DEF IInv, TasksOver, GeneratorOver, Told, NothingLeft, After, Closing, Settled
<1> QED
  BY <1>1, Invariance, PTL

\* request_close(), _expire(), stop() and the finally clauses: a cause that is not
\* an ordinary end is never replaced, and the client is told what is reported.
THEOREM EndpointCauses == Spec => CauseHonest
<1>1. IInv /\ [Next]_vars =>
        [/\ close_event /\ close_value # "normal" => close_value' = close_value
         /\ announced' # announced => announced'[Len(announced')] = close_code']_vars
  BY CauseStays
<1> QED
  BY <1>1, Invariance, PTL DEF Spec, CauseHonest
=============================================================================
