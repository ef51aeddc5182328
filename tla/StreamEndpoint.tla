---------------------------- MODULE StreamEndpoint ----------------------------
(***************************************************************************)
(* One connection of a binary stream or of a raw socket: the session that  *)
(* drain.py keeps of it, _prepare(), _accepted(), _run_stream_endpoint()   *)
(* and _run_socket() of integrations/websockets/runtime.py, the expiry of  *)
(* connection.py and the handles of streams.py and sockets.py.             *)
(*                                                                         *)
(* A handler (or the writer of a generator) and a reader run beside the    *)
(* serving task, which waits for the event that each of them may set.  The *)
(* serving task is cancelled by an expiry before it has started them, by   *)
(* the drain of the service, twice, and by the ASGI server; a cancellation *)
(* is raised where the task waits at that moment.                          *)
(*                                                                         *)
(* Handlers, dependencies and generators are external: they may fail, also *)
(* in their cleanup, and they let a cancellation pass.                     *)
(***************************************************************************)
EXTENDS Naturals, Sequences

CONSTANTS
  Kinds,      \* kinds of endpoint: generator, function, socket
  MaxFrames,  \* bound on the frames of the client
  MaxQueue,   \* limits.max_queue_size
  Failures,   \* what close_stream_error() and close_failure() make of errors
  Faults      \* the environment events that may happen

FaultKinds == {"reject", "failure", "disconnect", "app_close", "send_timeout",
               "expiry", "drain", "server_cancel"}
Codes == {"normal", "peer", "policy", "protocol", "internal", "expired",
          "restart", "shutdown"}

ASSUME EndpointAssumption ==
  /\ Kinds \subseteq {"generator", "function", "socket"}
  /\ MaxFrames \in Nat /\ MaxQueue \in Nat \ {0}
  /\ Failures \subseteq Codes /\ Faults \subseteq FaultKinds

VARIABLES
  kind,           \* what the endpoint serves
  main,           \* where the serving task waits
  unwinding,      \* the exception it raises
  pending,        \* a cancellation that is yet to be raised in it
  cancelling,     \* task.cancelling()
  accepted,       \* connection._accepted
  closed,         \* connection._closed
  close_handler,  \* connection._on_close is set
  startup_task,   \* connection._startup_task is set
  timer,          \* connection._expiry_timer
  close_event,    \* close_event.is_set()
  close_value,    \* the code in close_value
  close_code,     \* connection._close_code
  client_closed,  \* client_closed
  announced,      \* the codes the socket was closed with
  run,            \* the task handle() or write(); late: it ended by a send after the close
  reader,         \* the task read()
  generator,      \* generator: none, open, or finished
  queue,          \* the queue of RpcBinaryInput or RpcSocket
  frames,         \* frames received so far
  peer,           \* the client: connected or gone
  stopped,        \* the ASGI server has cancelled the serving task
  draining,       \* drain.draining
  drain,          \* the task drain._drain
  watched         \* the session is one of those it drains

connV  == <<accepted, closed, close_handler, startup_task, timer>>
closeV == <<close_event, close_value, close_code, client_closed>>
taskV  == <<run, reader, generator, queue, frames>>
raiseV == <<unwinding, pending, cancelling>>
drainV == <<draining, drain, watched>>
vars == <<kind, main, raiseV, connV, closeV, announced, taskV, peer, stopped, drainV>>

-----------------------------------------------------------------------------
\* The last close counts.
BadRequestClose(code, gone) ==
  /\ close_event' = TRUE /\ client_closed' = gone
  /\ close_value' = code /\ close_code' = code

\* The first close counts; only an error may replace an end without one.
RequestClose(code, gone) ==
  LET first == ~close_event
      worse == ~gone /\ close_value = "normal" /\ code # "normal"
  IN /\ close_event' = TRUE /\ client_closed' = gone
     /\ close_value' = IF first \/ worse THEN code ELSE close_value
     /\ close_code'  = IF first \/ worse THEN code ELSE close_code

Close(code) == RequestClose(code, client_closed)

\* client_disconnected()
Disconnected(code) == RequestClose(code, TRUE)

\* Task.cancel() of the serving task.
Cancel(message) == pending' = message /\ cancelling' = cancelling + 1

NoCancel == UNCHANGED <<pending, cancelling>>

\* What _accepted() makes of an exception: it forgives the cancellation of an
\* expiry when nobody else has cancelled the task.
Forgiven(error) == error = "expiry" /\ cancelling = 1

Leave(error) ==
  /\ unwinding' = IF Forgiven(error) THEN "none" ELSE error
  /\ cancelling' = IF Forgiven(error) THEN 0 ELSE cancelling
  /\ pending' = "none" /\ startup_task' = FALSE

\* The end of _accepted() for a socket that is closed.
LeaveClosed(error) == Leave(error) /\ main' = "ended" /\ UNCHANGED announced

\* The end of _accepted() for a socket that is not.
LeaveOpen(error) ==
  LET code == IF close_code # "none" \/ Forgiven(error) THEN close_code
              ELSE IF error = "error" THEN "internal" ELSE "shutdown"
  IN /\ Leave(error)
     /\ main' = "closing_accepted" /\ close_code' = code
     /\ announced' = Append(announced, code)
     /\ UNCHANGED <<closed, close_event, close_value, client_closed>>

Init ==
  /\ kind \in Kinds /\ main = "arriving" /\ peer = "connected"
  /\ unwinding = "none" /\ pending = "none" /\ cancelling = 0
  /\ accepted = FALSE /\ closed = FALSE /\ close_handler = FALSE
  /\ startup_task = FALSE /\ timer = "off"
  /\ close_event = FALSE /\ close_value = "normal" /\ close_code = "none"
  /\ client_closed = FALSE /\ announced = <<>>
  /\ run = "none" /\ reader = "none" /\ generator = "none"
  /\ queue = <<>> /\ frames = 0
  /\ stopped = FALSE /\ draining = FALSE /\ drain = "off" /\ watched = FALSE

\* The task waits at a place and is not about to be interrupted there.
Awaits(place) == main = place /\ pending = "none"

\* The session is in drain._sessions.
Registered == main \notin {"arriving", "refusing", "ended"}

-----------------------------------------------------------------------------
(* From the handshake to the handler *)

ArrivalTurn ==
  UNCHANGED <<kind, raiseV, connV, closeV, announced, taskV, peer, stopped, drainV>>

\* A service that drains is noticed only after the hook.
BadArrive ==
  /\ main = "arriving"
  /\ main' = "preparing" \/ ("reject" \in Faults /\ main' = "rejecting")
  /\ ArrivalTurn

\* _session() and the part of _prepare() before the before_accept hook.
Arrive ==
  /\ main = "arriving"
  /\ IF draining THEN main' = "refusing"
     ELSE main' = "preparing" \/ ("reject" \in Faults /\ main' = "rejecting")
  /\ ArrivalTurn

\* The hook has returned, or rejects.
Prepared ==
  /\ Awaits("preparing")
  /\ IF draining THEN main' = "rejecting"
     ELSE main' = "accepting" \/ ("reject" \in Faults /\ main' = "rejecting")
  /\ ArrivalTurn

Rejected ==
  /\ Awaits("rejecting") \/ Awaits("refusing")
  /\ main' = "ended"
  /\ ArrivalTurn

Accepted ==
  /\ Awaits("accepting")
  /\ main' = "opening" /\ accepted' = TRUE /\ startup_task' = TRUE
  /\ timer' = "armed" \/ timer' = "off"
  /\ UNCHANGED <<kind, raiseV, closed, close_handler, closeV, announced, taskV,
                 peer, stopped, drainV>>

\* The observers and the scope of the middleware; _set_close_handler() reports
\* an expiry that it has missed.
Opened ==
  /\ Awaits("opening")
  /\ main' = "resolving" /\ close_handler' = TRUE
  /\ IF close_code = "expired" THEN Close("expired") ELSE UNCHANGED closeV
  /\ UNCHANGED <<kind, raiseV, accepted, closed, startup_task, timer, announced,
                 taskV, peer, stopped, drainV>>

OpenFails ==
  /\ Awaits("opening") /\ "failure" \in Faults
  /\ LeaveOpen("error")
  /\ UNCHANGED <<kind, accepted, close_handler, timer, taskV, peer, stopped, drainV>>

\* The dependencies are there: the tasks start, and the startup is over.
Resolved ==
  /\ Awaits("resolving")
  /\ main' = "serving" /\ run' = "running" /\ reader' = "receiving"
  /\ generator' = IF kind = "generator" THEN "open" ELSE "none"
  /\ startup_task' = FALSE
  /\ UNCHANGED <<kind, raiseV, accepted, closed, close_handler, timer, closeV,
                 announced, queue, frames, peer, stopped, drainV>>

ResolveFails ==
  /\ Awaits("resolving") /\ "failure" \in Faults
  /\ main' = "leaving" /\ unwinding' = "error"
  /\ UNCHANGED <<kind, pending, cancelling, connV, closeV, announced, taskV,
                 peer, stopped, drainV>>

-----------------------------------------------------------------------------
(* The handler, or the writer of a generator *)

RunTurn ==
  UNCHANGED <<kind, main, raiseV, connV, announced, reader, generator, frames,
              stopped, drainV>>

Runs == main = "serving" /\ run = "running"

Settled == {"ended", "late"}

Returns ==
  /\ Runs /\ run' = "ended" /\ Close("normal")
  /\ UNCHANGED <<queue, peer>> /\ RunTurn

Raises ==
  /\ Runs /\ "failure" \in Faults
  /\ run' = "ended" /\ \E code \in Failures : Close(code)
  /\ UNCHANGED <<queue, peer>> /\ RunTurn

\* connection.close() and RpcSocket.close() return at once.
AppClose ==
  /\ Runs /\ "app_close" \in Faults
  /\ \E code \in {"normal", "policy"} : Close(code)
  /\ UNCHANGED <<run, queue, peer>> /\ RunTurn

\* RpcSocket.receive() raises when the socket is closed and nothing is queued,
\* which ends the handler.
Receive ==
  /\ Runs /\ kind # "generator"
  /\ IF kind = "socket" /\ close_code # "none" /\ queue = <<>>
     THEN run' = "ended" /\ Close("normal")
     ELSE run' = "receiving" /\ UNCHANGED closeV
  /\ UNCHANGED <<queue, peer>> /\ RunTurn

Received ==
  /\ main = "serving" /\ run = "receiving" /\ queue # <<>>
  /\ queue' = Tail(queue) /\ run' = "running"
  /\ UNCHANGED <<closeV, peer>> /\ RunTurn

\* RpcBinaryOutput.send() and RpcSocket.send() raise RpcDisconnect on a connection
\* that is closing.  handle() takes that for a client that has gone, _run_socket()
\* does not.
Send ==
  /\ Runs
  /\ IF kind = "generator" \/ close_code = "none"
     THEN run' = "sending" /\ UNCHANGED closeV
     ELSE IF kind = "function" THEN run' = "late" /\ Disconnected("normal")
     ELSE run' = "ended" /\ Close("normal")
  /\ UNCHANGED <<queue, peer>> /\ RunTurn

Sent ==
  /\ main = "serving" /\ run = "sending" /\ peer = "connected"
  /\ run' = "running"
  /\ UNCHANGED <<closeV, queue, peer>> /\ RunTurn

\* The client has gone, or is too slow for a socket.
SendFails ==
  /\ main = "serving" /\ run = "sending" /\ run' = "ended"
  /\ \/ peer = "gone" /\ Disconnected("peer")
     \/ kind = "socket" /\ "send_timeout" \in Faults /\ Close("policy")
  /\ UNCHANGED <<queue, peer>> /\ RunTurn

\* The cancelled task ends.  Its cleanup may fail, or send once more.
RunUnwinds ==
  /\ main = "joining" /\ run \notin Settled
  /\ \/ run' = "ended" /\ UNCHANGED closeV
     \/ run' = "ended" /\ "failure" \in Faults /\ \E code \in Failures : Close(code)
     \/ run' = "late" /\ kind = "function" /\ close_code # "none" /\ Disconnected("normal")
  /\ UNCHANGED <<queue, peer>> /\ RunTurn

-----------------------------------------------------------------------------
(* The reader and the client *)

ReadTurn ==
  UNCHANGED <<kind, main, raiseV, connV, announced, run, generator,
              stopped, drainV>>

Reads == main = "serving" /\ reader = "receiving"

\* A frame for the handler; the reader waits while the queue is full.
ReadFrame ==
  /\ Reads /\ kind # "generator" /\ peer = "connected" /\ frames < MaxFrames
  /\ frames' = frames + 1
  /\ IF Len(queue) < MaxQueue
     THEN queue' = Append(queue, "frame") /\ UNCHANGED reader
     ELSE reader' = "putting" /\ UNCHANGED queue
  /\ UNCHANGED <<closeV, peer>> /\ ReadTurn

Put ==
  /\ main = "serving" /\ reader = "putting" /\ Len(queue) < MaxQueue
  /\ queue' = Append(queue, "frame") /\ reader' = "receiving"
  /\ UNCHANGED <<closeV, frames, peer>> /\ ReadTurn

\* A frame that is too big, of the wrong type, invalid, after the end, or any
\* frame for a generator.
ReadViolation ==
  /\ Reads /\ peer = "connected" /\ frames < MaxFrames
  /\ frames' = frames + 1 /\ reader' = "ended" /\ Close("protocol")
  /\ UNCHANGED <<queue, peer>> /\ ReadTurn

ReadDisconnect ==
  /\ Reads /\ peer = "gone"
  /\ reader' = "ended" /\ Disconnected("peer")
  /\ UNCHANGED <<queue, frames, peer>> /\ ReadTurn

ReaderUnwinds ==
  /\ main = "joining" /\ reader # "ended" /\ reader' = "ended"
  /\ UNCHANGED <<closeV, queue, frames, peer>> /\ ReadTurn

PeerLeaves ==
  /\ "disconnect" \in Faults /\ peer = "connected" /\ accepted
  /\ peer' = "gone"
  /\ UNCHANGED <<kind, main, raiseV, connV, closeV, announced, taskV,
                 stopped, drainV>>

-----------------------------------------------------------------------------
(* The teardown *)

\* A generator is closed while its writer may run.
BadTasksEnded == reader = "ended"

TasksEnded == run \in Settled /\ reader = "ended"

\* close_event.wait() returns: the tasks are cancelled.
StopServing ==
  /\ Awaits("serving") /\ close_event
  /\ main' = "joining"
  /\ UNCHANGED <<kind, raiseV, connV, closeV, announced, taskV, peer, stopped, drainV>>

Joined ==
  /\ Awaits("joining") /\ TasksEnded
  /\ main' = IF generator = "none" THEN "leaving" ELSE "closing_generator"
  /\ UNCHANGED <<kind, raiseV, connV, closeV, announced, taskV, peer, stopped, drainV>>

\* generator.aclose() returns or raises what the generator raises.
GeneratorCloses ==
  /\ Awaits("closing_generator")
  /\ main' = "leaving" /\ generator' = "none"
  /\ \/ UNCHANGED closeV
     \/ "failure" \in Faults /\ \E code \in Failures : Close(code)
  /\ UNCHANGED <<kind, raiseV, connV, announced, run, reader, queue, frames,
                 peer, stopped, drainV>>

\* The finally clause, when the codes are known: the socket is closed unless the
\* client has closed it.
Tell(error) ==
  IF client_closed'
  THEN closed' = TRUE /\ timer' = "off" /\ LeaveClosed(error)
  ELSE /\ main' = "closing" /\ announced' = Append(announced, close_value')
       /\ unwinding' = error
       /\ UNCHANGED <<closed, timer, pending, cancelling, startup_task>>

\* The scopes are left, which may fail.  What is raised decides the code unless
\* it is known, and a generator that is not closed yet is closed first.
ScopesLeft ==
  /\ Awaits("leaving")
  /\ \E error \in {unwinding} \cup (IF "failure" \in Faults THEN {"error"} ELSE {}) :
       LET cut  == error \in {"expiry", "cancelled"}
           code == IF close_code = "none" THEN "shutdown" ELSE close_code
           left == IF cut THEN error ELSE "none"
       IN /\ \/ /\ cut /\ close_value' = code /\ close_code' = code
                /\ UNCHANGED <<close_event, client_closed>>
             \/ error = "error" /\ \E c \in Failures : Close(c)
             \/ error = "none" /\ UNCHANGED closeV
          /\ IF generator = "none" THEN Tell(left)
             ELSE /\ main' = "closing_generator_again" /\ unwinding' = left
                  /\ UNCHANGED <<closed, timer, pending, cancelling, startup_task,
                                 announced>>
  /\ UNCHANGED <<kind, accepted, close_handler, taskV, peer, stopped, drainV>>

GeneratorClosesAgain ==
  /\ Awaits("closing_generator_again")
  /\ \/ UNCHANGED closeV
     \/ "failure" \in Faults /\ generator = "open" /\ \E code \in Failures : Close(code)
  /\ generator' = "none"
  /\ Tell(unwinding)
  /\ UNCHANGED <<kind, accepted, close_handler, run, reader, queue, frames, peer,
                 stopped, drainV>>

\* socket.close() returns; _mark_closed().
SocketClosed ==
  /\ Awaits("closing") \/ Awaits("closing_accepted")
  /\ closed' = TRUE /\ timer' = "off"
  /\ IF main = "closing" THEN LeaveClosed(unwinding)
     ELSE main' = "ended" /\ UNCHANGED <<raiseV, startup_task, announced>>
  /\ UNCHANGED <<kind, accepted, close_handler, closeV, taskV, peer, stopped, drainV>>

-----------------------------------------------------------------------------
(* Cancellations of the serving task *)

\* The cancellation is raised where the task waits; gather() waits for the tasks
\* first.
Interrupted ==
  LET error == IF pending = "expiry" THEN "expiry" ELSE "cancelled"
      Goto(place) == /\ main' = place /\ unwinding' = error /\ pending' = "none"
                     /\ UNCHANGED <<cancelling, closed, startup_task, closeV, announced>>
  IN /\ pending # "none"
     /\ main \in {"closing_generator", "closing_generator_again"} =>
          generator' = "finished"
     /\ main \notin {"closing_generator", "closing_generator_again"} =>
          UNCHANGED generator
     /\ \/ main \in {"refusing", "rejecting", "preparing", "accepting",
                     "closing_accepted"} /\ Goto("ended")
        \/ main \in {"opening", "closing", "closing_generator_again"} /\ LeaveOpen(error)
        \/ main = "serving" /\ Goto("joining")
        \/ main \in {"resolving", "closing_generator", "leaving"} /\ Goto("leaving")
        \/ main = "joining" /\ TasksEnded /\ Goto("leaving")
  /\ UNCHANGED <<kind, accepted, close_handler, timer, run, reader, queue, frames,
                 peer, stopped, drainV>>

CancelTurn ==
  UNCHANGED <<kind, main, unwinding, accepted, closed, close_handler,
              announced, taskV, peer>>

\* _expire(): a connection that is closing is left alone, and one that starts is
\* cancelled.
Expire ==
  /\ timer = "armed" /\ "expiry" \in Faults
  /\ timer' = "fired"
  /\ IF closed \/ close_code # "none" THEN UNCHANGED <<closeV, pending, cancelling, startup_task>>
     ELSE /\ IF close_handler THEN Close("expired")
             ELSE close_code' = "expired" /\ UNCHANGED <<close_event, close_value, client_closed>>
          /\ startup_task' = FALSE
          /\ IF startup_task THEN Cancel("expiry") ELSE NoCancel
  /\ CancelTurn /\ UNCHANGED <<stopped, drainV>>

ServerCancel ==
  /\ "server_cancel" \in Faults /\ ~stopped /\ main \notin {"arriving", "ended"}
  /\ stopped' = TRUE /\ Cancel("cancel")
  /\ CancelTurn /\ UNCHANGED <<closeV, startup_task, timer, drainV>>

DrainTurn == CancelTurn /\ UNCHANGED <<startup_task, timer, stopped>>

\* drain(): later arrivals are refused although the task has yet to begin.
StartDrain ==
  /\ "drain" \in Faults /\ drain = "off"
  /\ draining' = TRUE /\ drain' = "begun"
  /\ DrainTurn /\ UNCHANGED <<closeV, pending, cancelling, watched>>

\* The task of the drain takes the sessions there are.
DrainBegins ==
  /\ drain = "begun"
  /\ watched' = Registered
  /\ drain' = IF Registered THEN "grace" ELSE "done"
  /\ DrainTurn /\ UNCHANGED <<closeV, pending, cancelling, draining>>

\* The grace period has passed: session.stop().
DrainStops ==
  /\ drain = "grace" /\ main # "ended"
  /\ drain' = "stopping" /\ Cancel("cancel")
  /\ close_code' = IF close_code = "none" THEN "restart" ELSE close_code
  /\ DrainTurn
  /\ UNCHANGED <<close_event, close_value, client_closed, draining, watched>>

\* The deadline has passed: the serving task is cancelled again.
DrainGivesUp ==
  /\ drain = "stopping" /\ main # "ended"
  /\ drain' = "done" /\ Cancel("cancel")
  /\ DrainTurn /\ UNCHANGED <<closeV, draining, watched>>

DrainEnds ==
  /\ drain \in {"grace", "stopping"} /\ main = "ended"
  /\ drain' = "done"
  /\ DrainTurn /\ UNCHANGED <<closeV, pending, cancelling, draining, watched>>

-----------------------------------------------------------------------------
Handler == Returns \/ Raises \/ AppClose \/ Receive \/ Received \/ Send \/ Sent \/ SendFails

Reader == ReadFrame \/ Put \/ ReadViolation \/ ReadDisconnect

Over == main = "ended" /\ drain \in {"off", "done"} /\ UNCHANGED vars

Progress ==
  \/ Interrupted \/ Rejected \/ StopServing \/ RunUnwinds \/ ReaderUnwinds
  \/ Joined \/ GeneratorCloses \/ ScopesLeft \/ GeneratorClosesAgain \/ SocketClosed
  \/ DrainBegins \/ DrainStops \/ DrainGivesUp \/ DrainEnds

Next ==
  \/ Progress
  \/ Arrive \/ Prepared \/ Accepted \/ Opened \/ OpenFails \/ Resolved \/ ResolveFails
  \/ Handler \/ Reader \/ PeerLeaves
  \/ Expire \/ ServerCancel \/ StartDrain
  \/ Over

Spec == Init /\ [][Next]_vars

\* Tasks that are cancelled, scopes, generators and sockets that are closed come
\* to an end; a hook, a dependency, a handler and a client need not.
FairSpec == Spec /\ WF_vars(Progress)

-----------------------------------------------------------------------------
Before == {"arriving", "refusing", "rejecting", "preparing", "accepting"}
Starting == {"opening", "resolving"}
Working == {"serving", "joining"}
After == {"closing_generator", "leaving", "closing_generator_again", "closing",
          "closing_accepted", "ended"}

MainOK ==
  /\ kind \in Kinds /\ main \in Before \cup Starting \cup Working \cup After
  /\ unwinding \in {"none", "expiry", "cancelled", "error"}
  /\ pending \in {"none", "expiry", "cancel"} /\ cancelling \in 0..4
  /\ stopped \in BOOLEAN /\ peer \in {"connected", "gone"}

ConnOK ==
  /\ accepted \in BOOLEAN /\ closed \in BOOLEAN /\ close_handler \in BOOLEAN
  /\ startup_task \in BOOLEAN /\ timer \in {"off", "armed", "fired"}

CloseOK ==
  /\ close_event \in BOOLEAN /\ client_closed \in BOOLEAN
  /\ close_value \in Codes /\ close_code \in Codes \cup {"none"}

AnnouncedOK == announced \in Seq(Codes) /\ Len(announced) <= 2

TasksOK ==
  /\ run \in {"none", "running", "receiving", "sending"} \cup Settled
  /\ reader \in {"none", "receiving", "putting", "ended"}
  /\ generator \in {"none", "open", "finished"}

QueueOK ==
  queue \in Seq({"frame"}) /\ Len(queue) <= MaxQueue /\ frames \in 0..MaxFrames

DrainOK ==
  /\ draining \in BOOLEAN /\ watched \in BOOLEAN
  /\ drain \in {"off", "begun", "grace", "stopping", "done"}

TypeOK ==
  /\ MainOK /\ ConnOK /\ CloseOK /\ AnnouncedOK /\ TasksOK /\ QueueOK /\ DrainOK

\* request_close, _accepted: the cause of a close stays, except that an error
\* replaces an end without one, and what the client is told is what the
\* connection reports.
CauseHonest ==
  [][/\ close_event /\ close_value # "normal" => close_value' = close_value
     /\ announced' # announced => announced'[Len(announced')] = close_code']_vars

\* _run_stream_endpoint, _run_socket, _accepted: when the serving task has ended
\* no task and no generator of it is left, and a client that is still there was
\* told a code, wherever cancellations hit the startup and the teardown.  The one
\* exception is the handler of a binary stream that has sent on a connection that
\* was closing: handle() takes the RpcDisconnect of its own send for a client that
\* has gone, and the socket is not closed.
NothingLeft ==
  /\ main \in {"leaving", "closing", "closing_accepted", "ended"} =>
       run \in {"none"} \cup Settled /\ reader \in {"none", "ended"}
  /\ main \in {"closing", "closing_accepted", "ended"} => generator # "open"
  /\ main = "ended" /\ accepted /\ peer = "connected" /\ run # "late" =>
       announced # <<>>

\* A requested close and an expiry end the connection, and a drain ends it
\* wherever it was in its handshake, or refuses it.
EndpointEnds ==
  /\ (close_event \/ timer = "fired") ~> main = "ended"
  /\ draining ~> [](main \in {"arriving", "refusing", "ended"})
=============================================================================
