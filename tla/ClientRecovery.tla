---------------------------- MODULE ClientRecovery ----------------------------
(***************************************************************************)
(* The calls of the generated Python client over the pool that keeps the   *)
(* transport of one server: RpcTransportPool of runtime/connection.py.j2   *)
(* and request(), _request_attempt() and close() of runtime/core.py.j2.    *)
(*                                                                         *)
(* The pool shares one attempt to connect between all who wait for it and  *)
(* replaces a transport that was lost.  The callbacks of futures run later *)
(* than what they report, in any order.  A call tries again when its frame *)
(* was not sent or its method is idempotent.                               *)
(*                                                                         *)
(* A transport is what ClientTransport promises: a call that finds it      *)
(* closed was not sent, and one that has begun may have been.              *)
(***************************************************************************)
EXTENDS Naturals, FiniteSets

CONSTANTS
  MaxRequests,    \* bound on the calls
  MaxTransports,  \* bound on the transports that are opened
  MaxTasks,       \* bound on the tasks that connect
  Idempotent,     \* calls of idempotent methods
  RetryAttempts,  \* retry_attempts
  Reconnect,      \* reconnect
  MaxAttempts,    \* reconnect_max_attempts, where it is not None
  Faults          \* the environment events that may happen

Requests   == 1..MaxRequests
Transports == 1..MaxTransports
Tasks      == 1..MaxTasks

FaultKinds == {"refused", "rejected", "lost", "fatal", "timeout", "close",
               "ignored_cancel"}

ASSUME RecoveryAssumption ==
  /\ MaxRequests \in Nat /\ MaxTransports \in Nat /\ MaxTasks \in Nat
  /\ Idempotent \subseteq Requests /\ RetryAttempts \in Nat
  /\ Reconnect \in BOOLEAN /\ MaxAttempts \in Nat /\ Faults \subseteq FaultKinds

VARIABLES
  limited,     \* reconnect_max_attempts is not None; it never changes
  link,        \* a transport: none, open, lost, fatal, clean
  callbacks,   \* lost transports whose closed callback has yet to run
  current,     \* _transports[name], or 0
  task,        \* the task _connect
  tries,       \* its attempts, which only a limit counts
  recovering,  \* the tasks that found name in _ever_connected
  result,      \* the transport a task has returned or closes again
  cancelled,   \* tasks that were cancelled
  reaped,      \* tasks whose done callback has run
  connecting,  \* _connecting[name], or 0
  ever,        \* _ever_connected
  failure,     \* _failures[name]
  state,       \* _states[name]
  closing,     \* how far close() of the client and of the pool have come
  call,        \* a call of request()
  via,         \* the task it waits for, or the transport it uses
  attempt,     \* its attempts
  sends        \* how often its frame may have reached the server

linkV == <<link, callbacks>>
taskV == <<task, tries, recovering, result>>
doneV == <<limited, cancelled, reaped>>
poolV == <<current, connecting, ever, failure, state>>
callV == <<call, via, attempt, sends>>
vars == <<linkV, taskV, doneV, poolV, closing, callV>>

-----------------------------------------------------------------------------
Finished == {"done", "failed", "cancelled"}
Live     == connecting # 0 /\ task[connecting] \notin Finished
Free(S, f) == {x \in S : f[x] = "none"}
First(S)   == CHOOSE x \in S : TRUE   \* one that was not in use

\* pool._closing is set.
PoolClosing == closing \in {"connects", "transports", "closed"}

Permanent(t) == link[t] \in {"fatal", "clean"}

Recovers     == Reconnect /\ (limited => MaxAttempts > 0)
Exhausted(k) == limited /\ tries[k] >= MaxAttempts

\* _start: one task at a time.
Start ==
  IF Live THEN UNCHANGED <<task, tries, recovering, connecting>>
  ELSE LET k == First(Free(Tasks, task)) IN
         /\ Free(Tasks, task) # {}
         /\ task' = [task EXCEPT ![k] = "trying"]
         /\ tries' = [tries EXCEPT ![k] = 1]
         /\ recovering' = IF ever THEN recovering \cup {k} ELSE recovering
         /\ connecting' = k

NoStart == UNCHANGED <<task, tries, recovering, connecting>>

Terminal(kind) == failure' = kind /\ state' = "closed"

\* Every transport that closes is taken for the current one.
BadTransportClosed(t) ==
  IF PoolClosing THEN UNCHANGED <<current, failure, state>> /\ NoStart
  ELSE /\ current' = 0
       /\ IF ~Recovers \/ Permanent(t)
          THEN Terminal("lost") /\ NoStart
          ELSE state' = "reconnecting" /\ UNCHANGED failure /\ Start

\* _transport_closed
TransportClosed(t) ==
  IF PoolClosing \/ current # t THEN UNCHANGED <<current, failure, state>> /\ NoStart
  ELSE /\ current' = 0
       /\ IF ~Recovers \/ Permanent(t)
          THEN Terminal("lost") /\ NoStart
          ELSE state' = "reconnecting" /\ UNCHANGED failure /\ Start

Init ==
  /\ limited \in BOOLEAN
  /\ link = [t \in Transports |-> "none"] /\ callbacks = {} /\ current = 0
  /\ task = [k \in Tasks |-> "none"] /\ tries = [k \in Tasks |-> 0]
  /\ recovering = {} /\ result = [k \in Tasks |-> 0]
  /\ cancelled = {} /\ reaped = {} /\ connecting = 0
  /\ ever = FALSE /\ failure = "none" /\ state = "connecting" /\ closing = "open"
  /\ call = [r \in Requests |-> "none"] /\ via = [r \in Requests |-> 0]
  /\ attempt = [r \in Requests |-> 0] /\ sends = [r \in Requests |-> 0]

-----------------------------------------------------------------------------
(* The tasks that connect *)

\* A transport that arrives after close() has begun is closed again.
ConnectSucceeds(k) ==
  /\ task[k] = "trying" /\ Free(Transports, link) # {}
  /\ k \in cancelled => "ignored_cancel" \in Faults
  /\ LET t == First(Free(Transports, link)) IN
       /\ link' = [link EXCEPT ![t] = "open"]
       /\ result' = [result EXCEPT ![k] = t]
       /\ IF PoolClosing
          THEN task' = [task EXCEPT ![k] = "closing"] /\ UNCHANGED <<current, ever, state>>
          ELSE /\ task' = [task EXCEPT ![k] = "done"]
               /\ current' = t /\ ever' = TRUE /\ state' = "connected"
  /\ UNCHANGED <<callbacks, tries, recovering, doneV, connecting, failure,
                 closing, callV>>

\* The task only fails.
BadDiscarded(k) ==
  /\ task[k] = "closing"
  /\ task' = [task EXCEPT ![k] = "failed"]
  /\ UNCHANGED <<linkV, tries, recovering, result, doneV, poolV, closing, callV>>

Discarded(k) ==
  /\ task[k] = "closing"
  /\ link' = [link EXCEPT ![result[k]] = "clean"]
  /\ task' = [task EXCEPT ![k] = "failed"]
  /\ UNCHANGED <<callbacks, tries, recovering, result, doneV, poolV, closing, callV>>

\* Only a recovery tries again, and not for ever when there is a limit.
ConnectFails(k) ==
  /\ task[k] = "trying" /\ k \notin cancelled
  /\ \/ /\ k \in recovering /\ Reconnect /\ ~Exhausted(k)
        /\ "refused" \in Faults
        /\ task' = [task EXCEPT ![k] = "sleeping"] /\ UNCHANGED <<failure, state>>
     \/ /\ \/ "rejected" \in Faults
           \/ "refused" \in Faults
              /\ (k \notin recovering \/ ~Reconnect \/ Exhausted(k))
        /\ task' = [task EXCEPT ![k] = "failed"] /\ Terminal("connect")
  /\ UNCHANGED <<linkV, tries, recovering, result, doneV, current, connecting,
                 ever, closing, callV>>

\* The attempts of a recovery are not counted.
BadRetries(k) ==
  /\ task[k] = "sleeping" /\ k \notin cancelled
  /\ task' = [task EXCEPT ![k] = "trying"]
  /\ UNCHANGED <<linkV, tries, recovering, result, doneV, poolV, closing, callV>>

Retries(k) ==
  /\ task[k] = "sleeping" /\ k \notin cancelled
  /\ task' = [task EXCEPT ![k] = "trying"]
  /\ tries' = IF limited THEN [tries EXCEPT ![k] = @ + 1] ELSE tries
  /\ UNCHANGED <<linkV, recovering, result, doneV, poolV, closing, callV>>

ConnectCancelled(k) ==
  /\ k \in cancelled /\ task[k] \in {"trying", "sleeping"}
  /\ task' = [task EXCEPT ![k] = "cancelled"]
  /\ UNCHANGED <<linkV, tries, recovering, result, doneV, poolV, closing, callV>>

\* The entry is removed although it may belong to a later task.
BadForget(k) == connecting' = 0

\* done() in _start
Forget(k) == connecting' = IF connecting = k THEN 0 ELSE connecting

Reap(k) ==
  /\ task[k] \in Finished /\ k \notin reaped
  /\ reaped' = reaped \cup {k}
  /\ Forget(k)
  /\ IF task[k] = "failed" /\ failure = "none" /\ ~PoolClosing
     THEN Terminal("connect") ELSE UNCHANGED <<failure, state>>
  /\ UNCHANGED <<linkV, taskV, limited, cancelled, current, ever, closing, callV>>

\* An installed transport is lost; whether it may be replaced depends on why.
TransportFails(t) ==
  /\ link[t] = "open" /\ \E k \in Tasks : task[k] = "done" /\ result[k] = t
  /\ \E why \in {"lost", "fatal"} \cap Faults : link' = [link EXCEPT ![t] = why]
  /\ callbacks' = callbacks \cup {t}
  /\ UNCHANGED <<taskV, doneV, poolV, closing, callV>>

ClosedCallback(t) ==
  /\ t \in callbacks /\ callbacks' = callbacks \ {t}
  /\ TransportClosed(t)
  /\ UNCHANGED <<link, result, doneV, ever, closing, callV>>

-----------------------------------------------------------------------------
(* request() *)

\* A call that is over keeps nothing but the count of its frames.
Move(r, to, with) ==
  /\ call' = [call EXCEPT ![r] = to]
  /\ via' = [via EXCEPT ![r] = IF to = "waiting" \/ to = "sending" THEN with ELSE 0]

\* The frame may reach the server as soon as an open transport has it.
Send(r, t) ==
  /\ link[t] = "open"
  /\ Move(r, "sending", t)
  /\ sends' = [sends EXCEPT ![r] = @ + 1]

\* Any lost connection is tried again.
BadMayRetry(r, unsent) == closing = "open" /\ attempt[r] <= RetryAttempts

\* One retry too many.
BadCountRetries(r, unsent) ==
  /\ closing = "open" /\ attempt[r] <= RetryAttempts + 1
  /\ unsent \/ r \in Idempotent

MayRetry(r, unsent) ==
  /\ closing = "open" /\ attempt[r] <= RetryAttempts
  /\ unsent \/ r \in Idempotent

Fail(r, unsent) ==
  /\ Move(r, IF MayRetry(r, unsent) THEN "backoff" ELSE "done", 0)
  /\ UNCHANGED sends

\* This attempt ends before there is a frame.
UnsentFails(r) ==
  /\ Move(r, IF attempt[r] < RetryAttempts THEN "backoff" ELSE "done", 0)
  /\ UNCHANGED sends

\* get() raises what closed the transport for good, which is tried again if it
\* is a lost connection.
Closes(r) == UnsentFails(r) \/ (Move(r, "done", 0) /\ UNCHANGED sends)

\* The first attempt, and one more after the delay: get() gives the current
\* transport, which may already refuse calls, starts a task or joins the one that
\* runs, or raises.
Attempt(r) ==
  /\ call[r] \in {"none", "backoff"} /\ closing = "open"
  /\ attempt' = [attempt EXCEPT ![r] = @ + 1]
  /\ UNCHANGED <<linkV, result, doneV, ever, closing>>
  /\ \/ /\ failure = "connect"
        /\ Move(r, "done", 0) /\ UNCHANGED sends
        /\ NoStart /\ UNCHANGED <<current, failure, state>>
     \/ /\ failure = "lost" /\ Closes(r)
        /\ NoStart /\ UNCHANGED <<current, failure, state>>
     \/ /\ failure = "none" /\ current # 0 /\ Send(r, current)
        /\ NoStart /\ UNCHANGED <<current, failure, state>>
     \/ /\ failure = "none" /\ current # 0 /\ link[current] # "open" /\ UnsentFails(r)
        /\ NoStart /\ UNCHANGED <<current, failure, state>>
     \/ /\ failure = "none" /\ current # 0 /\ link[current] # "open"
        /\ TransportClosed(current)
        /\ IF failure' = "none" THEN Move(r, "waiting", connecting') /\ UNCHANGED sends
           ELSE Closes(r)
     \/ /\ failure = "none" /\ current = 0
        /\ Start /\ UNCHANGED <<current, failure, state>>
        /\ Move(r, "waiting", connecting') /\ UNCHANGED sends

\* The shared task has ended; its transport may be closed again by now.
Connected(r) ==
  /\ call[r] = "waiting" /\ task[via[r]] \in Finished
  /\ \/ task[via[r]] = "done" /\ Send(r, result[via[r]])
     \/ task[via[r]] = "done" /\ link[result[via[r]]] # "open" /\ Fail(r, TRUE)
     \/ /\ task[via[r]] # "done"
        /\ Move(r, "done", 0) /\ UNCHANGED sends
  /\ UNCHANGED <<linkV, taskV, doneV, poolV, closing, attempt>>

Answered(r) ==
  /\ call[r] = "sending"
  /\ Move(r, "done", 0)
  /\ UNCHANGED <<linkV, taskV, doneV, poolV, closing, attempt, sends>>

\* The transport fails the call, for good when the error is not a lost
\* connection, or the deadline of one attempt passes.
AttemptFails(r) ==
  /\ \/ call[r] = "sending" /\ link[via[r]] # "open" /\ Fail(r, FALSE)
     \/ call[r] = "sending" /\ link[via[r]] = "fatal" /\ Move(r, "done", 0) /\ UNCHANGED sends
     \/ call[r] \in {"waiting", "sending"} /\ "timeout" \in Faults /\ Fail(r, FALSE)
  /\ UNCHANGED <<linkV, taskV, doneV, poolV, closing, attempt>>

\* The deadline of the whole call passes, or its caller cancels it.
Deadline(r) ==
  /\ "timeout" \in Faults /\ call[r] \notin {"none", "done"}
  /\ Move(r, "done", 0)
  /\ UNCHANGED <<linkV, taskV, doneV, poolV, closing, attempt, sends>>

-----------------------------------------------------------------------------
(* close() *)

\* Calls in an attempt are cancelled, calls between two attempts are woken.
CloseClient ==
  /\ "close" \in Faults /\ closing = "open"
  /\ closing' = "client"
  /\ call' = [r \in Requests |-> "done"] /\ via' = [r \in Requests |-> 0]
  /\ UNCHANGED <<linkV, taskV, doneV, poolV, attempt, sends>>

ClosePool ==
  /\ closing = "client"
  /\ closing' = "connects" /\ state' = "closed"
  /\ cancelled' = IF Live THEN cancelled \cup {connecting} ELSE cancelled
  /\ UNCHANGED <<linkV, taskV, limited, reaped, current, connecting, ever, failure, callV>>

ConnectsEnded ==
  /\ closing = "connects" /\ ~Live
  /\ closing' = "transports" /\ connecting' = 0
  /\ UNCHANGED <<linkV, taskV, doneV, current, ever, failure, state, callV>>

Closed ==
  /\ closing = "transports" /\ closing' = "closed" /\ current' = 0
  /\ link' = IF current = 0 THEN link
             ELSE [link EXCEPT ![current] = IF @ = "open" THEN "clean" ELSE @]
  /\ UNCHANGED <<callbacks, taskV, doneV, connecting, ever, failure, state, callV>>

-----------------------------------------------------------------------------
Over == closing = "closed" /\ UNCHANGED vars

Connects ==
  \E k \in Tasks : ConnectSucceeds(k) \/ ConnectFails(k) \/ Retries(k)
                    \/ ConnectCancelled(k) \/ Discarded(k)

Callbacks == (\E k \in Tasks : Reap(k)) \/ (\E t \in Transports : ClosedCallback(t))

Continues ==
  \E r \in Requests :
    \/ Connected(r) \/ (call[r] = "backoff" /\ Attempt(r))
    \/ call[r] = "sending" /\ link[via[r]] # "open" /\ AttemptFails(r)

Closing == ClosePool \/ ConnectsEnded \/ Closed

Next ==
  \/ Connects \/ Callbacks \/ Continues \/ Closing
  \/ \E t \in Transports : TransportFails(t)
  \/ \E r \in Requests : Attempt(r) \/ Answered(r) \/ AttemptFails(r) \/ Deadline(r)
  \/ CloseClient
  \/ Over

Spec == Init /\ [][Next]_vars

\* Tasks, callbacks and calls that can go on do, each of them however often the
\* others run; an attempt to connect has a deadline, and a transport closes.
FairSpec == Spec /\ WF_vars(Connects) /\ WF_vars(Callbacks) /\ WF_vars(Continues)
                 /\ WF_vars(Closing)

-----------------------------------------------------------------------------
LinkOK ==
  /\ limited \in BOOLEAN
  /\ link \in [Transports -> {"none", "open", "lost", "fatal", "clean"}]
  /\ callbacks \subseteq Transports

TaskOK ==
  /\ task \in [Tasks -> {"none", "trying", "sleeping", "closing"} \cup Finished]
  /\ tries \in [Tasks -> 0..(MaxAttempts + 1)] /\ recovering \subseteq Tasks
  /\ result \in [Tasks -> {0} \cup Transports]
  /\ cancelled \subseteq Tasks /\ reaped \subseteq Tasks

PoolOK ==
  /\ current \in {0} \cup Transports /\ connecting \in {0} \cup Tasks
  /\ ever \in BOOLEAN /\ failure \in {"none", "connect", "lost"}
  /\ state \in {"connecting", "connected", "reconnecting", "closed"}
  /\ closing \in {"open", "client", "connects", "transports", "closed"}

CallOK ==
  /\ call \in [Requests -> {"none", "waiting", "sending", "backoff", "done"}]
  /\ via \in [Requests -> {0} \cup Tasks \cup Transports]
  /\ attempt \in [Requests -> 0..(RetryAttempts + 1)]
  /\ sends \in [Requests -> 0..(RetryAttempts + 1)]

TypeOK == LinkOK /\ TaskOK /\ PoolOK /\ CallOK

\* request: the frame of a call whose method is not idempotent reaches the server
\* at most once, whatever is retried.
SentOnce == \A r \in Requests \ Idempotent : sends[r] <= 1

\* RpcTransportPool: no transport is open that nobody would close: it is the
\* current one, or the task that opened it closes it.
NothingLeaks ==
  \A t \in Transports : link[t] = "open" =>
    t = current \/ \E k \in Tasks : task[k] = "closing" /\ result[k] = t

\* _transition, _terminal: what the client reports of a server is what it has.
StateHonest ==
  closing = "open" =>
    /\ state = "connected" <=> current # 0
    /\ state = "closed" <=> failure # "none"
    /\ state = "reconnecting" => Live

\* get: whoever waits for a connection gets it or the reason why there is none.
\* With a limit the recovery does not go on for ever; without one, which is the
\* default, it ends unless the very task that is waited for is refused for ever.
WaitersServed ==
  \A r \in Requests :
    \/ (call[r] = "waiting" ~> call[r] # "waiting")
    \/ ~limited /\ []<>(call[r] = "waiting" /\ task[via[r]] = "sleeping")

\* close: it ends although a task that connects may ignore its cancellation, and
\* leaves no transport and no task behind.
CloseLeavesNothing ==
  closing # "open" ~>
    /\ closing = "closed"
    /\ \A t \in Transports : link[t] # "open"
    /\ \A k \in Tasks : task[k] \in Finished \cup {"none"}
=============================================================================
