------------------------ MODULE ClientRecoveryProofs ------------------------
(***************************************************************************)
(* What holds of the pool of transports and of the calls over it for any   *)
(* number of calls, transports, tasks, attempts and faults: type           *)
(* correctness, that what is not idempotent is sent once, that no open     *)
(* transport is forgotten, and that the reported state is the real one.    *)
(***************************************************************************)
EXTENDS ClientRecovery, TLAPS

-----------------------------------------------------------------------------
(* The inductive invariant.  The pool and the calls can be taken apart: a    *)
(* call only relies on tasks and transports that exist not to disappear.     *)

\* Where a task is that connects, or still has a transport of its own to close.
Trying == {"trying", "sleeping", "closing"}

\* One task connects at a time, and none while there is a transport.
OneConnects ==
  /\ connecting # 0 => task[connecting] # "none"
  /\ \A k \in Tasks : task[k] \in Trying =>
       connecting = k /\ current = 0 /\ closing \notin {"transports", "closed"}

\* A task that has connected has a transport; it closes that transport again
\* only in a pool that closes, and where attempts are limited only a recovery with
\* attempts left sleeps.
Results ==
  \A k \in Tasks :
    /\ task[k] \in {"done", "closing"} => result[k] # 0 /\ link[result[k]] # "none"
    /\ task[k] = "closing" => PoolClosing
    /\ task[k] = "sleeping" /\ limited => tries[k] < MaxAttempts

\* A cancellation comes from close().
Cancels == cancelled # {} => PoolClosing

\* What is current has been opened, and a callback tells of what is over.
Links ==
  /\ current # 0 => link[current] # "none"
  /\ \A t \in callbacks : link[t] \notin {"none", "open"}

\* What the pool says of itself, until it is closed.
PoolHonest ==
  ~PoolClosing =>
    /\ state = "connected" <=> current # 0
    /\ state = "closed" <=> failure # "none"
    /\ state = "reconnecting" => Live
    /\ \A k \in Tasks :
         /\ task[k] = "failed" => failure # "none"
         /\ task[k] \in Trying => failure = "none"

\* How a call counts its attempts and its frames.  A call that has been sent is
\* tried again only when it may be.
CallFine(r) ==
  /\ sends[r] <= attempt[r]
  /\ call[r] = "none" => attempt[r] = 0
  /\ call[r] = "waiting" =>
       sends[r] < attempt[r] /\ via[r] \in Tasks /\ task[via[r]] # "none"
  /\ call[r] = "sending" => via[r] \in Transports /\ link[via[r]] # "none"
  /\ call[r] = "backoff" => attempt[r] <= RetryAttempts
  /\ call[r] \notin {"none", "done"} => closing = "open"
  /\ r \notin Idempotent =>
       sends[r] <= 1 /\ (call[r] \in {"none", "waiting", "backoff"} => sends[r] = 0)

PoolInv ==
  /\ LinkOK /\ TaskOK /\ PoolOK /\ OneConnects /\ Results /\ Cancels /\ Links
  /\ NothingLeaks /\ PoolHonest

CallInv == CallOK /\ \A r \in Requests : CallFine(r)

IInv == PoolInv /\ CallInv

USE RecoveryAssumption
    DEF RecoveryAssumption, FaultKinds, Finished, Live, PoolClosing, Trying

-----------------------------------------------------------------------------
(* Facts about the operators *)

\* First() is one of the set.
LEMMA FirstIn ==
  ASSUME NEW S, S # {}
  PROVE  First(S) \in S
BY DEF First

\* After Start one task is connecting, and only a new one has changed.
LEMMA StartFacts ==
  ASSUME TaskOK, PoolOK, OneConnects, Start
  PROVE  /\ task' \in [Tasks -> {"none", "trying", "sleeping", "closing"} \cup Finished]
         /\ tries' \in [Tasks -> 0..(MaxAttempts + 1)] /\ recovering' \subseteq Tasks
         /\ connecting' \in Tasks /\ task'[connecting'] \in Trying
         /\ \A k \in Tasks :
              \/ task'[k] = task[k] /\ tries'[k] = tries[k]
              \/ task[k] = "none" /\ task'[k] = "trying" /\ connecting' = k
         /\ Live => connecting' = connecting
<1>1. CASE Live
  BY <1>1 DEF Start, TaskOK, PoolOK, OneConnects
<1>2. CASE ~Live
  <2>1. PICK k \in Tasks : /\ task[k] = "none"
                           /\ task' = [task EXCEPT ![k] = "trying"]
                           /\ tries' = [tries EXCEPT ![k] = 1]
                           /\ recovering' \in {recovering, recovering \cup {k}}
                           /\ connecting' = k
    <3>1. /\ Free(Tasks, task) # {}
          /\ task' = [task EXCEPT ![First(Free(Tasks, task))] = "trying"]
          /\ tries' = [tries EXCEPT ![First(Free(Tasks, task))] = 1]
          /\ recovering' = (IF ever THEN recovering \cup {First(Free(Tasks, task))} ELSE recovering)
          /\ connecting' = First(Free(Tasks, task))
      BY <1>2 DEF Start
    <3>2. First(Free(Tasks, task)) \in Free(Tasks, task)
      BY <3>1, FirstIn
    <3> QED
      BY <3>1, <3>2 DEF Free
  <2>2. 1 \in 0..(MaxAttempts + 1)
    OBVIOUS
  <2> QED
    BY <1>2, <2>1, <2>2 DEF TaskOK, Tasks
<1> QED
  BY <1>1, <1>2

\* A call changes alone; tasks and transports that exist stay.
LEMMA CallKeeps ==
  ASSUME CallInv, NEW r \in Requests,
         NEW to \in {"none", "waiting", "sending", "backoff", "done"},
         NEW with \in {0} \cup Tasks \cup Transports,
         NEW a \in 0..(RetryAttempts + 1), NEW n \in 0..(RetryAttempts + 1),
         call' = [call EXCEPT ![r] = to], via' = [via EXCEPT ![r] = with],
         attempt' = [attempt EXCEPT ![r] = a], sends' = [sends EXCEPT ![r] = n],
         closing' = closing, CallFine(r)',
         \A k \in Tasks : task[k] # "none" => task'[k] # "none",
         \A t \in Transports : link[t] # "none" => link'[t] # "none"
  PROVE  CallInv'
<1>1. CallOK'
  BY DEF CallInv, CallOK
<1>2. ASSUME NEW q \in Requests, q # r PROVE CallFine(q)'
  <2>1. /\ call'[q] = call[q] /\ via'[q] = via[q] /\ attempt'[q] = attempt[q]
        /\ sends'[q] = sends[q]
    BY <1>2 DEF CallInv, CallOK
  <2> QED
    BY <2>1 DEF CallInv, CallFine
<1> QED
  BY <1>1, <1>2 DEF CallInv

\* No call changes; tasks and transports that exist stay.
LEMMA CallsStay ==
  ASSUME CallInv, UNCHANGED callV, closing' = closing,
         \A k \in Tasks : task[k] # "none" => task'[k] # "none",
         \A t \in Transports : link[t] # "none" => link'[t] # "none"
  PROVE  CallInv'
<1>1. CallOK'
  BY DEF CallInv, CallOK, callV
<1>2. ASSUME NEW q \in Requests PROVE CallFine(q)'
  BY DEF CallInv, CallFine, callV
<1> QED
  BY <1>1, <1>2 DEF CallInv

-----------------------------------------------------------------------------
(* A transport that has closed *)

\* _transport_closed: what it leaves is a pool without that transport.
LEMMA ClosedKeeps ==
  ASSUME PoolInv, NEW t \in Transports, link[t] \notin {"none", "open"},
         TransportClosed(t), UNCHANGED <<link, result, doneV, ever, closing>>,
         callbacks' \subseteq callbacks
  PROVE  /\ PoolInv'
         /\ \A k \in Tasks : task[k] # "none" => task'[k] # "none"
         /\ current = t /\ ~PoolClosing /\ failure' = "none" =>
              connecting' \in Tasks /\ task'[connecting'] # "none"
<1> USE DEF PoolInv, doneV
<1>1. CASE (PoolClosing \/ current # t) /\ UNCHANGED <<current, failure, state>> /\ NoStart
  BY <1>1 DEF NoStart, LinkOK, TaskOK, PoolOK, OneConnects, Results, Cancels, Links,
              NothingLeaks, PoolHonest
<1>2. CASE ~PoolClosing /\ current = t /\ current' = 0 /\ Terminal("lost") /\ NoStart
  <2> USE <1>2 DEF Terminal, NoStart
  <2>1. \A k \in Tasks : task[k] \notin Trying
    BY DEF OneConnects, Transports
  <2>2. (LinkOK /\ TaskOK /\ PoolOK)'
    BY DEF LinkOK, TaskOK, PoolOK
  <2>3. (OneConnects /\ Results /\ Cancels /\ Links)'
    BY <2>1 DEF OneConnects, Results, Cancels, Links
  <2>4. NothingLeaks'
    BY <2>1 DEF NothingLeaks
  <2>5. PoolHonest'
    BY <2>1 DEF PoolHonest
  <2> QED
    BY <2>1, <2>2, <2>3, <2>4, <2>5
<1>3. CASE /\ ~PoolClosing /\ current = t /\ current' = 0
           /\ state' = "reconnecting" /\ UNCHANGED failure /\ Start
  <2> USE <1>3
  <2>1. /\ task' \in [Tasks -> {"none", "trying", "sleeping", "closing"} \cup Finished]
        /\ tries' \in [Tasks -> 0..(MaxAttempts + 1)] /\ recovering' \subseteq Tasks
        /\ connecting' \in Tasks /\ task'[connecting'] \in Trying
        /\ \A k \in Tasks :
             \/ task'[k] = task[k] /\ tries'[k] = tries[k]
             \/ task[k] = "none" /\ task'[k] = "trying" /\ connecting' = k
        /\ Live => connecting' = connecting
    BY StartFacts
  <2> HIDE DEF Start
  <2>2. connecting' # 0
    BY <2>1 DEF Tasks
  <2>3. \A k \in Tasks : task[k] \notin Trying
    BY DEF OneConnects, Transports
  <2>4. (LinkOK /\ TaskOK /\ PoolOK)'
    BY <2>1 DEF LinkOK, TaskOK, PoolOK
  <2>5. OneConnects'
    BY <2>1, <2>3 DEF OneConnects
  <2>6. Results'
    BY <2>1 DEF Results
  <2>7. (Cancels /\ Links)'
    BY DEF Cancels, Links
  <2>8. NothingLeaks'
    <3>1. \A u \in Transports : link[u] # "open"
      BY <2>3 DEF NothingLeaks
    <3> QED
      BY <3>1 DEF NothingLeaks
  <2>9. PoolHonest'
    BY <2>1, <2>2 DEF PoolHonest, Transports
  <2> QED
    BY <2>1, <2>4, <2>5, <2>6, <2>7, <2>8, <2>9
<1> QED
  BY <1>1, <1>2, <1>3 DEF TransportClosed

-----------------------------------------------------------------------------
(* The pool *)

\* The tasks that connect.
LEMMA TaskKeeps ==
  ASSUME PoolInv, NEW k \in Tasks,
         ConnectSucceeds(k) \/ ConnectFails(k) \/ Retries(k) \/ ConnectCancelled(k)
         \/ Discarded(k) \/ Reap(k)
  PROVE  PoolInv'
<1> USE DEF PoolInv, LinkOK, TaskOK, PoolOK, OneConnects, Results, Cancels, Links, NothingLeaks,
         PoolHonest, Tasks, Transports
<1>1. CASE ConnectSucceeds(k)
  <2>1. PICK t \in Transports :
          /\ link[t] = "none" /\ link' = [link EXCEPT ![t] = "open"]
          /\ result' = [result EXCEPT ![k] = t]
          /\ IF PoolClosing
             THEN task' = [task EXCEPT ![k] = "closing"] /\ UNCHANGED <<current, ever, state>>
             ELSE /\ task' = [task EXCEPT ![k] = "done"]
                  /\ current' = t /\ ever' = TRUE /\ state' = "connected"
    <3>1. First(Free(Transports, link)) \in Free(Transports, link)
      BY <1>1, FirstIn DEF ConnectSucceeds
    <3> QED
      BY <1>1, <3>1 DEF ConnectSucceeds, Free
  <2>2. /\ task[k] = "trying" /\ current = 0 /\ connecting = k
        /\ UNCHANGED <<callbacks, tries, recovering, limited, cancelled, reaped, connecting,
                       failure, closing>>
    BY <1>1 DEF ConnectSucceeds, doneV
  <2>3. k # 0 /\ t # 0 /\ (PoolInv => failure \in {"none", "connect", "lost"})
    OBVIOUS
  <2>4. (LinkOK /\ TaskOK /\ PoolOK)'
    <3>1. LinkOK'
      BY <2>1, <2>2
    <3>2. TaskOK'
      <4>1. task' \in [Tasks -> {"none", "trying", "sleeping", "closing"} \cup Finished]
        BY ONLY TaskOK, <2>1 DEF TaskOK, Finished
      <4>2. result' \in [Tasks -> {0} \cup Transports]
        BY ONLY TaskOK, t \in Transports, <2>1 DEF TaskOK
      <4> QED
        BY ONLY TaskOK, <2>2, <4>1, <4>2 DEF TaskOK
    <3>3. PoolOK'
      BY ONLY PoolOK, t \in Transports, <2>1, <2>2 DEF PoolOK
    <3> QED
      BY <3>1, <3>2, <3>3
  <2>5. (OneConnects /\ Results)'
    BY <2>1, <2>2, <2>3
  <2>6. (Cancels /\ Links)'
    BY <2>1, <2>2, <2>3
  <2>7. NothingLeaks'
    BY <2>1, <2>2, <2>3
  <2>8. PoolHonest'
    BY <2>1, <2>2, <2>3
  <2> QED
    BY <2>4, <2>5, <2>6, <2>7, <2>8
<1>2. CASE ConnectFails(k)
  <2> USE <1>2 DEF ConnectFails, Exhausted, Terminal, callV, doneV, linkV
  <2>1. LinkOK'
    OBVIOUS
  <2>2. TaskOK'
    BY SMTT(30)
  <2>3. PoolOK'
    OBVIOUS
  <2>4. (OneConnects /\ Results)'
    OBVIOUS
  <2>5. (Cancels /\ Links)'
    OBVIOUS
  <2>6. NothingLeaks'
    OBVIOUS
  <2>7. PoolHonest'
    BY SMTT(30)
  <2> QED
    BY <2>1, <2>2, <2>3, <2>4, <2>5, <2>6, <2>7
<1>3. CASE Retries(k)
  <2> USE <1>3 DEF Retries, callV, doneV, linkV, poolV
  <2>1. (LinkOK /\ TaskOK /\ PoolOK)'
    OBVIOUS
  <2>2. (OneConnects /\ Results)'
    OBVIOUS
  <2>3. (Cancels /\ Links)'
    OBVIOUS
  <2>4. NothingLeaks'
    OBVIOUS
  <2>5. PoolHonest'
    OBVIOUS
  <2> QED
    BY <2>1, <2>2, <2>3, <2>4, <2>5
<1>4. CASE ConnectCancelled(k)
  <2> USE <1>4 DEF ConnectCancelled, callV, doneV, linkV, poolV
  <2>1. (LinkOK /\ TaskOK /\ PoolOK)'
    OBVIOUS
  <2>2. (OneConnects /\ Results)'
    OBVIOUS
  <2>3. (Cancels /\ Links)'
    OBVIOUS
  <2>4. NothingLeaks'
    OBVIOUS
  <2>5. PoolHonest'
    OBVIOUS
  <2> QED
    BY <2>1, <2>2, <2>3, <2>4, <2>5
<1>5. CASE Discarded(k)
  <2> USE <1>5 DEF Discarded, callV, doneV, poolV
  <2>1. (LinkOK /\ TaskOK /\ PoolOK)'
    OBVIOUS
  <2>2. (OneConnects /\ Results)'
    OBVIOUS
  <2>3. (Cancels /\ Links)'
    OBVIOUS
  <2>4. NothingLeaks'
    OBVIOUS
  <2>5. PoolHonest'
    OBVIOUS
  <2> QED
    BY <2>1, <2>2, <2>3, <2>4, <2>5
<1>6. CASE Reap(k)
  <2> USE <1>6 DEF Reap, Forget, Terminal, callV, linkV, taskV
  <2>1. (LinkOK /\ TaskOK /\ PoolOK)'
    OBVIOUS
  <2>2. (OneConnects /\ Results)'
    OBVIOUS
  <2>3. (Cancels /\ Links)'
    OBVIOUS
  <2>4. NothingLeaks'
    OBVIOUS
  <2>5. PoolHonest'
    OBVIOUS
  <2> QED
    BY <2>1, <2>2, <2>3, <2>4, <2>5
<1> QED
  BY <1>1, <1>2, <1>3, <1>4, <1>5, <1>6

\* Transports that close, and close() of the client and of the pool.
LEMMA LinkKeeps ==
  ASSUME PoolInv,
         \/ \E t \in Transports : TransportFails(t) \/ ClosedCallback(t)
         \/ ClosePool \/ ConnectsEnded \/ Closed \/ CloseClient \/ Over
  PROVE  PoolInv'
<1>1. ASSUME NEW t \in Transports, ClosedCallback(t) PROVE PoolInv'
  <2>1. link[t] \notin {"none", "open"}
    BY <1>1 DEF ClosedCallback, PoolInv, Links
  <2> QED
    BY <1>1, <2>1, ClosedKeeps DEF ClosedCallback
<1> USE DEF PoolInv, LinkOK, TaskOK, PoolOK, OneConnects, Results, Cancels, Links, NothingLeaks,
         PoolHonest, Tasks, Transports
<1>2. ASSUME NEW t \in Transports, TransportFails(t) PROVE PoolInv'
  <2> USE <1>2 DEF TransportFails, taskV, doneV, poolV
  <2>1. (LinkOK /\ TaskOK /\ PoolOK)'
    BY SMTT(30)
  <2>2. (OneConnects /\ Results)'
    OBVIOUS
  <2>3. (Cancels /\ Links)'
    OBVIOUS
  <2>4. (NothingLeaks /\ PoolHonest)'
    OBVIOUS
  <2> QED
    BY <2>1, <2>2, <2>3, <2>4
<1>3. CASE ClosePool
  <2> USE <1>3 DEF ClosePool, callV, linkV, taskV
  <2>1. (LinkOK /\ TaskOK /\ PoolOK)'
    OBVIOUS
  <2>2. (OneConnects /\ Results)'
    OBVIOUS
  <2>3. (Cancels /\ Links)'
    OBVIOUS
  <2>4. NothingLeaks'
    OBVIOUS
  <2>5. PoolHonest'
    OBVIOUS
  <2> QED
    BY <2>1, <2>2, <2>3, <2>4, <2>5
<1>4. CASE ConnectsEnded
  <2> USE <1>4 DEF ConnectsEnded, callV, doneV, linkV, taskV
  <2>1. (LinkOK /\ TaskOK /\ PoolOK)'
    OBVIOUS
  <2>2. (OneConnects /\ Results)'
    OBVIOUS
  <2>3. (Cancels /\ Links)'
    OBVIOUS
  <2>4. NothingLeaks'
    OBVIOUS
  <2>5. PoolHonest'
    OBVIOUS
  <2> QED
    BY <2>1, <2>2, <2>3, <2>4, <2>5
<1>5. CASE Closed
  <2> USE <1>5 DEF Closed, callV, doneV, taskV
  <2>1. (LinkOK /\ TaskOK /\ PoolOK)'
    OBVIOUS
  <2>2. (OneConnects /\ Results)'
    OBVIOUS
  <2>3. (Cancels /\ Links)'
    OBVIOUS
  <2>4. NothingLeaks'
    OBVIOUS
  <2>5. PoolHonest'
    OBVIOUS
  <2> QED
    BY <2>1, <2>2, <2>3, <2>4, <2>5
<1>6. CASE CloseClient
  <2> USE <1>6 DEF CloseClient, doneV, linkV, poolV, taskV
  <2>1. (LinkOK /\ TaskOK /\ PoolOK)'
    OBVIOUS
  <2>2. (OneConnects /\ Results)'
    OBVIOUS
  <2>3. (Cancels /\ Links)'
    OBVIOUS
  <2>4. NothingLeaks'
    OBVIOUS
  <2>5. PoolHonest'
    OBVIOUS
  <2> QED
    BY <2>1, <2>2, <2>3, <2>4, <2>5
<1>7. CASE Over
  <2> USE <1>7 DEF Over, callV, doneV, linkV, poolV, taskV, vars
  <2>1. (LinkOK /\ TaskOK /\ PoolOK)'
    OBVIOUS
  <2>2. (OneConnects /\ Results)'
    OBVIOUS
  <2>3. (Cancels /\ Links)'
    OBVIOUS
  <2>4. NothingLeaks'
    OBVIOUS
  <2>5. PoolHonest'
    OBVIOUS
  <2> QED
    BY <2>1, <2>2, <2>3, <2>4, <2>5
<1> QED
  BY <1>1, <1>2, <1>3, <1>4, <1>5, <1>6, <1>7

-----------------------------------------------------------------------------
(* The calls *)

\* _start, for a call that finds no transport.
LEMMA StartKeeps ==
  ASSUME PoolInv, ~PoolClosing, failure = "none", current = 0, Start,
         UNCHANGED <<current, failure, state, linkV, result, doneV, ever, closing>>
  PROVE  /\ PoolInv'
         /\ \A k \in Tasks : task[k] # "none" => task'[k] # "none"
         /\ connecting' \in Tasks /\ task'[connecting'] # "none"
<1> USE DEF PoolInv, doneV, linkV
<1>1. /\ task' \in [Tasks -> {"none", "trying", "sleeping", "closing"} \cup Finished]
      /\ tries' \in [Tasks -> 0..(MaxAttempts + 1)] /\ recovering' \subseteq Tasks
      /\ connecting' \in Tasks /\ task'[connecting'] \in Trying
      /\ \A k \in Tasks :
           \/ task'[k] = task[k] /\ tries'[k] = tries[k]
           \/ task[k] = "none" /\ task'[k] = "trying" /\ connecting' = k
      /\ Live => connecting' = connecting
  BY StartFacts
<1> HIDE DEF Start
<1>2. connecting' # 0 /\ 0 \notin Tasks
  BY <1>1 DEF Tasks
<1>3. \A k \in Tasks : task[k] \in Trying => Live /\ connecting' = k
  BY <1>1, <1>2 DEF OneConnects
<1>4. (LinkOK /\ TaskOK /\ PoolOK)'
  BY <1>1 DEF LinkOK, TaskOK, PoolOK
<1>5. OneConnects'
  BY <1>1, <1>3 DEF OneConnects
<1>6. Results'
  BY <1>1 DEF Results
<1>7. (Cancels /\ Links)'
  BY DEF Cancels, Links
<1>8. NothingLeaks'
  <2>1. \A u \in Transports : link[u] # "open"
    BY DEF NothingLeaks, Results, Transports
  <2> QED
    BY <2>1 DEF NothingLeaks
<1>9. PoolHonest'
  BY <1>1, <1>2 DEF PoolHonest
<1> QED
  BY <1>1, <1>4, <1>5, <1>6, <1>7, <1>8, <1>9

\* An attempt leaves the pool as it should be, and the call over, waiting for a
\* task, waiting for its next attempt, or sent.
LEMMA AttemptFacts ==
  ASSUME PoolInv, NEW r \in Requests, Attempt(r)
  PROVE  /\ PoolInv'
         /\ \A k \in Tasks : task[k] # "none" => task'[k] # "none"
         /\ \/ Move(r, "done", 0) /\ UNCHANGED sends
            \/ /\ Move(r, "backoff", 0) /\ UNCHANGED sends
               /\ attempt[r] < RetryAttempts
            \/ /\ Move(r, "waiting", connecting') /\ UNCHANGED sends
               /\ connecting' \in Tasks /\ task'[connecting'] # "none"
            \/ current \in Transports /\ Send(r, current)
<1>1. ASSUME NoStart, UNCHANGED <<current, failure, state>>
      PROVE  PoolInv' /\ UNCHANGED task
  <2> USE <1>1 DEF Attempt, NoStart, PoolInv, doneV, linkV
  <2>1. (LinkOK /\ TaskOK /\ PoolOK)'
    BY DEF LinkOK, TaskOK, PoolOK
  <2>2. (OneConnects /\ Results /\ Cancels /\ Links)'
    BY DEF OneConnects, Results, Cancels, Links
  <2>3. (NothingLeaks /\ PoolHonest)'
    BY DEF NothingLeaks, PoolHonest
  <2> QED
    BY <2>1, <2>2, <2>3
<1>2. ASSUME UnsentFails(r)
      PROVE  \/ Move(r, "done", 0) /\ UNCHANGED sends
             \/ /\ Move(r, "backoff", 0) /\ UNCHANGED sends
                /\ attempt[r] < RetryAttempts
  BY <1>2 DEF UnsentFails
<1>3. current # 0 => current \in Transports /\ link[current] # "none"
  BY DEF PoolInv, PoolOK, Links
<1>4. closing = "open" /\ ~PoolClosing /\ UNCHANGED <<linkV, result, doneV, ever, closing>>
  BY DEF Attempt
<1>5. CASE failure = "connect" /\ Move(r, "done", 0) /\ UNCHANGED sends
           /\ NoStart /\ UNCHANGED <<current, failure, state>>
  BY <1>1, <1>5
<1>6. CASE failure = "lost" /\ Closes(r) /\ NoStart /\ UNCHANGED <<current, failure, state>>
  BY <1>1, <1>2, <1>6 DEF Closes
<1>7. CASE failure = "none" /\ current # 0 /\ Send(r, current)
           /\ NoStart /\ UNCHANGED <<current, failure, state>>
  BY <1>1, <1>3, <1>7
<1>8. CASE failure = "none" /\ current # 0 /\ link[current] # "open" /\ UnsentFails(r)
           /\ NoStart /\ UNCHANGED <<current, failure, state>>
  BY <1>1, <1>2, <1>8
<1>9. CASE /\ failure = "none" /\ current # 0 /\ link[current] # "open"
           /\ TransportClosed(current)
           /\ IF failure' = "none" THEN Move(r, "waiting", connecting') /\ UNCHANGED sends
              ELSE Closes(r)
  <2>1. /\ PoolInv'
        /\ \A k \in Tasks : task[k] # "none" => task'[k] # "none"
        /\ failure' = "none" => connecting' \in Tasks /\ task'[connecting'] # "none"
    <3>1. current \in Transports /\ link[current] \notin {"none", "open"}
      BY <1>3, <1>9
    <3>2. UNCHANGED <<link, result, doneV, ever, closing>> /\ callbacks' \subseteq callbacks
      BY <1>4 DEF linkV
    <3>3. TransportClosed(current) /\ ~PoolClosing
      BY <1>4, <1>9
    <3> QED
      BY <3>1, <3>2, <3>3, ClosedKeeps
  <2> QED
    BY <1>2, <1>9, <2>1 DEF Closes
<1>10. CASE /\ failure = "none" /\ current = 0
            /\ Start /\ UNCHANGED <<current, failure, state>>
            /\ Move(r, "waiting", connecting') /\ UNCHANGED sends
  <2>1. /\ PoolInv'
        /\ \A k \in Tasks : task[k] # "none" => task'[k] # "none"
        /\ connecting' \in Tasks /\ task'[connecting'] # "none"
    BY <1>4, <1>10, StartKeeps DEF linkV, doneV
  <2> QED
    BY <1>10, <2>1
<1> QED
  BY <1>5, <1>6, <1>7, <1>8, <1>9, <1>10 DEF Attempt

\* The other steps of a call do not change the pool.
LEMMA OtherCallsKeepPool ==
  ASSUME PoolInv, NEW r \in Requests,
         Connected(r) \/ Answered(r) \/ AttemptFails(r) \/ Deadline(r)
  PROVE  PoolInv' /\ UNCHANGED <<link, task>>
<1> USE DEF Connected, Answered, AttemptFails, Deadline, linkV, taskV, doneV, poolV, PoolInv
<1>1. (LinkOK /\ TaskOK /\ PoolOK)'
  BY DEF LinkOK, TaskOK, PoolOK
<1>2. (OneConnects /\ Cancels /\ Links)'
  BY DEF OneConnects, Cancels, Links
<1>3. UNCHANGED <<task, current, connecting, failure, state, closing, link, result,
                 limited, tries>>
  OBVIOUS
<1>4. Results' /\ NothingLeaks'
  BY ONLY Results, NothingLeaks, <1>3 DEF Results, NothingLeaks, PoolClosing
<1>5. PoolHonest'
  BY ONLY PoolHonest, <1>3 DEF PoolHonest, Live, PoolClosing, Trying
<1> QED
  BY <1>1, <1>2, <1>3, <1>4, <1>5

\* What an attempt does to its call.
LEMMA AttemptKeepsCalls ==
  ASSUME PoolInv, CallInv, NEW r \in Requests, Attempt(r)
  PROVE  CallInv'
<1>1. /\ call[r] \in {"none", "backoff"} /\ closing = "open"
      /\ attempt' = [attempt EXCEPT ![r] = @ + 1] /\ closing' = closing /\ link' = link
  BY DEF Attempt, linkV
<1>2. /\ attempt \in [Requests -> 0..(RetryAttempts + 1)]
      /\ sends \in [Requests -> 0..(RetryAttempts + 1)]
      /\ call \in [Requests -> {"none", "waiting", "sending", "backoff", "done"}]
      /\ via \in [Requests -> {0} \cup Tasks \cup Transports]
  BY DEF CallInv, CallOK
<1>3. /\ sends[r] <= attempt[r] /\ attempt[r] <= RetryAttempts
      /\ r \notin Idempotent => sends[r] = 0
  BY <1>1, <1>2 DEF CallInv, CallFine
<1>4. /\ attempt[r] + 1 \in 0..(RetryAttempts + 1)
      /\ sends[r] + 1 \in 0..(RetryAttempts + 1) /\ sends[r] \in 0..(RetryAttempts + 1)
      /\ sends[r] + 1 <= attempt[r] + 1 /\ sends[r] < attempt[r] + 1
  BY <1>2, <1>3
<1>5. \A k \in Tasks : task[k] # "none" => task'[k] # "none"
  BY AttemptFacts
<1>6. attempt'[r] = attempt[r] + 1
  BY <1>1, <1>2
<1>7. \A t \in Transports : link[t] # "none" => link'[t] # "none"
  BY <1>1
<1> HIDE DEF Attempt
<1>8. ASSUME NEW to \in {"done", "backoff"}, Move(r, to, 0), UNCHANGED sends,
             to = "backoff" => attempt[r] < RetryAttempts
      PROVE  CallInv'
  <2>1. /\ call' = [call EXCEPT ![r] = to] /\ via' = [via EXCEPT ![r] = 0]
        /\ sends' = [sends EXCEPT ![r] = sends[r]]
    BY <1>2, <1>8 DEF Move
  <2>2. CallFine(r)'
    BY <1>1, <1>2, <1>3, <1>4, <1>6, <1>8, <2>1 DEF CallFine
  <2> QED
    BY <1>1, <1>4, <1>5, <1>7, <2>1, <2>2, CallKeeps
<1>9. ASSUME Move(r, "waiting", connecting'), UNCHANGED sends,
             connecting' \in Tasks, task'[connecting'] # "none"
      PROVE  CallInv'
  <2>1. /\ call' = [call EXCEPT ![r] = "waiting"]
        /\ via' = [via EXCEPT ![r] = connecting']
        /\ sends' = [sends EXCEPT ![r] = sends[r]]
    BY <1>2, <1>9 DEF Move
  <2>2. CallFine(r)'
    BY <1>1, <1>2, <1>3, <1>4, <1>6, <1>9, <2>1 DEF CallFine
  <2> QED
    BY <1>1, <1>4, <1>5, <1>7, <1>9, <2>1, <2>2, CallKeeps
<1>10. ASSUME current \in Transports, Send(r, current) PROVE CallInv'
  <2>1. /\ call' = [call EXCEPT ![r] = "sending"]
        /\ via' = [via EXCEPT ![r] = current]
        /\ sends' = [sends EXCEPT ![r] = sends[r] + 1]
        /\ link[current] = "open"
    BY <1>2, <1>10 DEF Move, Send
  <2>2. CallFine(r)'
    BY <1>1, <1>2, <1>3, <1>4, <1>6, <1>10, <2>1 DEF CallFine
  <2> QED
    BY <1>1, <1>4, <1>5, <1>7, <1>10, <2>1, <2>2, CallKeeps
<1> QED
  BY <1>8, <1>9, <1>10, AttemptFacts

\* What the other steps of a call do to it.
LEMMA OtherCallsKeepCalls ==
  ASSUME PoolInv, CallInv, NEW r \in Requests,
         Connected(r) \/ Answered(r) \/ AttemptFails(r) \/ Deadline(r)
  PROVE  CallInv'
<1>1. /\ attempt \in [Requests -> 0..(RetryAttempts + 1)]
      /\ sends \in [Requests -> 0..(RetryAttempts + 1)]
      /\ call \in [Requests -> {"none", "waiting", "sending", "backoff", "done"}]
      /\ via \in [Requests -> {0} \cup Tasks \cup Transports]
  BY DEF CallInv, CallOK
<1>2. CallFine(r)
  BY DEF CallInv
<1>3. closing' = closing /\ UNCHANGED attempt
  BY DEF Connected, Answered, AttemptFails, Deadline
<1>4. /\ \A k \in Tasks : task[k] # "none" => task'[k] # "none"
      /\ \A t \in Transports : link[t] # "none" => link'[t] # "none"
      /\ UNCHANGED <<link, task>>
  BY OtherCallsKeepPool
<1>5. attempt' = [attempt EXCEPT ![r] = attempt[r]] /\ attempt'[r] = attempt[r]
  BY <1>1, <1>3
<1>6. ASSUME NEW to \in {"done", "backoff"}, Move(r, to, 0), UNCHANGED sends,
             to = "backoff" =>
               /\ closing = "open" /\ attempt[r] <= RetryAttempts
               /\ r \notin Idempotent => sends[r] = 0
      PROVE  CallInv'
  <2>1. /\ call' = [call EXCEPT ![r] = to] /\ via' = [via EXCEPT ![r] = 0]
        /\ sends' = [sends EXCEPT ![r] = sends[r]]
    BY <1>1, <1>6 DEF Move
  <2>2. CallFine(r)'
    BY <1>1, <1>2, <1>3, <1>5, <1>6, <2>1 DEF CallFine
  <2> QED
    BY <1>1, <1>3, <1>4, <1>5, <2>1, <2>2, CallKeeps
<1>7. ASSUME NEW unsent \in BOOLEAN, Fail(r, unsent),
             unsent => call[r] = "waiting"
      PROVE  CallInv'
  <2>1. CASE MayRetry(r, unsent)
    <3>1. Move(r, "backoff", 0) /\ UNCHANGED sends
      BY <1>7, <2>1 DEF Fail
    <3>2. /\ closing = "open" /\ attempt[r] <= RetryAttempts
          /\ r \notin Idempotent => sends[r] = 0
      BY <1>2, <1>7, <2>1 DEF MayRetry, CallFine
    <3> QED
      BY <1>6, <3>1, <3>2
  <2>2. CASE ~MayRetry(r, unsent)
    BY <1>6, <1>7, <2>2 DEF Fail
  <2> QED
    BY <2>1, <2>2
<1>8. CASE Connected(r)
  <2>1. /\ call[r] = "waiting" /\ via[r] \in Tasks /\ sends[r] < attempt[r]
        /\ r \notin Idempotent => sends[r] = 0
    BY <1>2, <1>8 DEF Connected, CallFine
  <2>2. CASE task[via[r]] = "done" /\ Send(r, result[via[r]])
    <3>1. result[via[r]] \in Transports /\ link[result[via[r]]] = "open"
      BY <2>1, <2>2 DEF PoolInv, Results, TaskOK, Send
    <3>2. /\ call' = [call EXCEPT ![r] = "sending"]
          /\ via' = [via EXCEPT ![r] = result[via[r]]]
          /\ sends' = [sends EXCEPT ![r] = sends[r] + 1]
      BY <1>1, <2>2 DEF Move, Send
    <3>3. sends[r] + 1 \in 0..(RetryAttempts + 1)
      BY <1>1, <2>1
    <3>4. /\ call'[r] = "sending" /\ via'[r] = result[via[r]] /\ sends'[r] = sends[r] + 1
          /\ sends'[r] <= attempt'[r]
          /\ r \notin Idempotent => sends'[r] <= 1
      BY <1>1, <1>5, <2>1, <3>2
    <3>5. closing = "open"
      BY <1>2, <2>1 DEF CallFine
    <3>6. CallFine(r)'
      BY <1>3, <1>4, <3>1, <3>4, <3>5 DEF CallFine
    <3> QED
      BY <1>1, <1>3, <1>4, <1>5, <3>1, <3>2, <3>3, <3>6, CallKeeps
  <2>3. CASE Fail(r, TRUE)
    BY <1>7, <2>1, <2>3
  <2>4. CASE Move(r, "done", 0) /\ UNCHANGED sends
    BY <1>6, <2>4
  <2> QED
    BY <1>8, <2>2, <2>3, <2>4 DEF Connected
<1>9. CASE Answered(r)
  BY <1>6, <1>9 DEF Answered
<1>10. CASE AttemptFails(r)
  <2>1. CASE Fail(r, FALSE)
    BY <1>7, <2>1
  <2>2. CASE Move(r, "done", 0) /\ UNCHANGED sends
    BY <1>6, <2>2
  <2> QED
    BY <1>10, <2>1, <2>2 DEF AttemptFails
<1>11. CASE Deadline(r)
  BY <1>6, <1>11 DEF Deadline
<1> QED
  BY <1>8, <1>9, <1>10, <1>11

\* Every other step leaves the calls alone, or ends them all.
LEMMA OthersKeepCalls ==
  ASSUME IInv,
         \/ \E k \in Tasks : \/ ConnectSucceeds(k) \/ ConnectFails(k) \/ Retries(k)
                             \/ ConnectCancelled(k) \/ Discarded(k) \/ Reap(k)
         \/ \E t \in Transports : TransportFails(t) \/ ClosedCallback(t)
         \/ ClosePool \/ ConnectsEnded \/ Closed \/ CloseClient \/ Over
  PROVE  CallInv'
<1>1. LinkOK /\ TaskOK /\ PoolInv /\ CallInv
  BY DEF IInv, PoolInv
<1>2. ASSUME UNCHANGED callV, closing' = closing,
             \A k \in Tasks : task[k] # "none" => task'[k] # "none",
             \A t \in Transports : link[t] # "none" => link'[t] # "none"
      PROVE  CallInv'
  BY <1>1, <1>2, CallsStay
<1>3. ASSUME UNCHANGED <<callV, task>>, closing # "open",
             \A t \in Transports : link[t] # "none" => link'[t] # "none"
      PROVE  CallInv'
  <2>1. \A r \in Requests : call[r] \in {"none", "done"}
    BY <1>1, <1>3 DEF CallInv, CallFine
  <2>2. UNCHANGED <<call, via, attempt, sends>>
    BY <1>3 DEF callV
  <2>3. CallOK'
    BY <1>1, <2>2 DEF CallInv, CallOK
  <2>4. ASSUME NEW r \in Requests PROVE CallFine(r)'
    BY <1>1, <2>1, <2>2, <2>4 DEF CallInv, CallFine
  <2> QED
    BY <2>3, <2>4 DEF CallInv
<1>4. ASSUME NEW k \in Tasks,
             \/ ConnectSucceeds(k) \/ ConnectFails(k) \/ Retries(k)
             \/ ConnectCancelled(k) \/ Discarded(k) \/ Reap(k)
      PROVE  CallInv'
  <2>1. UNCHANGED callV /\ closing' = closing
    BY <1>4 DEF ConnectSucceeds, ConnectFails, Retries, ConnectCancelled, Discarded, Reap
  <2>2. \A j \in Tasks : task[j] # "none" => task'[j] # "none"
    BY <1>1, <1>4 DEF ConnectSucceeds, ConnectFails, Retries, ConnectCancelled, Discarded,
                      Reap, TaskOK, taskV
  <2>3. \A t \in Transports : link[t] # "none" => link'[t] # "none"
    BY <1>1, <1>4 DEF ConnectSucceeds, ConnectFails, Retries, ConnectCancelled, Discarded,
                      Reap, LinkOK, linkV
  <2> QED
    BY <1>2, <2>1, <2>2, <2>3
<1>5. ASSUME NEW t \in Transports, TransportFails(t) PROVE CallInv'
  <2>1. \A u \in Transports : link[u] # "none" => link'[u] # "none"
    BY <1>1, <1>5 DEF TransportFails, LinkOK
  <2> QED
    BY <1>2, <1>5, <2>1 DEF TransportFails, taskV
<1>6. ASSUME NEW t \in Transports, ClosedCallback(t) PROVE CallInv'
  <2>1. link[t] \notin {"none", "open"}
    BY <1>1, <1>6 DEF ClosedCallback, PoolInv, Links
  <2>2. \A k \in Tasks : task[k] # "none" => task'[k] # "none"
    BY <1>1, <1>6, <2>1, ClosedKeeps DEF ClosedCallback
  <2> QED
    BY <1>2, <1>6, <2>2 DEF ClosedCallback
<1>7. CASE ClosePool
  BY <1>3, <1>7 DEF ClosePool, linkV, taskV
<1>8. CASE ConnectsEnded
  BY <1>3, <1>8 DEF ConnectsEnded, linkV, taskV
<1>9. CASE Closed
  <2>1. \A u \in Transports : link[u] # "none" => link'[u] # "none"
    BY <1>1, <1>9 DEF Closed, LinkOK
  <2> QED
    BY <1>3, <1>9, <2>1 DEF Closed, taskV
<1>10. CASE CloseClient
  BY <1>1, <1>10 DEF CloseClient, CallInv, CallOK, CallFine
<1>11. CASE Over
  BY <1>2, <1>11 DEF Over, vars, linkV, taskV
<1> QED
  BY <1>4, <1>5, <1>6, <1>7, <1>8, <1>9, <1>10, <1>11

-----------------------------------------------------------------------------
(* The theorems *)

\* A client that has connected to nothing yet.
LEMMA InitHolds == Init => IInv
<1> SUFFICES ASSUME Init PROVE IInv
  OBVIOUS
<1> USE DEF Init
<1>1. LinkOK /\ TaskOK /\ PoolOK
  <2>1. 0 \in 0..(MaxAttempts + 1)
    OBVIOUS
  <2>2. LinkOK
    BY DEF LinkOK
  <2>3. TaskOK
    BY <2>1 DEF TaskOK
  <2>4. PoolOK
    BY DEF PoolOK
  <2> QED
    BY <2>2, <2>3, <2>4
<1>2. OneConnects /\ Results /\ Cancels /\ Links /\ NothingLeaks /\ PoolHonest
  BY DEF OneConnects, Results, Cancels, Links, NothingLeaks, PoolHonest
<1>3. CallInv
  BY DEF CallInv, CallOK, CallFine
<1> QED
  BY <1>1, <1>2, <1>3 DEF IInv, PoolInv

\* A step that changes nothing.
LEMMA StutterKeeps == IInv /\ UNCHANGED vars => IInv'
<1> SUFFICES ASSUME IInv, UNCHANGED vars PROVE IInv'
  OBVIOUS
<1>1. PoolInv'
  <2> USE DEF vars, linkV, taskV, doneV, poolV, callV, IInv, PoolInv
  <2>1. (LinkOK /\ TaskOK /\ PoolOK)'
    BY DEF LinkOK, TaskOK, PoolOK
  <2>2. (OneConnects /\ Results /\ Cancels /\ Links)'
    BY DEF OneConnects, Results, Cancels, Links
  <2>3. UNCHANGED <<task, current, connecting, failure, state, closing, link, result>>
    OBVIOUS
  <2>4. NothingLeaks'
    BY ONLY NothingLeaks, <2>3 DEF NothingLeaks
  <2>5. PoolHonest'
    BY ONLY PoolHonest, <2>3 DEF PoolHonest, Live, PoolClosing, Trying
  <2> QED
    BY <2>1, <2>2, <2>4, <2>5
<1>2. CallInv'
  BY CallsStay DEF IInv, vars, linkV, taskV, callV
<1> QED
  BY <1>1, <1>2 DEF IInv

\* One case per group of actions.
LEMMA StepKeeps == IInv /\ [Next]_vars => IInv'
<1> SUFFICES ASSUME IInv, [Next]_vars PROVE IInv'
  OBVIOUS
<1>1. PoolInv /\ CallInv
  BY DEF IInv
<1>2. ASSUME NEW r \in Requests, Attempt(r) PROVE IInv'
  BY <1>1, <1>2, AttemptFacts, AttemptKeepsCalls DEF IInv
<1>3. ASSUME NEW r \in Requests, Connected(r) \/ Answered(r) \/ AttemptFails(r) \/ Deadline(r)
      PROVE  IInv'
  BY <1>1, <1>3, OtherCallsKeepPool, OtherCallsKeepCalls DEF IInv
<1>4. ASSUME NEW k \in Tasks,
             \/ ConnectSucceeds(k) \/ ConnectFails(k) \/ Retries(k)
             \/ ConnectCancelled(k) \/ Discarded(k) \/ Reap(k)
      PROVE  IInv'
  <2>1. PoolInv'
    BY <1>1, <1>4, TaskKeeps
  <2>2. CallInv'
    BY <1>4, OthersKeepCalls
  <2> QED
    BY <2>1, <2>2 DEF IInv
<1>5. ASSUME \/ \E t \in Transports : TransportFails(t) \/ ClosedCallback(t)
             \/ ClosePool \/ ConnectsEnded \/ Closed \/ CloseClient \/ Over
      PROVE  IInv'
  <2>1. PoolInv'
    BY <1>1, <1>5, LinkKeeps
  <2>2. CallInv'
    BY <1>5, OthersKeepCalls
  <2> QED
    BY <2>1, <2>2 DEF IInv
<1> QED
  BY <1>2, <1>3, <1>4, <1>5, StutterKeeps DEF Next, Connects, Callbacks, Continues, Closing

\* The invariant holds of every behaviour of the client.
LEMMA Invariance == Spec => []IInv
<1> QED
  BY InitHolds, StepKeeps, PTL DEF Spec

\* The variables of the client and its pool keep their types: no call uses more
\* attempts than retry_attempts allows, and no recovery of _connect more than
\* reconnect_max_attempts and one, where that is not None.
THEOREM RecoveryTypes == Spec => []TypeOK
<1>1. IInv => TypeOK
  BY DEF IInv, PoolInv, CallInv, TypeOK
<1> QED
  BY <1>1, Invariance, PTL

\* request() of core.py.j2: however a call is retried, whatever transports are
\* lost and whenever their callbacks run, the frame of a call whose method is not
\* idempotent reaches the server at most once.
THEOREM CallsSentOnce == Spec => []SentOnce
<1>1. IInv => SentOnce
  BY DEF IInv, CallInv, CallFine, SentOnce
<1> QED
  BY <1>1, Invariance, PTL

\* RpcTransportPool: every open transport is the current one or that of the task
\* that is closing it, also when close() races the attempt that opened it.
THEOREM NoTransportLeaks == Spec => []NothingLeaks
<1>1. IInv => NothingLeaks
  BY DEF IInv, PoolInv
<1> QED
  BY <1>1, Invariance, PTL

\* _transition and _terminal: until close(), the reported state agrees with the
\* transport the pool has, its failure and its running task.
THEOREM PoolStateHonest == Spec => []StateHonest
<1>1. IInv => StateHonest
  BY DEF IInv, PoolInv, PoolHonest, StateHonest, PoolClosing
<1> QED
  BY <1>1, Invariance, PTL
=============================================================================
