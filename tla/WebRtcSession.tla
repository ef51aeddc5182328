----------------------------- MODULE WebRtcSession -----------------------------
(***************************************************************************)
(* The sessions of a WebRTC router from admission to the end of their      *)
(* cleanup: _serve, _admit and aclose of webrtc/router.py, SessionCapacity *)
(* and SlotReservation of webrtc/capacity.py, and serve, _startup,         *)
(* _create_peer, _begin, send_track, remove_track, _on_track and _cleanup  *)
(* of SessionRuntime in webrtc/runtime.py.                                 *)
(*                                                                         *)
(* A capacity is the set of sessions it applies to.  What ends a session   *)
(* meanwhile (timers, signaling, the transport, limits, Peer.close) is one *)
(* action; WebRtcNegotiation models the signaling.  The engine and the     *)
(* handlers are external: each may fail, take for ever or ignore that it   *)
(* is cancelled.                                                           *)
(***************************************************************************)
EXTENDS Naturals, FiniteSets

CONSTANTS
  Sessions,     \* the sessions that are asked for
  Capacities,   \* sets of sessions that share a SessionCapacity
  MaxSessions,  \* max_sessions
  Tracks,       \* tracks of Session.tracks and send_track()
  Owning,       \* sessions whose factory returns them as Session.tracks
  Faults        \* the environment events that may happen

FaultKinds == {"refused", "failure", "server_cancel", "ignored_cancel",
               "stuck_engine", "on_close_cancelled"}

ASSUME SessionAssumption ==
  /\ IsFiniteSet(Sessions) /\ Capacities \subseteq SUBSET Sessions
  /\ MaxSessions \in Nat \ {0} /\ Owning \subseteq Sessions
  /\ Faults \subseteq FaultKinds

VARIABLES
  active,      \* _active of a capacity
  holds,       \* sessions whose SlotReservation is held
  closing,     \* _closing of the router
  waits,       \* runtimes that aclose() waits for
  phase,       \* how far _serve, serve and _cleanup have come
  over,        \* sessions whose code is set
  startup,     \* the task "startup"
  begin,       \* the task "start", then the handlers
  cancel,      \* tasks whose cancellation has not reached them
  peer,        \* _peer: none, open, closed, or abandoned by its engine
  owned,       \* _owned_tracks
  removing,    \* tracks whose remove_track() waits for the engine
  stops,       \* how often a track was stopped
  incoming     \* the track of the client: none, live, stopped

routerV == <<active, holds, closing, waits>>
taskV   == <<startup, begin, cancel>>
mediaV  == <<peer, owned, removing, stops, incoming>>
vars == <<routerV, phase, over, taskV, mediaV>>

-----------------------------------------------------------------------------
Holders(c) == {s \in c : s \in holds}
Full(c)    == active[c] >= MaxSessions
Serving    == {"accepting", "running"}
Cleaning   == {"signaling", "tasks", "on_close", "peer"}
Finished   == {"ended", "cut"}
Runs(s)    == s \notin over

\* terminate; which code the session keeps is left out.
Terminate(s) == over' = over \cup {s}

Set(f, s, v) == [f EXCEPT ![s] = v]

\* Tracks of session s that are stopped once more.
Stop(s, T) == stops' = [stops EXCEPT ![s] = [t \in Tracks |-> IF t \in T THEN @[t] + 1
                                                            ELSE @[t]]]

Init ==
  /\ active = [c \in Capacities |-> 0] /\ holds = {}
  /\ closing = FALSE /\ waits = {}
  /\ phase = [s \in Sessions |-> "none"] /\ over = {}
  /\ startup = [s \in Sessions |-> "none"] /\ begin = [s \in Sessions |-> "none"]
  /\ cancel = [s \in Sessions |-> {}]
  /\ peer = [s \in Sessions |-> "none"]
  /\ owned = [s \in Sessions |-> IF s \in Owning THEN Tracks ELSE {}]
  /\ removing = [s \in Sessions |-> {}]
  /\ stops = [s \in Sessions |-> [t \in Tracks |-> 0]]
  /\ incoming = [s \in Sessions |-> "none"]

-----------------------------------------------------------------------------
(* Admission *)

\* A session is admitted when one of its capacities is not full.
BadAdmitted(s) ==
  ~closing /\ \E c \in Capacities : s \in c /\ ~Full(c)

\* _admit: every capacity must have room.
Admitted(s) ==
  ~closing /\ \A c \in Capacities : s \in c => ~Full(c)

\* _serve up to the runtime; a refused session returns its tracks stopped.
Serve(s) ==
  /\ phase[s] = "none"
  /\ \/ /\ Admitted(s)
        /\ active' = [c \in Capacities |-> IF s \in c THEN active[c] + 1 ELSE active[c]]
        /\ holds' = holds \cup {s}
        /\ phase' = Set(phase, s, "accepting")
        /\ UNCHANGED <<owned, stops>>
     \/ /\ ~Admitted(s) \/ "refused" \in Faults
        /\ phase' = Set(phase, s, "refused")
        /\ owned' = Set(owned, s, {}) /\ Stop(s, owned[s])
        /\ UNCHANGED <<active, holds>>
  /\ UNCHANGED <<closing, waits, over, taskV, peer, removing, incoming>>

\* _accept and the start of _run
Accept(s) ==
  /\ phase[s] = "accepting"
  /\ phase' = Set(phase, s, "running") /\ startup' = Set(startup, s, "ice")
  /\ UNCHANGED <<routerV, over, begin, cancel, mediaV>>

\* The subprotocol is not offered, the socket fails, or the server cancels
\* the endpoint: serve goes on to its cleanup.
ServeFails(s) ==
  /\ \/ phase[s] = "accepting" /\ "failure" \in Faults /\ Terminate(s)
     \/ phase[s] \in Serving /\ "server_cancel" \in Faults /\ Terminate(s)
  /\ phase' = Set(phase, s, "signaling")
  /\ UNCHANGED <<routerV, taskV, mediaV>>

\* aclose
Aclose ==
  /\ ~closing /\ closing' = TRUE
  /\ waits' = {s \in Sessions : phase[s] \in Serving \cup Cleaning}
  /\ over' = over \cup waits'
  /\ UNCHANGED <<active, holds, phase, taskV, mediaV>>

\* A waiter of aclose is told that the cleanup of s has finished.
Waited(s) ==
  /\ s \in waits /\ phase[s] \in Finished
  /\ waits' = waits \ {s}
  /\ UNCHANGED <<active, holds, closing, phase, over, taskV, mediaV>>

-----------------------------------------------------------------------------
(* The tasks of a session *)

\* Task t of session s goes on: it was not cancelled or ignores it.
Awake(s, t) == t \in cancel[s] => "ignored_cancel" \in Faults
Ignores(s, t) == cancel' = [cancel EXCEPT ![s] = @ \ {t}]

\* _startup up to the engine
IceResolved(s) ==
  /\ startup[s] = "ice" /\ Awake(s, "startup") /\ Ignores(s, "startup")
  /\ startup' = Set(startup, s, IF Runs(s) THEN "creating" ELSE "ended")
  /\ UNCHANGED <<routerV, phase, over, begin, mediaV>>

\* A peer that the engine returns too late starts the session all the same.
BadPeerCreated(s) ==
  /\ startup[s] = "creating" /\ Awake(s, "startup") /\ Ignores(s, "startup")
  /\ peer' = Set(peer, s, "open")
  /\ startup' = Set(startup, s, "hello")
  /\ UNCHANGED <<routerV, phase, over, begin, owned, removing,
                 stops, incoming>>

\* _create_peer: a peer that the engine returns too late is closed again.
PeerCreated(s) ==
  /\ startup[s] = "creating" /\ Awake(s, "startup") /\ Ignores(s, "startup")
  /\ peer' = Set(peer, s, "open")
  /\ startup' = Set(startup, s, IF Runs(s) THEN "hello" ELSE "discarding")
  /\ UNCHANGED <<routerV, phase, over, begin, owned, removing,
                 stops, incoming>>

PeerDiscarded(s) ==
  /\ startup[s] = "discarding" /\ Awake(s, "startup") /\ Ignores(s, "startup")
  /\ peer' = Set(peer, s, "closed") /\ startup' = Set(startup, s, "ended")
  /\ UNCHANGED <<routerV, phase, over, begin, owned, removing,
                 stops, incoming>>

\* The session message is sent; the tasks for signaling start.
HelloSent(s) ==
  /\ startup[s] = "hello" /\ Awake(s, "startup") /\ Ignores(s, "startup")
  /\ startup' = Set(startup, s, "ended")
  /\ UNCHANGED <<routerV, phase, over, begin, mediaV>>

StartupFails(s) ==
  /\ startup[s] \in {"ice", "creating", "hello", "discarding"} /\ "failure" \in Faults
  /\ Terminate(s) /\ Ignores(s, "startup")
  /\ startup' = Set(startup, s, "ended")
  /\ peer' = IF startup[s] = "discarding" THEN Set(peer, s, "abandoned") ELSE peer
  /\ UNCHANGED <<routerV, phase, begin, owned, removing, stops,
                 incoming>>

\* _check_established
Establish(s) ==
  /\ peer[s] = "open" /\ startup[s] = "ended" /\ Runs(s) /\ begin[s] = "none"
  /\ begin' = Set(begin, s, "starting")
  /\ UNCHANGED <<routerV, phase, over, startup, cancel, peer, owned, removing,
                 stops, incoming>>

\* _begin once on_start has returned: handlers start, whatever the code is.
Begin(s) ==
  /\ begin[s] = "starting" /\ Awake(s, "begin") /\ Ignores(s, "begin")
  /\ begin' = Set(begin, s, "handling")
  /\ UNCHANGED <<routerV, phase, over, startup, mediaV>>

\* run has returned, or a handler has failed.
HandlerEnds(s) ==
  /\ begin[s] \in {"starting", "handling"} /\ Awake(s, "begin") /\ Ignores(s, "begin")
  /\ Terminate(s)
  /\ begin' = Set(begin, s, "ended")
  /\ UNCHANGED <<routerV, phase, startup, mediaV>>

\* A task is cancelled where it waits.
Cancelled(s) ==
  /\ \/ /\ "startup" \in cancel[s] /\ Ignores(s, "startup")
        /\ startup' = Set(startup, s, "ended") /\ UNCHANGED begin
     \/ /\ "begin" \in cancel[s] /\ Ignores(s, "begin")
        /\ begin' = Set(begin, s, "ended") /\ UNCHANGED startup
  /\ UNCHANGED <<routerV, phase, over, mediaV>>

\* Timers, signaling, the transport, a limit or Peer.close end the session.
Ends(s) ==
  /\ phase[s] = "running" /\ Runs(s) /\ Terminate(s)
  /\ UNCHANGED <<routerV, phase, taskV, mediaV>>

\* _on_track: a track that is refused or arrives too late is stopped.
OnTrack(s) ==
  /\ peer[s] = "open" /\ incoming[s] = "none"
  /\ \/ Runs(s) /\ incoming' = Set(incoming, s, "live") /\ UNCHANGED over
     \/ Terminate(s) /\ incoming' = Set(incoming, s, "stopped")
  /\ UNCHANGED <<routerV, phase, taskV, peer, owned, removing, stops>>

\* send_track(owned=True); the session is looked at again under the lock.
SendTrack(s, t) ==
  /\ begin[s] \in {"starting", "handling"} /\ Runs(s) /\ t \notin owned[s]
  /\ stops[s][t] = 0
  /\ owned' = Set(owned, s, owned[s] \cup {t})
  /\ UNCHANGED <<routerV, phase, over, taskV, peer, removing, stops, incoming>>

\* remove_track up to the engine
RemoveTrack(s, t) ==
  /\ begin[s] \in {"starting", "handling"} /\ Runs(s) /\ t \in owned[s] \ removing[s]
  /\ removing' = Set(removing, s, removing[s] \cup {t})
  /\ UNCHANGED <<routerV, phase, over, taskV, peer, owned, stops, incoming>>

\* _release_track takes a track out before it stops it.
Released(s, t) == {t} \cap owned[s]

\* remove_track after the engine, or without it once the session ends.
TrackRemoved(s, t) ==
  /\ t \in removing[s] \/ ~Runs(s)
  /\ begin[s] \in {"starting", "handling"} /\ Awake(s, "begin")
  /\ owned' = Set(owned, s, owned[s] \ {t}) /\ Stop(s, Released(s, t))
  /\ removing' = Set(removing, s, removing[s] \ {t})
  /\ UNCHANGED <<routerV, phase, over, taskV, peer, incoming>>

-----------------------------------------------------------------------------
(* Cleanup *)

Live(s) == (IF startup[s] \in {"none", "ended"} THEN {} ELSE {"startup"})
             \cup (IF begin[s] \in {"none", "ended"} THEN {} ELSE {"begin"})

\* The end of _run: _cleanup fixes the code and cancels the timers.
Done(s) ==
  /\ phase[s] = "running" /\ ~Runs(s)
  /\ phase' = Set(phase, s, "signaling")
  /\ UNCHANGED <<routerV, over, taskV, mediaV>>

\* The socket is closed and the tasks of the session are cancelled.
SignalingClosed(s) ==
  /\ phase[s] = "signaling"
  /\ phase' = Set(phase, s, "tasks")
  /\ cancel' = Set(cancel, s, Live(s))
  /\ UNCHANGED <<routerV, over, startup, begin, mediaV>>

\* The cleanup waits for tasks that never end.
BadTasksEnded(s) ==
  /\ phase[s] = "tasks" /\ Live(s) = {}
  /\ phase' = Set(phase, s, "on_close")
  /\ UNCHANGED <<routerV, over, taskV, mediaV>>

\* The tasks have ended, or the deadline of the cleanup has passed.
TasksEnded(s) ==
  /\ phase[s] = "tasks"
  /\ Live(s) = {} \/ "ignored_cancel" \in Faults
  /\ phase' = Set(phase, s, "on_close")
  /\ UNCHANGED <<routerV, over, taskV, mediaV>>

\* release of SlotReservation
Release(s) ==
  /\ active' = [c \in Capacities |-> IF s \in c /\ s \in holds THEN active[c] - 1
                                     ELSE active[c]]
  /\ holds' = holds \ {s}

\* on_close has returned, failed or run out of time: tracks are stopped.
OnClosed(s) ==
  /\ phase[s] = "on_close"
  /\ incoming' = Set(incoming, s, IF incoming[s] = "live" THEN "stopped" ELSE incoming[s])
  /\ owned' = Set(owned, s, {}) /\ Stop(s, owned[s])
  /\ IF peer[s] = "none" THEN phase' = Set(phase, s, "ended") /\ Release(s)
     ELSE phase' = Set(phase, s, "peer") /\ UNCHANGED <<active, holds>>
  /\ UNCHANGED <<closing, waits, over, taskV, peer, removing>>

\* on_close, which an accepted session has, raises CancelledError: it passes both
\* handlers around it, and the rest of _cleanup is skipped.
OnCloseCancelled(s) ==
  /\ phase[s] = "on_close" /\ "on_close_cancelled" \in Faults
  /\ startup[s] # "none"
  /\ phase' = Set(phase, s, "cut")
  /\ UNCHANGED <<routerV, over, taskV, mediaV>>

\* The engine has closed its peer, or has failed or run out of time.
PeerClosed(s) ==
  /\ phase[s] = "peer"
  /\ \/ peer' = Set(peer, s, "closed")
     \/ "stuck_engine" \in Faults
        /\ peer' = Set(peer, s, IF peer[s] = "closed" THEN "closed" ELSE "abandoned")
  /\ phase' = Set(phase, s, "ended") /\ Release(s)
  /\ UNCHANGED <<closing, waits, over, taskV, owned, removing, stops, incoming>>

-----------------------------------------------------------------------------
\* The end of every behaviour.
Over ==
  /\ \A s \in Sessions : phase[s] \in Finished \cup {"refused"} /\ Live(s) = {}
  /\ closing /\ waits = {}
  /\ UNCHANGED vars

\* The steps of serve and _cleanup, of what a task has been told to do, and of
\* the engine that has been asked for a peer, have deadlines or end by themselves.
Progress ==
  \E s \in Sessions :
    \/ Accept(s) \/ Done(s) \/ SignalingClosed(s) \/ TasksEnded(s) \/ OnClosed(s)
    \/ PeerClosed(s) \/ Waited(s)
    \/ PeerCreated(s) \/ PeerDiscarded(s) \/ Cancelled(s)

Next ==
  \/ Progress
  \/ \E s \in Sessions :
       \/ Serve(s) \/ ServeFails(s) \/ IceResolved(s) \/ HelloSent(s)
       \/ StartupFails(s) \/ Establish(s) \/ Begin(s) \/ HandlerEnds(s)
       \/ Ends(s) \/ OnTrack(s) \/ OnCloseCancelled(s)
       \/ \E t \in Tracks : SendTrack(s, t) \/ RemoveTrack(s, t) \/ TrackRemoved(s, t)
  \/ Aclose
  \/ Over

Spec == Init /\ [][Next]_vars
FairSpec == Spec /\ \A s \in Sessions :
  /\ WF_vars(Accept(s) \/ Done(s) \/ SignalingClosed(s) \/ TasksEnded(s) \/ OnClosed(s)
             \/ PeerClosed(s) \/ Waited(s))
  /\ WF_vars(PeerCreated(s) \/ PeerDiscarded(s))

-----------------------------------------------------------------------------
RouterOK ==
  /\ active \in [Capacities -> Nat] /\ holds \subseteq Sessions
  /\ closing \in BOOLEAN /\ waits \subseteq Sessions

PhaseOK ==
  /\ phase \in [Sessions -> {"none", "refused"} \cup Serving \cup Cleaning \cup Finished]
  /\ over \subseteq Sessions

TasksOK ==
  /\ startup \in [Sessions -> {"none", "ice", "creating", "discarding", "hello", "ended"}]
  /\ begin \in [Sessions -> {"none", "starting", "handling", "ended"}]
  /\ cancel \in [Sessions -> SUBSET {"startup", "begin"}]

MediaOK ==
  /\ peer \in [Sessions -> {"none", "open", "closed", "abandoned"}]
  /\ owned \in [Sessions -> SUBSET Tracks]
  /\ removing \in [Sessions -> SUBSET Tracks]
  /\ incoming \in [Sessions -> {"none", "live", "stopped"}]

\* _release_track: a track is never stopped twice.
StoppedOnce == stops \in [Sessions -> [Tracks -> 0..1]]

\* The types of the state; a track that the session owns is stopped at most once,
\* whichever of remove_track(), the cleanup and the refusal gets to it first.
TypeOK == RouterOK /\ PhaseOK /\ TasksOK /\ MediaOK /\ StoppedOnce

\* SessionCapacity, SlotReservation: what a capacity counts are its sessions, and
\* they are never more than it allows.
SlotsCounted ==
  \A c \in Capacities : active[c] = Cardinality(Holders(c)) /\ active[c] <= MaxSessions

\* _cleanup: a session gives its slots back when its tracks are stopped and its
\* peer is closed, or will be by the task that created it, and not before; a
\* session that was not admitted or has ended holds none.  What a session whose
\* cleanup was cut off holds is left to SlotsReturned.
ReleasedLast ==
  \A s \in Sessions :
    /\ phase[s] \in Serving \cup Cleaning => s \in holds
    /\ phase[s] \in {"none", "refused", "ended"} => s \notin holds
    /\ phase[s] = "ended" =>
         /\ owned[s] = {} /\ incoming[s] # "live"
         /\ peer[s] = "open" => startup[s] = "discarding"

CapacityHonest == SlotsCounted /\ ReleasedLast

\* protocol.md: "Every accepted session closes signaling, ..., then releases its
\* slot and dependency scopes"; capacity.py: it holds one slot "until its cleanup
\* finished".  No session whose serving is over holds a slot.
SlotsReturned == \A s \in Sessions : phase[s] \in Finished => s \notin holds

\* aclose, serve: when all that aclose() waits for have finished no session is
\* left and none is taken in, and a session that was told to end finishes although
\* its tasks and the engine may be stuck.  A session whose cleanup an on_close cut
\* off has finished in this sense: aclose() waits for it no longer.
ShutdownCompletes ==
  /\ [](closing /\ waits = {} =>
          \A s \in Sessions : phase[s] \in Finished \cup {"none", "refused"})
  /\ \A s \in Sessions : s \in over ~> phase[s] \in Finished
=============================================================================
