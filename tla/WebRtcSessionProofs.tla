------------------------ MODULE WebRtcSessionProofs ------------------------
(***************************************************************************)
(* What holds of a WebRTC router for any sessions, capacities, tracks and  *)
(* faults: type correctness, with it that no track is stopped twice, and   *)
(* that capacities count the sessions that have not released everything.   *)
(***************************************************************************)
EXTENDS WebRtcSession, FiniteSetTheorems, TLAPS

USE SessionAssumption DEF SessionAssumption, FaultKinds, Set

-----------------------------------------------------------------------------
(* The inductive invariant.  TypeOK and CapacityHonest say nothing of why a *)
(* session that has given its slots back acquires nothing more: its code is *)
(* set, and what its tasks still do they do under that code.                *)

\* A session holds its slots from its admission to the end of its cleanup, and one
\* whose cleanup an on_close has cut off goes on holding them.
SlotsHeld ==
  \A s \in Sessions : s \in holds <=> phase[s] \in Serving \cup Cleaning \cup {"cut"}

\* The cleanup of a session starts once its code is set.
EndedTold ==
  \A s \in Sessions : phase[s] \in Cleaning \cup Finished => s \in over

\* Tracks are stopped before the peer is closed.
TracksStopped ==
  \A s \in Sessions : phase[s] \in {"peer", "ended"} => owned[s] = {} /\ incoming[s] # "live"

\* A peer that is open after the cleanup is being closed by its task.
LatePeers ==
  \A s \in Sessions : phase[s] = "ended" /\ peer[s] = "open" =>
    startup[s] = "discarding" /\ "startup" \notin cancel[s]

\* A session does not own a track that was stopped.
OwnedFresh ==
  \A s \in Sessions : \A t \in owned[s] : stops[s][t] = 0

IInv ==
  /\ TypeOK /\ SlotsCounted /\ SlotsHeld
  /\ EndedTold /\ TracksStopped /\ LatePeers /\ OwnedFresh
-----------------------------------------------------------------------------
(* Type correctness. *)

\* Stopping tracks that were not stopped counts each of them once.
LEMMA StopType ==
  ASSUME NEW s \in Sessions, NEW T \in SUBSET Tracks, Stop(s, T),
         stops \in [Sessions -> [Tracks -> 0..1]], \A t \in T : stops[s][t] = 0
  PROVE  stops' \in [Sessions -> [Tracks -> 0..1]]
<1>1. [t \in Tracks |-> IF t \in T THEN stops[s][t] + 1 ELSE stops[s][t]] \in [Tracks -> 0..1]
  OBVIOUS
<1> QED
  BY <1>1 DEF Stop

\* A session that holds its slots is counted by its capacities.
LEMMA HoldersFinite ==
  ASSUME NEW c \in Capacities
  PROVE  IsFiniteSet(Holders(c)) /\ Cardinality(Holders(c)) \in Nat
<1>1. Holders(c) \in SUBSET Sessions
  BY DEF Holders
<1> QED
  BY <1>1, FS_Subset, FS_CardinalityType

\* Admission adds a session to its capacities, which have room for it.
LEMMA AdmissionCounts ==
  ASSUME RouterOK, SlotsCounted, NEW s \in Sessions, s \notin holds, Admitted(s),
         active' = [c \in Capacities |-> IF s \in c THEN active[c] + 1 ELSE active[c]],
         holds' = holds \cup {s}
  PROVE  SlotsCounted' /\ active' \in [Capacities -> Nat]
<1> SUFFICES ASSUME NEW c \in Capacities
             PROVE  /\ active'[c] = Cardinality(Holders(c)') /\ active'[c] <= MaxSessions
                    /\ active'[c] \in Nat
  BY DEF SlotsCounted
<1>1. /\ active[c] = Cardinality(Holders(c)) /\ active[c] <= MaxSessions
      /\ active[c] \in Nat
  BY DEF SlotsCounted, RouterOK
<1>2. CASE s \in c
  <2>1. Holders(c)' = Holders(c) \cup {s} /\ s \notin Holders(c)
    BY <1>2 DEF Holders
  <2>2. Cardinality(Holders(c)') = active[c] + 1
    BY <1>1, <2>1, HoldersFinite, FS_AddElement, ZenonT(60)
  <2> QED
    BY <1>1, <1>2, <2>2 DEF Admitted, Full
<1>3. CASE s \notin c
  <2>1. Holders(c)' = Holders(c)
    BY <1>3 DEF Holders
  <2> QED
    BY <1>1, <1>3, <2>1
<1> QED
  BY <1>2, <1>3

\* A release takes a session out of its capacities.
LEMMA ReleaseCounts ==
  ASSUME RouterOK, SlotsCounted, NEW s \in Sessions, Release(s)
  PROVE  SlotsCounted' /\ active' \in [Capacities -> Nat]
<1> SUFFICES ASSUME NEW c \in Capacities
             PROVE  /\ active'[c] = Cardinality(Holders(c)') /\ active'[c] <= MaxSessions
                    /\ active'[c] \in Nat
  BY DEF SlotsCounted, Release
<1>1. /\ active[c] = Cardinality(Holders(c)) /\ active[c] <= MaxSessions
      /\ active[c] \in Nat
  BY DEF SlotsCounted, RouterOK
<1>2. Holders(c)' = Holders(c) \ {s}
  BY DEF Holders, Release
<1>3. Cardinality(Holders(c)') = IF s \in Holders(c) THEN active[c] - 1 ELSE active[c]
  BY <1>1, <1>2, HoldersFinite, FS_RemoveElement, ZenonT(60)
<1>4. Cardinality(Holders(c) \ {s}) \in Nat
  BY HoldersFinite, FS_RemoveElement, FS_CardinalityType
<1>5. active'[c] = IF s \in Holders(c) THEN active[c] - 1 ELSE active[c]
  BY DEF Holders, Release
<1> QED
  BY <1>1, <1>2, <1>3, <1>4, <1>5
\* The initial state satisfies the invariant.
LEMMA InitInv == Init => IInv
<1> SUFFICES ASSUME Init PROVE IInv
  OBVIOUS
<1> USE DEF Init
<1>1. RouterOK
  BY DEF RouterOK
<1>2. PhaseOK
  BY DEF PhaseOK
<1>3. TasksOK
  BY DEF TasksOK
<1>4. MediaOK /\ StoppedOnce
  BY DEF MediaOK, StoppedOnce
<1>5. SlotsCounted
  <2>1. ASSUME NEW c \in Capacities PROVE Cardinality(Holders(c)) = 0
    <3>1. Holders(c) = {}
      BY DEF Holders
    <3> QED
      BY <3>1, FS_EmptySet
  <2> QED
    BY <2>1 DEF SlotsCounted
<1>6. SlotsHeld /\ EndedTold
  BY DEF SlotsHeld, EndedTold, Serving, Cleaning, Finished
<1>7. TracksStopped /\ LatePeers
  BY DEF TracksStopped, LatePeers
<1>8. OwnedFresh
  BY DEF OwnedFresh
<1> QED
  BY <1>1, <1>2, <1>3, <1>4, <1>5, <1>6, <1>7, <1>8 DEF IInv, TypeOK

\* The steps by the component of the state they touch: those that take or give
\* back slots...
Slotting(s) == Serve(s) \/ OnClosed(s) \/ PeerClosed(s)

\* ...those of the router and of the cleanup that leave the slots alone...
Phasing(s) ==
  Accept(s) \/ ServeFails(s) \/ Waited(s) \/ Done(s) \/ SignalingClosed(s) \/ TasksEnded(s)
    \/ OnCloseCancelled(s) \/ Ends(s)

\* ...those of the tasks...
Tasking(s) ==
  IceResolved(s) \/ PeerCreated(s) \/ PeerDiscarded(s) \/ HelloSent(s) \/ StartupFails(s)
    \/ Establish(s) \/ Begin(s) \/ HandlerEnds(s) \/ Cancelled(s)

\* ...and those on tracks.
Tracking(s) ==
  OnTrack(s) \/ \E t \in Tracks : SendTrack(s, t) \/ RemoveTrack(s, t) \/ TrackRemoved(s, t)

\* Every step is one of these, aclose, or a stutter.
LEMMA Steps ==
  ASSUME [Next]_vars
  PROVE  \/ \E s \in Sessions : Slotting(s) \/ Phasing(s) \/ Tasking(s) \/ Tracking(s)
         \/ Aclose \/ UNCHANGED vars
BY DEF Next, Progress, Over, Slotting, Phasing, Tasking, Tracking

\* The slots and what aclose() waits for keep their types.
LEMMA RouterStep ==
  ASSUME IInv, [Next]_vars
  PROVE  RouterOK'
<1> USE DEF IInv, TypeOK
<1>1. ASSUME NEW s \in Sessions, Slotting(s) PROVE RouterOK'
  <2>1. CASE UNCHANGED <<active, holds>>
    BY <1>1, <2>1 DEF Slotting, Serve, OnClosed, PeerClosed, RouterOK
  <2>2. CASE Serve(s) /\ ~UNCHANGED <<active, holds>>
    <3>1. s \notin holds
      BY <2>2 DEF Serve, SlotsHeld, Serving, Cleaning
    <3>2. /\ Admitted(s) /\ holds' = holds \cup {s} /\ UNCHANGED <<closing, waits>>
          /\ active' = [c \in Capacities |-> IF s \in c THEN active[c] + 1 ELSE active[c]]
      BY <2>2 DEF Serve
    <3> QED
      BY <3>1, <3>2, AdmissionCounts DEF RouterOK
  <2>3. CASE Release(s)
    <3>1. UNCHANGED <<closing, waits>>
      BY <1>1 DEF Slotting, Serve, OnClosed, PeerClosed
    <3> QED
      BY <2>3, <3>1, ReleaseCounts DEF Release, RouterOK
  <2> QED
    BY <1>1, <2>1, <2>2, <2>3 DEF Slotting, OnClosed, PeerClosed
<1>2. ASSUME NEW s \in Sessions, Phasing(s) PROVE RouterOK'
  <2>1. UNCHANGED <<active, holds, closing>> /\ waits' \subseteq waits
    BY <1>2 DEF Phasing, Accept, ServeFails, Waited, Done, SignalingClosed, TasksEnded,
       OnCloseCancelled, Ends, routerV
  <2> QED
    BY <2>1 DEF RouterOK
<1>3. ASSUME NEW s \in Sessions, Tasking(s) \/ Tracking(s) PROVE RouterOK'
  <2>1. UNCHANGED routerV
    BY <1>3 DEF Tasking, IceResolved, PeerCreated, PeerDiscarded, HelloSent, StartupFails,
       Establish, Begin, HandlerEnds, Cancelled, Tracking, OnTrack, SendTrack, RemoveTrack,
       TrackRemoved
  <2> QED
    BY <2>1 DEF routerV, RouterOK
<1>4. CASE Aclose
  BY <1>4 DEF Aclose, RouterOK
<1>5. CASE UNCHANGED vars
  BY <1>5 DEF vars, routerV, RouterOK
<1> QED
  BY <1>1, <1>2, <1>3, <1>4, <1>5, Steps

\* How a step changes the phase of a session.
LEMMA PhaseMoves ==
  ASSUME NEW s \in Sessions, Slotting(s) \/ Phasing(s)
  PROVE  \/ UNCHANGED phase
         \/ \E v \in {"refused"} \cup Serving \cup Cleaning \cup Finished : phase' = Set(phase, s, v)
<1>1. CASE Slotting(s)
  BY <1>1 DEF Slotting, Serve, OnClosed, PeerClosed, Serving, Cleaning, Finished
<1>2. CASE Phasing(s)
  BY <1>2 DEF Phasing, Accept, ServeFails, Waited, Done, SignalingClosed, TasksEnded,
     OnCloseCancelled, Ends, Serving, Cleaning, Finished
<1> QED
  BY <1>1, <1>2

\* A code that is set stays set.
LEMMA CodeStays ==
  ASSUME [Next]_vars
  PROVE  over \subseteq over'
<1>1. ASSUME NEW s \in Sessions, Slotting(s) \/ Phasing(s) PROVE over \subseteq over'
  BY <1>1 DEF Slotting, Serve, OnClosed, PeerClosed, Phasing, Accept, ServeFails, Waited, Done,
     SignalingClosed, TasksEnded, OnCloseCancelled, Ends, Terminate
<1>2. ASSUME NEW s \in Sessions, Tasking(s) \/ Tracking(s) PROVE over \subseteq over'
  BY <1>2 DEF Tasking, IceResolved, PeerCreated, PeerDiscarded, HelloSent, StartupFails,
     Establish, Begin, HandlerEnds, Cancelled, Tracking, OnTrack, SendTrack, RemoveTrack,
     TrackRemoved, Terminate
<1>3. Aclose \/ UNCHANGED vars => over \subseteq over'
  BY DEF Aclose, vars
<1> QED
  BY <1>1, <1>2, <1>3, Steps
\* Phases and codes keep their types.
LEMMA PhaseStep ==
  ASSUME IInv, [Next]_vars
  PROVE  PhaseOK'
<1> USE DEF IInv, TypeOK
<1>1. ASSUME NEW s \in Sessions, Slotting(s) \/ Phasing(s) PROVE PhaseOK'
  <2>1. phase' \in [Sessions -> {"none", "refused"} \cup Serving \cup Cleaning \cup Finished]
    BY <1>1, PhaseMoves DEF PhaseOK
  <2>2. over' \subseteq over \cup {s}
    BY <1>1 DEF Slotting, Serve, OnClosed, PeerClosed, Phasing, Accept, ServeFails, Waited, Done,
       SignalingClosed, TasksEnded, OnCloseCancelled, Ends, Terminate
  <2> QED
    BY <2>1, <2>2 DEF PhaseOK
<1>2. ASSUME NEW s \in Sessions, Tasking(s) \/ Tracking(s) PROVE PhaseOK'
  <2>1. UNCHANGED phase /\ over' \subseteq over \cup {s}
    BY <1>2 DEF Tasking, IceResolved, PeerCreated, PeerDiscarded, HelloSent, StartupFails,
       Establish, Begin, HandlerEnds, Cancelled, Tracking, OnTrack, SendTrack, RemoveTrack,
       TrackRemoved, Terminate
  <2> QED
    BY <2>1 DEF PhaseOK
<1>3. CASE Aclose
  BY <1>3 DEF Aclose, PhaseOK
<1>4. CASE UNCHANGED vars
  BY <1>4 DEF vars, PhaseOK
<1> QED
  BY <1>1, <1>2, <1>3, <1>4, Steps

\* The tasks keep their types.
LEMMA TasksStep ==
  ASSUME IInv, [Next]_vars
  PROVE  TasksOK'
<1> USE DEF IInv, TypeOK
<1>1. ASSUME NEW s \in Sessions, Slotting(s) \/ Tracking(s) PROVE TasksOK'
  <2>1. UNCHANGED taskV
    BY <1>1 DEF Slotting, Serve, OnClosed, PeerClosed, Tracking, OnTrack, SendTrack, RemoveTrack,
       TrackRemoved
  <2> QED
    BY <2>1 DEF taskV, TasksOK
<1>2. ASSUME NEW s \in Sessions, Phasing(s) PROVE TasksOK'
  <2>1. CASE Accept(s)
    BY <2>1 DEF Accept, TasksOK
  <2>2. CASE SignalingClosed(s)
    <3>1. Live(s) \in SUBSET {"startup", "begin"}
      BY DEF Live
    <3> QED
      BY <2>2, <3>1 DEF SignalingClosed, TasksOK
  <2>3. CASE ~Accept(s) /\ ~SignalingClosed(s)
    <3>1. UNCHANGED taskV
      BY <1>2, <2>3 DEF Phasing, ServeFails, Waited, Done, TasksEnded, OnCloseCancelled, Ends
    <3> QED
      BY <3>1 DEF taskV, TasksOK
  <2> QED
    BY <2>1, <2>2, <2>3
<1>3. ASSUME NEW s \in Sessions, Tasking(s) PROVE TasksOK'
  <2>1. cancel' = cancel \/ \E t : cancel' = [cancel EXCEPT ![s] = @ \ {t}]
    BY <1>3 DEF Tasking, IceResolved, PeerCreated, PeerDiscarded, HelloSent, StartupFails,
       Establish, Begin, HandlerEnds, Cancelled, Ignores
  <2>2. cancel' \in [Sessions -> SUBSET {"startup", "begin"}]
    BY <2>1 DEF TasksOK
  <2>3. startup' \in [Sessions -> {"none", "ice", "creating", "discarding", "hello", "ended"}]
    BY <1>3 DEF Tasking, IceResolved, PeerCreated, PeerDiscarded, HelloSent, StartupFails,
       Establish, Begin, HandlerEnds, Cancelled, TasksOK
  <2>4. begin' \in [Sessions -> {"none", "starting", "handling", "ended"}]
    BY <1>3 DEF Tasking, IceResolved, PeerCreated, PeerDiscarded, HelloSent, StartupFails,
       Establish, Begin, HandlerEnds, Cancelled, TasksOK
  <2> QED
    BY <2>2, <2>3, <2>4 DEF TasksOK
<1>4. CASE Aclose \/ UNCHANGED vars
  BY <1>4 DEF Aclose, vars, taskV, TasksOK
<1> QED
  BY <1>1, <1>2, <1>3, <1>4, Steps

\* The peers and tracks keep their types, and no track is stopped twice.
LEMMA MediaStep ==
  ASSUME IInv, [Next]_vars
  PROVE  MediaOK' /\ StoppedOnce'
<1> USE DEF IInv, TypeOK
<1>1. ASSUME NEW s \in Sessions, Slotting(s) PROVE MediaOK' /\ StoppedOnce'
  <2>1. MediaOK'
    BY <1>1 DEF Slotting, Serve, OnClosed, PeerClosed, MediaOK
  <2>2. stops' = stops \/ Stop(s, owned[s])
    BY <1>1 DEF Slotting, Serve, OnClosed, PeerClosed
  <2>3. StoppedOnce'
    BY <2>2, StopType DEF MediaOK, OwnedFresh, StoppedOnce
  <2> QED
    BY <2>1, <2>3
<1>2. ASSUME NEW s \in Sessions, Phasing(s) PROVE MediaOK' /\ StoppedOnce'
  <2>1. UNCHANGED mediaV
    BY <1>2 DEF Phasing, Accept, ServeFails, Waited, Done, SignalingClosed, TasksEnded,
       OnCloseCancelled, Ends
  <2> QED
    BY <2>1 DEF mediaV, MediaOK, StoppedOnce
<1>3. ASSUME NEW s \in Sessions, Tasking(s) PROVE MediaOK' /\ StoppedOnce'
  <2>1. /\ UNCHANGED <<owned, removing, stops, incoming>>
        /\ \/ UNCHANGED peer
           \/ \E v \in {"open", "closed", "abandoned"} : peer' = Set(peer, s, v)
    BY <1>3 DEF Tasking, IceResolved, PeerCreated, PeerDiscarded, HelloSent, StartupFails,
       Establish, Begin, HandlerEnds, Cancelled, mediaV
  <2> QED
    BY <2>1 DEF MediaOK, StoppedOnce
<1>4. ASSUME NEW s \in Sessions, Tracking(s) PROVE MediaOK' /\ StoppedOnce'
  <2>1. CASE OnTrack(s)
    BY <2>1 DEF OnTrack, MediaOK, StoppedOnce
  <2>2. ASSUME NEW t \in Tracks, SendTrack(s, t) \/ RemoveTrack(s, t)
        PROVE  MediaOK' /\ StoppedOnce'
    BY <2>2 DEF SendTrack, RemoveTrack, MediaOK, StoppedOnce
  <2>3. ASSUME NEW t \in Tracks, TrackRemoved(s, t) PROVE MediaOK' /\ StoppedOnce'
    <3>1. StoppedOnce'
      BY <2>3, StopType DEF TrackRemoved, Released, MediaOK, OwnedFresh, StoppedOnce
    <3> QED
      BY <2>3, <3>1 DEF TrackRemoved, MediaOK
  <2> QED
    BY <1>4, <2>1, <2>2, <2>3 DEF Tracking
<1>5. CASE Aclose \/ UNCHANGED vars
  BY <1>5 DEF Aclose, vars, mediaV, MediaOK, StoppedOnce
<1> QED
  BY <1>1, <1>2, <1>3, <1>4, <1>5, Steps
-----------------------------------------------------------------------------
(* The slots. *)

\* Every step keeps what the capacities count.
LEMMA SlotStep ==
  ASSUME IInv, [Next]_vars
  PROVE  SlotsCounted' /\ SlotsHeld'
<1> USE DEF IInv, TypeOK
<1>1. CASE UNCHANGED <<active, holds, phase>>
  BY <1>1 DEF SlotsCounted, SlotsHeld, Holders
<1>2. ASSUME NEW s \in Sessions, Slotting(s) PROVE SlotsCounted' /\ SlotsHeld'
  <2>1. CASE Serve(s) /\ UNCHANGED <<active, holds>>
    <3>1. phase[s] = "none" /\ \E v \in {"accepting", "refused"} : phase' = Set(phase, s, v)
      BY <2>1 DEF Serve
    <3>2. s \notin holds
      BY <3>1 DEF SlotsHeld, Serving, Cleaning
    <3>3. phase' = Set(phase, s, "refused")
      BY <2>1, <3>2 DEF Serve
    <3>4. SlotsCounted'
      BY <2>1 DEF SlotsCounted, Holders
    <3>5. SlotsHeld'
      BY <2>1, <3>2, <3>3 DEF SlotsHeld, Serving, Cleaning, PhaseOK
    <3> QED
      BY <3>4, <3>5
  <2>2. CASE Serve(s) /\ ~UNCHANGED <<active, holds>>
    <3>1. s \notin holds
      BY <2>2 DEF Serve, SlotsHeld, Serving, Cleaning
    <3>2. /\ Admitted(s) /\ holds' = holds \cup {s} /\ phase' = Set(phase, s, "accepting")
          /\ active' = [c \in Capacities |-> IF s \in c THEN active[c] + 1 ELSE active[c]]
      BY <2>2 DEF Serve
    <3>3. SlotsHeld'
      BY <3>2 DEF SlotsHeld, Serving, PhaseOK
    <3> QED
      BY <3>1, <3>2, <3>3, AdmissionCounts
  <2>3. CASE Release(s) /\ phase' = Set(phase, s, "ended")
    <3>1. SlotsHeld'
      BY <2>3 DEF Release, SlotsHeld, Serving, Cleaning, PhaseOK
    <3> QED
      BY <2>3, <3>1, ReleaseCounts
  <2>4. CASE OnClosed(s) /\ UNCHANGED <<active, holds>> /\ phase' = Set(phase, s, "peer")
    <3>1. SlotsCounted'
      BY <2>4 DEF SlotsCounted, Holders
    <3>2. SlotsHeld'
      BY <2>4 DEF OnClosed, SlotsHeld, Cleaning, PhaseOK
    <3> QED
      BY <3>1, <3>2
  <2> QED
    BY <1>2, <2>1, <2>2, <2>3, <2>4 DEF Slotting, OnClosed, PeerClosed
<1>3. ASSUME NEW s \in Sessions, Phasing(s) PROVE SlotsCounted' /\ SlotsHeld'
  <2>1. UNCHANGED <<active, holds>>
    BY <1>3 DEF Phasing, Accept, ServeFails, Waited, Done, SignalingClosed, TasksEnded,
       OnCloseCancelled, Ends, routerV
  <2>2. \/ UNCHANGED phase
        \/ /\ phase[s] \in Serving \cup Cleaning
           /\ \E v \in Serving \cup Cleaning \cup {"cut"} : phase' = Set(phase, s, v)
    BY <1>3 DEF Phasing, Accept, ServeFails, Waited, Done, SignalingClosed, TasksEnded,
       OnCloseCancelled, Ends, Serving, Cleaning
  <2>3. SlotsCounted'
    BY <2>1 DEF SlotsCounted, Holders
  <2>4. SlotsHeld'
    BY <2>1, <2>2 DEF SlotsHeld, PhaseOK
  <2> QED
    BY <2>3, <2>4
<1>4. ASSUME NEW s \in Sessions, Tasking(s) \/ Tracking(s)
      PROVE  UNCHANGED <<active, holds, phase>>
  BY <1>4 DEF Tasking, IceResolved, PeerCreated, PeerDiscarded, HelloSent, StartupFails,
     Establish, Begin, HandlerEnds, Cancelled, Tracking, OnTrack, SendTrack, RemoveTrack,
     TrackRemoved, routerV
<1>5. Aclose \/ UNCHANGED vars => UNCHANGED <<active, holds, phase>>
  BY DEF Aclose, vars, routerV
<1> QED
  BY <1>1, <1>2, <1>3, <1>4, <1>5, Steps

-----------------------------------------------------------------------------
(* What a session still has after its cleanup. *)

\* The cleanup starts under a code, which stays set.
LEMMA ToldStep ==
  ASSUME IInv, [Next]_vars
  PROVE  EndedTold'
<1> USE DEF IInv, TypeOK, EndedTold
<1>1. over \subseteq over'
  BY CodeStays
<1>2. CASE UNCHANGED phase
  BY <1>1, <1>2
<1>3. ASSUME NEW s \in Sessions, Slotting(s) PROVE EndedTold'
  <2>1. \/ \E v \in {"accepting", "refused"} : phase' = Set(phase, s, v)
        \/ /\ phase[s] \in Cleaning
           /\ \E v \in {"peer", "ended"} : phase' = Set(phase, s, v)
    BY <1>3 DEF Slotting, Serve, OnClosed, PeerClosed, Cleaning
  <2> QED
    BY <1>1, <2>1 DEF PhaseOK, Cleaning, Finished
<1>4. ASSUME NEW s \in Sessions, Phasing(s) PROVE EndedTold'
  <2>1. \/ UNCHANGED phase
        \/ phase' = Set(phase, s, "running")
        \/ s \in over' /\ \E v \in Cleaning \cup Finished : phase' = Set(phase, s, v)
    BY <1>1, <1>4 DEF Phasing, Accept, ServeFails, Waited, Done, SignalingClosed, TasksEnded,
       OnCloseCancelled, Ends, Cleaning, Finished, Terminate, Runs
  <2> QED
    BY <1>1, <2>1 DEF PhaseOK, Cleaning, Finished
<1>5. ASSUME NEW s \in Sessions, Tasking(s) \/ Tracking(s) PROVE UNCHANGED phase
  BY <1>5 DEF Tasking, IceResolved, PeerCreated, PeerDiscarded, HelloSent, StartupFails,
     Establish, Begin, HandlerEnds, Cancelled, Tracking, OnTrack, SendTrack, RemoveTrack,
     TrackRemoved
<1>6. Aclose \/ UNCHANGED vars => UNCHANGED phase
  BY DEF Aclose, vars
<1> QED
  BY <1>2, <1>3, <1>4, <1>5, <1>6, Steps
\* Tracks stay stopped once the cleanup has stopped them.
LEMMA StoppedStep ==
  ASSUME IInv, [Next]_vars
  PROVE  TracksStopped'
<1> USE DEF IInv, TypeOK, TracksStopped
<1>1. CASE UNCHANGED <<phase, owned, incoming>>
  BY <1>1
<1>2. ASSUME NEW s \in Sessions, Slotting(s) PROVE TracksStopped'
  <2>1. CASE Serve(s)
    <3>1. /\ UNCHANGED incoming
          /\ \E v \in {"accepting", "refused"} : phase' = Set(phase, s, v)
          /\ owned' = owned \/ owned' = Set(owned, s, {})
      BY <2>1 DEF Serve
    <3> QED
      BY <3>1 DEF PhaseOK, MediaOK
  <2>2. CASE OnClosed(s)
    <3>1. /\ incoming' = Set(incoming, s, IF incoming[s] = "live" THEN "stopped" ELSE incoming[s])
          /\ owned' = Set(owned, s, {})
          /\ \E v : phase' = Set(phase, s, v)
      BY <2>2 DEF OnClosed
    <3> QED
      BY <3>1 DEF PhaseOK, MediaOK
  <2>3. CASE PeerClosed(s)
    BY <2>3 DEF PeerClosed, PhaseOK, MediaOK
  <2> QED
    BY <1>2, <2>1, <2>2, <2>3 DEF Slotting
<1>3. ASSUME NEW s \in Sessions, Phasing(s) PROVE TracksStopped'
  <2>1. /\ UNCHANGED <<owned, incoming>>
        /\ \/ UNCHANGED phase
           \/ \E v \in {"running", "signaling", "tasks", "on_close", "cut"} :
                phase' = Set(phase, s, v)
    BY <1>3 DEF Phasing, Accept, ServeFails, Waited, Done, SignalingClosed, TasksEnded,
       OnCloseCancelled, Ends, mediaV
  <2> QED
    BY <2>1 DEF PhaseOK
<1>4. ASSUME NEW s \in Sessions, Tasking(s) PROVE UNCHANGED <<phase, owned, incoming>>
  BY <1>4 DEF Tasking, IceResolved, PeerCreated, PeerDiscarded, HelloSent, StartupFails,
     Establish, Begin, HandlerEnds, Cancelled, mediaV
<1>5. ASSUME NEW s \in Sessions, Tracking(s) PROVE TracksStopped'
  <2>1. CASE OnTrack(s)
    <3>1. /\ UNCHANGED <<phase, owned>>
          /\ \/ s \notin over /\ incoming' = Set(incoming, s, "live")
             \/ incoming' = Set(incoming, s, "stopped")
      BY <2>1 DEF OnTrack, Runs
    <3> QED
      BY <3>1 DEF MediaOK, EndedTold, Cleaning, Finished
  <2>2. ASSUME NEW t \in Tracks, SendTrack(s, t) \/ RemoveTrack(s, t) \/ TrackRemoved(s, t)
        PROVE  TracksStopped'
    <3>1. /\ UNCHANGED <<phase, incoming>>
          /\ \/ s \notin over /\ owned' = Set(owned, s, owned[s] \cup {t})
             \/ UNCHANGED owned
             \/ owned' = Set(owned, s, owned[s] \ {t})
      BY <2>2 DEF SendTrack, RemoveTrack, TrackRemoved, Runs
    <3> QED
      BY <3>1 DEF MediaOK, EndedTold, Cleaning, Finished
  <2> QED
    BY <1>5, <2>1, <2>2 DEF Tracking
<1>6. Aclose \/ UNCHANGED vars => UNCHANGED <<phase, owned, incoming>>
  BY DEF Aclose, vars, mediaV
<1> QED
  BY <1>1, <1>2, <1>3, <1>4, <1>5, <1>6, Steps

\* What a task acquires for a session whose cleanup is over, it gives back.
LEMMA LateStep ==
  ASSUME IInv, [Next]_vars
  PROVE  LatePeers'
<1> USE DEF IInv, TypeOK, LatePeers
<1>1. CASE UNCHANGED <<phase, peer, startup, cancel>>
  BY <1>1
<1>2. ASSUME NEW s \in Sessions, Slotting(s) PROVE LatePeers'
  <2>1. CASE Serve(s)
    <3>1. /\ UNCHANGED <<peer, startup, cancel>>
          /\ \E v \in {"accepting", "refused"} : phase' = Set(phase, s, v)
      BY <2>1 DEF Serve, taskV
    <3> QED
      BY <3>1 DEF PhaseOK
  <2>2. CASE OnClosed(s)
    <3>1. /\ UNCHANGED <<peer, startup, cancel>>
          /\ \/ peer[s] = "none" /\ phase' = Set(phase, s, "ended")
             \/ phase' = Set(phase, s, "peer")
      BY <2>2 DEF OnClosed, taskV
    <3> QED
      BY <3>1 DEF PhaseOK
  <2>3. CASE PeerClosed(s)
    <3>1. /\ UNCHANGED <<startup, cancel>> /\ phase' = Set(phase, s, "ended")
          /\ \E v \in {"closed", "abandoned"} : peer' = Set(peer, s, v)
      BY <2>3 DEF PeerClosed, taskV
    <3> QED
      BY <3>1 DEF PhaseOK, MediaOK
  <2> QED
    BY <1>2, <2>1, <2>2, <2>3 DEF Slotting
<1>3. ASSUME NEW s \in Sessions, Phasing(s) PROVE LatePeers'
  <2>1. /\ UNCHANGED peer
        /\ \/ UNCHANGED <<phase, startup, cancel>>
           \/ /\ \E v \in {"running", "signaling", "tasks", "on_close", "cut"} :
                   phase' = Set(phase, s, v)
              /\ \/ UNCHANGED startup
                 \/ \E v : startup' = Set(startup, s, v)
              /\ \/ UNCHANGED cancel
                 \/ \E v : cancel' = Set(cancel, s, v)
    BY <1>3 DEF Phasing, Accept, ServeFails, Waited, Done, SignalingClosed, TasksEnded,
       OnCloseCancelled, Ends, mediaV, taskV
  <2> QED
    BY <2>1 DEF PhaseOK, TasksOK
<1>4. ASSUME NEW s \in Sessions, Tasking(s) PROVE LatePeers'
  <2>1. CASE PeerCreated(s)
    <3>1. /\ UNCHANGED phase /\ peer' = Set(peer, s, "open")
          /\ startup' = Set(startup, s, IF s \in over THEN "discarding" ELSE "hello")
          /\ cancel' = Set(cancel, s, cancel[s] \ {"startup"})
      BY <2>1 DEF PeerCreated, Ignores, Runs, TasksOK
    <3> QED
      BY <3>1 DEF PhaseOK, MediaOK, TasksOK, EndedTold, Finished
  <2>2. CASE PeerDiscarded(s) \/ StartupFails(s) \/ IceResolved(s) \/ HelloSent(s)
    <3>1. /\ UNCHANGED phase
          /\ \/ startup[s] = "discarding"
                /\ \E v \in {"closed", "abandoned"} : peer' = Set(peer, s, v)
             \/ UNCHANGED peer /\ startup[s] # "discarding"
          /\ \E v : startup' = Set(startup, s, v)
          /\ \E v : cancel' = Set(cancel, s, v)
      BY <2>2 DEF PeerDiscarded, StartupFails, IceResolved, HelloSent, Ignores, mediaV, TasksOK
    <3> QED
      BY <3>1 DEF PhaseOK, MediaOK, TasksOK
  <2>3. CASE Establish(s) \/ Begin(s) \/ HandlerEnds(s)
    <3>1. /\ UNCHANGED <<phase, peer, startup>>
          /\ cancel' = cancel \/ cancel' = Set(cancel, s, cancel[s] \ {"begin"})
      BY <2>3 DEF Establish, Begin, HandlerEnds, Ignores, mediaV, TasksOK
    <3> QED
      BY <3>1 DEF TasksOK
  <2>4. CASE Cancelled(s)
    <3>1. /\ UNCHANGED <<phase, peer>>
          /\ \/ /\ "startup" \in cancel[s] /\ startup' = Set(startup, s, "ended")
                /\ cancel' = Set(cancel, s, cancel[s] \ {"startup"})
             \/ UNCHANGED startup /\ cancel' = Set(cancel, s, cancel[s] \ {"begin"})
      BY <2>4 DEF Cancelled, Ignores, mediaV, TasksOK
    <3> QED
      BY <3>1 DEF TasksOK
  <2> QED
    BY <1>4, <2>1, <2>2, <2>3, <2>4 DEF Tasking
<1>5. ASSUME NEW s \in Sessions, Tracking(s) PROVE UNCHANGED <<phase, peer, startup, cancel>>
  BY <1>5 DEF Tracking, OnTrack, SendTrack, RemoveTrack, TrackRemoved, taskV
<1>6. Aclose \/ UNCHANGED vars => UNCHANGED <<phase, peer, startup, cancel>>
  BY DEF Aclose, vars, taskV, mediaV
<1> QED
  BY <1>1, <1>2, <1>3, <1>4, <1>5, <1>6, Steps
\* A track that was stopped is not owned again.
LEMMA FreshStep ==
  ASSUME IInv, [Next]_vars
  PROVE  OwnedFresh'
<1> USE DEF IInv, TypeOK, OwnedFresh
<1>1. CASE UNCHANGED <<owned, stops>>
  BY <1>1
<1>2. ASSUME NEW s \in Sessions, Slotting(s) PROVE OwnedFresh'
  <2>1. \/ UNCHANGED <<owned, stops>>
        \/ owned' = Set(owned, s, {}) /\ Stop(s, owned[s])
    BY <1>2 DEF Slotting, Serve, OnClosed, PeerClosed
  <2> QED
    BY <2>1 DEF MediaOK, StoppedOnce, Stop
<1>3. ASSUME NEW s \in Sessions, Phasing(s) \/ Tasking(s) PROVE UNCHANGED <<owned, stops>>
  BY <1>3 DEF Phasing, Accept, ServeFails, Waited, Done, SignalingClosed, TasksEnded,
     OnCloseCancelled, Ends, Tasking, IceResolved, PeerCreated, PeerDiscarded, HelloSent,
     StartupFails, Establish, Begin, HandlerEnds, Cancelled, mediaV
<1>4. ASSUME NEW s \in Sessions, Tracking(s) PROVE OwnedFresh'
  <2>1. CASE OnTrack(s)
    BY <2>1 DEF OnTrack
  <2>2. ASSUME NEW t \in Tracks, SendTrack(s, t) \/ RemoveTrack(s, t) PROVE OwnedFresh'
    <3>1. /\ UNCHANGED stops
          /\ \/ UNCHANGED owned
             \/ stops[s][t] = 0 /\ owned' = Set(owned, s, owned[s] \cup {t})
      BY <2>2 DEF SendTrack, RemoveTrack
    <3> QED
      BY <3>1 DEF MediaOK
  <2>3. ASSUME NEW t \in Tracks, TrackRemoved(s, t) PROVE OwnedFresh'
    <3>1. owned' = Set(owned, s, owned[s] \ {t}) /\ Stop(s, {t} \cap owned[s])
      BY <2>3 DEF TrackRemoved, Released
    <3>2. ASSUME NEW r \in Sessions, NEW u \in owned'[r] PROVE stops'[r][u] = 0
      <4>1. u \in owned[r] /\ u \in Tracks /\ stops[r][u] = 0 /\ (r = s => u # t)
        BY <3>1 DEF MediaOK
      <4> QED
        BY <3>1, <4>1 DEF StoppedOnce, Stop
    <3> QED
      BY <3>2
  <2> QED
    BY <1>4, <2>1, <2>2, <2>3 DEF Tracking
<1>5. Aclose \/ UNCHANGED vars => UNCHANGED <<owned, stops>>
  BY DEF Aclose, vars, mediaV
<1> QED
  BY <1>1, <1>2, <1>3, <1>4, <1>5, Steps

-----------------------------------------------------------------------------
\* The inductive invariant holds in every state.
LEMMA AlwaysIInv == Spec => []IInv
<1>1. Init => IInv
  BY InitInv
<1>2. IInv /\ [Next]_vars => IInv'
  BY RouterStep, PhaseStep, TasksStep, MediaStep, SlotStep, ToldStep, StoppedStep, LateStep,
     FreshStep DEF IInv, TypeOK
<1> QED
  BY <1>1, <1>2, PTL DEF Spec

\* Type correctness, and with it that remove_track(), the cleanup and a refusal
\* between them stop no track twice.
THEOREM SessionTypes == Spec => []TypeOK
<1>1. IInv => TypeOK
  BY DEF IInv
<1> QED
  BY <1>1, AlwaysIInv, PTL

\* SessionCapacity, _cleanup: for any sessions that share any capacities, each
\* capacity counts the sessions that hold a slot of it and never more than it
\* allows, and a slot is given back after everything its session acquired.
THEOREM SlotsAreHonest == Spec => []CapacityHonest
<1>1. IInv => ReleasedLast
  BY DEF IInv, SlotsHeld, TracksStopped, LatePeers, ReleasedLast, Serving, Cleaning
<1>2. IInv => CapacityHonest
  BY <1>1 DEF IInv, CapacityHonest
<1> QED
  BY <1>2, AlwaysIInv, PTL
=============================================================================
