--------------------------- MODULE StreamProtocol ---------------------------
(***************************************************************************)
(* What a connection promises the client about its message streams: the id *)
(* of a stream is announced before its first item, its end is announced at *)
(* most once and after its last item, and a stream whose cancellation was  *)
(* answered is silent.  The promise holds as long as no close has been     *)
(* requested; then everything is lost.                                     *)
(***************************************************************************)
EXTENDS Naturals

CONSTANT Streams   \* the stream ids

VARIABLES
  told,      \* what the client has been told of a stream
  delivered  \* items of a stream so far

Init ==
  told = [s \in Streams |-> "nothing"] /\ delivered = [s \in Streams |-> 0]

Open(s) ==
  /\ told[s] = "nothing"
  /\ told' = [told EXCEPT ![s] = "open"]
  /\ UNCHANGED delivered

Item(s) ==
  /\ told[s] = "open"
  /\ delivered' = [delivered EXCEPT ![s] = @ + 1]
  /\ UNCHANGED told

\* The stream completes or fails.
End(s) ==
  /\ told[s] = "open"
  /\ told' = [told EXCEPT ![s] = "ended"]
  /\ UNCHANGED delivered

\* A cancellation is answered, also one of a stream that ended by itself.
Stop(s) ==
  /\ told[s] \in {"open", "ended"}
  /\ told' = [told EXCEPT ![s] = "stopped"]
  /\ UNCHANGED delivered

Lose ==
  /\ told' = [s \in Streams |-> "lost"]
  /\ delivered' = [s \in Streams |-> 0]

Next ==
  \/ \E s \in Streams : Open(s) \/ Item(s) \/ End(s) \/ Stop(s)
  \/ Lose

Spec == Init /\ [][Next]_<<told, delivered>>
=============================================================================
