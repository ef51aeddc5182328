-------------------------- MODULE MCRpcConnection --------------------------
(***************************************************************************)
(* The frames that the configurations of RpcConnection let a client send.  *)
(***************************************************************************)
EXTENDS RpcConnection

CONSTANTS a, b   \* two request ids

Call(i)   == [op |-> "call", id |-> i]
Cancel(i) == [op |-> "cancel", id |-> i]
Notify    == [op |-> "notify", id |-> a]
Invalid   == [op |-> "invalid", id |-> a]
Ping      == [op |-> "ping", id |-> a]

\* A call and its cancellation, a batch that cancels its own call, a notification
\* that takes a reservation, a ping that is collected without admission.
AdmissionMessages ==
  {<<Call(a)>>, <<Cancel(a)>>, <<Call(b), Cancel(b)>>, <<Notify>>, <<Ping>>}

\* Two calls and the cancellation of one, a batch of calls, one with an invalid
\* item, one over max_batch_size, and text that does not parse.
FailureMessages ==
  {<<Call(a), Notify, Cancel(a)>>, <<Call(a), Call(b)>>, <<Invalid, Ping>>,
   <<Ping, Ping, Ping, Ping>>, <<>>}

SafetyMessages == AdmissionMessages \cup FailureMessages

\* The bound of the safety run: several frames, each with one valid call at most,
\* while nothing happens to the connection but that its client leaves; or a single
\* frame, of any kind, while everything may happen.  A fourth frame comes only when
\* the collectors of the others are all at work, which is their limit.
Calm ==
  /\ ~server_cancelled /\ nevents = 0 /\ close_code \in {"none", "normal"}
  /\ IF close_event THEN client_closed ELSE events = "running" /\ writer # "ended"
  /\ \A c \in Calls : phase[c] # "failed" /\ (phase[c] = "raised" => interrupt[c] # "none")

Plain ==
  /\ \A f \in Frames : Cardinality(Members(f)) <= 1
  /\ \A c \in Calls : phase[c] # "none" => item[c].op # "invalid"

LongOrEventful ==
  /\ nframes > 1 => Calm /\ Plain
  /\ nframes = 4 => \A f \in 1..3 : collector[f] = "gathering"

\* A call that may be cancelled before it starts, waits or runs.
LivenessMessages == {<<Call(a)>>, <<Cancel(a)>>}
=============================================================================
