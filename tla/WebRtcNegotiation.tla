--------------------------- MODULE WebRtcNegotiation ---------------------------
(***************************************************************************)
(* Perfect negotiation between SessionRuntime of webrtc/runtime.py, the    *)
(* impolite peer, and Connection of the generated codegen/templates/       *)
(* runtime.ts, the polite one.                                             *)
(*                                                                         *)
(* Each side adds tracks and offers them.  The handlers of the server      *)
(* take turns at the lock _negotiation, its messages pass a bounded queue, *)
(* and candidates of a description that is being made are held back.  The  *)
(* operations of the client run one after the other, each as one step:     *)
(* what arrives meanwhile waits behind it.  The engines are external: a    *)
(* description stands for the tracks of its author that it describes, and  *)
(* an answer may describe some of its author's new tracks or none.         *)
(***************************************************************************)
EXTENDS Naturals, Sequences, FiniteSets

CONSTANTS
  Roles,           \* roles of the server: offerer, answerer
  Initial,         \* Session.tracks
  ServerTracks,    \* tracks of send_track()
  ClientTracks,    \* tracks of addTrack()
  MaxOutbound,     \* max_outbound_signals
  MaxPending,      \* max_pending_candidates
  MaxCandidates,   \* bound on the candidates of each side
  Faults           \* the environment events that may happen

FaultKinds == {"lost", "closed", "answer_timeout", "rejected_candidate",
               "failed_description"}

ASSUME NegotiationAssumption ==
  /\ Roles \subseteq {"offerer", "answerer"} /\ Roles # {}
  /\ Initial \cap ServerTracks = {}
  /\ {"reader", "starter"} \cap ServerTracks = {}  \* a track is not a task
  /\ MaxOutbound \in Nat \ {0} /\ MaxPending \in Nat /\ MaxCandidates \in Nat
  /\ Faults \subseteq FaultKinds

VARIABLES
  role,         \* declaration.role
  (* SessionRuntime *)
  code,         \* code
  signaling,    \* open, or lost within its grace period
  reader,       \* _read: read, check, renegotiate, ended
  starter,      \* the task "offer" of _startup: todo, done
  track,        \* the calls of send_track()
  lock,         \* what its holder makes: free, offer, answer
  holder,       \* the task that holds the lock
  echo,         \* the negotiation of the offer that is being answered
  localOffer,   \* _local_offer, or 0
  unsent,       \* the engine keeps an offer whose _describe failed
  negotiations, \* _negotiations
  timer,        \* the timer "answer" is armed
  applied,      \* _remote_applied
  ignored,      \* _ignored_offer
  pending,      \* how many candidates _pending_candidates has
  held,         \* _held_candidates
  attached,     \* tracks the engine has
  described,    \* those its local description has
  remote,       \* tracks of the client's description it has applied
  outbound,     \* _outbound
  (* Connection *)
  finished,     \* finished
  cOffer,       \* localOffer; 0: the peer connection is stable
  counter,      \* negotiationCounter
  wantOffer,    \* wantOffer
  call,         \* the calls of addTrack()
  cAttached,    \* tracks of its senders
  cOffered,     \* those its pending offer has
  cDescribed,   \* those its last negotiated description has
  cRemote,      \* tracks of the server's description it has applied
  (* the socket and the engines *)
  toClient,     \* messages on their way to the client
  toServer,     \* and to the server
  made,         \* descriptions the server has made
  seen,         \* and the client has applied
  candidates    \* candidates each side has found

taskV   == <<reader, starter, track>>
lockV   == <<lock, holder, echo>>
offerV  == <<localOffer, unsent, negotiations, timer>>
peerV   == <<applied, ignored, pending>>
mediaV  == <<attached, described, remote>>
serverV == <<code, signaling, taskV, lockV, offerV, peerV, held, mediaV, outbound>>
clientV == <<finished, cOffer, counter, wantOffer, call, cAttached, cOffered,
             cDescribed, cRemote, seen>>
vars == <<role, serverV, clientV, toClient, toServer, made, candidates>>

-----------------------------------------------------------------------------
Message(type, n, tracks) == [type |-> type, n |-> n, tracks |-> tracks]
Descriptions == {"offer", "answer"}
Ended        == {"done", "failed"}
Active       == code = "none"
Stable       == localOffer = 0 /\ ~unsent

\* needs_negotiation of the engine
NeedsNegotiation == attached \ described # {}

\* A track can be sent once on_start has a Peer: the first exchange is over.
Established == applied /\ seen > 0

\* The queue is not bounded.
BadSend(messages) ==
  IF signaling = "lost" THEN UNCHANGED <<outbound, code>>
  ELSE outbound' = outbound \o messages /\ UNCHANGED code

\* _send; what no longer fits ends the session.
Send(messages) ==
  IF signaling = "lost" THEN UNCHANGED <<outbound, code>>
  ELSE IF Len(outbound) + Len(messages) > MaxOutbound
  THEN code' = "queue_exhausted" /\ UNCHANGED outbound
  ELSE outbound' = outbound \o messages /\ UNCHANGED code

Init ==
  /\ role \in Roles
  /\ code = "none" /\ signaling = "open" /\ reader = "read"
  /\ starter = IF role = "offerer" THEN "todo" ELSE "done"
  /\ track = [t \in ServerTracks |-> "none"]
  /\ lock = "free" /\ holder = "reader" /\ echo = 0
  /\ localOffer = 0 /\ unsent = FALSE /\ negotiations = 0 /\ timer = FALSE
  /\ applied = FALSE /\ ignored = FALSE /\ pending = 0 /\ held = <<>>
  /\ attached = IF role = "offerer" THEN Initial ELSE {}
  /\ described = {} /\ remote = {} /\ outbound = <<>>
  /\ finished = FALSE /\ cOffer = 0 /\ counter = 0 /\ wantOffer = FALSE
  /\ call = [t \in ClientTracks |-> "none"]
  /\ cAttached = {} /\ cOffered = {} /\ cDescribed = {} /\ cRemote = {}
  /\ toClient = <<Message("session", 0, {})>> /\ toServer = <<>>
  /\ made = 0 /\ seen = 0
  /\ candidates = [side \in {"server", "client"} |-> 0]

-----------------------------------------------------------------------------
(* The server makes offers *)

\* The first half of send_track(); the second is _renegotiate(wait=True).
SendTrack(t) ==
  /\ Active /\ Established /\ lock = "free" /\ track[t] = "none"
  /\ track' = [track EXCEPT ![t] = "added"]
  /\ attached' = attached \cup {t}
  /\ UNCHANGED <<role, code, signaling, reader, starter, lockV, offerV, peerV,
                 held, described, remote, outbound, clientV, toClient, toServer,
                 made, candidates>>

\* Task w goes on after _renegotiate(); a call of send_track() is then at.
Continue(w, at) ==
  /\ reader' = IF w = "reader" THEN "read" ELSE reader
  /\ starter' = IF w = "starter" THEN "done" ELSE starter
  /\ track' = IF w \in ServerTracks THEN [track EXCEPT ![w] = at] ELSE track

Renegotiating(w) ==
  \/ w = "reader" /\ reader = "renegotiate"
  \/ w = "starter" /\ starter = "todo"
  \/ w \in ServerTracks /\ track[w] = "added"

\* _renegotiate up to the engine: a pending offer is waited for instead, unless it
\* was never sent.
Renegotiate(w) ==
  /\ Active /\ lock = "free" /\ Renegotiating(w) /\ signaling = "open"
  /\ \/ /\ ~Stable
        /\ Continue(w, IF unsent THEN "done" ELSE "waiting")
        /\ UNCHANGED <<lockV, negotiations>>
     \/ /\ Stable /\ (~applied \/ NeedsNegotiation)
        /\ lock' = "offer" /\ holder' = w /\ negotiations' = negotiations + 1
        /\ UNCHANGED <<taskV, echo>>
     \/ /\ Stable /\ applied /\ ~NeedsNegotiation
        /\ Continue(w, "done")
        /\ UNCHANGED <<lockV, negotiations>>
  /\ UNCHANGED <<role, code, signaling, localOffer, unsent, timer, peerV, held, mediaV,
                 outbound, clientV, toClient, toServer, made, candidates>>

\* Without signaling it raises, to the task's guard or the caller.
RenegotiateFails(w) ==
  /\ Active /\ lock = "free" /\ Renegotiating(w) /\ signaling = "lost"
  /\ Continue(w, "failed")
  /\ code' = IF w \in ServerTracks THEN code ELSE "signaling_lost"
  /\ UNCHANGED <<role, signaling, lockV, offerV, peerV, held, mediaV, outbound,
                 clientV, toClient, toServer, made, candidates>>

\* _renegotiate from the engine's offer on.
MakeOffer ==
  /\ Active /\ lock = "offer"
  /\ described' = attached /\ made' = made + 1
  /\ localOffer' = negotiations
  /\ Send(<<Message("offer", negotiations, attached)>> \o held)
  /\ held' = <<>> /\ lock' = "free"
  /\ timer' = applied
  /\ Continue(holder, "waiting")
  /\ UNCHANGED <<role, signaling, holder, echo, unsent, negotiations, peerV,
                 attached, remote, clientV, toClient, toServer, candidates>>

\* The error path of _describe: the engine raises, or the caller of send_track() is
\* cancelled in it.  What was held back is sent although nothing precedes it.  An
\* error in a task of the session ends it, which the writer does not know yet; a
\* caller gets it, and the engine may have applied the offer by then.
DescribeFails ==
  /\ Active /\ lock # "free" /\ "failed_description" \in Faults
  /\ held' = <<>> /\ lock' = "free"
  /\ Continue(holder, "failed")
  /\ LET orphans == [i \in 1..Len(held) |-> Message("candidate", 0, {})] IN
     \/ /\ holder \in ServerTracks
        /\ Send(orphans) /\ unsent' \in BOOLEAN
     \/ /\ holder \notin ServerTracks /\ UNCHANGED unsent
        /\ \/ /\ signaling = "lost"
              /\ code' = "negotiation_failed" /\ UNCHANGED outbound
           \/ /\ signaling = "open" /\ Len(outbound) + Len(held) > MaxOutbound
              /\ code' = "queue_exhausted" /\ UNCHANGED outbound
           \/ /\ signaling = "open" /\ Len(outbound) + Len(held) <= MaxOutbound
              /\ code' = "negotiation_failed" /\ outbound' = outbound \o orphans
  /\ UNCHANGED <<role, signaling, holder, echo, localOffer, negotiations, timer,
                 peerV, mediaV, clientV, toClient, toServer, made, candidates>>

\* The end of _until(settled).
Return(t) ==
  /\ Active /\ track[t] = "settled"
  /\ track' = [track EXCEPT ![t] = "done"]
  /\ UNCHANGED <<role, code, signaling, reader, starter, lockV, offerV, peerV,
                 held, mediaV, outbound, clientV, toClient, toServer, made,
                 candidates>>

-----------------------------------------------------------------------------
(* The server reads *)

\* Only the end of the socket is read while another task holds the lock.
Reads(type) ==
  /\ Active /\ reader = "read" /\ toServer # <<>>
  /\ lock = "free" \/ (lock = "offer" /\ type \in {"closed", "lost"})
  /\ Head(toServer).type = type
  /\ toServer' = Tail(toServer)

\* _on_offer that the pending offer of the server outranks.
IgnoreOffer ==
  /\ Reads("offer") /\ ~Stable
  /\ ignored' = TRUE /\ reader' = "check"
  /\ UNCHANGED <<role, code, signaling, starter, track, lockV, offerV, applied,
                 pending, held, mediaV, outbound, clientV, toClient, made,
                 candidates>>

\* _on_offer up to the engine's answer
AcceptOffer ==
  /\ Reads("offer") /\ Stable
  /\ ignored' = FALSE /\ applied' = TRUE
  /\ remote' = Head(toServer).tracks
  /\ attached' = IF role = "answerer" THEN attached \cup Initial ELSE attached
  /\ lock' = "answer" /\ holder' = "reader" /\ echo' = Head(toServer).n
  /\ UNCHANGED <<role, code, signaling, taskV, offerV, pending, held, described,
                 outbound, clientV, toClient, made, candidates>>

\* _on_offer from the engine's answer on: candidates are flushed.
MakeAnswer ==
  /\ Active /\ lock = "answer"
  /\ \E more \in SUBSET (attached \ described) :
       /\ described' = described \cup more
       /\ Send(<<Message("answer", echo, described \cup more)>> \o held)
  /\ made' = made + 1
  /\ held' = <<>> /\ pending' = 0 /\ lock' = "free" /\ reader' = "check"
  /\ UNCHANGED <<role, signaling, starter, track, holder, echo, offerV, applied,
                 ignored, attached, remote, clientV, toClient, toServer,
                 candidates>>

\* The waiters of an offer, once its event is set.
Settled == [t \in ServerTracks |-> IF track[t] = "waiting" THEN "settled" ELSE track[t]]

\* The event is forgotten before it is set.
BadOnAnswer ==
  /\ Reads("answer") /\ reader' = "check"
  /\ IF localOffer # 0 /\ localOffer = Head(toServer).n
     THEN /\ applied' = TRUE /\ remote' = Head(toServer).tracks
          /\ localOffer' = 0 /\ timer' = FALSE /\ pending' = 0
     ELSE UNCHANGED <<applied, remote, localOffer, timer, pending>>
  /\ UNCHANGED <<role, code, signaling, starter, track, lockV, unsent, negotiations,
                 ignored, held, attached, described, outbound, clientV, toClient,
                 made, candidates>>

\* _on_answer
OnAnswer ==
  /\ Reads("answer") /\ reader' = "check"
  /\ IF localOffer # 0 /\ localOffer = Head(toServer).n
     THEN /\ applied' = TRUE /\ remote' = Head(toServer).tracks
          /\ localOffer' = 0 /\ timer' = FALSE /\ pending' = 0
          /\ track' = Settled
     ELSE UNCHANGED <<applied, remote, localOffer, timer, pending, track>>
  /\ UNCHANGED <<role, code, signaling, starter, lockV, unsent, negotiations,
                 ignored, held, attached, described, outbound, clientV, toClient,
                 made, candidates>>

\* _renegotiate_if_needed
Check ==
  /\ Active /\ reader = "check"
  /\ reader' = IF Stable /\ applied /\ NeedsNegotiation THEN "renegotiate" ELSE "read"
  /\ UNCHANGED <<role, code, signaling, starter, track, lockV, offerV, peerV,
                 held, mediaV, outbound, clientV, toClient, toServer, made,
                 candidates>>

\* _on_candidate: it waits for the first description, or the engine judges.
OnCandidate ==
  /\ Reads("candidate")
  /\ IF applied
     THEN /\ UNCHANGED pending
          /\ \/ UNCHANGED <<code, outbound>>
             \/ /\ "rejected_candidate" \in Faults /\ ~ignored
                /\ Send(<<Message("error", 0, {})>>)
     ELSE /\ UNCHANGED outbound
          /\ IF pending >= MaxPending
             THEN code' = "queue_exhausted" /\ UNCHANGED pending
             ELSE pending' = pending + 1 /\ UNCHANGED code
  /\ UNCHANGED <<role, signaling, taskV, lockV, offerV, applied, ignored, held,
                 mediaV, clientV, toClient, made, candidates>>

\* _on_signaling_closed: within a grace period if the session was established.
OnClosed ==
  /\ \/ Reads("closed") /\ code' = "closed" /\ UNCHANGED signaling
     \/ Reads("lost") /\ code' = "signaling_lost" /\ UNCHANGED signaling
     \/ Reads("lost") /\ Established /\ signaling' = "lost" /\ UNCHANGED code
  /\ reader' = "ended"
  /\ UNCHANGED <<role, starter, track, lockV, offerV, peerV, held, mediaV,
                 outbound, clientV, toClient, made, candidates>>

-----------------------------------------------------------------------------
(* The other steps of the server *)

\* _write; it runs until the cleanup closes the socket, and what is left then is
\* dropped.
Write ==
  /\ outbound # <<>>
  /\ outbound' = Tail(outbound)
  /\ toClient' = IF signaling = "lost" \/ finished THEN toClient
                 ELSE Append(toClient, Head(outbound))
  /\ UNCHANGED <<role, code, signaling, taskV, lockV, offerV, peerV, held, mediaV,
                 clientV, toServer, made, candidates>>

\* The engine finds a candidate of its last description; the one that is being made
\* has number made+1, one that was not sent has none.
Candidate ==
  Message("candidate", IF lock # "free" THEN made + 1 ELSE IF unsent THEN 0 ELSE made, {})

Finds(side) ==
  /\ candidates[side] < MaxCandidates
  /\ candidates' = [candidates EXCEPT ![side] = @ + 1]

\* Candidates are not held back.
BadOnLocalCandidate ==
  /\ Active /\ Finds("server") /\ (made > 0 \/ lock # "free")
  /\ Send(<<Candidate>>) /\ UNCHANGED held
  /\ UNCHANGED <<role, signaling, taskV, lockV, offerV, peerV, mediaV, clientV,
                 toClient, toServer, made>>

\* _on_local_candidate
OnLocalCandidate ==
  /\ Active /\ Finds("server") /\ (made > 0 \/ lock # "free")
  /\ IF lock = "free" THEN Send(<<Candidate>>) /\ UNCHANGED held
     ELSE held' = Append(held, Candidate) /\ UNCHANGED <<code, outbound>>
  /\ UNCHANGED <<role, signaling, taskV, lockV, offerV, peerV, mediaV, clientV,
                 toClient, toServer, made>>

\* The timers "answer" and "signaling".
AnswerTimeout ==
  /\ Active /\ timer /\ "answer_timeout" \in Faults
  /\ code' = "negotiation_timeout"
  /\ UNCHANGED <<role, signaling, taskV, lockV, offerV, peerV, held, mediaV,
                 outbound, clientV, toClient, toServer, made, candidates>>

GraceOver ==
  /\ Active /\ signaling = "lost"
  /\ code' = "signaling_lost"
  /\ UNCHANGED <<role, signaling, taskV, lockV, offerV, peerV, held, mediaV,
                 outbound, clientV, toClient, toServer, made, candidates>>

\* _until raises once the session has ended; cleanup cancels the other tasks.
Abandon ==
  /\ ~Active
  /\ reader # "ended" \/ lock # "free"
     \/ \E t \in ServerTracks : track[t] \in {"added", "waiting", "settled"}
  /\ reader' = "ended" /\ starter' = "done" /\ lock' = "free" /\ held' = <<>>
  /\ track' = [t \in ServerTracks |->
                 IF track[t] \in {"none", "done"} THEN track[t] ELSE "failed"]
  /\ UNCHANGED <<role, code, signaling, holder, echo, offerV, peerV, mediaV,
                 outbound, clientV, toClient, toServer, made, candidates>>

-----------------------------------------------------------------------------
(* The client *)

\* settle
Settle == [t \in ClientTracks |-> IF call[t] \in {"called", "added"} THEN "done"
                                  ELSE call[t]]

\* pump, where offer is the pending offer, wants says that one is wanted, and
\* out was sent before.
Pump(offer, wants, calls, out) ==
  IF offer # 0
  THEN /\ cOffer' = offer /\ wantOffer' = wants /\ toServer' = toServer \o out
       /\ call' = calls
       /\ UNCHANGED <<counter, cOffered>>
  ELSE IF wants
  THEN /\ cOffer' = counter + 1 /\ counter' = counter + 1 /\ wantOffer' = FALSE
       /\ cOffered' = cAttached'
       /\ toServer' = toServer \o out \o <<Message("offer", counter + 1, cAttached')>>
       /\ call' = calls
  ELSE /\ cOffer' = 0 /\ wantOffer' = FALSE /\ toServer' = toServer \o out
       /\ call' = Settle
       /\ UNCHANGED <<counter, cOffered>>

Takes(type) ==
  /\ ~finished /\ toClient # <<>> /\ Head(toClient).type = type
  /\ toClient' = Tail(toClient)

\* onHello: the client offers when the server answers.
OnHello ==
  /\ Takes("session")
  /\ UNCHANGED cAttached
  /\ IF role = "answerer" THEN Pump(0, TRUE, call, <<>>)
     ELSE UNCHANGED <<cOffer, counter, wantOffer, cOffered, call, toServer>>
  /\ UNCHANGED <<role, serverV, finished, cDescribed, cRemote, made, seen, candidates>>

\* The offer that was rolled back is not made again.
BadWants == wantOffer

\* An offer that is rolled back is wanted again.
Wants == wantOffer \/ cOffer # 0

\* onDescription of an offer: the client gives way.
OnOffer ==
  /\ Takes("offer")
  /\ cRemote' = Head(toClient).tracks /\ seen' = seen + 1
  /\ UNCHANGED cAttached
  /\ \E more \in SUBSET (cAttached \ cDescribed) :
       /\ cDescribed' = cDescribed \cup more
       /\ Pump(0, Wants, call,
               <<Message("answer", Head(toClient).n, cDescribed \cup more)>>)
  /\ UNCHANGED <<role, serverV, finished, made, candidates>>

\* onDescription of an answer
OnAnswered ==
  /\ Takes("answer")
  /\ UNCHANGED cAttached
  /\ IF cOffer # 0 /\ cOffer = Head(toClient).n
     THEN /\ cDescribed' = cOffered /\ cRemote' = Head(toClient).tracks
          /\ seen' = seen + 1
          /\ Pump(0, wantOffer, call, <<>>)
     ELSE UNCHANGED <<cDescribed, cRemote, seen, cOffer, counter, wantOffer,
                      cOffered, call, toServer>>
  /\ UNCHANGED <<role, serverV, finished, made, candidates>>

\* onCandidate and error messages
OnOther ==
  /\ Takes("candidate") \/ Takes("error")
  /\ UNCHANGED <<role, serverV, clientV, toServer, made, candidates>>

\* addTrack(): the waiter is there before the operation runs.
AddTrack(t) ==
  /\ ~finished /\ call[t] = "none"
  /\ \A i \in 1..Len(toClient) : toClient[i].type # "session"
  /\ call' = [call EXCEPT ![t] = "called"]
  /\ UNCHANGED <<role, serverV, finished, cOffer, counter, wantOffer, cAttached,
                 cOffered, cDescribed, cRemote, seen, toClient, toServer, made,
                 candidates>>

\* The operation that renegotiate() has enqueued.
Prepare(t) ==
  /\ ~finished /\ call[t] \in {"called", "done"} /\ t \notin cAttached
  /\ cAttached' = cAttached \cup {t}
  /\ Pump(cOffer, TRUE, [call EXCEPT ![t] = IF @ = "called" THEN "added" ELSE @], <<>>)
  /\ UNCHANGED <<role, serverV, finished, cDescribed, cRemote, seen, toClient,
                 made, candidates>>

\* pc.onicecandidate
OnIceCandidate ==
  /\ ~finished /\ Finds("client") /\ (cOffer # 0 \/ seen > 0)
  /\ toServer' = Append(toServer, Message("candidate", 0, {}))
  /\ UNCHANGED <<role, serverV, clientV, toClient, made>>

\* finish: waiters are rejected.
Finish ==
  /\ ~finished /\ finished' = TRUE
  /\ call' = [t \in ClientTracks |-> IF call[t] \in {"called", "added"} THEN "failed"
                                     ELSE call[t]]
  /\ toClient' = <<>>
  /\ UNCHANGED <<role, serverV, cOffer, counter, wantOffer, cAttached, cOffered,
                 cDescribed, cRemote, seen, made, candidates>>

\* The client closes, or its socket is lost and what it has sent last with it.
Disconnect(how) ==
  /\ how \in Faults /\ Active /\ Finish
  /\ \E n \in 0..Len(toServer) :
       /\ how = "closed" => n = Len(toServer)
       /\ toServer' = Append(SubSeq(toServer, 1, n), Message(how, 0, {}))

\* The server has closed the socket.
Closed == ~Active /\ Finish /\ UNCHANGED toServer

-----------------------------------------------------------------------------
Tasks == ServerTracks \cup {"reader", "starter"}

Calls == \/ \E t \in ServerTracks : SendTrack(t)
         \/ \E t \in ClientTracks : AddTrack(t)

Environment ==
  \/ OnLocalCandidate \/ OnIceCandidate \/ AnswerTimeout \/ DescribeFails
  \/ Disconnect("lost") \/ Disconnect("closed")

Server ==
  \/ \E w \in Tasks : Renegotiate(w) \/ RenegotiateFails(w)
  \/ \E t \in ServerTracks : Return(t)
  \/ MakeOffer \/ IgnoreOffer \/ AcceptOffer \/ MakeAnswer \/ OnAnswer \/ Check
  \/ OnCandidate \/ OnClosed \/ Abandon

Client ==
  \/ OnHello \/ OnOffer \/ OnAnswered \/ OnOther \/ Closed
  \/ \E t \in ClientTracks : Prepare(t)

\* Nothing is on its way, and nobody has anything left to do.
Idle ==
  /\ Active /\ ~finished /\ lock = "free" /\ reader = "read" /\ starter = "done"
  /\ toClient = <<>> /\ toServer = <<>> /\ outbound = <<>>
  /\ \A t \in ServerTracks : track[t] \in {"none", "done", "failed"}
  /\ \A t \in ClientTracks : call[t] # "none" => t \in cAttached

\* No call of send_track() has failed either.
Quiet == Idle /\ \A t \in ServerTracks : track[t] # "failed"

\* The end of every behaviour.
Over ==
  /\ Idle \/ (~Active /\ finished /\ reader = "ended")
  /\ UNCHANGED vars

Next == Calls \/ Environment \/ Server \/ Client \/ Write \/ GraceOver \/ Over

\* Tasks, operations and the writer run, and the grace period ends.  Calls and
\* what the environment does are under no obligation.
FairSpec ==
  /\ Init /\ [][Next]_vars
  /\ WF_vars(Server) /\ WF_vars(Client) /\ WF_vars(Write) /\ WF_vars(GraceOver)

-----------------------------------------------------------------------------
Messages(types) ==
  [type : types, n : Nat, tracks : SUBSET (Initial \cup ServerTracks \cup ClientTracks)]

\* Every variable has its type: what is held back are candidates, and the tracks
\* a description has were added before.
TypeOK ==
  /\ role \in Roles /\ signaling \in {"open", "lost"}
  /\ code \in {"none", "closed", "signaling_lost", "queue_exhausted",
               "negotiation_timeout", "negotiation_failed"}
  /\ reader \in {"read", "check", "renegotiate", "ended"} /\ starter \in {"todo", "done"}
  /\ track \in [ServerTracks -> {"none", "added", "waiting", "settled", "done", "failed"}]
  /\ lock \in {"free", "offer", "answer"} /\ holder \in Tasks
  /\ {echo, localOffer, negotiations, counter, cOffer, made, seen} \subseteq Nat
  /\ {unsent, timer, applied, ignored, finished, wantOffer} \subseteq BOOLEAN
  /\ pending \in 0..MaxPending
  /\ held \in Seq(Messages({"candidate"})) /\ (lock = "free" => held = <<>>)
  /\ described \subseteq attached /\ attached \subseteq Initial \cup ServerTracks
  /\ outbound \in Seq(Messages({"offer", "answer", "candidate", "error"}))
  /\ Len(outbound) <= MaxOutbound
  /\ call \in [ClientTracks -> {"none", "called", "added", "done", "failed"}]
  /\ cDescribed \subseteq cAttached /\ cAttached \subseteq ClientTracks
  /\ cOffered \subseteq cAttached /\ remote \subseteq ClientTracks
  /\ cRemote \subseteq attached
  /\ toClient \in Seq(Messages({"session", "offer", "answer", "candidate", "error"}))
  /\ toServer \in Seq(Messages({"offer", "answer", "candidate", "closed", "lost"}))

\* However offers cross, once nothing is on its way both sides are stable, each
\* has the other's last description, and every track that was added is in it:
\* the offer that gave way was made again.  A call of send_track() that has failed
\* leaves its track behind and nobody to offer it.
Agreement ==
  Quiet => /\ Stable /\ cOffer = 0 /\ ~wantOffer /\ applied
           /\ cRemote = described /\ described = attached
           /\ remote = cDescribed /\ cDescribed = cAttached

\* The client gets a candidate after the description it belongs to, and while the
\* session runs the server keeps none back that its engine could take.  A candidate
\* of a description that was never made, number 0, follows none: _describe() sends
\* what it has held back when it fails, which its docstring rules out.  The client
\* gets such a candidate only after a call of send_track() has failed, or when the
\* session has ended.
CandidatesFollow ==
  /\ \A i \in 1..Len(toClient) : toClient[i].type = "candidate" =>
       /\ toClient[i].n <= seen + Cardinality({j \in 1..i : toClient[j].type \in Descriptions})
       /\ toClient[i].n = 0 => ~Active \/ \E t \in ServerTracks : track[t] = "failed"
  /\ Active /\ applied /\ lock = "free" => pending = 0

\* Each call of send_track() and addTrack() returns or raises: an answer, the
\* end of the session or of its grace period releases it.  While the engine keeps an
\* offer that was never sent, the server ignores every offer of the client, and its
\* calls wait for as long as the session lives.
CallsEnd ==
  /\ \A t \in ServerTracks : (track[t] = "added") ~> (track[t] \in Ended)
  /\ \A t \in ClientTracks : (call[t] = "called") ~> (call[t] \in Ended \/ unsent)
=============================================================================
