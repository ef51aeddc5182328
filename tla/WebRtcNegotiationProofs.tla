---------------------- MODULE WebRtcNegotiationProofs ----------------------
(***************************************************************************)
(* Proofs about WebRtcNegotiation: the types, that no candidate overtakes  *)
(* its description, and that both sides agree once nothing is on its way.  *)
(*                                                                         *)
(* What the server has queued and what the socket carries are one way to   *)
(* the client, Way: the writer moves messages along it and changes none.   *)
(* At any time there is at most one answer on it and one offer, in this    *)
(* order, and the offer is the one the server waits for.                   *)
(***************************************************************************)
EXTENDS WebRtcNegotiation, FiniteSetTheorems, TLAPS

USE NegotiationAssumption
USE DEF NegotiationAssumption, FaultKinds, taskV, lockV, offerV, peerV, mediaV, serverV, clientV

-----------------------------------------------------------------------------
(* Types *)

Way == toClient \o outbound

AllTracks == Initial \cup ServerTracks \cup ClientTracks
Down      == Messages({"offer", "answer", "candidate", "error"})
Arriving  == Messages({"session", "offer", "answer", "candidate", "error"})
Upward    == Messages({"offer", "answer", "candidate", "closed", "lost"})

CallStates == {"none", "called", "added", "done", "failed"}

\* TypeOK in parts: the queues; tasks, numbers, flags, and tracks of both sides.
Queues ==
  /\ held \in Seq(Messages({"candidate"})) /\ (lock = "free" => held = <<>>)
  /\ outbound \in Seq(Down) /\ Len(outbound) <= MaxOutbound
  /\ toClient \in Seq(Arriving) /\ toServer \in Seq(Upward)

Tasked ==
  /\ role \in Roles /\ signaling \in {"open", "lost"}
  /\ code \in {"none", "closed", "signaling_lost", "queue_exhausted",
               "negotiation_timeout", "negotiation_failed"}
  /\ reader \in {"read", "check", "renegotiate", "ended"} /\ starter \in {"todo", "done"}
  /\ track \in [ServerTracks -> {"none", "added", "waiting", "settled", "done", "failed"}]
  /\ lock \in {"free", "offer", "answer"} /\ holder \in Tasks
  /\ call \in [ClientTracks -> CallStates]

Numbers ==
  /\ echo \in Nat /\ localOffer \in Nat /\ negotiations \in Nat
  /\ counter \in Nat /\ cOffer \in Nat /\ made \in Nat /\ seen \in Nat
  /\ pending \in 0..MaxPending

Flags ==
  /\ unsent \in BOOLEAN /\ timer \in BOOLEAN /\ applied \in BOOLEAN /\ ignored \in BOOLEAN
  /\ finished \in BOOLEAN /\ wantOffer \in BOOLEAN

Media ==
  /\ described \subseteq attached /\ attached \subseteq Initial \cup ServerTracks
  /\ cDescribed \subseteq cAttached /\ cAttached \subseteq ClientTracks
  /\ cOffered \subseteq cAttached /\ remote \subseteq ClientTracks
  /\ cRemote \subseteq attached

Sides == Tasked /\ Numbers /\ Flags /\ Media

LEMMA TypeParts ==
  TypeOK <=> Queues /\ Sides
<1>1. ASSUME TypeOK PROVE Queues /\ Sides
  <2>1. Queues
    BY <1>1 DEF TypeOK, Queues, Down, Arriving, Upward
  <2>2. Sides
    BY <1>1 DEF TypeOK, Sides, Tasked, Numbers, Flags, Media, CallStates
  <2>3. QED BY <2>1, <2>2
<1>2. ASSUME Queues, Sides PROVE TypeOK
  <2>1. /\ held \in Seq(Messages({"candidate"})) /\ (lock = "free" => held = <<>>)
        /\ outbound \in Seq(Messages({"offer", "answer", "candidate", "error"}))
        /\ Len(outbound) <= MaxOutbound
        /\ toClient \in Seq(Messages({"session", "offer", "answer", "candidate", "error"}))
        /\ toServer \in Seq(Messages({"offer", "answer", "candidate", "closed", "lost"}))
    BY <1>2 DEF Queues, Down, Arriving, Upward
  <2>2. /\ {echo, localOffer, negotiations, counter, cOffer, made, seen} \subseteq Nat
        /\ {unsent, timer, applied, ignored, finished, wantOffer} \subseteq BOOLEAN
    BY <1>2 DEF Sides, Numbers, Flags
  <2>3. QED BY <1>2, <2>1, <2>2 DEF TypeOK, Sides, Tasked, Numbers, Media, CallStates
<1>3. QED BY <1>1, <1>2

\* What TypeOK leaves open about the messages: each speaks of tracks its author
\* has, and candidates of none.
Authors ==
  /\ \A i \in 1..Len(toClient) : toClient[i].tracks \subseteq attached
  /\ \A i \in 1..Len(outbound) : outbound[i].tracks \subseteq attached
  /\ \A i \in 1..Len(toServer) : toServer[i].tracks \subseteq ClientTracks
  /\ \A i \in 1..Len(held) : held[i].tracks = {}

\* A call of send_track() has failed.
Broken == \E t \in ServerTracks : track[t] = "failed"

USE DEF Broken

\* While the lock is held no offer is pending and its holder has not gone on; an
\* offer that was not sent is that of a call that failed; nobody reads from a socket
\* that is lost; the timer runs for a pending offer only; candidates wait only until
\* the description is applied.
Locked ==
  /\ lock # "free" => Stable
  /\ lock = "answer" => reader = "read" /\ holder = "reader"
  /\ lock = "offer" /\ holder = "reader" => reader = "renegotiate"
  /\ lock = "offer" /\ holder \in ServerTracks => track[holder] = "added"
  /\ unsent => Broken
  /\ signaling = "lost" => reader = "ended"
  /\ timer => ~Stable
  /\ lock = "offer" => negotiations # 0
  /\ Active /\ lock # "answer" /\ applied => pending = 0
  /\ finished => toClient = <<>>

Sound == Queues /\ Sides /\ Authors /\ Locked

\* A message has what it was made of.
LEMMA MessageFields ==
  ASSUME NEW type, NEW n, NEW tracks
  PROVE  /\ Message(type, n, tracks).type = type
         /\ Message(type, n, tracks).n = n
         /\ Message(type, n, tracks).tracks = tracks
  BY DEF Message

\* It has the type of a message.
LEMMA MessageTyped ==
  ASSUME NEW types, NEW type \in types, NEW n \in Nat, NEW tracks \in SUBSET AllTracks
  PROVE  Message(type, n, tracks) \in Messages(types)
  BY DEF Message, Messages, AllTracks

\* What is left of a queue after its head was taken.
LEMMA TailElements ==
  ASSUME NEW T, NEW q \in Seq(T), q # <<>>
  PROVE  /\ Tail(q) \in Seq(T) /\ Head(q) \in T /\ Head(q) = q[1]
         /\ Len(q) \in Nat \ {0} /\ Len(Tail(q)) = Len(q) - 1
         /\ \A i \in 1..Len(Tail(q)) : i + 1 \in 1..Len(q) /\ Tail(q)[i] = q[i + 1]
  OBVIOUS

\* A queue with something behind it.
LEMMA JoinElements ==
  ASSUME NEW T, NEW q \in Seq(T), NEW r \in Seq(T)
  PROVE  /\ q \o r \in Seq(T) /\ Len(q \o r) = Len(q) + Len(r)
         /\ Len(q) \in Nat /\ Len(r) \in Nat
         /\ \A i \in 1..Len(q) : (q \o r)[i] = q[i]
         /\ \A i \in 1..Len(r) : (q \o r)[Len(q) + i] = r[i]
         /\ \A i \in 1..Len(q \o r) : (q \o r)[i] = IF i <= Len(q) THEN q[i] ELSE r[i - Len(q)]
  OBVIOUS

\* A queue with one message behind it.
LEMMA AppendElements ==
  ASSUME NEW T, NEW q \in Seq(T), NEW m \in T
  PROVE  /\ Append(q, m) \in Seq(T) /\ Len(Append(q, m)) = Len(q) + 1 /\ Len(q) \in Nat
         /\ \A i \in 1..Len(q) : Append(q, m)[i] = q[i]
         /\ Append(q, m)[Len(q) + 1] = m
  OBVIOUS

\* Queues are put behind each other in any grouping, and moving a message from
\* the front of one to the end of the other changes nothing.
LEMMA JoinTwice ==
  ASSUME NEW T, NEW q \in Seq(T), NEW r \in Seq(T), NEW s \in Seq(T)
  PROVE  q \o (r \o s) = (q \o r) \o s
  OBVIOUS

LEMMA WriteJoins ==
  ASSUME NEW T, NEW q \in Seq(T), NEW r \in Seq(T), r # <<>>
  PROVE  Append(q, Head(r)) \o Tail(r) = q \o r
  OBVIOUS

\* To append a message is to put it behind.
LEMMA AppendJoin ==
  ASSUME NEW T, NEW q \in Seq(T), NEW m \in T
  PROVE  Append(q, m) = q \o <<m>>
  OBVIOUS

\* A queue of some messages is one of more.
LEMMA Wider ==
  ASSUME NEW S, NEW T, S \subseteq T, NEW q \in Seq(S)
  PROVE  q \in Seq(T)
  OBVIOUS

\* One message by itself.
LEMMA OneElement ==
  ASSUME NEW T, NEW m \in T
  PROVE  <<m>> \in Seq(T) /\ Len(<<m>>) = 1 /\ <<m>>[1] = m
  OBVIOUS

\* _send: the queue has what was sent behind it or stays, and keeps its bound; a
\* message that no longer fits ends the session.
LEMMA SendTyped ==
  ASSUME Sound, NEW messages \in Seq(Down), Send(messages),
         \A i \in 1..Len(messages) : messages[i].tracks \subseteq attached'
  PROVE  /\ outbound' \in Seq(Down) /\ Len(outbound') <= MaxOutbound
         /\ code' \in {code, "queue_exhausted"}
         /\ outbound' \in {outbound, outbound \o messages}
         /\ attached \subseteq attached' =>
              \A i \in 1..Len(outbound') : outbound'[i].tracks \subseteq attached'
<1>1. outbound \in Seq(Down) /\ Len(outbound) <= MaxOutbound
  BY DEF Sound, Queues
<1>2. /\ outbound' \in {outbound, outbound \o messages}
      /\ Len(outbound') <= MaxOutbound /\ code' \in {code, "queue_exhausted"}
  <2>1. /\ Len(outbound \o messages) = Len(outbound) + Len(messages)
        /\ Len(outbound) \in Nat /\ Len(messages) \in Nat
    BY <1>1, JoinElements
  <2>2. QED BY <1>1, <2>1 DEF Send
<1>3. outbound' \in Seq(Down)
  <2>1. outbound \o messages \in Seq(Down)
    BY <1>1, JoinElements
  <2>2. QED BY <1>1, <1>2, <2>1
<1>4. ASSUME attached \subseteq attached', NEW i \in 1..Len(outbound')
      PROVE  outbound'[i].tracks \subseteq attached'
  <2>1. CASE outbound' = outbound
    BY <1>4, <2>1 DEF Sound, Authors
  <2>2. CASE outbound' = outbound \o messages
    <3>1. CASE i <= Len(outbound)
      <4>1. outbound'[i] = outbound[i] /\ i \in 1..Len(outbound)
        BY <1>1, <2>2, <3>1, JoinElements
      <4>2. QED BY <1>4, <4>1 DEF Sound, Authors
    <3>2. CASE ~(i <= Len(outbound))
      <4>1. outbound'[i] = messages[i - Len(outbound)] /\ i - Len(outbound) \in 1..Len(messages)
        BY <1>1, <2>2, <3>2, JoinElements
      <4>2. QED BY <4>1
    <3>3. QED BY <3>1, <3>2
  <2>3. QED BY <1>2, <2>1, <2>2
<1>5. QED BY <1>2, <1>3, <1>4

\* Messages for the server that speak of the client's tracks stay such.
Sayable(q) == q \in Seq(Upward) /\ \A i \in 1..Len(q) : q[i].tracks \subseteq ClientTracks

LEMMA SayableJoin ==
  ASSUME NEW q, NEW r, Sayable(q), Sayable(r)
  PROVE  Sayable(q \o r)
<1>1. q \in Seq(Upward) /\ r \in Seq(Upward)
  BY DEF Sayable
<1>2. SUFFICES ASSUME NEW i \in 1..Len(q \o r) PROVE (q \o r)[i].tracks \subseteq ClientTracks
  BY <1>1, JoinElements DEF Sayable
<1>3. CASE i <= Len(q)
  <2>1. (q \o r)[i] = q[i] /\ i \in 1..Len(q)
    BY <1>1, <1>3, JoinElements
  <2>2. QED BY <2>1 DEF Sayable
<1>4. CASE ~(i <= Len(q))
  <2>1. (q \o r)[i] = r[i - Len(q)] /\ i - Len(q) \in 1..Len(r)
    BY <1>1, <1>4, JoinElements
  <2>2. QED BY <2>1 DEF Sayable
<1>5. QED BY <1>3, <1>4

LEMMA SayableOne ==
  ASSUME NEW type \in {"offer", "answer", "candidate", "closed", "lost"}, NEW n \in Nat,
         NEW tracks \in SUBSET ClientTracks
  PROVE  /\ Sayable(<<Message(type, n, tracks)>>)
         /\ Message(type, n, tracks) \in Upward
<1>1. Message(type, n, tracks) \in Upward
  BY MessageTyped DEF Upward, AllTracks
<1>2. Message(type, n, tracks).tracks = tracks
  BY MessageFields
<1>3. QED BY <1>1, <1>2 DEF Sayable

\* pump: it says what it is given and, when it makes an offer, that offer.
LEMMA PumpTyped ==
  ASSUME Sound, NEW offer \in Nat, NEW wants \in BOOLEAN, NEW out,
         NEW calls \in [ClientTracks -> CallStates], Sayable(out),
         cAttached \subseteq cAttached', cAttached' \subseteq ClientTracks,
         Pump(offer, wants, calls, out)
  PROVE  /\ cOffer' \in Nat /\ counter' \in Nat /\ wantOffer' \in BOOLEAN
         /\ call' \in [ClientTracks -> CallStates]
         /\ cOffered' \subseteq cAttached'
         /\ Sayable(toServer')
<1>1. /\ Sayable(toServer) /\ counter \in Nat /\ cOffered \subseteq cAttached
      /\ call \in [ClientTracks -> CallStates]
  BY DEF Sound, Queues, Sides, Tasked, Numbers, Media, Authors, Sayable
<1>2. Sayable(toServer \o out)
  BY <1>1, SayableJoin
<1>3. Sayable(<<Message("offer", counter + 1, cAttached')>>)
  BY <1>1, SayableOne
<1>4. Sayable(toServer \o out \o <<Message("offer", counter + 1, cAttached')>>)
  BY <1>2, <1>3, SayableJoin
<1>5. Settle \in [ClientTracks -> CallStates]
  BY <1>1 DEF Settle, CallStates
<1>6. CASE offer # 0
  BY <1>1, <1>2, <1>6 DEF Pump
<1>7. CASE offer = 0 /\ wants
  <2>1. /\ cOffer' = counter + 1 /\ counter' = counter + 1 /\ wantOffer' = FALSE
        /\ cOffered' = cAttached' /\ call' = calls
        /\ toServer' = toServer \o out \o <<Message("offer", counter + 1, cAttached')>>
    BY <1>7 DEF Pump
  <2>2. Sayable(toServer')
    BY <1>4, <2>1
  <2>3. counter + 1 \in Nat
    BY <1>1
  <2>4. QED BY <2>1, <2>2, <2>3
<1>8. CASE offer = 0 /\ ~wants
  BY <1>1, <1>2, <1>5, <1>8 DEF Pump
<1>9. QED BY <1>6, <1>7, <1>8

\* The server starts sound: one greeting is on its way.
LEMMA SoundInit ==
  ASSUME Init PROVE Sound
<1>1. Message("session", 0, {}) \in Arriving
  BY MessageTyped DEF Arriving, AllTracks
<1>2. Message("session", 0, {}).tracks = {}
  BY MessageFields
<1>3. toClient \in Seq(Arriving) /\ Len(toClient) = 1 /\ toClient[1] = Message("session", 0, {})
  BY <1>1 DEF Init
<1>4. Queues /\ Sides
  <2>1. /\ toServer \in Seq(Upward) /\ outbound \in Seq(Down) /\ Len(outbound) = 0
        /\ held \in Seq(Messages({"candidate"})) /\ held = <<>>
    BY DEF Init
  <2>2. /\ track \in [ServerTracks -> {"none", "added", "waiting", "settled", "done", "failed"}]
        /\ call \in [ClientTracks -> {"none", "called", "added", "done", "failed"}]
        /\ holder \in Tasks /\ attached \subseteq Initial \cup ServerTracks
        /\ starter \in {"todo", "done"}
    BY DEF Init, Tasks
  <2>3. Queues
    BY <1>3, <2>1 DEF Queues
  <2>4. /\ code = "none" /\ signaling = "open" /\ reader = "read" /\ lock = "free"
        /\ echo = 0 /\ localOffer = 0 /\ negotiations = 0 /\ counter = 0 /\ cOffer = 0
        /\ made = 0 /\ seen = 0 /\ pending = 0 /\ role \in Roles
        /\ described = {} /\ cAttached = {} /\ cDescribed = {} /\ cOffered = {}
        /\ remote = {} /\ cRemote = {}
        /\ timer = FALSE /\ applied = FALSE /\ ignored = FALSE /\ finished = FALSE
        /\ wantOffer = FALSE /\ unsent = FALSE
    BY DEF Init
  <2>5. Tasked
    BY <2>2, <2>4 DEF Tasked, CallStates
  <2>6. Numbers
    BY <2>4 DEF Numbers
  <2>8. Flags
    BY <2>4 DEF Flags
  <2>7. Media
    BY <2>2, <2>4 DEF Media
  <2>9. QED BY <2>3, <2>5, <2>6, <2>7, <2>8 DEF Sides
<1>5. Authors
  BY <1>2, <1>3 DEF Init, Authors
<1>6. QED BY <1>4, <1>5 DEF Init, Sound, Locked, Active, Stable

-----------------------------------------------------------------------------
(* Every step keeps types and the lock *)
\* A call of send_track() adds a track before its negotiation.
LEMMA SoundSendTrack ==
  ASSUME Sound, NEW t \in ServerTracks, SendTrack(t)
  PROVE  Sound'
<1>1. Tasked'
  BY DEF Sound, Sides, Tasked, SendTrack, Active, Tasks
<1>2. Numbers'
  BY DEF Sound, Sides, Numbers, SendTrack, Active
<1>3. Flags'
  BY DEF Sound, Sides, Flags, SendTrack, Active
<1>4. Media'
  BY DEF Sound, Sides, Media, SendTrack, Active
<1>5. Queues'
  BY DEF Sound, Queues, SendTrack, Active
<1>6. Authors'
  BY DEF Sound, Authors, SendTrack, Active
<1>7. Locked'
  BY DEF Sound, Locked, SendTrack, Active, Stable
<1>8. QED BY <1>1, <1>2, <1>3, <1>4, <1>5, <1>6, <1>7 DEF Sound, Sides

\* A task that may offer takes the lock, or goes on.
LEMMA SoundRenegotiate ==
  ASSUME Sound, NEW w \in Tasks, Renegotiate(w)
  PROVE  Sound'
<1>1. Tasked'
  BY DEF Sound, Sides, Tasked, Renegotiate, Continue, Active, Stable, Tasks
<1>2. Numbers'
  BY DEF Sound, Sides, Numbers, Renegotiate, Continue, Active, Stable
<1>3. Flags'
  BY DEF Sound, Sides, Flags, Renegotiate, Continue, Active, Stable
<1>4. Media'
  BY DEF Sound, Sides, Media, Renegotiate, Continue, Active, Stable
<1>5. Queues'
  BY DEF Sound, Queues, Renegotiate, Continue, Active, Stable
<1>6. Authors'
  BY DEF Sound, Authors, Renegotiate, Continue, Active, Stable
<1>7. Locked'
  <2>1. /\ UNCHANGED <<signaling, localOffer, unsent, timer, applied, pending, code, finished, toClient>>
        /\ lock = "free" /\ signaling = "open"
    BY DEF Renegotiate
  <2>2. CASE Stable /\ lock' = "offer" /\ holder' = w /\ negotiations' = negotiations + 1
             /\ UNCHANGED <<reader, starter, track>>
    <3>1. /\ w = "reader" => reader' = "renegotiate"
          /\ w \in ServerTracks => track'[w] = "added"
      BY <2>2 DEF Renegotiate, Renegotiating
    <3>2. negotiations' # 0
      BY <2>2 DEF Sound, Sides, Numbers
    <3>3. QED BY <2>1, <2>2, <3>1, <3>2 DEF Sound, Locked, Stable, Active
  <2>3. CASE lock' = lock /\ \E at \in {"done", "waiting"} : Continue(w, at)
    <3>1. Broken => Broken'
      BY <2>3 DEF Renegotiate, Renegotiating, Continue, Sound, Sides, Tasked
    <3>2. QED BY <2>1, <2>3, <3>1 DEF Sound, Locked, Stable, Active
  <2>4. QED BY <2>2, <2>3 DEF Renegotiate
<1>8. QED BY <1>1, <1>2, <1>3, <1>4, <1>5, <1>6, <1>7 DEF Sound, Sides

\* Without a socket it raises.
LEMMA SoundRenegotiateFails ==
  ASSUME Sound, NEW w \in Tasks, RenegotiateFails(w)
  PROVE  Sound'
<1>1. Tasked'
  BY DEF Sound, Sides, Tasked, RenegotiateFails, Continue, Active, Tasks
<1>2. Numbers'
  BY DEF Sound, Sides, Numbers, RenegotiateFails, Continue, Active
<1>3. Flags'
  BY DEF Sound, Sides, Flags, RenegotiateFails, Continue, Active
<1>4. Media'
  BY DEF Sound, Sides, Media, RenegotiateFails, Continue, Active
<1>5. Queues'
  BY DEF Sound, Queues, RenegotiateFails, Continue, Active
<1>6. Authors'
  BY DEF Sound, Authors, RenegotiateFails, Continue, Active
<1>7. Locked'
  BY DEF Sound, Locked, RenegotiateFails, Renegotiating, Continue, Active, Stable
<1>8. QED BY <1>1, <1>2, <1>3, <1>4, <1>5, <1>6, <1>7 DEF Sound, Sides

\* A call whose offer was answered returns.
LEMMA SoundReturn ==
  ASSUME Sound, NEW t \in ServerTracks, Return(t)
  PROVE  Sound'
<1>1. Tasked'
  BY DEF Sound, Sides, Tasked, Return, Active, Tasks
<1>2. Numbers'
  BY DEF Sound, Sides, Numbers, Return, Active
<1>3. Flags'
  BY DEF Sound, Sides, Flags, Return, Active
<1>4. Media'
  BY DEF Sound, Sides, Media, Return, Active
<1>5. Queues'
  BY DEF Sound, Queues, Return, Active
<1>6. Authors'
  BY DEF Sound, Authors, Return, Active
<1>7. Locked'
  BY DEF Sound, Locked, Return, Active, Stable
<1>8. QED BY <1>1, <1>2, <1>3, <1>4, <1>5, <1>6, <1>7 DEF Sound, Sides

\* After what it has read the reader looks whether to offer.
LEMMA SoundCheck ==
  ASSUME Sound, Check
  PROVE  Sound'
<1>1. Tasked'
  BY DEF Sound, Sides, Tasked, Check, Active, Tasks
<1>2. Numbers'
  BY DEF Sound, Sides, Numbers, Check, Active
<1>3. Flags'
  BY DEF Sound, Sides, Flags, Check, Active
<1>4. Media'
  BY DEF Sound, Sides, Media, Check, Active
<1>5. Queues'
  BY DEF Sound, Queues, Check, Active
<1>6. Authors'
  BY DEF Sound, Authors, Check, Active
<1>7. Locked'
  BY DEF Sound, Locked, Check, Active, Stable
<1>8. QED BY <1>1, <1>2, <1>3, <1>4, <1>5, <1>6, <1>7 DEF Sound, Sides

\* No answer came in time.
LEMMA SoundAnswerTimeout ==
  ASSUME Sound, AnswerTimeout
  PROVE  Sound'
<1>1. Tasked'
  BY DEF Sound, Sides, Tasked, AnswerTimeout, Active, Tasks
<1>2. Numbers'
  BY DEF Sound, Sides, Numbers, AnswerTimeout, Active
<1>3. Flags'
  BY DEF Sound, Sides, Flags, AnswerTimeout, Active
<1>4. Media'
  BY DEF Sound, Sides, Media, AnswerTimeout, Active
<1>5. Queues'
  BY DEF Sound, Queues, AnswerTimeout, Active
<1>6. Authors'
  BY DEF Sound, Authors, AnswerTimeout, Active
<1>7. Locked'
  BY DEF Sound, Locked, AnswerTimeout, Active, Stable
<1>8. QED BY <1>1, <1>2, <1>3, <1>4, <1>5, <1>6, <1>7 DEF Sound, Sides

\* The grace period is over.
LEMMA SoundGraceOver ==
  ASSUME Sound, GraceOver
  PROVE  Sound'
<1>1. Tasked'
  BY DEF Sound, Sides, Tasked, GraceOver, Active, Tasks
<1>2. Numbers'
  BY DEF Sound, Sides, Numbers, GraceOver, Active
<1>3. Flags'
  BY DEF Sound, Sides, Flags, GraceOver, Active
<1>4. Media'
  BY DEF Sound, Sides, Media, GraceOver, Active
<1>5. Queues'
  BY DEF Sound, Queues, GraceOver, Active
<1>6. Authors'
  BY DEF Sound, Authors, GraceOver, Active
<1>7. Locked'
  BY DEF Sound, Locked, GraceOver, Active, Stable
<1>8. QED BY <1>1, <1>2, <1>3, <1>4, <1>5, <1>6, <1>7 DEF Sound, Sides

\* The tasks of a session that has ended stop; it holds no lock.
LEMMA SoundAbandon ==
  ASSUME Sound, Abandon
  PROVE  Sound'
<1>1. Tasked'
  BY DEF Sound, Sides, Tasked, Abandon, Active, Tasks
<1>2. Numbers'
  BY DEF Sound, Sides, Numbers, Abandon, Active
<1>3. Flags'
  BY DEF Sound, Sides, Flags, Abandon, Active
<1>4. Media'
  BY DEF Sound, Sides, Media, Abandon, Active
<1>5. Queues'
  BY DEF Sound, Queues, Abandon, Active, Locked
<1>6. Authors'
  BY DEF Sound, Authors, Abandon, Active
<1>7. Locked'
  BY DEF Sound, Locked, Abandon, Active, Stable
<1>8. QED BY <1>1, <1>2, <1>3, <1>4, <1>5, <1>6, <1>7 DEF Sound, Sides

\* A call of addTrack() waits for its turn.
LEMMA SoundAddTrack ==
  ASSUME Sound, NEW t \in ClientTracks, AddTrack(t)
  PROVE  Sound'
<1>1. Tasked'
  BY DEF Sound, Sides, Tasked, AddTrack, Tasks, CallStates
<1>2. Numbers'
  BY DEF Sound, Sides, Numbers, AddTrack
<1>3. Flags'
  BY DEF Sound, Sides, Flags, AddTrack
<1>4. Media'
  BY DEF Sound, Sides, Media, AddTrack
<1>5. Queues'
  BY DEF Sound, Queues, AddTrack
<1>6. Authors'
  BY DEF Sound, Authors, AddTrack
<1>7. Locked'
  BY DEF Sound, Locked, AddTrack, Stable, Active
<1>8. QED BY <1>1, <1>2, <1>3, <1>4, <1>5, <1>6, <1>7 DEF Sound, Sides

\* What the server reads is a message of the client, and so is what is left.  It reads
\* a description or a candidate only when no task holds the lock.
LEMMA ReadsTyped ==
  ASSUME Sound, NEW type, Reads(type)
  PROVE  /\ Sayable(toServer') /\ Head(toServer) \in Upward /\ Head(toServer) = toServer[1]
         /\ Head(toServer).n \in Nat /\ Head(toServer).tracks \subseteq ClientTracks
         /\ Active /\ lock \in {"free", "offer"} /\ reader = "read" /\ toServer # <<>>
         /\ (type \in {"offer", "answer", "candidate"} => lock = "free")
         /\ toServer[1].type = type /\ toServer' = Tail(toServer)
         /\ Len(toServer) \in Nat \ {0} /\ Len(toServer') = Len(toServer) - 1
         /\ \A i \in 1..Len(toServer') : i + 1 \in 1..Len(toServer) /\ toServer'[i] = toServer[i + 1]
<1>1. /\ toServer \in Seq(Upward) /\ toServer # <<>> /\ toServer' = Tail(toServer)
      /\ Active /\ lock \in {"free", "offer"} /\ reader = "read" /\ Head(toServer).type = type
      /\ (type \in {"offer", "answer", "candidate"} => lock = "free")
  BY DEF Sound, Queues, Reads
<1>2. /\ toServer' \in Seq(Upward) /\ Head(toServer) \in Upward /\ Head(toServer) = toServer[1]
      /\ Len(toServer) \in Nat \ {0} /\ Len(toServer') = Len(toServer) - 1
      /\ \A i \in 1..Len(toServer') : i + 1 \in 1..Len(toServer) /\ toServer'[i] = toServer[i + 1]
  BY <1>1, TailElements
<1>3. \A i \in 1..Len(toServer) : toServer[i].tracks \subseteq ClientTracks
  BY DEF Sound, Authors
<1>4. Sayable(toServer') /\ Head(toServer).tracks \subseteq ClientTracks
  BY <1>2, <1>3 DEF Sayable
<1>5. Head(toServer).n \in Nat
  BY <1>2 DEF Upward, Messages
<1>6. QED BY <1>1, <1>2, <1>4, <1>5

\* What the client takes is a message of the server, and so is what is left.
LEMMA TakesTyped ==
  ASSUME Sound, NEW type, Takes(type)
  PROVE  /\ toClient' \in Seq(Arriving) /\ Head(toClient) \in Arriving
         /\ Head(toClient) = toClient[1] /\ toClient[1].type = type
         /\ Head(toClient).n \in Nat /\ Head(toClient).tracks \subseteq attached
         /\ toClient # <<>> /\ ~finished /\ toClient' = Tail(toClient)
         /\ Len(toClient) \in Nat \ {0} /\ Len(toClient') = Len(toClient) - 1
         /\ \A i \in 1..Len(toClient') : i + 1 \in 1..Len(toClient) /\ toClient'[i] = toClient[i + 1]
         /\ \A i \in 1..Len(toClient') : toClient'[i].tracks \subseteq attached
<1>1. /\ toClient \in Seq(Arriving) /\ toClient # <<>> /\ toClient' = Tail(toClient)
      /\ ~finished /\ Head(toClient).type = type
  BY DEF Sound, Queues, Takes
<1>2. /\ toClient' \in Seq(Arriving) /\ Head(toClient) \in Arriving /\ Head(toClient) = toClient[1]
      /\ Len(toClient) \in Nat \ {0} /\ Len(toClient') = Len(toClient) - 1
      /\ \A i \in 1..Len(toClient') : i + 1 \in 1..Len(toClient) /\ toClient'[i] = toClient[i + 1]
  BY <1>1, TailElements
<1>3. \A i \in 1..Len(toClient) : toClient[i].tracks \subseteq attached
  BY DEF Sound, Authors
<1>4. /\ Head(toClient).tracks \subseteq attached
      /\ \A i \in 1..Len(toClient') : toClient'[i].tracks \subseteq attached
  BY <1>2, <1>3
<1>5. Head(toClient).n \in Nat
  BY <1>2 DEF Arriving, Messages
<1>6. QED BY <1>1, <1>2, <1>4, <1>5

\* The server's own offer outranks what it reads.
LEMMA SoundIgnoreOffer ==
  ASSUME Sound, IgnoreOffer
  PROVE  Sound'
<1>1. /\ Sayable(toServer') /\ Head(toServer).n \in Nat /\ Head(toServer).tracks \subseteq ClientTracks
      /\ Active /\ lock = "free" /\ reader = "read"
  BY ReadsTyped DEF IgnoreOffer
<1>2. Tasked'
  BY <1>1 DEF Sound, Sides, Tasked, IgnoreOffer, Tasks
<1>3. Numbers'
  BY <1>1 DEF Sound, Sides, Numbers, IgnoreOffer
<1>4. Flags'
  BY <1>1 DEF Sound, Sides, Flags, IgnoreOffer
<1>5. Media'
  BY <1>1 DEF Sound, Sides, Media, IgnoreOffer
<1>6. Queues'
  BY <1>1 DEF Sound, Queues, Sayable, IgnoreOffer
<1>7. Authors'
  BY <1>1 DEF Sound, Authors, Sayable, IgnoreOffer
<1>8. Locked'
  BY <1>1 DEF Sound, Locked, IgnoreOffer, Active, Stable, Sides, Tasked, Numbers
<1>9. QED BY <1>2, <1>3, <1>4, <1>5, <1>6, <1>7, <1>8 DEF Sound, Sides

\* An offer is applied, and its answer made under the lock.
LEMMA SoundAcceptOffer ==
  ASSUME Sound, AcceptOffer
  PROVE  Sound'
<1>1. /\ Sayable(toServer') /\ Head(toServer).n \in Nat /\ Head(toServer).tracks \subseteq ClientTracks
      /\ Active /\ lock = "free" /\ reader = "read"
  BY ReadsTyped DEF AcceptOffer
<1>2. Tasked'
  BY <1>1 DEF Sound, Sides, Tasked, AcceptOffer, Tasks
<1>3. Numbers'
  BY <1>1 DEF Sound, Sides, Numbers, AcceptOffer
<1>4. Flags'
  BY <1>1 DEF Sound, Sides, Flags, AcceptOffer
<1>5. Media'
  BY <1>1 DEF Sound, Sides, Media, AcceptOffer
<1>6. Queues'
  BY <1>1 DEF Sound, Queues, Sayable, AcceptOffer
<1>7. Authors'
  BY <1>1 DEF Sound, Authors, Sayable, AcceptOffer
<1>8. Locked'
  BY <1>1 DEF Sound, Locked, AcceptOffer, Active, Stable, Sides, Tasked, Numbers
<1>9. QED BY <1>2, <1>3, <1>4, <1>5, <1>6, <1>7, <1>8 DEF Sound, Sides

\* An answer settles the offer it is for.
LEMMA SoundOnAnswer ==
  ASSUME Sound, OnAnswer
  PROVE  Sound'
<1>1. /\ Sayable(toServer') /\ Head(toServer).n \in Nat /\ Head(toServer).tracks \subseteq ClientTracks
      /\ Active /\ lock = "free" /\ reader = "read"
  BY ReadsTyped DEF OnAnswer
<1>2. Tasked'
  BY <1>1 DEF Sound, Sides, Tasked, OnAnswer, Settled, Tasks
<1>3. Numbers'
  BY <1>1 DEF Sound, Sides, Numbers, OnAnswer, Settled
<1>4. Flags'
  BY <1>1 DEF Sound, Sides, Flags, OnAnswer, Settled
<1>5. Media'
  BY <1>1 DEF Sound, Sides, Media, OnAnswer, Settled
<1>6. Queues'
  BY <1>1 DEF Sound, Queues, Sayable, OnAnswer, Settled
<1>7. Authors'
  BY <1>1 DEF Sound, Authors, Sayable, OnAnswer, Settled
<1>8. Locked'
  BY <1>1 DEF Sound, Locked, OnAnswer, Settled, Active, Stable, Sides, Tasked, Numbers
<1>9. QED BY <1>2, <1>3, <1>4, <1>5, <1>6, <1>7, <1>8 DEF Sound, Sides

\* The socket is closed or lost.
LEMMA SoundOnClosed ==
  ASSUME Sound, OnClosed
  PROVE  Sound'
<1>1. /\ Sayable(toServer') /\ Head(toServer).n \in Nat /\ Head(toServer).tracks \subseteq ClientTracks
      /\ Active /\ lock \in {"free", "offer"} /\ reader = "read"
  BY ReadsTyped DEF OnClosed
<1>2. Tasked'
  BY <1>1 DEF Sound, Sides, Tasked, OnClosed, Tasks
<1>3. Numbers'
  BY <1>1 DEF Sound, Sides, Numbers, OnClosed
<1>4. Flags'
  BY <1>1 DEF Sound, Sides, Flags, OnClosed
<1>5. Media'
  BY <1>1 DEF Sound, Sides, Media, OnClosed
<1>6. Queues'
  BY <1>1 DEF Sound, Queues, Sayable, OnClosed
<1>7. Authors'
  BY <1>1 DEF Sound, Authors, Sayable, OnClosed
<1>8. Locked'
  BY <1>1 DEF Sound, Locked, OnClosed, Active, Stable, Sides, Numbers, Reads
<1>9. QED BY <1>2, <1>3, <1>4, <1>5, <1>6, <1>7, <1>8 DEF Sound, Sides

\* What _send adds are descriptions and candidates the server may say.
LEMMA SayOne ==
  ASSUME NEW type \in {"offer", "answer", "candidate", "error"}, NEW n \in Nat,
         NEW tracks \in SUBSET AllTracks
  PROVE  /\ Message(type, n, tracks) \in Down
         /\ <<Message(type, n, tracks)>> \in Seq(Down)
         /\ Len(<<Message(type, n, tracks)>>) = 1
         /\ \A i \in 1..Len(<<Message(type, n, tracks)>>) :
              <<Message(type, n, tracks)>>[i] = Message(type, n, tracks)
<1>1. Message(type, n, tracks) \in Down
  BY MessageTyped DEF Down
<1>2. QED BY <1>1

\* A description is followed by the candidates that were held back for it.
LEMMA SayHeld ==
  ASSUME Sound, NEW type \in {"offer", "answer"}, NEW n \in Nat,
         NEW tracks \in SUBSET attached
  PROVE  /\ <<Message(type, n, tracks)>> \o held \in Seq(Down)
         /\ Len(<<Message(type, n, tracks)>> \o held) = Len(held) + 1 /\ Len(held) \in Nat
         /\ (<<Message(type, n, tracks)>> \o held)[1] = Message(type, n, tracks)
         /\ \A i \in 1..Len(held) : (<<Message(type, n, tracks)>> \o held)[i + 1] = held[i]
         /\ \A i \in 1..Len(<<Message(type, n, tracks)>> \o held) :
              (<<Message(type, n, tracks)>> \o held)[i].tracks \subseteq attached
<1> DEFINE one == <<Message(type, n, tracks)>>
<1>1. tracks \in SUBSET AllTracks
  BY DEF Sound, Sides, Media, AllTracks
<1>2. one \in Seq(Down) /\ Len(one) = 1 /\ one[1] = Message(type, n, tracks)
  BY <1>1, SayOne
<1>3. held \in Seq(Down)
  <2>1. Messages({"candidate"}) \subseteq Down
    BY DEF Messages, Down
  <2>2. held \in Seq(Messages({"candidate"}))
    BY DEF Sound, Queues
  <2>3. QED BY <2>1, <2>2, Wider
<1>4. /\ one \o held \in Seq(Down) /\ Len(one \o held) = 1 + Len(held) /\ Len(held) \in Nat
      /\ \A i \in 1..Len(one) : (one \o held)[i] = one[i]
      /\ \A i \in 1..Len(held) : (one \o held)[1 + i] = held[i]
  <2> HIDE DEF one
  <2>1. QED BY <1>2, <1>3, JoinElements, SMTT(30)
<1>5. Message(type, n, tracks).tracks = tracks
  BY MessageFields
<1>6. \A i \in 1..Len(held) : held[i].tracks = {}
  BY DEF Sound, Authors
<1> HIDE DEF one
<1>7. ASSUME NEW i \in 1..Len(one \o held) PROVE (one \o held)[i].tracks \subseteq attached
  <2>1. CASE i = 1
    BY <1>2, <1>4, <1>5, <2>1
  <2>2. CASE i # 1
    <3>1. i - 1 \in 1..Len(held) /\ i = 1 + (i - 1)
      BY <1>4, <2>2
    <3>2. (one \o held)[i] = held[i - 1]
      BY <1>4, <3>1
    <3>3. QED BY <1>6, <3>1, <3>2
  <2>3. QED BY <2>1, <2>2
<1>8. QED BY <1>2, <1>4, <1>7 DEF one

\* The offer that was made, with its candidates, is queued.
LEMMA SoundMakeOffer ==
  ASSUME Sound, MakeOffer
  PROVE  Sound'
<1>1. described \subseteq attached /\ attached' = attached /\ negotiations \in Nat
  BY DEF Sound, Sides, Media, Numbers, MakeOffer
<1>2. /\ <<Message("offer", negotiations, attached)>> \o held \in Seq(Down)
      /\ \A i \in 1..Len(<<Message("offer", negotiations, attached)>> \o held) :
           (<<Message("offer", negotiations, attached)>> \o held)[i].tracks \subseteq attached
  BY <1>1, SayHeld
<1>3. /\ outbound' \in Seq(Down) /\ Len(outbound') <= MaxOutbound
      /\ code' \in {code, "queue_exhausted"}
      /\ \A i \in 1..Len(outbound') : outbound'[i].tracks \subseteq attached'
  BY <1>1, <1>2, SendTyped DEF MakeOffer
<1>4. Tasked'
  BY <1>1, <1>3 DEF Sound, Sides, Tasked, MakeOffer, Continue, Tasks, CallStates
<1>5. Numbers'
  BY <1>1, <1>3 DEF Sound, Sides, Numbers, MakeOffer, Continue
<1>6. Flags'
  BY <1>1, <1>3 DEF Sound, Sides, Flags, MakeOffer, Continue
<1>7. Media'
  BY <1>1, <1>3 DEF Sound, Sides, Media, MakeOffer, Continue
<1>8. Queues'
  BY <1>1, <1>3 DEF Sound, Queues, MakeOffer, Continue
<1>9. Authors'
  BY <1>1, <1>3 DEF Sound, Authors, MakeOffer, Continue
<1>10. Locked'
  BY <1>1, <1>3 DEF Sound, Locked, MakeOffer, Continue, Active, Stable, Sides, Numbers
<1>11. QED BY <1>4, <1>5, <1>6, <1>7, <1>8, <1>9, <1>10 DEF Sound, Sides

\* So is an answer; what waited for the offer is applied.
LEMMA SoundMakeAnswer ==
  ASSUME Sound, MakeAnswer
  PROVE  Sound'
<1>0. PICK more \in SUBSET (attached \ described) :
        /\ described' = described \cup more
        /\ Send(<<Message("answer", echo, described \cup more)>> \o held)
  BY DEF MakeAnswer
<1>1. /\ described \cup more \subseteq attached /\ attached' = attached /\ echo \in Nat
      /\ described' \subseteq attached
  BY <1>0 DEF Sound, Sides, Media, Numbers, MakeAnswer
<1>2. /\ <<Message("answer", echo, described \cup more)>> \o held \in Seq(Down)
      /\ \A i \in 1..Len(<<Message("answer", echo, described \cup more)>> \o held) :
           (<<Message("answer", echo, described \cup more)>> \o held)[i].tracks \subseteq attached
  BY <1>1, SayHeld
<1>3. /\ outbound' \in Seq(Down) /\ Len(outbound') <= MaxOutbound
      /\ code' \in {code, "queue_exhausted"}
      /\ \A i \in 1..Len(outbound') : outbound'[i].tracks \subseteq attached'
  BY <1>0, <1>1, <1>2, SendTyped
<1>5. Tasked'
  BY <1>1, <1>3 DEF Sound, Sides, Tasked, MakeAnswer, Tasks, CallStates
<1>6. Numbers'
  BY <1>1, <1>3 DEF Sound, Sides, Numbers, MakeAnswer
<1>7. Flags'
  BY <1>1, <1>3 DEF Sound, Sides, Flags, MakeAnswer
<1>8. Media'
  BY <1>1, <1>3 DEF Sound, Sides, Media, MakeAnswer
<1>9. Queues'
  BY <1>1, <1>3 DEF Sound, Queues, MakeAnswer
<1>10. Authors'
  BY <1>1, <1>3 DEF Sound, Authors, MakeAnswer
<1>11. Locked'
  BY <1>1, <1>3 DEF Sound, Locked, MakeAnswer, Active, Stable, Sides, Numbers
<1>12. QED BY <1>5, <1>6, <1>7, <1>8, <1>9, <1>10, <1>11 DEF Sound, Sides

\* What _describe has held back is sent when it fails, with nothing before it.
Orphans == [i \in 1..Len(held) |-> Message("candidate", 0, {})]

LEMMA OrphansTyped ==
  ASSUME Sound
  PROVE  /\ Orphans \in Seq(Down) /\ Len(Orphans) = Len(held) /\ Len(held) \in Nat
         /\ \A i \in 1..Len(Orphans) : Orphans[i] = Message("candidate", 0, {})
         /\ \A i \in 1..Len(Orphans) : /\ Orphans[i].type = "candidate"
                                       /\ Orphans[i].n = 0 /\ Orphans[i].tracks = {}
<1>1. Len(held) \in Nat
  BY DEF Sound, Queues
<1>2. Message("candidate", 0, {}) \in Down
  BY MessageTyped DEF Down, AllTracks
<1>3. /\ Orphans \in Seq(Down) /\ Len(Orphans) = Len(held)
      /\ \A i \in 1..Len(Orphans) : Orphans[i] = Message("candidate", 0, {})
  BY <1>1, <1>2 DEF Orphans
<1>4. QED BY <1>1, <1>3, MessageFields

\* A description fails: its maker goes on, and the candidates it held back are sent.
LEMMA SoundDescribeFails ==
  ASSUME Sound, DescribeFails
  PROVE  Sound'
<1>1. /\ attached' = attached /\ toServer' = toServer /\ toClient' = toClient
      /\ held' = <<>> /\ lock' = "free" /\ lock # "free" /\ Active
      /\ localOffer' = localOffer /\ timer' = timer /\ signaling' = signaling
      /\ applied' = applied /\ pending' = pending /\ finished' = finished
  BY DEF DescribeFails
<1>2. /\ outbound' \in Seq(Down) /\ Len(outbound') <= MaxOutbound
      /\ code' \in {code, "queue_exhausted", "negotiation_failed"}
      /\ \A i \in 1..Len(outbound') : outbound'[i].tracks \subseteq attached'
  <2>1. CASE holder \in ServerTracks
    <3>1. Send(Orphans)
      BY <2>1 DEF DescribeFails, Orphans
    <3>2. \A i \in 1..Len(Orphans) : Orphans[i].tracks \subseteq attached'
      BY OrphansTyped
    <3>3. QED BY <1>1, <3>1, <3>2, OrphansTyped, SendTyped
  <2>2. CASE holder \notin ServerTracks
    <3>1. code' \in {"queue_exhausted", "negotiation_failed"}
      BY <2>2 DEF DescribeFails
    <3>2. CASE outbound' = outbound
      BY <1>1, <3>1, <3>2 DEF Sound, Queues, Authors
    <3>3. CASE outbound' = outbound \o Orphans /\ Len(outbound) + Len(held) <= MaxOutbound
      <4>1. /\ outbound \in Seq(Down) /\ Orphans \in Seq(Down) /\ Len(Orphans) = Len(held)
            /\ \A i \in 1..Len(Orphans) : Orphans[i].tracks \subseteq attached'
            /\ \A i \in 1..Len(outbound) : outbound[i].tracks \subseteq attached'
        BY <1>1, OrphansTyped DEF Sound, Queues, Authors
      <4>2. /\ outbound \o Orphans \in Seq(Down) /\ Len(outbound \o Orphans) = Len(outbound) + Len(Orphans)
            /\ Len(outbound) \in Nat /\ Len(Orphans) \in Nat
            /\ \A i \in 1..Len(outbound) : (outbound \o Orphans)[i] = outbound[i]
            /\ \A i \in 1..Len(Orphans) : (outbound \o Orphans)[Len(outbound) + i] = Orphans[i]
        <5>1. outbound \in Seq(Down) /\ Orphans \in Seq(Down)
          BY <4>1
        <5>2. QED BY <5>1, JoinElements
      <4>3. ASSUME NEW i \in 1..Len(outbound') PROVE outbound'[i].tracks \subseteq attached'
        <5>1. CASE i \in 1..Len(outbound)
          BY <3>3, <4>1, <4>2, <5>1
        <5>2. CASE i \notin 1..Len(outbound)
          <6>1. i - Len(outbound) \in 1..Len(Orphans) /\ Len(outbound) + (i - Len(outbound)) = i
            BY <3>3, <4>2, <4>3, <5>2
          <6>2. QED BY <3>3, <4>1, <4>2, <6>1
        <5>3. QED BY <5>1, <5>2
      <4>4. QED BY <3>1, <3>3, <4>1, <4>2, <4>3
    <3>4. QED BY <2>2, <3>2, <3>3 DEF DescribeFails, Orphans
  <2>3. QED BY <2>1, <2>2
<1>3. /\ track' \in [ServerTracks -> {"none", "added", "waiting", "settled", "done", "failed"}]
      /\ reader' \in {"read", "check", "renegotiate", "ended"} /\ starter' \in {"todo", "done"}
      /\ (reader = "ended" => reader' = "ended" \/ holder = "reader")
      /\ Broken \/ holder \in ServerTracks <=> Broken'
  BY DEF DescribeFails, Continue, Sound, Sides, Tasked
<1>4. unsent' \in BOOLEAN /\ (unsent' => unsent \/ holder \in ServerTracks)
  BY DEF DescribeFails, Sound, Sides, Flags
<1>5. Tasked'
  BY <1>1, <1>2, <1>3 DEF Sound, Sides, Tasked, DescribeFails
<1>6. Numbers'
  BY DEF Sound, Sides, Numbers, DescribeFails
<1>7. Flags'
  BY <1>4 DEF Sound, Sides, Flags, DescribeFails
<1>8. Media'
  BY DEF Sound, Sides, Media, DescribeFails
<1>9. Queues'
  BY <1>1, <1>2 DEF Sound, Queues
<1>10. Authors'
  BY <1>1, <1>2 DEF Sound, Authors
<1>11. Locked'
  <2>1. unsent' => Broken'
    BY <1>3, <1>4 DEF Sound, Locked
  <2>2. signaling' = "lost" => reader' = "ended"
    BY <1>1, <1>3 DEF Sound, Locked, Sides, Tasked
  <2>3. timer' => ~Stable'
    BY <1>1 DEF Sound, Locked, Stable
  <2>4. Active' /\ applied' => pending' = 0
    <3>1. holder \in ServerTracks => lock # "answer"
      BY DEF Sound, Locked
    <3>2. holder \notin ServerTracks => ~Active'
      BY DEF DescribeFails, Active
    <3>3. QED BY <1>1, <3>1, <3>2 DEF Sound, Locked
  <2>5. QED BY <1>1, <2>1, <2>2, <2>3, <2>4 DEF Sound, Locked
<1>12. QED BY <1>5, <1>6, <1>7, <1>8, <1>9, <1>10, <1>11 DEF Sound, Sides

\* The writer moves a message from the queue to the socket.
LEMMA SoundWrite ==
  ASSUME Sound, Write
  PROVE  Sound'
<1>1. /\ outbound \in Seq(Down) /\ outbound # <<>> /\ toClient \in Seq(Arriving)
      /\ outbound' = Tail(outbound) /\ toClient' \in {toClient, Append(toClient, Head(outbound))}
      /\ finished => toClient' = toClient
  BY DEF Sound, Queues, Write
<1>2. /\ Tail(outbound) \in Seq(Down) /\ Head(outbound) = outbound[1] /\ Head(outbound) \in Down
      /\ Len(outbound) \in Nat \ {0} /\ Len(Tail(outbound)) = Len(outbound) - 1
      /\ \A i \in 1..Len(Tail(outbound)) :
           i + 1 \in 1..Len(outbound) /\ Tail(outbound)[i] = outbound[i + 1]
  BY <1>1, TailElements
<1>3. Head(outbound) \in Arriving
  BY <1>2 DEF Down, Arriving, Messages
<1>4. /\ Append(toClient, Head(outbound)) \in Seq(Arriving) /\ Len(toClient) \in Nat
      /\ Len(Append(toClient, Head(outbound))) = Len(toClient) + 1
      /\ \A i \in 1..Len(toClient) : Append(toClient, Head(outbound))[i] = toClient[i]
      /\ Append(toClient, Head(outbound))[Len(toClient) + 1] = Head(outbound)
  BY <1>1, <1>3, AppendElements
<1>5. attached' = attached /\ toServer' = toServer /\ held' = held
  BY DEF Write
<1>6. Len(outbound) <= MaxOutbound
  BY DEF Sound, Queues
<1>7. toClient' \in Seq(Arriving) /\ outbound' \in Seq(Down) /\ Len(outbound') <= MaxOutbound
  BY <1>1, <1>2, <1>4, <1>6
<1>8. \A i \in 1..Len(outbound') : outbound'[i].tracks \subseteq attached'
  BY <1>1, <1>2, <1>5 DEF Sound, Authors
<1>9. \A i \in 1..Len(toClient') : toClient'[i].tracks \subseteq attached'
  <2>1. CASE toClient' = toClient
    BY <1>5, <2>1 DEF Sound, Authors
  <2>2. CASE toClient' = Append(toClient, Head(outbound))
    <3>1. SUFFICES ASSUME NEW i \in 1..Len(toClient') PROVE toClient'[i].tracks \subseteq attached
      BY <1>5
    <3>2. CASE i = Len(toClient) + 1
      BY <1>2, <1>4, <2>2, <3>2 DEF Sound, Authors
    <3>3. CASE i # Len(toClient) + 1
      <4>1. i \in 1..Len(toClient) /\ toClient'[i] = toClient[i]
        BY <1>4, <2>2, <3>3
      <4>2. QED BY <4>1 DEF Sound, Authors
    <3>4. QED BY <3>2, <3>3
  <2>3. QED BY <1>1, <2>1, <2>2
<1>10. Tasked'
  BY <1>1, <1>7, <1>8, <1>9 DEF Sound, Sides, Tasked, Write, Active, Tasks, CallStates
<1>11. Numbers'
  BY <1>1, <1>7, <1>8, <1>9 DEF Sound, Sides, Numbers, Write, Active
<1>12. Flags'
  BY <1>1, <1>7, <1>8, <1>9 DEF Sound, Sides, Flags, Write, Active
<1>13. Media'
  BY <1>1, <1>7, <1>8, <1>9 DEF Sound, Sides, Media, Write, Active
<1>14. Queues'
  BY <1>1, <1>7, <1>8, <1>9 DEF Sound, Queues, Write, Active
<1>15. Authors'
  BY <1>1, <1>7, <1>8, <1>9 DEF Sound, Authors, Write, Active
<1>16. Locked'
  BY <1>1, <1>7, <1>8, <1>9 DEF Sound, Locked, Write, Active, Active, Stable, Sides, Numbers
<1>17. QED BY <1>10, <1>11, <1>12, <1>13, <1>14, <1>15, <1>16 DEF Sound, Sides

\* A candidate is sent, or held back for the description being made.
LEMMA SoundOnLocalCandidate ==
  ASSUME Sound, OnLocalCandidate
  PROVE  Sound'
<1>1. /\ Candidate \in Down /\ <<Candidate>> \in Seq(Down)
      /\ Candidate.tracks = {} /\ Candidate \in Messages({"candidate"})
      /\ Len(<<Candidate>>) = 1 /\ <<Candidate>>[1] = Candidate
  <2>1. made \in Nat /\ made + 1 \in Nat
    BY DEF Sound, Sides, Numbers
  <2>2. QED BY <2>1 DEF Candidate, Message, Messages, Down
<1>2. attached' = attached
  BY DEF OnLocalCandidate
<1>3. /\ held' \in Seq(Messages({"candidate"})) /\ (lock = "free" => held' = <<>>)
      /\ outbound' \in Seq(Down) /\ Len(outbound') <= MaxOutbound
      /\ code' \in {code, "queue_exhausted"} /\ (lock # "free" => code' = code)
      /\ \A i \in 1..Len(outbound') : outbound'[i].tracks \subseteq attached'
      /\ \A i \in 1..Len(held') : held'[i].tracks = {}
  <2>1. CASE lock = "free"
    <3>1. Send(<<Candidate>>) /\ held' = held
      BY <2>1 DEF OnLocalCandidate
    <3>2. \A i \in 1..Len(<<Candidate>>) : <<Candidate>>[i].tracks \subseteq attached'
      BY <1>1
    <3>3. /\ outbound' \in Seq(Down) /\ Len(outbound') <= MaxOutbound
          /\ code' \in {code, "queue_exhausted"}
          /\ \A i \in 1..Len(outbound') : outbound'[i].tracks \subseteq attached'
      BY <1>1, <1>2, <3>1, <3>2, SendTyped
    <3>4. QED BY <2>1, <3>1, <3>3 DEF Sound, Queues, Authors
  <2>2. CASE lock # "free"
    <3>1. held' = Append(held, Candidate) /\ code' = code /\ outbound' = outbound
      BY <2>2 DEF OnLocalCandidate
    <3>2. /\ held' \in Seq(Messages({"candidate"})) /\ Len(held') = Len(held) + 1 /\ Len(held) \in Nat
          /\ \A i \in 1..Len(held) : held'[i] = held[i]
          /\ held'[Len(held) + 1] = Candidate
      BY <1>1, <3>1, AppendElements DEF Sound, Queues
    <3>3. \A i \in 1..Len(held') : held'[i].tracks = {}
      BY <1>1, <3>2 DEF Sound, Authors
    <3>4. QED BY <1>2, <2>2, <3>1, <3>2, <3>3 DEF Sound, Queues, Authors
  <2>3. QED BY <2>1, <2>2
<1>6. Tasked'
  BY <1>2, <1>3 DEF Sound, Sides, Tasked, OnLocalCandidate, Tasks, CallStates
<1>7. Numbers'
  BY <1>2, <1>3 DEF Sound, Sides, Numbers, OnLocalCandidate
<1>8. Flags'
  BY <1>2, <1>3 DEF Sound, Sides, Flags, OnLocalCandidate
<1>9. Media'
  BY <1>2, <1>3 DEF Sound, Sides, Media, OnLocalCandidate
<1>10. Queues'
  BY <1>2, <1>3 DEF Sound, Queues, OnLocalCandidate
<1>11. Authors'
  BY <1>2, <1>3 DEF Sound, Authors, OnLocalCandidate
<1>12. Locked'
  BY <1>2, <1>3 DEF Sound, Locked, OnLocalCandidate, Active, Stable, Sides, Numbers
<1>13. QED BY <1>6, <1>7, <1>8, <1>9, <1>10, <1>11, <1>12 DEF Sound, Sides

\* A candidate waits, is applied, or is refused with an error.
LEMMA SoundOnCandidate ==
  ASSUME Sound, OnCandidate
  PROVE  Sound'
<1>1. /\ Sayable(toServer') /\ Active /\ lock = "free" /\ reader = "read"
      /\ attached' = attached
  BY ReadsTyped DEF OnCandidate
<1>4. /\ outbound' \in Seq(Down) /\ Len(outbound') <= MaxOutbound
      /\ code' \in {code, "queue_exhausted"}
      /\ \A i \in 1..Len(outbound') : outbound'[i].tracks \subseteq attached'
  <2>1. CASE applied /\ "rejected_candidate" \in Faults /\ Send(<<Message("error", 0, {})>>)
    <3>1. /\ <<Message("error", 0, {})>> \in Seq(Down) /\ Len(<<Message("error", 0, {})>>) = 1
          /\ <<Message("error", 0, {})>>[1].tracks = {}
      BY DEF Message, Down, Messages
    <3>2. \A i \in 1..Len(<<Message("error", 0, {})>>) :
            <<Message("error", 0, {})>>[i].tracks \subseteq attached'
      BY <3>1
    <3>3. QED BY <1>1, <2>1, <3>1, <3>2, SendTyped
  <2>2. CASE outbound' = outbound /\ code' \in {code, "queue_exhausted"}
    BY <1>1, <2>2 DEF Sound, Queues, Authors
  <2>3. \/ applied /\ "rejected_candidate" \in Faults /\ Send(<<Message("error", 0, {})>>)
        \/ outbound' = outbound /\ code' \in {code, "queue_exhausted"}
    BY DEF OnCandidate
  <2>4. QED BY <2>1, <2>2, <2>3
<1>5. pending' \in 0..MaxPending /\ (applied => pending' = pending)
  BY DEF OnCandidate, Sound, Sides, Numbers
<1>6. Tasked'
  BY <1>1, <1>4, <1>5 DEF Sound, Sides, Tasked, OnCandidate, Tasks, CallStates
<1>7. Numbers'
  BY <1>1, <1>4, <1>5 DEF Sound, Sides, Numbers, OnCandidate
<1>8. Flags'
  BY <1>1, <1>4, <1>5 DEF Sound, Sides, Flags, OnCandidate
<1>9. Media'
  BY <1>1, <1>4, <1>5 DEF Sound, Sides, Media, OnCandidate
<1>10. Queues'
  BY <1>1, <1>4, <1>5 DEF Sound, Queues, OnCandidate, Sayable
<1>11. Authors'
  BY <1>1, <1>4, <1>5 DEF Sound, Authors, OnCandidate, Sayable
<1>12. Locked'
  BY <1>1, <1>4, <1>5 DEF Sound, Locked, OnCandidate, Active, Stable, Sides, Numbers
<1>13. QED BY <1>6, <1>7, <1>8, <1>9, <1>10, <1>11, <1>12 DEF Sound, Sides

\* The client is greeted and may offer.
LEMMA SoundOnHello ==
  ASSUME Sound, OnHello
  PROVE  Sound'
<1>1. /\ toClient' \in Seq(Arriving) /\ ~finished
      /\ \A i \in 1..Len(toClient') : toClient'[i].tracks \subseteq attached
      /\ Head(toClient).n \in Nat /\ Head(toClient).tracks \subseteq attached
  BY TakesTyped DEF OnHello
<1>2. /\ Sayable(toServer) /\ cOffer \in Nat /\ counter \in Nat /\ wantOffer \in BOOLEAN
      /\ call \in [ClientTracks -> CallStates] /\ cOffered \subseteq cAttached
      /\ cAttached \subseteq ClientTracks /\ cDescribed \subseteq cAttached
  BY DEF Sound, Queues, Authors, Sides, Tasked, Numbers, Flags, Media, Sayable
<1>3. Sayable(<<>>)
  BY DEF Sayable
<1>4. /\ cOffer' \in Nat /\ counter' \in Nat /\ wantOffer' \in BOOLEAN
      /\ call' \in [ClientTracks -> CallStates]
      /\ cOffered' \subseteq cAttached'
      /\ Sayable(toServer')
  <2>1. CASE role = "answerer"
    <3>1. Pump(0, TRUE, call, <<>>) /\ cAttached' = cAttached
      BY <2>1 DEF OnHello
    <3>2. QED BY <1>2, <1>3, <3>1, PumpTyped
  <2>2. CASE role # "answerer"
    BY <1>2, <2>2 DEF OnHello
  <2>3. QED BY <2>1, <2>2
<1>5. Tasked'
  BY <1>1, <1>4 DEF Sound, Sides, Tasked, OnHello, Tasks, CallStates
<1>6. Numbers'
  BY <1>1, <1>4 DEF Sound, Sides, Numbers, OnHello
<1>7. Flags'
  BY <1>1, <1>4 DEF Sound, Sides, Flags, OnHello
<1>8. Media'
  BY <1>1, <1>4 DEF Sound, Sides, Media, OnHello
<1>9. Queues'
  BY <1>1, <1>4 DEF Sound, Queues, OnHello, Sayable
<1>10. Authors'
  BY <1>1, <1>4 DEF Sound, Authors, OnHello, Sayable
<1>11. Locked'
  BY <1>1, <1>4 DEF Sound, Locked, OnHello, Active, Stable, Sides, Numbers
<1>12. QED BY <1>5, <1>6, <1>7, <1>8, <1>9, <1>10, <1>11 DEF Sound, Sides

\* The client applies an offer, answers it and offers again what gave way.
LEMMA SoundOnOffer ==
  ASSUME Sound, OnOffer
  PROVE  Sound'
<1>1. /\ toClient' \in Seq(Arriving) /\ ~finished
      /\ \A i \in 1..Len(toClient') : toClient'[i].tracks \subseteq attached
      /\ Head(toClient).n \in Nat /\ Head(toClient).tracks \subseteq attached
  BY TakesTyped DEF OnOffer
<1>2. /\ Sayable(toServer) /\ cOffer \in Nat /\ counter \in Nat /\ wantOffer \in BOOLEAN
      /\ call \in [ClientTracks -> CallStates] /\ cOffered \subseteq cAttached
      /\ cAttached \subseteq ClientTracks /\ cDescribed \subseteq cAttached
  BY DEF Sound, Queues, Authors, Sides, Tasked, Numbers, Flags, Media, Sayable
<1>3. Sayable(<<>>)
  BY DEF Sayable
<1>4. PICK more \in SUBSET (cAttached \ cDescribed) :
        /\ cDescribed' = cDescribed \cup more
        /\ Pump(0, Wants, call, <<Message("answer", Head(toClient).n, cDescribed \cup more)>>)
  BY DEF OnOffer
<1>5. Sayable(<<Message("answer", Head(toClient).n, cDescribed \cup more)>>)
  BY <1>1, <1>2, SayableOne
<1>6. Wants \in BOOLEAN /\ cAttached' = cAttached
  BY DEF Wants, OnOffer
<1>7. /\ cOffer' \in Nat /\ counter' \in Nat /\ wantOffer' \in BOOLEAN
      /\ call' \in [ClientTracks -> CallStates]
      /\ cOffered' \subseteq cAttached'
      /\ Sayable(toServer')
  BY <1>2, <1>4, <1>5, <1>6, PumpTyped
<1>8. cDescribed' \subseteq cAttached
  BY <1>2, <1>4
<1>9. Tasked'
  BY <1>1, <1>6, <1>7, <1>8 DEF Sound, Sides, Tasked, OnOffer, Tasks, CallStates
<1>10. Numbers'
  BY <1>1, <1>6, <1>7, <1>8 DEF Sound, Sides, Numbers, OnOffer
<1>11. Flags'
  BY <1>1, <1>6, <1>7, <1>8 DEF Sound, Sides, Flags, OnOffer
<1>12. Media'
  BY <1>1, <1>6, <1>7, <1>8 DEF Sound, Sides, Media, OnOffer
<1>13. Queues'
  BY <1>1, <1>6, <1>7, <1>8 DEF Sound, Queues, OnOffer, Sayable
<1>14. Authors'
  BY <1>1, <1>6, <1>7, <1>8 DEF Sound, Authors, OnOffer, Sayable
<1>15. Locked'
  BY <1>1, <1>6, <1>7, <1>8 DEF Sound, Locked, OnOffer, Active, Stable, Sides, Numbers
<1>16. QED BY <1>9, <1>10, <1>11, <1>12, <1>13, <1>14, <1>15 DEF Sound, Sides

\* The client applies the answer to its offer.
LEMMA SoundOnAnswered ==
  ASSUME Sound, OnAnswered
  PROVE  Sound'
<1>1. /\ toClient' \in Seq(Arriving) /\ ~finished
      /\ \A i \in 1..Len(toClient') : toClient'[i].tracks \subseteq attached
      /\ Head(toClient).n \in Nat /\ Head(toClient).tracks \subseteq attached
  BY TakesTyped DEF OnAnswered
<1>2. /\ Sayable(toServer) /\ cOffer \in Nat /\ counter \in Nat /\ wantOffer \in BOOLEAN
      /\ call \in [ClientTracks -> CallStates] /\ cOffered \subseteq cAttached
      /\ cAttached \subseteq ClientTracks /\ cDescribed \subseteq cAttached
  BY DEF Sound, Queues, Authors, Sides, Tasked, Numbers, Flags, Media, Sayable
<1>3. Sayable(<<>>)
  BY DEF Sayable
<1>4. /\ cOffer' \in Nat /\ counter' \in Nat /\ wantOffer' \in BOOLEAN
      /\ call' \in [ClientTracks -> CallStates]
      /\ cOffered' \subseteq cAttached'
      /\ Sayable(toServer')
  <2>1. CASE cOffer # 0 /\ cOffer = Head(toClient).n
    <3>1. Pump(0, wantOffer, call, <<>>) /\ cAttached' = cAttached
      BY <2>1 DEF OnAnswered
    <3>2. QED BY <1>2, <1>3, <3>1, PumpTyped
  <2>2. CASE ~(cOffer # 0 /\ cOffer = Head(toClient).n)
    BY <1>2, <2>2 DEF OnAnswered
  <2>3. QED BY <2>1, <2>2
<1>5. Tasked'
  BY <1>1, <1>2, <1>4 DEF Sound, Sides, Tasked, OnAnswered, Tasks, CallStates
<1>6. Numbers'
  BY <1>1, <1>2, <1>4 DEF Sound, Sides, Numbers, OnAnswered
<1>7. Flags'
  BY <1>1, <1>2, <1>4 DEF Sound, Sides, Flags, OnAnswered
<1>8. Media'
  BY <1>1, <1>2, <1>4 DEF Sound, Sides, Media, OnAnswered
<1>9. Queues'
  BY <1>1, <1>2, <1>4 DEF Sound, Queues, OnAnswered, Sayable
<1>10. Authors'
  BY <1>1, <1>2, <1>4 DEF Sound, Authors, OnAnswered, Sayable
<1>11. Locked'
  BY <1>1, <1>2, <1>4 DEF Sound, Locked, OnAnswered, Active, Stable, Sides, Numbers
<1>12. QED BY <1>5, <1>6, <1>7, <1>8, <1>9, <1>10, <1>11 DEF Sound, Sides

\* Candidates and errors change nothing that is described.
LEMMA SoundOnOther ==
  ASSUME Sound, OnOther
  PROVE  Sound'
<1>1. /\ toClient' \in Seq(Arriving) /\ ~finished
      /\ \A i \in 1..Len(toClient') : toClient'[i].tracks \subseteq attached
  BY TakesTyped DEF OnOther
<1>2. Tasked'
  BY <1>1 DEF Sound, Sides, Tasked, OnOther, Tasks, CallStates
<1>3. Numbers'
  BY <1>1 DEF Sound, Sides, Numbers, OnOther
<1>4. Flags'
  BY <1>1 DEF Sound, Sides, Flags, OnOther
<1>5. Media'
  BY <1>1 DEF Sound, Sides, Media, OnOther
<1>6. Queues'
  BY <1>1 DEF Sound, Queues, OnOther
<1>7. Authors'
  BY <1>1 DEF Sound, Authors, OnOther
<1>8. Locked'
  BY <1>1 DEF Sound, Locked, OnOther, Active, Stable, Sides, Numbers
<1>9. QED BY <1>2, <1>3, <1>4, <1>5, <1>6, <1>7, <1>8 DEF Sound, Sides

\* The operation of addTrack() adds the track and wants an offer.
LEMMA SoundPrepare ==
  ASSUME Sound, NEW t \in ClientTracks, Prepare(t)
  PROVE  Sound'
<1>1. /\ Sayable(toServer) /\ cOffer \in Nat /\ counter \in Nat /\ wantOffer \in BOOLEAN
      /\ call \in [ClientTracks -> CallStates] /\ cOffered \subseteq cAttached
      /\ cAttached \subseteq ClientTracks /\ cDescribed \subseteq cAttached
  BY DEF Sound, Queues, Authors, Sides, Tasked, Numbers, Flags, Media, Sayable
<1>2. Sayable(<<>>)
  BY DEF Sayable
<1>3. /\ [call EXCEPT ![t] = IF @ = "called" THEN "added" ELSE @] \in [ClientTracks -> CallStates]
      /\ cAttached \subseteq cAttached' /\ cAttached' \subseteq ClientTracks
      /\ Pump(cOffer, TRUE, [call EXCEPT ![t] = IF @ = "called" THEN "added" ELSE @], <<>>)
  BY <1>1 DEF Prepare, CallStates
<1>4. /\ cOffer' \in Nat /\ counter' \in Nat /\ wantOffer' \in BOOLEAN
      /\ call' \in [ClientTracks -> CallStates]
      /\ cOffered' \subseteq cAttached'
      /\ Sayable(toServer')
  BY <1>1, <1>2, <1>3, PumpTyped
<1>5. Tasked'
  BY <1>1, <1>3, <1>4 DEF Sound, Sides, Tasked, Prepare, Tasks, CallStates
<1>6. Numbers'
  BY <1>1, <1>3, <1>4 DEF Sound, Sides, Numbers, Prepare
<1>7. Flags'
  BY <1>1, <1>3, <1>4 DEF Sound, Sides, Flags, Prepare
<1>8. Media'
  BY <1>1, <1>3, <1>4 DEF Sound, Sides, Media, Prepare
<1>9. Queues'
  BY <1>1, <1>3, <1>4 DEF Sound, Queues, Prepare, Sayable
<1>10. Authors'
  BY <1>1, <1>3, <1>4 DEF Sound, Authors, Prepare, Sayable
<1>11. Locked'
  BY <1>1, <1>3, <1>4 DEF Sound, Locked, Prepare, Active, Stable, Sides, Numbers
<1>12. QED BY <1>5, <1>6, <1>7, <1>8, <1>9, <1>10, <1>11 DEF Sound, Sides

\* The client sends its candidates.
LEMMA SoundOnIceCandidate ==
  ASSUME Sound, OnIceCandidate
  PROVE  Sound'
<1>1. Sayable(toServer)
  BY DEF Sound, Queues, Authors, Sayable
<1>2. Sayable(<<Message("candidate", 0, {})>>) /\ Message("candidate", 0, {}) \in Upward
  BY SayableOne
<1>3. Append(toServer, Message("candidate", 0, {})) = toServer \o <<Message("candidate", 0, {})>>
  BY <1>1, <1>2 DEF Sayable
<1>4. Sayable(toServer')
  <2>1. toServer' = toServer \o <<Message("candidate", 0, {})>>
    BY <1>3 DEF OnIceCandidate
  <2>2. Sayable(toServer \o <<Message("candidate", 0, {})>>)
    BY <1>1, <1>2, SayableJoin
  <2>3. QED BY <2>1, <2>2
<1>5. Tasked'
  BY <1>4 DEF Sound, Sides, Tasked, OnIceCandidate, Tasks, CallStates
<1>6. Numbers'
  BY <1>4 DEF Sound, Sides, Numbers, OnIceCandidate
<1>7. Flags'
  BY <1>4 DEF Sound, Sides, Flags, OnIceCandidate
<1>8. Media'
  BY <1>4 DEF Sound, Sides, Media, OnIceCandidate
<1>9. Queues'
  BY <1>4 DEF Sound, Queues, OnIceCandidate, Sayable
<1>10. Authors'
  BY <1>4 DEF Sound, Authors, OnIceCandidate, Sayable
<1>11. Locked'
  BY <1>4 DEF Sound, Locked, OnIceCandidate, Active, Stable, Sides, Numbers
<1>12. QED BY <1>5, <1>6, <1>7, <1>8, <1>9, <1>10, <1>11 DEF Sound, Sides

\* The client goes, and with its socket what it sent last.
LEMMA SoundDisconnect ==
  ASSUME Sound, NEW how \in {"lost", "closed"}, Disconnect(how)
  PROVE  Sound'
<1>1. PICK n \in 0..Len(toServer) :
        toServer' = Append(SubSeq(toServer, 1, n), Message(how, 0, {}))
  BY DEF Disconnect
<1>2. toServer \in Seq(Upward) /\ Len(toServer) \in Nat
  BY DEF Sound, Queues
<1>3. /\ SubSeq(toServer, 1, n) \in Seq(Upward) /\ Len(SubSeq(toServer, 1, n)) = n
      /\ \A i \in 1..n : SubSeq(toServer, 1, n)[i] = toServer[i] /\ i \in 1..Len(toServer)
  BY <1>2
<1>4. Sayable(SubSeq(toServer, 1, n))
  BY <1>3 DEF Sound, Authors, Sayable
<1>5. Sayable(<<Message(how, 0, {})>>) /\ Message(how, 0, {}) \in Upward
  BY SayableOne
<1>6. Append(SubSeq(toServer, 1, n), Message(how, 0, {})) = SubSeq(toServer, 1, n) \o <<Message(how, 0, {})>>
  BY <1>3, <1>5, AppendJoin
<1>7. Sayable(toServer')
  <2>1. Sayable(SubSeq(toServer, 1, n) \o <<Message(how, 0, {})>>)
    BY <1>4, <1>5, SayableJoin
  <2>2. QED BY <1>1, <1>6, <2>1
<1>8. Tasked'
  BY <1>7 DEF Sound, Sides, Tasked, Disconnect, Finish, Tasks, CallStates
<1>9. Numbers'
  BY <1>7 DEF Sound, Sides, Numbers, Disconnect, Finish
<1>10. Flags'
  BY <1>7 DEF Sound, Sides, Flags, Disconnect, Finish
<1>11. Media'
  BY <1>7 DEF Sound, Sides, Media, Disconnect, Finish
<1>12. Queues'
  BY <1>7 DEF Sound, Queues, Disconnect, Finish, Sayable
<1>13. Authors'
  BY <1>7 DEF Sound, Authors, Disconnect, Finish, Sayable
<1>14. Locked'
  BY <1>7 DEF Sound, Locked, Disconnect, Finish, Active, Stable, Sides, Numbers
<1>15. QED BY <1>8, <1>9, <1>10, <1>11, <1>12, <1>13, <1>14 DEF Sound, Sides

\* The client learns that the session is over.
LEMMA SoundClosed ==
  ASSUME Sound, Closed
  PROVE  Sound'
<1>1. Tasked'
  BY DEF Sound, Sides, Tasked, Closed, Finish, Tasks, CallStates
<1>2. Numbers'
  BY DEF Sound, Sides, Numbers, Closed, Finish
<1>3. Flags'
  BY DEF Sound, Sides, Flags, Closed, Finish
<1>4. Media'
  BY DEF Sound, Sides, Media, Closed, Finish
<1>5. Queues'
  BY DEF Sound, Queues, Closed, Finish
<1>6. Authors'
  BY DEF Sound, Authors, Closed, Finish
<1>7. Locked'
  BY DEF Sound, Locked, Closed, Finish, Active, Stable, Sides, Numbers
<1>8. QED BY <1>1, <1>2, <1>3, <1>4, <1>5, <1>6, <1>7 DEF Sound, Sides

\* Nothing happens.
LEMMA SoundStutter ==
  ASSUME Sound, UNCHANGED vars PROVE Sound'
<1>1. Tasked' /\ Numbers' /\ Flags' /\ Media'
  BY DEF Sound, Sides, Tasked, Numbers, Flags, Media, vars
<1>2. Queues' /\ Authors'
  BY DEF Sound, Queues, Authors, vars
<1>3. Locked'
  BY DEF Sound, Locked, Active, Stable, vars
<1>4. QED BY <1>1, <1>2, <1>3 DEF Sound, Sides

\* No step of either side breaks the types or the lock.
LEMMA SoundNext ==
  ASSUME Sound, Next PROVE Sound'
<1>1. CASE Calls
  BY <1>1, SoundSendTrack, SoundAddTrack DEF Calls
<1>2. CASE Environment
  BY <1>2, SoundOnLocalCandidate, SoundOnIceCandidate, SoundAnswerTimeout, SoundDescribeFails,
     SoundDisconnect DEF Environment
<1>3. CASE Server
  BY <1>3, SoundRenegotiate, SoundRenegotiateFails, SoundReturn, SoundMakeOffer, SoundIgnoreOffer,
     SoundAcceptOffer, SoundMakeAnswer, SoundOnAnswer, SoundCheck, SoundOnCandidate, SoundOnClosed,
     SoundAbandon DEF Server
<1>4. CASE Client
  BY <1>4, SoundOnHello, SoundOnOffer, SoundOnAnswered, SoundOnOther, SoundClosed, SoundPrepare DEF Client
<1>5. CASE Write
  BY <1>5, SoundWrite
<1>6. CASE GraceOver
  BY <1>6, SoundGraceOver
<1>7. CASE Over
  BY <1>7, SoundStutter DEF Over
<1>8. QED BY <1>1, <1>2, <1>3, <1>4, <1>5, <1>6, <1>7 DEF Next

\* The types hold in every state: what is held back are candidates, the queue and
\* the held candidates keep their bounds, and a description has added tracks only.
THEOREM TypeCorrect == FairSpec => []TypeOK
<1>1. Sound /\ [Next]_vars => Sound'
  BY SoundNext, SoundStutter
<1>2. Sound => TypeOK
  BY TypeParts DEF Sound
<1>3. QED BY SoundInit, <1>1, <1>2, PTL DEF FairSpec

-----------------------------------------------------------------------------
(* The exchange of descriptions *)

Has(q, type)     == \E i \in 1..Len(q) : q[i].type = type
Upto(q, i, type) == \E j \in 1..i : q[j].type = type
Later(q, i, type) == \E j \in (i + 1)..Len(q) : q[j].type = type
Describes(m)     == m.type \in Descriptions
One(b)           == IF b THEN 1 ELSE 0

\* No description follows place i on the way to the server.
Final(i) == \A j \in (i + 1)..Len(toServer) : ~Describes(toServer[j])

\* The session is active and the client is there.
Up == Active /\ ~finished

\* While the client is there, so is the socket, and the reader is not done.
Together ==
  ~finished =>
    /\ signaling = "open" /\ ~Has(toServer, "closed") /\ ~Has(toServer, "lost")
    /\ Active => reader # "ended"

\* The greeting comes first, and the client does nothing before it.
HelloFirst ==
  ~finished => \A i \in 1..Len(Way) : Way[i].type = "session" =>
    i = 1 /\ cOffer = 0 /\ seen = 0 /\ \A t \in ClientTracks : call[t] = "none"

\* An answer is the one the client waits for, and precedes every other description.
AnswersFirst ==
  ~finished => \A i \in 1..Len(Way) : Way[i].type = "answer" =>
    /\ Way[i].n = cOffer /\ cOffer # 0 /\ applied
    /\ \A j \in 1..Len(Way) : j # i /\ Describes(Way[j]) => i < j

\* An offer is the one the server waits for, and follows every other description.
OffersLast ==
  ~finished => \A i \in 1..Len(Way) : Way[i].type = "offer" =>
    /\ Way[i].n = localOffer /\ localOffer # 0
    /\ \A j \in 1..Len(Way) : j # i /\ Describes(Way[j]) => j < i

\* A candidate follows the description it belongs to, one that is held back
\* belongs to the description being made, and none is lost on the way.
Order ==
  ~finished =>
    /\ \A i \in 1..Len(Way) : Way[i].type = "candidate" =>
         Way[i].n <= seen + One(Upto(Way, i, "answer")) + One(Upto(Way, i, "offer"))
    /\ Active => made = seen + One(Has(Way, "answer")) + One(Has(Way, "offer"))
    /\ \A i \in 1..Len(held) : held[i].n <= made + 1

\* The client has described its tracks, will, or has them in its offer.
ClientOK ==
  ~finished => /\ cOffer = 0 => ~wantOffer /\ cDescribed = cAttached
               /\ cOffer # 0 /\ ~wantOffer => cOffered = cAttached

\* The last description on the way, or else the last one applied, is the server's.
LastDescribed ==
  Up => /\ \A i \in 1..Len(Way) :
             Describes(Way[i]) /\ (\A j \in (i + 1)..Len(Way) : ~Describes(Way[j])) =>
               Way[i].tracks = described
        /\ (\A i \in 1..Len(Way) : ~Describes(Way[i])) => cRemote = described

\* An answer on its way to the server is the one it waits for, and there is no
\* description on the way to the client.
AnswersBack ==
  Up => \A i \in 1..Len(toServer) : toServer[i].type = "answer" =>
    /\ toServer[i].n = localOffer /\ localOffer # 0 /\ toServer[i].tracks = cDescribed
    /\ \A j \in 1..Len(toServer) : j # i => toServer[j].type # "answer"
    /\ ~Has(Way, "offer") /\ ~Has(Way, "answer")

\* An offer on its way to the server gave way to the answer behind it, or is the
\* one the client waits for.
OffersBack ==
  Up => \A i \in 1..Len(toServer) : toServer[i].type = "offer" =>
    \/ Later(toServer, i, "answer")
    \/ /\ Final(i) /\ toServer[i].n = cOffer /\ cOffer # 0 /\ toServer[i].tracks = cOffered
       /\ ~Has(Way, "answer") /\ lock # "answer"

\* What a side waits for is on its way, or will be made, unless the engine keeps an
\* offer that was not sent.
ServerWaits == Up /\ localOffer # 0 => Has(Way, "offer") \/ Has(toServer, "answer")
ClientWaits ==
  Up /\ cOffer # 0 /\ ~unsent =>
    \/ \E i \in 1..Len(toServer) : toServer[i].type = "offer" /\ Final(i)
    \/ lock = "answer" \/ Has(Way, "answer") \/ Has(Way, "offer")

\* The server has applied the offer it answers, and after that what the client
\* has described.
Answering ==
  Up => /\ lock = "answer" => echo = cOffer /\ cOffer # 0 /\ ~Has(Way, "answer") /\ applied
        /\ lock = "answer" \/ Has(Way, "answer") => remote = cOffered
        /\ lock # "answer" /\ ~Has(Way, "answer") /\ ~Has(toServer, "answer") =>
             remote = cDescribed

\* A server that has not described its tracks has a task that will, unless the call
\* of send_track() has failed.
Works ==
  Up /\ ~Broken /\ applied /\ Stable /\ lock = "free" /\ reader = "read" /\ attached # described =>
    starter = "todo" \/ \E t \in ServerTracks : track[t] = "added"

\* Until something is applied the first offer is to be made or is under way.
Starts ==
  Up /\ ~Broken /\ ~applied =>
    IF role = "offerer" THEN starter = "todo" \/ lock = "offer" \/ ~Stable
    ELSE Has(Way, "session") \/ cOffer # 0

Flow == HelloFirst /\ AnswersFirst /\ OffersLast /\ Order
Talk == /\ LastDescribed /\ AnswersBack /\ OffersBack /\ ServerWaits /\ ClientWaits
        /\ Answering
Tasking == Together /\ Works /\ Starts

Exchange == Flow /\ ClientOK /\ Talk /\ Tasking

-----------------------------------------------------------------------------
(* The two ways *)

LEMMA WayTyped ==
  ASSUME Sound
  PROVE  /\ Way \in Seq(Arriving) /\ Len(Way) \in Nat
         /\ Len(Way) = Len(toClient) + Len(outbound)
         /\ Len(toClient) \in Nat /\ Len(outbound) \in Nat
         /\ \A i \in 1..Len(toClient) : Way[i] = toClient[i]
         /\ \A i \in 1..Len(outbound) : Way[Len(toClient) + i] = outbound[i]
         /\ Len(toServer) \in Nat
<1>1. toClient \in Seq(Arriving) /\ toServer \in Seq(Upward)
  BY DEF Sound, Queues
<1>2. outbound \in Seq(Arriving)
  <2>1. Down \subseteq Arriving
    BY DEF Down, Arriving, Messages
  <2>2. outbound \in Seq(Down)
    BY DEF Sound, Queues
  <2>3. QED BY <2>1, <2>2, Wider
<1>3. QED BY <1>1, <1>2, JoinElements DEF Way

\* What is left of a queue q when k messages were taken from its front; more may
\* have been put behind.
Moves(q, r, k) ==
  /\ k \in {0, 1} /\ k <= Len(q) /\ Len(q) \in Nat /\ Len(r) \in Nat /\ Len(r) >= Len(q) - k
  /\ \A i \in 1..(Len(q) - k) : r[i] = q[i + k]
  /\ \A i \in (1 + k)..Len(q) : r[i - k] = q[i]

\* Neither what was taken nor what was put behind is anything but a candidate or
\* an error.
Special(m) == m.type \in {"session", "offer", "answer", "closed", "lost"}

Passes(q, r, k) ==
  /\ Moves(q, r, k)
  /\ k = 1 => ~Special(q[1])
  /\ \A i \in (Len(q) - k + 1)..Len(r) : ~Special(r[i])

\* The client takes a message.
LEMMA WayTaken ==
  ASSUME Sound, NEW type, Takes(type), outbound' = outbound
  PROVE  /\ Moves(Way, Way', 1) /\ Len(Way') = Len(Way) - 1
         /\ Way[1] = Head(toClient) /\ Way[1].type = type
<1>1. /\ toClient' = Tail(toClient) /\ toClient # <<>>
      /\ Head(toClient) = toClient[1] /\ toClient[1].type = type
      /\ Len(toClient) \in Nat \ {0} /\ Len(toClient') = Len(toClient) - 1
      /\ toClient' \in Seq(Arriving)
      /\ \A i \in 1..Len(toClient') : i + 1 \in 1..Len(toClient) /\ toClient'[i] = toClient[i + 1]
  BY TakesTyped
<1>2. /\ Len(Way) = Len(toClient) + Len(outbound) /\ Len(outbound) \in Nat
      /\ \A i \in 1..Len(toClient) : Way[i] = toClient[i]
      /\ \A i \in 1..Len(outbound) : Way[Len(toClient) + i] = outbound[i]
  BY WayTyped
<1>3. outbound \in Seq(Arriving)
  <2>1. Down \subseteq Arriving
    BY DEF Down, Arriving, Messages
  <2>2. outbound \in Seq(Down)
    BY DEF Sound, Queues
  <2>3. QED BY <2>1, <2>2, Wider
<1>4. /\ Len(Way') = Len(toClient') + Len(outbound)
      /\ \A i \in 1..Len(toClient') : Way'[i] = toClient'[i]
      /\ \A i \in 1..Len(outbound) : Way'[Len(toClient') + i] = outbound[i]
  BY <1>1, <1>3, JoinElements DEF Way
<1>5. ASSUME NEW i \in 1..(Len(Way) - 1) PROVE Way'[i] = Way[i + 1]
  <2>1. CASE i <= Len(toClient')
    BY <1>1, <1>2, <1>4, <2>1
  <2>2. CASE ~(i <= Len(toClient'))
    <3>1. PICK j \in 1..Len(outbound) : i = Len(toClient') + j
      <4>1. /\ i - Len(toClient') \in 1..Len(outbound)
            /\ i = Len(toClient') + (i - Len(toClient'))
        BY <1>1, <1>2, <2>2
      <4>2. QED BY <4>1
    <3>2. i + 1 = Len(toClient) + j
      BY <1>1, <1>2, <3>1
    <3>3. Way[i + 1] = outbound[j]
      BY <1>2, <3>2
    <3>4. Way'[i] = outbound[j]
      BY <1>4, <3>1
    <3>5. QED BY <3>3, <3>4
  <2>3. QED BY <2>1, <2>2
<1>6. \A i \in 2..Len(Way) : i - 1 \in 1..(Len(Way) - 1) /\ (i - 1) + 1 = i
  BY <1>1, <1>2
<1>7. \A i \in 2..Len(Way) : Way'[i - 1] = Way[i]
  BY <1>5, <1>6
<1>8. QED BY <1>1, <1>2, <1>4, <1>5, <1>7 DEF Moves

\* The server queues messages.
LEMMA WayGrown ==
  ASSUME Sound, NEW messages \in Seq(Down),
         toClient' = toClient, outbound' = outbound \o messages
  PROVE  /\ Moves(Way, Way', 0) /\ Len(Way') = Len(Way) + Len(messages) /\ Len(messages) \in Nat
         /\ \A i \in 1..Len(messages) : Way'[Len(Way) + i] = messages[i]
<1>1. outbound \in Seq(Down)
  BY DEF Sound, Queues
<1>2. Way' = Way \o messages
  <2>1. toClient \in Seq(Arriving) /\ outbound \in Seq(Arriving) /\ messages \in Seq(Arriving)
    <3>1. Down \subseteq Arriving
      BY DEF Down, Arriving, Messages
    <3>2. QED BY <1>1, <3>1, Wider DEF Sound, Queues
  <2>2. QED BY <2>1, JoinTwice DEF Way
<1>3. Way \in Seq(Arriving) /\ messages \in Seq(Arriving)
  <2>1. Down \subseteq Arriving
    BY DEF Down, Arriving, Messages
  <2>2. QED BY <2>1, Wider, WayTyped
<1>4. QED BY <1>2, <1>3, JoinElements DEF Moves

\* The writer moves a message from one part of the way to the other.
LEMMA WayWritten ==
  ASSUME Sound, Write, ~finished, signaling = "open"
  PROVE  Way' = Way
<1>1. toClient \in Seq(Arriving) /\ outbound \in Seq(Arriving) /\ outbound # <<>>
  <2>1. Down \subseteq Arriving
    BY DEF Down, Arriving, Messages
  <2>2. QED BY <2>1, Wider DEF Sound, Queues, Write
<1>2. toClient' = Append(toClient, Head(outbound)) /\ outbound' = Tail(outbound)
  BY DEF Write
<1>3. QED BY <1>1, <1>2, WriteJoins DEF Way

\* Messages are read and written at the ends of the way to the server.
LEMMA ServerTaken ==
  ASSUME Sound, NEW type, Reads(type)
  PROVE  /\ Moves(toServer, toServer', 1) /\ Len(toServer') = Len(toServer) - 1
         /\ toServer[1] = Head(toServer) /\ toServer[1].type = type
<1>1. /\ Head(toServer) = toServer[1] /\ toServer[1].type = type
      /\ Len(toServer) \in Nat \ {0} /\ Len(toServer') = Len(toServer) - 1
      /\ \A i \in 1..Len(toServer') : i + 1 \in 1..Len(toServer) /\ toServer'[i] = toServer[i + 1]
  BY ReadsTyped
<1>2. \A i \in 2..Len(toServer) : i - 1 \in 1..Len(toServer') /\ (i - 1) + 1 = i
  BY <1>1
<1>3. \A i \in 2..Len(toServer) : toServer'[i - 1] = toServer[i]
  BY <1>1, <1>2
<1>4. QED BY <1>1, <1>3 DEF Moves

LEMMA ServerGrown ==
  ASSUME Sound, NEW out \in Seq(Upward), toServer' = toServer \o out
  PROVE  /\ Moves(toServer, toServer', 0) /\ Len(toServer') = Len(toServer) + Len(out)
         /\ Len(out) \in Nat
         /\ \A i \in 1..Len(out) : toServer'[Len(toServer) + i] = out[i]
<1>1. toServer \in Seq(Upward)
  BY DEF Sound, Queues
<1>2. QED BY <1>1, JoinElements DEF Moves

-----------------------------------------------------------------------------
(* Steps that leave the descriptions alone *)

\* What of note was on a way is still on it, in its place, and nothing else is.
LEMMA PassesWay ==
  ASSUME NEW q, NEW r, NEW k, Passes(q, r, k)
  PROVE  /\ k \in {0, 1} /\ Len(q) \in Nat /\ Len(r) \in Nat
         /\ \A i \in 1..Len(q) : Special(q[i]) => i - k \in 1..Len(r) /\ r[i - k] = q[i]
         /\ \A i \in 1..Len(r) : Special(r[i]) => i + k \in 1..Len(q) /\ q[i + k] = r[i]
<1>1. /\ k \in {0, 1} /\ k <= Len(q) /\ Len(q) \in Nat /\ Len(r) \in Nat /\ Len(r) >= Len(q) - k
      /\ \A i \in 1..(Len(q) - k) : r[i] = q[i + k]
      /\ \A i \in (1 + k)..Len(q) : r[i - k] = q[i]
      /\ k = 1 => ~Special(q[1])
      /\ \A i \in (Len(q) - k + 1)..Len(r) : ~Special(r[i])
  BY DEF Passes, Moves
<1>2. ASSUME NEW i \in 1..Len(q), Special(q[i])
      PROVE  i - k \in 1..Len(r) /\ r[i - k] = q[i]
  <2>1. i \in (1 + k)..Len(q)
    BY <1>1, <1>2
  <2>2. QED BY <1>1, <2>1
<1>3. ASSUME NEW i \in 1..Len(r), Special(r[i])
      PROVE  i + k \in 1..Len(q) /\ q[i + k] = r[i]
  <2>1. i \in 1..(Len(q) - k)
    BY <1>1, <1>3
  <2>2. QED BY <1>1, <2>1
<1>4. QED BY <1>1, <1>2, <1>3

\* It still has the same kinds of messages.
LEMMA PassesHas ==
  ASSUME NEW q, NEW r, NEW k, Passes(q, r, k),
         NEW type \in {"session", "offer", "answer", "closed", "lost"}
  PROVE  Has(q, type) <=> Has(r, type)
<1>1. /\ \A i \in 1..Len(q) : Special(q[i]) => i - k \in 1..Len(r) /\ r[i - k] = q[i]
      /\ \A i \in 1..Len(r) : Special(r[i]) => i + k \in 1..Len(q) /\ q[i + k] = r[i]
  BY PassesWay
<1>2. QED BY <1>1 DEF Has, Special

LEMMA CarriedFlow ==
  ASSUME Sound, Flow, ~finished, NEW k, Passes(Way, Way', k),
         UNCHANGED <<cOffer, seen, applied, localOffer, made>>,
         code' = "none" => Active,
         call' = call \/ ~Has(Way, "session"),
         \A i \in (Len(Way) - k + 1)..Len(Way') : Way'[i].type = "candidate" =>
           Way'[i].n <= seen + One(Has(Way, "answer")) + One(Has(Way, "offer")),
         \A i \in 1..Len(held') : held'[i].n <= made + 1
  PROVE  Flow'
<1>1. /\ k \in {0, 1} /\ Len(Way) \in Nat /\ Len(Way') \in Nat
      /\ \A i \in 1..Len(Way) : Special(Way[i]) => i - k \in 1..Len(Way') /\ Way'[i - k] = Way[i]
      /\ \A i \in 1..Len(Way') : Special(Way'[i]) => i + k \in 1..Len(Way) /\ Way[i + k] = Way'[i]
  BY PassesWay
<1>2. HelloFirst'
  <2>1. SUFFICES ASSUME NEW i \in 1..Len(Way'), Way'[i].type = "session"
                 PROVE  i = 1 /\ cOffer = 0 /\ seen = 0 /\ \A t \in ClientTracks : call'[t] = "none"
    BY DEF HelloFirst
  <2>2. i + k \in 1..Len(Way) /\ Way[i + k].type = "session"
    BY <1>1, <2>1 DEF Special
  <2>3. i + k = 1 /\ cOffer = 0 /\ seen = 0 /\ \A t \in ClientTracks : call[t] = "none"
    BY <2>2 DEF Flow, HelloFirst
  <2>4. Has(Way, "session")
    BY <2>2 DEF Has
  <2>5. QED BY <1>1, <2>3, <2>4
<1>3. AnswersFirst'
  <2>1. SUFFICES ASSUME NEW i \in 1..Len(Way'), Way'[i].type = "answer"
                 PROVE  /\ Way'[i].n = cOffer /\ cOffer # 0 /\ applied
                        /\ \A j \in 1..Len(Way') : j # i /\ Describes(Way'[j]) => i < j
    BY DEF AnswersFirst
  <2>2. i + k \in 1..Len(Way) /\ Way[i + k] = Way'[i]
    BY <1>1, <2>1 DEF Special
  <2>3. /\ Way[i + k].n = cOffer /\ cOffer # 0 /\ applied
        /\ \A j \in 1..Len(Way) : j # i + k /\ Describes(Way[j]) => i + k < j
    BY <2>1, <2>2 DEF Flow, AnswersFirst
  <2>4. ASSUME NEW j \in 1..Len(Way'), j # i, Describes(Way'[j]) PROVE i < j
    <3>1. j + k \in 1..Len(Way) /\ Way[j + k] = Way'[j] /\ j + k # i + k
      BY <1>1, <2>4 DEF Special, Describes, Descriptions
    <3>2. i + k < j + k
      BY <2>3, <2>4, <3>1
    <3>3. QED BY <1>1, <3>2
  <2>5. QED BY <2>2, <2>3, <2>4
<1>4. OffersLast'
  <2>1. SUFFICES ASSUME NEW i \in 1..Len(Way'), Way'[i].type = "offer"
                 PROVE  /\ Way'[i].n = localOffer /\ localOffer # 0
                        /\ \A j \in 1..Len(Way') : j # i /\ Describes(Way'[j]) => j < i
    BY DEF OffersLast
  <2>2. i + k \in 1..Len(Way) /\ Way[i + k] = Way'[i]
    BY <1>1, <2>1 DEF Special
  <2>3. /\ Way[i + k].n = localOffer /\ localOffer # 0
        /\ \A j \in 1..Len(Way) : j # i + k /\ Describes(Way[j]) => j < i + k
    BY <2>1, <2>2 DEF Flow, OffersLast
  <2>4. ASSUME NEW j \in 1..Len(Way'), j # i, Describes(Way'[j]) PROVE j < i
    <3>1. j + k \in 1..Len(Way) /\ Way[j + k] = Way'[j] /\ j + k # i + k
      BY <1>1, <2>4 DEF Special, Describes, Descriptions
    <3>2. j + k < i + k
      BY <2>3, <2>4, <3>1
    <3>3. QED BY <1>1, <3>2
  <2>5. QED BY <2>2, <2>3, <2>4
<1>5. /\ Has(Way, "answer") <=> Has(Way', "answer")
      /\ Has(Way, "offer") <=> Has(Way', "offer")
  BY PassesHas
<1>6. ASSUME NEW i \in 1..Len(Way'), Way'[i].type = "candidate"
      PROVE  Way'[i].n <= seen + One(Upto(Way', i, "answer")) + One(Upto(Way', i, "offer"))
  <2>0. /\ k <= Len(Way) /\ \A j \in 1..(Len(Way) - k) : Way'[j] = Way[j + k]
        /\ \A j \in (1 + k)..Len(Way) : Way'[j - k] = Way[j]
        /\ k = 1 => ~Special(Way[1])
    BY DEF Passes, Moves
  <2>1. CASE i <= Len(Way) - k
    <3>1. i + k \in 1..Len(Way) /\ Way[i + k] = Way'[i]
      BY <1>1, <2>0, <2>1
    <3>2. Way'[i].n <= seen + One(Upto(Way, i + k, "answer")) + One(Upto(Way, i + k, "offer"))
      BY <1>6, <3>1 DEF Flow, Order
    <3>3. ASSUME NEW type \in {"offer", "answer"}
          PROVE  Upto(Way, i + k, type) <=> Upto(Way', i, type)
      <4>1. ASSUME NEW j \in 1..(i + k), Way[j].type = type PROVE Upto(Way', i, type)
        <5>1. j \in 1..Len(Way) /\ Special(Way[j])
          BY <1>1, <3>1, <3>3, <4>1 DEF Special
        <5>2. j - k \in 1..Len(Way') /\ Way'[j - k] = Way[j]
          BY <1>1, <5>1
        <5>3. j - k \in 1..i
          BY <1>1, <4>1, <5>2
        <5>4. QED BY <4>1, <5>2, <5>3 DEF Upto
      <4>2. ASSUME NEW j \in 1..i, Way'[j].type = type PROVE Upto(Way, i + k, type)
        <5>1. j \in 1..(Len(Way) - k) /\ j + k \in 1..(i + k)
          BY <1>1, <2>1, <4>2
        <5>2. Way[j + k].type = type
          BY <2>0, <4>2, <5>1
        <5>3. QED BY <5>1, <5>2 DEF Upto
      <4>3. QED BY <4>1, <4>2 DEF Upto
    <3>4. /\ One(Upto(Way, i + k, "answer")) = One(Upto(Way', i, "answer"))
          /\ One(Upto(Way, i + k, "offer")) = One(Upto(Way', i, "offer"))
      BY <3>3 DEF One
    <3>5. QED BY <3>2, <3>4
  <2>2. CASE ~(i <= Len(Way) - k)
    <3>1. i \in (Len(Way) - k + 1)..Len(Way')
      BY <1>1, <2>2
    <3>2. Way'[i].n <= seen + One(Has(Way, "answer")) + One(Has(Way, "offer"))
      BY <1>6, <3>1
    <3>3. ASSUME NEW type \in {"offer", "answer"}, Has(Way, type) PROVE Upto(Way', i, type)
      <4>1. PICK j \in 1..Len(Way) : Way[j].type = type
        BY <3>3 DEF Has
      <4>2. j - k \in 1..Len(Way') /\ Way'[j - k] = Way[j]
        BY <1>1, <3>3, <4>1 DEF Special
      <4>3. j - k \in 1..i
        BY <1>1, <2>2, <4>1, <4>2
      <4>4. QED BY <4>1, <4>2, <4>3 DEF Upto
    <3>4. ASSUME NEW type \in {"offer", "answer"}, ~Has(Way, type) PROVE ~Upto(Way', i, type)
      <4>1. ~Has(Way', type)
        BY <3>4, PassesHas
      <4>2. QED BY <1>1, <4>1 DEF Has, Upto
    <3>5. /\ One(Has(Way, "answer")) = One(Upto(Way', i, "answer"))
          /\ One(Has(Way, "offer")) = One(Upto(Way', i, "offer"))
      BY <3>3, <3>4 DEF One
    <3>6. QED BY <3>2, <3>5
  <2>3. QED BY <2>1, <2>2
<1>7. Order'
  <2>1. /\ One(Has(Way, "answer")) = One(Has(Way', "answer"))
        /\ One(Has(Way, "offer")) = One(Has(Way', "offer"))
    BY <1>5 DEF One
  <2>2. Active' => made' = seen' + One(Has(Way', "answer")) + One(Has(Way', "offer"))
    BY <2>1 DEF Flow, Order, Active
  <2>3. QED BY <1>6, <2>2 DEF Order
<1>8. QED BY <1>2, <1>3, <1>4, <1>7 DEF Flow

LEMMA CarriedTalk ==
  ASSUME Sound, Talk, ~finished, NEW k, NEW l, Passes(Way, Way', k), Passes(toServer, toServer', l),
         UNCHANGED <<cOffer, applied, localOffer, described, cRemote, cDescribed, cOffered,
                     remote, echo>>,
         code' = "none" => Active, ~unsent' => ~unsent,
         lock' = lock \/ (lock # "answer" /\ lock' # "answer")
  PROVE  Talk'
<1>1. CASE ~Up'
  BY <1>1 DEF Talk, LastDescribed, AnswersBack, OffersBack, ServerWaits, ClientWaits, Answering
<1>2. CASE Up'
  <2>1. Up
    BY <1>2 DEF Up, Active
  <2>2. /\ k \in {0, 1} /\ Len(Way) \in Nat /\ Len(Way') \in Nat
        /\ \A i \in 1..Len(Way) : Special(Way[i]) => i - k \in 1..Len(Way') /\ Way'[i - k] = Way[i]
        /\ \A i \in 1..Len(Way') : Special(Way'[i]) => i + k \in 1..Len(Way) /\ Way[i + k] = Way'[i]
    BY PassesWay
  <2>3. /\ l \in {0, 1} /\ Len(toServer) \in Nat /\ Len(toServer') \in Nat
        /\ \A i \in 1..Len(toServer) :
             Special(toServer[i]) => i - l \in 1..Len(toServer') /\ toServer'[i - l] = toServer[i]
        /\ \A i \in 1..Len(toServer') :
             Special(toServer'[i]) => i + l \in 1..Len(toServer) /\ toServer[i + l] = toServer'[i]
    BY PassesWay
  <2>4. /\ Has(Way, "answer") <=> Has(Way', "answer")
        /\ Has(Way, "offer") <=> Has(Way', "offer")
        /\ Has(toServer, "answer") <=> Has(toServer', "answer")
    BY PassesHas
  <2>5. LastDescribed'
    <3>1. ASSUME NEW i \in 1..Len(Way'), Describes(Way'[i]),
                 \A j \in (i + 1)..Len(Way') : ~Describes(Way'[j])
          PROVE  Way'[i].tracks = described
      <4>1. i + k \in 1..Len(Way) /\ Way[i + k] = Way'[i]
        BY <2>2, <3>1 DEF Special, Describes, Descriptions
      <4>2. ASSUME NEW j \in (i + k + 1)..Len(Way), Describes(Way[j]) PROVE FALSE
        <5>1. j \in 1..Len(Way) /\ Special(Way[j])
          BY <2>2, <4>1, <4>2 DEF Special, Describes, Descriptions
        <5>2. j - k \in 1..Len(Way') /\ Way'[j - k] = Way[j]
          BY <2>2, <5>1
        <5>3. j - k \in (i + 1)..Len(Way')
          BY <2>2, <4>2, <5>2
        <5>4. QED BY <3>1, <4>2, <5>2, <5>3
      <4>3. QED BY <2>1, <3>1, <4>1, <4>2 DEF Talk, LastDescribed
    <3>2. ASSUME \A i \in 1..Len(Way') : ~Describes(Way'[i]) PROVE cRemote = described
      <4>1. ASSUME NEW i \in 1..Len(Way), Describes(Way[i]) PROVE FALSE
        BY <2>2, <3>2, <4>1 DEF Special, Describes, Descriptions
      <4>2. QED BY <2>1, <4>1 DEF Talk, LastDescribed
    <3>3. QED BY <3>1, <3>2 DEF LastDescribed
  <2>6. AnswersBack'
    <3>1. SUFFICES ASSUME NEW i \in 1..Len(toServer'), toServer'[i].type = "answer"
                   PROVE  /\ toServer'[i].n = localOffer /\ localOffer # 0
                          /\ toServer'[i].tracks = cDescribed
                          /\ \A j \in 1..Len(toServer') : j # i => toServer'[j].type # "answer"
                          /\ ~Has(Way', "offer") /\ ~Has(Way', "answer")
      BY DEF AnswersBack
    <3>2. i + l \in 1..Len(toServer) /\ toServer[i + l] = toServer'[i]
      BY <2>3, <3>1 DEF Special
    <3>3. /\ toServer[i + l].n = localOffer /\ localOffer # 0 /\ toServer[i + l].tracks = cDescribed
          /\ \A j \in 1..Len(toServer) : j # i + l => toServer[j].type # "answer"
          /\ ~Has(Way, "offer") /\ ~Has(Way, "answer")
      BY <2>1, <3>1, <3>2 DEF Talk, AnswersBack
    <3>4. ASSUME NEW j \in 1..Len(toServer'), j # i, toServer'[j].type = "answer" PROVE FALSE
      <4>1. j + l \in 1..Len(toServer) /\ toServer[j + l] = toServer'[j]
        BY <2>3, <3>4 DEF Special
      <4>2. j + l # i + l
        BY <2>3, <3>4
      <4>3. QED BY <3>3, <3>4, <4>1, <4>2
    <3>5. QED BY <2>4, <3>2, <3>3, <3>4
  <2>7. ASSUME NEW i \in 1..Len(toServer), Describes(toServer[i]), Final(i)
        PROVE  i - l \in 1..Len(toServer') /\ toServer'[i - l] = toServer[i] /\ Final(i - l)'
    <3>1. i - l \in 1..Len(toServer') /\ toServer'[i - l] = toServer[i]
      BY <2>3, <2>7 DEF Special, Describes, Descriptions
    <3>2. ASSUME NEW j \in (i - l + 1)..Len(toServer'), Describes(toServer'[j]) PROVE FALSE
      <4>1. j + l \in 1..Len(toServer) /\ toServer[j + l] = toServer'[j]
        BY <2>3, <3>1, <3>2 DEF Special, Describes, Descriptions
      <4>2. j + l \in (i + 1)..Len(toServer)
        BY <2>3, <3>2, <4>1
      <4>3. QED BY <2>7, <3>2, <4>1, <4>2 DEF Final
    <3>3. QED BY <3>1, <3>2 DEF Final
  <2>8. OffersBack'
    <3>1. SUFFICES ASSUME NEW i \in 1..Len(toServer'), toServer'[i].type = "offer"
                   PROVE  \/ \E j \in (i + 1)..Len(toServer') : toServer'[j].type = "answer"
                          \/ /\ Final(i)' /\ toServer'[i].n = cOffer /\ cOffer # 0
                             /\ toServer'[i].tracks = cOffered
                             /\ ~Has(Way', "answer") /\ lock' # "answer"
      BY DEF OffersBack, Later
    <3>2. i + l \in 1..Len(toServer) /\ toServer[i + l] = toServer'[i]
      BY <2>3, <3>1 DEF Special
    <3>3. CASE \E j \in (i + l + 1)..Len(toServer) : toServer[j].type = "answer"
      <4>1. PICK j \in (i + l + 1)..Len(toServer) : toServer[j].type = "answer"
        BY <3>3
      <4>2. j \in 1..Len(toServer) /\ Special(toServer[j])
        BY <2>3, <3>2, <4>1 DEF Special
      <4>3. j - l \in 1..Len(toServer') /\ toServer'[j - l] = toServer[j]
        BY <2>3, <4>2
      <4>4. j - l \in (i + 1)..Len(toServer')
        BY <2>3, <4>1, <4>3
      <4>5. QED BY <4>1, <4>3, <4>4
    <3>4. CASE /\ Final(i + l) /\ toServer[i + l].n = cOffer /\ cOffer # 0
               /\ toServer[i + l].tracks = cOffered /\ ~Has(Way, "answer") /\ lock # "answer"
      <4>1. Final((i + l) - l)' /\ (i + l) - l = i
        <5>1. Describes(toServer[i + l])
          BY <3>1, <3>2 DEF Describes, Descriptions
        <5>2. QED BY <2>3, <2>7, <3>2, <3>4, <5>1
      <4>2. QED BY <2>4, <3>2, <3>4, <4>1
    <3>5. QED BY <2>1, <3>1, <3>2, <3>3, <3>4 DEF Talk, OffersBack, Later
  <2>9. ServerWaits'
    BY <2>1, <2>4 DEF Talk, ServerWaits, Stable
  <2>10. ClientWaits'
    <3>1. SUFFICES ASSUME cOffer # 0, ~unsent'
                   PROVE  \/ \E i \in 1..Len(toServer') : toServer'[i].type = "offer" /\ Final(i)'
                          \/ lock' = "answer" \/ Has(Way', "answer") \/ Has(Way', "offer")
      BY DEF ClientWaits
    <3>2. \/ \E i \in 1..Len(toServer) : toServer[i].type = "offer" /\ Final(i)
          \/ lock = "answer" \/ Has(Way, "answer") \/ Has(Way, "offer")
      BY <2>1, <3>1 DEF Talk, ClientWaits
    <3>3. ASSUME NEW i \in 1..Len(toServer), toServer[i].type = "offer", Final(i)
          PROVE  \E j \in 1..Len(toServer') : toServer'[j].type = "offer" /\ Final(j)'
      <4>1. Describes(toServer[i])
        BY <3>3 DEF Describes, Descriptions
      <4>2. i - l \in 1..Len(toServer') /\ toServer'[i - l] = toServer[i] /\ Final(i - l)'
        BY <2>7, <3>3, <4>1
      <4>3. QED BY <3>3, <4>2
    <3>4. QED BY <2>4, <3>2, <3>3
  <2>11. Answering'
    BY <2>1, <2>4 DEF Talk, Answering
  <2>12. QED BY <2>5, <2>6, <2>8, <2>9, <2>10, <2>11 DEF Talk
<1>3. QED BY <1>1, <1>2

LEMMA Stays ==
  ASSUME NEW q, NEW r, Len(q) \in Nat, r = q
  PROVE  Passes(q, r, 0)
  BY DEF Passes, Moves

\* The queues as they are, and what is described: a step of a task.
LEMMA CarriedQuietly ==
  ASSUME Sound, Exchange, ~finished, Way' = Way,
         UNCHANGED <<toServer, cOffer, seen, applied, localOffer, made, described, cRemote,
                     cDescribed, cOffered, cAttached, wantOffer, remote, echo, held, unsent>>,
         code' = "none" => Active,
         lock' = lock \/ (lock = "free" /\ lock' = "offer"),
         call' = call \/ ~Has(Way, "session")
  PROVE  Flow' /\ Talk' /\ ClientOK'
<1>1. Len(Way) \in Nat /\ Len(toServer) \in Nat
  BY WayTyped
<1>2. Passes(Way, Way', 0) /\ Passes(toServer, toServer', 0)
  BY <1>1, Stays
<1>3. Flow /\ Talk /\ ClientOK
  BY DEF Exchange
<1>4. \A i \in (Len(Way) - 0 + 1)..Len(Way') : Way'[i].type = "candidate" =>
        Way'[i].n <= seen + One(Has(Way, "answer")) + One(Has(Way, "offer"))
  BY <1>1
<1>5. \A i \in 1..Len(held') : held'[i].n <= made + 1
  BY <1>3 DEF Flow, Order
<1>6. Flow'
  BY <1>2, <1>3, <1>4, <1>5, CarriedFlow
<1>7. Talk'
  BY <1>2, <1>3, CarriedTalk
<1>8. ClientOK'
  BY <1>3 DEF ClientOK
<1>9. QED BY <1>6, <1>7, <1>8

\* A client that is gone gets nothing.
LEMMA GoneExchange ==
  ASSUME finished' PROVE Exchange'
  BY DEF Exchange, Flow, Talk, Tasking, HelloFirst, AnswersFirst, OffersLast, Order, ClientOK,
     LastDescribed, AnswersBack, OffersBack, ServerWaits, ClientWaits, Answering, Together,
     Works, Starts, Up

\* The track that was added is to be negotiated by its call.
LEMMA ExchangeSendTrack ==
  ASSUME Sound, Exchange, ~finished, NEW t \in ServerTracks, SendTrack(t)
  PROVE  Exchange'
<1>1. Way' = Way
  BY DEF SendTrack, Way
<1>2. call' = call \/ ~Has(Way, "session")
  BY DEF SendTrack
<1>3. /\ UNCHANGED <<toServer, cOffer, seen, applied, localOffer, made, described, cRemote,
                     cDescribed, cOffered, cAttached, wantOffer, remote, echo, held, unsent>>
      /\ finished' = finished /\ signaling' = signaling /\ role' = role
  BY DEF SendTrack
<1>4. /\ code' = "none" => Active
      /\ lock' = lock \/ (lock = "free" /\ lock' = "offer")
  BY DEF SendTrack, Sound, Locked, Active
<1>5. Flow' /\ Talk' /\ ClientOK'
  BY <1>1, <1>2, <1>3, <1>4, CarriedQuietly
<1>6. Together'
  BY <1>3 DEF Exchange, Tasking, Together, Has, SendTrack, Active
<1>7. Works'
  BY <1>3 DEF Exchange, Tasking, Works, Together, Up, Sound, Sides, Tasked, Media, SendTrack, Active, Stable
<1>8. Starts'
  BY <1>1, <1>3 DEF Exchange, Tasking, Starts, Together, Up, SendTrack, Active, Stable
<1>9. QED BY <1>5, <1>6, <1>7, <1>8 DEF Exchange, Tasking

\* A task goes on when an offer is pending or none is needed.
LEMMA ExchangeRenegotiate ==
  ASSUME Sound, Exchange, ~finished, NEW w \in Tasks, Renegotiate(w)
  PROVE  Exchange'
<1>1. Way' = Way
  BY DEF Renegotiate, Way
<1>2. call' = call \/ ~Has(Way, "session")
  BY DEF Renegotiate
<1>3. /\ UNCHANGED <<toServer, cOffer, seen, applied, localOffer, made, described, cRemote,
                     cDescribed, cOffered, cAttached, wantOffer, remote, echo, held, unsent>>
      /\ finished' = finished /\ signaling' = signaling /\ role' = role
  BY DEF Renegotiate
<1>4. /\ code' = "none" => Active
      /\ lock' = lock \/ (lock = "free" /\ lock' = "offer")
  BY DEF Renegotiate, Continue, Sound, Locked, Active
<1>5. Flow' /\ Talk' /\ ClientOK'
  BY <1>1, <1>2, <1>3, <1>4, CarriedQuietly
<1>6. Together'
  BY <1>3 DEF Exchange, Tasking, Together, Has, Renegotiate, Continue, Active
<1>10. Broken => Broken'
  BY DEF Renegotiate, Renegotiating, Continue, Sound, Sides, Tasked
<1>11. /\ Stable' <=> Stable
       /\ Active /\ Active' /\ lock = "free" /\ attached' = attached /\ described \subseteq attached
       /\ \/ lock' = "offer" /\ UNCHANGED <<reader, starter, track>>
          \/ lock' = "free" /\ ~Stable
          \/ lock' = "free" /\ applied /\ attached = described
  BY DEF Renegotiate, Stable, NeedsNegotiation, Sound, Sides, Media, Active
<1>7. Works'
  BY <1>3, <1>11 DEF Works
<1>8. Starts'
  BY <1>1, <1>3, <1>10, <1>11 DEF Exchange, Tasking, Starts, Up
<1>9. QED BY <1>5, <1>6, <1>7, <1>8 DEF Exchange, Tasking

LEMMA ExchangeReturn ==
  ASSUME Sound, Exchange, ~finished, NEW t \in ServerTracks, Return(t)
  PROVE  Exchange'
<1>1. Way' = Way
  BY DEF Return, Way
<1>2. call' = call \/ ~Has(Way, "session")
  BY DEF Return
<1>3. /\ UNCHANGED <<toServer, cOffer, seen, applied, localOffer, made, described, cRemote,
                     cDescribed, cOffered, cAttached, wantOffer, remote, echo, held, unsent>>
      /\ finished' = finished /\ signaling' = signaling /\ role' = role
  BY DEF Return
<1>4. /\ code' = "none" => Active
      /\ lock' = lock \/ (lock = "free" /\ lock' = "offer")
  BY DEF Return, Sound, Locked, Active
<1>5. Flow' /\ Talk' /\ ClientOK'
  BY <1>1, <1>2, <1>3, <1>4, CarriedQuietly
<1>6. Together'
  BY <1>3 DEF Exchange, Tasking, Together, Has, Return, Active
<1>7. Works'
  BY <1>3 DEF Exchange, Tasking, Works, Together, Up, Sound, Sides, Tasked, Media, Return, Active, Stable
<1>8. Starts'
  BY <1>1, <1>3 DEF Exchange, Tasking, Starts, Together, Up, Return, Active, Stable
<1>9. QED BY <1>5, <1>6, <1>7, <1>8 DEF Exchange, Tasking

\* The reader reads on when no offer is needed.
LEMMA ExchangeCheck ==
  ASSUME Sound, Exchange, ~finished, Check
  PROVE  Exchange'
<1>1. Way' = Way
  BY DEF Check, Way
<1>2. call' = call \/ ~Has(Way, "session")
  BY DEF Check
<1>3. /\ UNCHANGED <<toServer, cOffer, seen, applied, localOffer, made, described, cRemote,
                     cDescribed, cOffered, cAttached, wantOffer, remote, echo, held, unsent>>
      /\ finished' = finished /\ signaling' = signaling /\ role' = role
  BY DEF Check
<1>4. /\ code' = "none" => Active
      /\ lock' = lock \/ (lock = "free" /\ lock' = "offer")
  BY DEF Check, Sound, Locked, Active
<1>5. Flow' /\ Talk' /\ ClientOK'
  BY <1>1, <1>2, <1>3, <1>4, CarriedQuietly
<1>6. Together'
  BY <1>3 DEF Exchange, Tasking, Together, Has, Check, Active
<1>7. Works'
  BY <1>3 DEF Exchange, Tasking, Works, Together, Up, Sound, Sides, Tasked, Media, Check, Active, Stable, NeedsNegotiation
<1>8. Starts'
  BY <1>1, <1>3 DEF Exchange, Tasking, Starts, Together, Up, Check, Active, Stable, NeedsNegotiation
<1>9. QED BY <1>5, <1>6, <1>7, <1>8 DEF Exchange, Tasking

LEMMA ExchangeAnswerTimeout ==
  ASSUME Sound, Exchange, ~finished, AnswerTimeout
  PROVE  Exchange'
<1>1. Way' = Way
  BY DEF AnswerTimeout, Way
<1>2. call' = call \/ ~Has(Way, "session")
  BY DEF AnswerTimeout
<1>3. /\ UNCHANGED <<toServer, cOffer, seen, applied, localOffer, made, described, cRemote,
                     cDescribed, cOffered, cAttached, wantOffer, remote, echo, held, unsent>>
      /\ finished' = finished /\ signaling' = signaling /\ role' = role
  BY DEF AnswerTimeout
<1>4. /\ code' = "none" => Active
      /\ lock' = lock \/ (lock = "free" /\ lock' = "offer")
  BY DEF AnswerTimeout, Sound, Locked, Active
<1>5. Flow' /\ Talk' /\ ClientOK'
  BY <1>1, <1>2, <1>3, <1>4, CarriedQuietly
<1>6. Together'
  BY <1>3 DEF Exchange, Tasking, Together, Has, AnswerTimeout, Active
<1>7. Works'
  BY <1>3 DEF Exchange, Tasking, Works, Together, Up, Sound, Sides, Tasked, Media, AnswerTimeout, Active, Stable
<1>8. Starts'
  BY <1>1, <1>3 DEF Exchange, Tasking, Starts, Together, Up, AnswerTimeout, Active, Stable
<1>9. QED BY <1>5, <1>6, <1>7, <1>8 DEF Exchange, Tasking

LEMMA ExchangeAbandon ==
  ASSUME Sound, Exchange, ~finished, Abandon
  PROVE  Exchange'
<1>1. /\ Way' = Way /\ call' = call /\ held' = <<>> /\ ~Active /\ ~Active'
      /\ UNCHANGED <<toServer, cOffer, seen, applied, localOffer, made, finished,
                     cDescribed, cOffered, cAttached, wantOffer, signaling>>
  BY DEF Abandon, Way, Active
<1>2. Len(Way) \in Nat /\ Passes(Way, Way', 0)
  BY <1>1, WayTyped, Stays
<1>3. Flow'
  <2>1. \A i \in (Len(Way) - 0 + 1)..Len(Way') : Way'[i].type = "candidate" =>
          Way'[i].n <= seen + One(Has(Way, "answer")) + One(Has(Way, "offer"))
    BY <1>1, <1>2
  <2>2. \A i \in 1..Len(held') : held'[i].n <= made + 1
    BY <1>1
  <2>3. code' = "none" => Active
    BY <1>1 DEF Active
  <2>4. QED BY <1>1, <1>2, <2>1, <2>2, <2>3, CarriedFlow DEF Exchange
<1>4. ClientOK'
  BY <1>1 DEF Exchange, ClientOK
<1>5. Talk'
  BY <1>1 DEF Talk, LastDescribed, AnswersBack, OffersBack, ServerWaits, ClientWaits, Answering, Up
<1>6. Tasking'
  BY <1>1 DEF Exchange, Tasking, Together, Works, Starts, Up, Has
<1>7. QED BY <1>3, <1>4, <1>5, <1>6 DEF Exchange

\* addTrack() waits for the greeting.
LEMMA ExchangeAddTrack ==
  ASSUME Sound, Exchange, ~finished, NEW t \in ClientTracks, AddTrack(t)
  PROVE  Exchange'
<1>1. Way' = Way
  BY DEF AddTrack, Way
<1>2. call' = call \/ ~Has(Way, "session")
  <2>1. SUFFICES ASSUME NEW i \in 1..Len(Way), Way[i].type = "session" PROVE FALSE
    BY DEF Has
  <2>2. i = 1
    BY <2>1 DEF Exchange, Flow, HelloFirst
  <2>3. /\ Len(Way) = Len(toClient) + Len(outbound)
        /\ Len(toClient) \in Nat /\ Len(outbound) \in Nat
        /\ \A j \in 1..Len(toClient) : Way[j] = toClient[j]
        /\ \A j \in 1..Len(outbound) : Way[Len(toClient) + j] = outbound[j]
    BY WayTyped
  <2>4. \A j \in 1..Len(toClient) : toClient[j].type # "session"
    BY DEF AddTrack
  <2>5. CASE toClient = <<>>
    <3>1. Len(toClient) = 0 /\ 1 \in 1..Len(outbound) /\ Way[1] = outbound[1]
      BY <2>1, <2>2, <2>3, <2>5
    <3>2. outbound \in Seq(Down)
      BY DEF Sound, Queues
    <3>3. outbound[1] \in Down
      BY <3>1, <3>2
    <3>4. QED BY <2>1, <2>2, <3>1, <3>3 DEF Down, Messages
  <2>6. CASE toClient # <<>>
    <3>1. toClient \in Seq(Arriving)
      BY DEF Sound, Queues
    <3>2. 1 \in 1..Len(toClient)
      BY <2>3, <2>6, <3>1
    <3>3. QED BY <2>1, <2>2, <2>3, <2>4, <3>2
  <2>7. QED BY <2>5, <2>6
<1>3. /\ UNCHANGED <<toServer, cOffer, seen, applied, localOffer, made, described, cRemote,
                     cDescribed, cOffered, cAttached, wantOffer, remote, echo, held, unsent>>
      /\ finished' = finished /\ signaling' = signaling /\ role' = role
  BY DEF AddTrack
<1>4. /\ code' = "none" => Active
      /\ lock' = lock \/ (lock = "free" /\ lock' = "offer")
  BY DEF AddTrack, Sound, Locked, Active
<1>5. Flow' /\ Talk' /\ ClientOK'
  BY <1>1, <1>2, <1>3, <1>4, CarriedQuietly
<1>6. Together'
  BY <1>3 DEF Exchange, Tasking, Together, Has, AddTrack, Active
<1>7. Works'
  BY <1>3 DEF Exchange, Tasking, Works, Together, Up, Sound, Sides, Tasked, Media, AddTrack, Active, Stable
<1>8. Starts'
  BY <1>1, <1>3 DEF Exchange, Tasking, Starts, Together, Up, AddTrack, Active, Stable
<1>9. QED BY <1>5, <1>6, <1>7, <1>8 DEF Exchange, Tasking

LEMMA ExchangeWrite ==
  ASSUME Sound, Exchange, ~finished, Write
  PROVE  Exchange'
<1>1. Way' = Way
  BY WayWritten DEF Exchange, Tasking, Together
<1>2. call' = call \/ ~Has(Way, "session")
  BY DEF Write
<1>3. /\ UNCHANGED <<toServer, cOffer, seen, applied, localOffer, made, described, cRemote,
                     cDescribed, cOffered, cAttached, wantOffer, remote, echo, held, unsent>>
      /\ finished' = finished /\ signaling' = signaling /\ role' = role
  BY DEF Write
<1>4. /\ code' = "none" => Active
      /\ lock' = lock \/ (lock = "free" /\ lock' = "offer")
  BY DEF Write, Sound, Locked, Active
<1>5. Flow' /\ Talk' /\ ClientOK'
  BY <1>1, <1>2, <1>3, <1>4, CarriedQuietly
<1>6. Together'
  BY <1>3 DEF Exchange, Tasking, Together, Has, Write, Active
<1>7. Works'
  BY <1>3 DEF Exchange, Tasking, Works, Together, Up, Sound, Sides, Tasked, Media, Write, Active, Stable
<1>8. Starts'
  BY <1>1, <1>3 DEF Exchange, Tasking, Starts, Together, Up, Write, Active, Stable
<1>9. QED BY <1>5, <1>6, <1>7, <1>8 DEF Exchange, Tasking

\* Without a socket the client is gone.
LEMMA ExchangeNoSocket ==
  ASSUME Exchange, ~finished, GraceOver \/ \E w \in Tasks : RenegotiateFails(w)
  PROVE  FALSE
  BY DEF Exchange, Tasking, Together, GraceOver, RenegotiateFails

\* A candidate or an error is sent, or the queue is full.
LEMMA SendPlain ==
  ASSUME Sound, NEW m \in Down, Send(<<m>>), ~Special(m), toClient' = toClient
  PROVE  /\ Passes(Way, Way', 0)
         /\ \A i \in (Len(Way) + 1)..Len(Way') : Way'[i] = m
<1>1. <<m>> \in Seq(Down) /\ Len(<<m>>) = 1 /\ <<m>>[1] = m
  BY OneElement
<1>2. Len(Way) \in Nat
  BY WayTyped
<1>3. CASE outbound' = outbound
  <2>1. Way' = Way
    BY <1>3 DEF Way
  <2>2. QED BY <1>2, <2>1, Stays
<1>4. CASE outbound' = outbound \o <<m>>
  <2>1. /\ Moves(Way, Way', 0) /\ Len(Way') = Len(Way) + Len(<<m>>)
        /\ \A i \in 1..Len(<<m>>) : Way'[Len(Way) + i] = <<m>>[i]
    BY <1>1, <1>4, WayGrown
  <2>2. Len(Way') = Len(Way) + 1 /\ Way'[Len(Way) + 1] = m
    BY <1>1, <2>1
  <2>3. \A i \in (Len(Way) + 1)..Len(Way') : Way'[i] = m
    BY <1>2, <2>2
  <2>4. QED BY <1>2, <2>1, <2>3 DEF Passes
<1>5. QED BY <1>3, <1>4 DEF Send

\* What the server has found it numbers after the description it belongs to.
LEMMA ExchangeOnLocalCandidate ==
  ASSUME Sound, Exchange, ~finished, OnLocalCandidate
  PROVE  Exchange'
<1>1. /\ UNCHANGED <<toServer, cOffer, seen, applied, localOffer, made, described, cRemote,
                     cDescribed, cOffered, cAttached, wantOffer, remote, echo, unsent, lock, call,
                     reader, starter, track, attached>>
      /\ finished' = finished /\ signaling' = signaling /\ role' = role /\ toClient' = toClient
      /\ Active
  BY DEF OnLocalCandidate
<1>2. /\ Len(Way) \in Nat /\ Len(toServer) \in Nat /\ made \in Nat
  BY WayTyped DEF Sound, Sides, Numbers
<1>3. /\ Passes(Way, Way', 0)
      /\ \A i \in (Len(Way) + 1)..Len(Way') : Way'[i].n <= made
      /\ \A i \in 1..Len(held') : held'[i].n <= made + 1
  <2>1. \A i \in 1..Len(held) : held[i].n <= made + 1
    BY DEF Exchange, Flow, Order
  <2>2. CASE lock = "free"
    <3>1. Send(<<Candidate>>) /\ held' = held
      BY <2>2 DEF OnLocalCandidate
    <3>2. Candidate \in Down /\ ~Special(Candidate) /\ Candidate.n <= made
      BY <1>2, <2>2 DEF Candidate, Message, Messages, Down, Special
    <3>3. QED BY <1>1, <2>1, <3>1, <3>2, SendPlain
  <2>3. CASE lock # "free"
    <3>1. held' = Append(held, Candidate) /\ Way' = Way
      BY <2>3 DEF OnLocalCandidate, Way
    <3>2. Candidate.n = made + 1 /\ Candidate \in Messages({"candidate"})
      BY <1>2, <2>3 DEF Candidate, Message, Messages
    <3>3. held \in Seq(Messages({"candidate"}))
      BY DEF Sound, Queues
    <3>4. /\ Len(held') = Len(held) + 1 /\ Len(held) \in Nat /\ held'[Len(held) + 1] = Candidate
          /\ \A i \in 1..Len(held) : held'[i] = held[i]
      BY <3>1, <3>2, <3>3, AppendElements
    <3>5. \A i \in 1..Len(held') : held'[i].n <= made + 1
      BY <1>2, <2>1, <3>2, <3>4
    <3>6. QED BY <1>2, <3>1, <3>5, Stays
  <2>4. QED BY <2>2, <2>3
<1>4. Passes(toServer, toServer', 0)
  BY <1>1, <1>2, Stays
<1>5. made = seen + One(Has(Way, "answer")) + One(Has(Way, "offer"))
  BY <1>1 DEF Exchange, Flow, Order
<1>6. Flow'
  <2>1. \A i \in (Len(Way) - 0 + 1)..Len(Way') : Way'[i].type = "candidate" =>
          Way'[i].n <= seen + One(Has(Way, "answer")) + One(Has(Way, "offer"))
    BY <1>2, <1>3, <1>5
  <2>2. QED BY <1>1, <1>3, <2>1, CarriedFlow DEF Exchange
<1>7. Talk'
  BY <1>1, <1>3, <1>4, CarriedTalk DEF Exchange
<1>8. ClientOK'
  BY <1>1 DEF Exchange, ClientOK
<1>9. Together'
  BY <1>1 DEF Exchange, Tasking, Together, Has
<1>10. Works'
  BY <1>1 DEF Exchange, Tasking, Works, Up, Stable
<1>11. Starts'
  <2>1. Has(Way, "session") <=> Has(Way', "session")
    BY <1>3, PassesHas
  <2>2. QED BY <1>1, <2>1 DEF Exchange, Tasking, Starts, Up, Stable
<1>12. QED BY <1>6, <1>7, <1>8, <1>9, <1>10, <1>11 DEF Exchange, Tasking

\* A candidate that is refused is answered with an error.
LEMMA ExchangeOnCandidate ==
  ASSUME Sound, Exchange, ~finished, OnCandidate
  PROVE  Exchange'
<1>1. /\ UNCHANGED <<cOffer, seen, applied, localOffer, made, described, cRemote,
                     cDescribed, cOffered, cAttached, wantOffer, remote, echo, unsent, lock, call,
                     reader, starter, track, attached, held>>
      /\ finished' = finished /\ signaling' = signaling /\ role' = role /\ toClient' = toClient
      /\ Reads("candidate")
  BY DEF OnCandidate
<1>2. Active /\ Len(Way) \in Nat
  BY <1>1, WayTyped DEF Reads
<1>3. Passes(Way, Way', 0) /\ \A i \in (Len(Way) + 1)..Len(Way') : Way'[i].type # "candidate"
  <2>1. CASE outbound' = outbound
    <3>1. Way' = Way
      BY <1>1, <2>1 DEF Way
    <3>2. QED BY <1>2, <3>1, Stays
  <2>2. CASE Send(<<Message("error", 0, {})>>)
    <3>1. /\ Message("error", 0, {}) \in Down /\ ~Special(Message("error", 0, {}))
          /\ Message("error", 0, {}).type # "candidate"
      BY DEF Message, Messages, Down, Special
    <3>2. QED BY <1>1, <2>2, <3>1, SendPlain
  <2>3. QED BY <2>1, <2>2 DEF OnCandidate
<1>4. Passes(toServer, toServer', 1)
  <2>1. /\ Moves(toServer, toServer', 1) /\ Len(toServer') = Len(toServer) - 1
        /\ toServer[1].type = "candidate" /\ Len(toServer) \in Nat
    BY <1>1, ServerTaken, WayTyped
  <2>2. QED BY <2>1 DEF Passes, Special
<1>5. Flow'
  <2>1. \A i \in 1..Len(held') : held'[i].n <= made + 1
    BY <1>1 DEF Exchange, Flow, Order
  <2>2. \A i \in (Len(Way) - 0 + 1)..Len(Way') : Way'[i].type = "candidate" =>
          Way'[i].n <= seen + One(Has(Way, "answer")) + One(Has(Way, "offer"))
    BY <1>2, <1>3
  <2>3. QED BY <1>1, <1>2, <1>3, <2>1, <2>2, CarriedFlow DEF Exchange
<1>6. Talk'
  BY <1>1, <1>2, <1>3, <1>4, CarriedTalk DEF Exchange
<1>7. ClientOK'
  BY <1>1 DEF Exchange, ClientOK
<1>8. Together'
  <2>1. ~Has(toServer', "closed") /\ ~Has(toServer', "lost")
    BY <1>4, PassesHas DEF Exchange, Tasking, Together
  <2>2. QED BY <1>1, <1>2, <2>1 DEF Exchange, Tasking, Together
<1>9. Works'
  BY <1>1, <1>2 DEF Exchange, Tasking, Works, Up, Stable
<1>10. Starts'
  <2>1. Has(Way, "session") <=> Has(Way', "session")
    BY <1>3, PassesHas
  <2>2. QED BY <1>1, <1>2, <2>1 DEF Exchange, Tasking, Starts, Up, Stable
<1>11. QED BY <1>5, <1>6, <1>7, <1>8, <1>9, <1>10 DEF Exchange, Tasking

\* While the client is there nothing tells the server otherwise.
LEMMA ExchangeOnClosed ==
  ASSUME Sound, Exchange, ~finished, OnClosed
  PROVE  FALSE
<1>1. PICK type \in {"closed", "lost"} : Reads(type)
  BY DEF OnClosed
<1>2. 1 \in 1..Len(toServer) /\ toServer[1].type = type
  BY <1>1, ReadsTyped
<1>3. QED BY <1>2 DEF Exchange, Tasking, Together, Has

\* The client takes a candidate or an error.
LEMMA ExchangeOnOther ==
  ASSUME Sound, Exchange, ~finished, OnOther
  PROVE  Exchange'
<1>1. /\ UNCHANGED <<toServer, cOffer, seen, applied, localOffer, made, described, cRemote,
                     cDescribed, cOffered, cAttached, wantOffer, remote, echo, unsent, lock, call,
                     reader, starter, track, attached, held, code, outbound>>
      /\ finished' = finished /\ signaling' = signaling /\ role' = role
  BY DEF OnOther
<1>2. PICK type \in {"candidate", "error"} : Takes(type)
  BY DEF OnOther
<1>3. Len(Way) \in Nat /\ Len(toServer) \in Nat
  BY WayTyped
<1>4. Moves(Way, Way', 1) /\ Len(Way') = Len(Way) - 1 /\ Way[1].type = type
  BY <1>1, <1>2, WayTaken
<1>5. Passes(Way, Way', 1)
  BY <1>3, <1>4 DEF Passes, Special
<1>6. Passes(toServer, toServer', 0)
  BY <1>1, <1>3, Stays
<1>7. Flow'
  <2>1. \A i \in 1..Len(held') : held'[i].n <= made + 1
    BY <1>1 DEF Exchange, Flow, Order
  <2>2. \A i \in (Len(Way) - 1 + 1)..Len(Way') : Way'[i].type = "candidate" =>
          Way'[i].n <= seen + One(Has(Way, "answer")) + One(Has(Way, "offer"))
    BY <1>3, <1>4
  <2>3. QED BY <1>1, <1>5, <2>1, <2>2, CarriedFlow DEF Exchange, Active
<1>8. Talk'
  BY <1>1, <1>5, <1>6, CarriedTalk DEF Exchange, Active
<1>9. ClientOK'
  BY <1>1 DEF Exchange, ClientOK
<1>10. Together'
  BY <1>1 DEF Exchange, Tasking, Together, Has, Active
<1>11. Works'
  BY <1>1 DEF Exchange, Tasking, Works, Up, Stable, Active
<1>12. Starts'
  <2>1. Has(Way, "session") <=> Has(Way', "session")
    BY <1>5, PassesHas
  <2>2. QED BY <1>1, <2>1 DEF Exchange, Tasking, Starts, Up, Stable, Active
<1>13. QED BY <1>7, <1>8, <1>9, <1>10, <1>11, <1>12 DEF Exchange, Tasking

\* The client has found a candidate.
LEMMA ExchangeOnIceCandidate ==
  ASSUME Sound, Exchange, ~finished, OnIceCandidate
  PROVE  Exchange'
<1>1. /\ UNCHANGED <<cOffer, seen, applied, localOffer, made, described, cRemote,
                     cDescribed, cOffered, cAttached, wantOffer, remote, echo, unsent, lock, call,
                     reader, starter, track, attached, held, code>>
      /\ finished' = finished /\ signaling' = signaling /\ role' = role
      /\ toServer' = Append(toServer, Message("candidate", 0, {}))
  BY DEF OnIceCandidate
<1>2. Way' = Way /\ Len(Way) \in Nat /\ Len(toServer) \in Nat
  BY WayTyped DEF OnIceCandidate, Way
<1>3. Passes(Way, Way', 0)
  BY <1>2, Stays
<1>4. Passes(toServer, toServer', 0)
  <2>1. Message("candidate", 0, {}) \in Upward /\ Message("candidate", 0, {}).type = "candidate"
    BY DEF Message, Messages, Upward
  <2>2. toServer \in Seq(Upward)
    BY DEF Sound, Queues
  <2>3. /\ Len(toServer') = Len(toServer) + 1
        /\ \A i \in 1..Len(toServer) : toServer'[i] = toServer[i]
        /\ toServer'[Len(toServer) + 1] = Message("candidate", 0, {})
    BY <1>1, <2>1, <2>2, AppendElements
  <2>4. QED BY <1>2, <2>1, <2>3 DEF Passes, Moves, Special
<1>5. Flow'
  <2>1. \A i \in 1..Len(held') : held'[i].n <= made + 1
    BY <1>1 DEF Exchange, Flow, Order
  <2>2. \A i \in (Len(Way) - 0 + 1)..Len(Way') : Way'[i].type = "candidate" =>
          Way'[i].n <= seen + One(Has(Way, "answer")) + One(Has(Way, "offer"))
    BY <1>2
  <2>3. QED BY <1>1, <1>3, <2>1, <2>2, CarriedFlow DEF Exchange, Active
<1>6. Talk'
  BY <1>1, <1>3, <1>4, CarriedTalk DEF Exchange, Active
<1>7. ClientOK'
  BY <1>1 DEF Exchange, ClientOK
<1>8. Together'
  <2>1. ~finished => ~Has(toServer', "closed") /\ ~Has(toServer', "lost")
    BY <1>4, PassesHas DEF Exchange, Tasking, Together
  <2>2. QED BY <1>1, <2>1 DEF Exchange, Tasking, Together, Active
<1>9. Works'
  BY <1>1 DEF Exchange, Tasking, Works, Up, Stable, Active
<1>10. Starts'
  BY <1>1, <1>2 DEF Exchange, Tasking, Starts, Up, Stable, Active
<1>11. QED BY <1>5, <1>6, <1>7, <1>8, <1>9, <1>10 DEF Exchange, Tasking

-----------------------------------------------------------------------------
(* The server reads descriptions *)

\* What is behind the message that the server reads.
LEMMA Behind ==
  ASSUME Sound, NEW type, Reads(type)
  PROVE  /\ 1 \in 1..Len(toServer) /\ Len(toServer) \in Nat
         /\ toServer[1] = Head(toServer) /\ toServer[1].type = type
         /\ \A i \in 1..Len(toServer') :
              /\ i + 1 \in 2..Len(toServer) /\ toServer'[i] = toServer[i + 1]
              /\ Final(i)' <=> Final(i + 1)
              /\ \A t : Later(toServer', i, t) <=> Later(toServer, i + 1, t)
         /\ \A i \in 2..Len(toServer) :
              /\ i - 1 \in 1..Len(toServer') /\ toServer'[i - 1] = toServer[i]
              /\ Final(i - 1)' <=> Final(i)
<1>1. /\ Moves(toServer, toServer', 1) /\ Len(toServer') = Len(toServer) - 1
      /\ toServer[1] = Head(toServer) /\ toServer[1].type = type /\ Len(toServer) \in Nat
  BY ServerTaken, WayTyped
<1>2. /\ 1 <= Len(toServer)
      /\ \A i \in 1..(Len(toServer) - 1) : toServer'[i] = toServer[i + 1]
      /\ \A i \in 2..Len(toServer) : toServer'[i - 1] = toServer[i]
  BY <1>1 DEF Moves
<1>3. ASSUME NEW i \in 1..Len(toServer') PROVE Final(i)' <=> Final(i + 1)
  <2>1. ASSUME Final(i)', NEW j \in (i + 2)..Len(toServer) PROVE ~Describes(toServer[j])
    <3>1. j - 1 \in (i + 1)..Len(toServer') /\ j \in 2..Len(toServer)
      BY <1>1, <2>1
    <3>2. QED BY <1>2, <2>1, <3>1 DEF Final
  <2>2. ASSUME Final(i + 1), NEW j \in (i + 1)..Len(toServer') PROVE ~Describes(toServer'[j])
    <3>1. j + 1 \in (i + 2)..Len(toServer) /\ j \in 1..(Len(toServer) - 1)
      BY <1>1, <2>2
    <3>2. i + 1 + 1 = i + 2
      OBVIOUS
    <3>3. QED BY <1>2, <2>2, <3>1, <3>2 DEF Final
  <2>3. i + 1 + 1 = i + 2
    OBVIOUS
  <2>4. QED BY <2>1, <2>2, <2>3 DEF Final
<1>4. ASSUME NEW i \in 1..Len(toServer'), NEW t
      PROVE  Later(toServer', i, t) <=> Later(toServer, i + 1, t)
  <2>1. i + 1 + 1 = i + 2
    OBVIOUS
  <2>2. ASSUME NEW j \in (i + 2)..Len(toServer), toServer[j].type = t PROVE Later(toServer', i, t)
    <3>1. j - 1 \in (i + 1)..Len(toServer') /\ j \in 2..Len(toServer)
      BY <1>1, <2>2
    <3>2. QED BY <1>2, <2>2, <3>1 DEF Later
  <2>3. ASSUME NEW j \in (i + 1)..Len(toServer'), toServer'[j].type = t
        PROVE  Later(toServer, i + 1, t)
    <3>1. j + 1 \in (i + 2)..Len(toServer) /\ j \in 1..(Len(toServer) - 1)
      BY <1>1, <2>3
    <3>2. QED BY <1>2, <2>1, <2>3, <3>1 DEF Later
  <2>4. QED BY <2>1, <2>2, <2>3 DEF Later
<1>5. \A i \in 2..Len(toServer) : i - 1 \in 1..Len(toServer') /\ (i - 1) + 1 = i
  BY <1>1
<1>6. \A i \in 1..Len(toServer') : i + 1 \in 2..Len(toServer) /\ toServer'[i] = toServer[i + 1]
  BY <1>1, <1>2
<1>7. ASSUME NEW i \in 2..Len(toServer) PROVE Final(i - 1)' <=> Final(i)
  <2>1. i - 1 \in 1..Len(toServer') /\ (i - 1) + 1 = i
    BY <1>5
  <2>2. Final(i - 1)' <=> Final((i - 1) + 1)
    BY <1>3, <2>1
  <2>3. QED BY <2>1, <2>2
<1>8. QED BY <1>1, <1>2, <1>3, <1>4, <1>5, <1>6, <1>7

\* What is on the way to the client stays as it was.
LEMMA FlowStays ==
  ASSUME Sound, Flow, ~finished, Way' = Way,
         UNCHANGED <<cOffer, seen, made, held, call, code>>,
         applied => applied', localOffer' = localOffer \/ ~Has(Way, "offer")
  PROVE  Flow'
<1>1. HelloFirst'
  BY DEF Flow, HelloFirst
<1>2. AnswersFirst'
  BY DEF Flow, AnswersFirst
<1>3. OffersLast'
  BY DEF Flow, OffersLast, Has
<1>4. Order'
  BY DEF Flow, Order, Active
<1>5. QED BY <1>1, <1>2, <1>3, <1>4 DEF Flow

LEMMA LastStays ==
  ASSUME LastDescribed, Way' = Way, UNCHANGED <<described, cRemote, code, finished>>
  PROVE  LastDescribed'
  BY DEF LastDescribed, Up, Active

\* The server keeps its own offer: it waits for an answer that is yet to come.
LEMMA ExchangeIgnoreOffer ==
  ASSUME Sound, Exchange, ~finished, IgnoreOffer
  PROVE  Exchange'
<1>1. /\ UNCHANGED <<cOffer, seen, applied, localOffer, made, described, cRemote,
                     cDescribed, cOffered, cAttached, wantOffer, remote, echo, unsent, lock, call,
                     starter, track, attached, held, code, signaling, role, finished>>
      /\ reader' = "check" /\ Way' = Way /\ Reads("offer") /\ ~Stable
  BY DEF IgnoreOffer, Way
<1>2. Up /\ lock = "free" /\ Up'
  BY <1>1 DEF Up, Active, Reads
<1>3. /\ 1 \in 1..Len(toServer) /\ Len(toServer) \in Nat /\ toServer[1].type = "offer"
      /\ \A i \in 1..Len(toServer') :
           /\ i + 1 \in 2..Len(toServer) /\ toServer'[i] = toServer[i + 1]
           /\ Final(i)' <=> Final(i + 1)
           /\ \A t : Later(toServer', i, t) <=> Later(toServer, i + 1, t)
      /\ \A i \in 2..Len(toServer) :
           /\ i - 1 \in 1..Len(toServer') /\ toServer'[i - 1] = toServer[i]
           /\ Final(i - 1)' <=> Final(i)
  BY <1>1, Behind
<1>4. Flow'
  BY <1>1, FlowStays DEF Exchange
<1>5. LastDescribed'
  BY <1>1, LastStays DEF Exchange, Talk
<1>6. \A i \in 1..Len(toServer') : i + 1 \in 1..Len(toServer)
  BY <1>3
<1>7. AnswersBack'
  <2>1. SUFFICES ASSUME NEW i \in 1..Len(toServer'), toServer'[i].type = "answer"
                 PROVE  /\ toServer'[i].n = localOffer /\ localOffer # 0
                        /\ toServer'[i].tracks = cDescribed
                        /\ \A j \in 1..Len(toServer') : j # i => toServer'[j].type # "answer"
                        /\ ~Has(Way, "offer") /\ ~Has(Way, "answer")
    BY <1>1 DEF AnswersBack
  <2>2. i + 1 \in 1..Len(toServer) /\ toServer[i + 1] = toServer'[i]
    BY <1>3, <1>6
  <2>3. /\ toServer[i + 1].n = localOffer /\ localOffer # 0 /\ toServer[i + 1].tracks = cDescribed
        /\ \A j \in 1..Len(toServer) : j # i + 1 => toServer[j].type # "answer"
        /\ ~Has(Way, "offer") /\ ~Has(Way, "answer")
    BY <1>2, <2>1, <2>2 DEF Exchange, Talk, AnswersBack
  <2>4. ASSUME NEW j \in 1..Len(toServer'), j # i PROVE toServer'[j].type # "answer"
    <3>1. j + 1 \in 1..Len(toServer) /\ j + 1 # i + 1 /\ toServer[j + 1] = toServer'[j]
      BY <1>3, <1>6, <2>4
    <3>2. QED BY <2>3, <3>1
  <2>5. QED BY <2>2, <2>3, <2>4
<1>8. OffersBack'
  <2>1. SUFFICES ASSUME NEW i \in 1..Len(toServer'), toServer'[i].type = "offer"
                 PROVE  \/ Later(toServer', i, "answer")
                        \/ /\ Final(i)' /\ toServer'[i].n = cOffer /\ cOffer # 0
                           /\ toServer'[i].tracks = cOffered
                           /\ ~Has(Way, "answer") /\ lock # "answer"
    BY <1>1 DEF OffersBack
  <2>2. i + 1 \in 1..Len(toServer) /\ toServer[i + 1] = toServer'[i]
    BY <1>3, <1>6
  <2>3. \/ Later(toServer, i + 1, "answer")
        \/ /\ Final(i + 1) /\ toServer[i + 1].n = cOffer /\ cOffer # 0
           /\ toServer[i + 1].tracks = cOffered /\ ~Has(Way, "answer") /\ lock # "answer"
    BY <1>2, <2>1, <2>2 DEF Exchange, Talk, OffersBack
  <2>4. QED BY <1>3, <2>2, <2>3
<1>9. Has(toServer, "answer") <=> Has(toServer', "answer")
  <2>1. ASSUME NEW i \in 1..Len(toServer), toServer[i].type = "answer" PROVE Has(toServer', "answer")
    <3>1. i \in 2..Len(toServer)
      BY <1>3, <2>1
    <3>2. QED BY <1>3, <2>1, <3>1 DEF Has
  <2>2. ASSUME NEW i \in 1..Len(toServer'), toServer'[i].type = "answer" PROVE Has(toServer, "answer")
    BY <1>3, <1>6, <2>2 DEF Has
  <2>3. QED BY <2>1, <2>2 DEF Has
<1>10. ServerWaits'
  BY <1>1, <1>2, <1>9 DEF Exchange, Talk, ServerWaits, Stable
<1>11. ClientWaits'
  <2>1. SUFFICES ASSUME cOffer # 0, ~unsent
                 PROVE  \/ \E i \in 1..Len(toServer') : toServer'[i].type = "offer" /\ Final(i)'
                        \/ lock = "answer" \/ Has(Way, "answer") \/ Has(Way, "offer")
    BY <1>1 DEF ClientWaits
  <2>2. \/ \E i \in 1..Len(toServer) : toServer[i].type = "offer" /\ Final(i)
        \/ lock = "answer" \/ Has(Way, "answer") \/ Has(Way, "offer")
    BY <1>2, <2>1 DEF Exchange, Talk, ClientWaits
  <2>3. ASSUME NEW i \in 1..Len(toServer), toServer[i].type = "offer", Final(i)
        PROVE  \/ \E j \in 1..Len(toServer') : toServer'[j].type = "offer" /\ Final(j)'
               \/ Has(Way, "offer")
    <3>1. CASE i = 1
      <4>1. ~Has(toServer, "answer")
        BY <1>3, <2>3, <3>1 DEF Has, Final, Describes, Descriptions
      <4>2. localOffer # 0
        BY <1>1, <2>1 DEF Stable
      <4>3. QED BY <1>2, <4>1, <4>2 DEF Exchange, Talk, ServerWaits
    <3>2. CASE i # 1
      <4>1. i \in 2..Len(toServer)
        BY <2>3, <3>2
      <4>2. QED BY <1>3, <2>3, <4>1
    <3>3. QED BY <3>1, <3>2
  <2>4. QED BY <2>2, <2>3
<1>12. Answering'
  BY <1>1, <1>2, <1>9 DEF Exchange, Talk, Answering
<1>13. ClientOK'
  BY <1>1 DEF Exchange, ClientOK
<1>14. Together'
  BY <1>1, <1>3, <1>6, SMTT(30) DEF Exchange, Tasking, Together, Has
<1>15. Works' /\ Starts'
  BY <1>1, <1>2 DEF Exchange, Tasking, Works, Starts, Stable
<1>16. QED BY <1>4, <1>5, <1>7, <1>8, <1>10, <1>11, <1>12, <1>13, <1>14, <1>15
       DEF Exchange, Talk, Tasking

\* The offer that the server takes is the last one, and it is what the client waits
\* to be answered.
LEMMA ExchangeAcceptOffer ==
  ASSUME Sound, Exchange, ~finished, AcceptOffer
  PROVE  Exchange'
<1>1. /\ UNCHANGED <<cOffer, seen, localOffer, made, described, cRemote,
                     cDescribed, cOffered, cAttached, wantOffer, call,
                     starter, track, held, code, signaling, role, finished, reader>>
      /\ Way' = Way /\ Reads("offer") /\ Stable /\ applied' = TRUE /\ lock' = "answer"
      /\ echo' = Head(toServer).n /\ remote' = Head(toServer).tracks
  BY DEF AcceptOffer, Way
<1>2. Up /\ lock = "free" /\ Up'
  BY <1>1 DEF Up, Active, Reads
<1>3. /\ 1 \in 1..Len(toServer) /\ Len(toServer) \in Nat /\ toServer[1].type = "offer"
      /\ toServer[1] = Head(toServer)
      /\ \A i \in 1..Len(toServer') : i + 1 \in 2..Len(toServer) /\ toServer'[i] = toServer[i + 1]
  BY <1>1, Behind
<1>4. Flow'
  BY <1>1, FlowStays DEF Exchange
<1>5. LastDescribed'
  BY <1>1, LastStays DEF Exchange, Talk
<1>6. \A i \in 1..Len(toServer) : toServer[i].type # "answer"
  BY <1>1, <1>2 DEF Exchange, Talk, AnswersBack, Stable
<1>7. /\ Final(1) /\ toServer[1].n = cOffer /\ cOffer # 0 /\ toServer[1].tracks = cOffered
      /\ ~Has(Way, "answer")
  <2>1. ~Later(toServer, 1, "answer")
    BY <1>3, <1>6 DEF Later
  <2>2. QED BY <1>2, <1>3, <2>1 DEF Exchange, Talk, OffersBack
<1>8. \A i \in 1..Len(toServer') : ~Describes(toServer'[i])
  BY <1>3, <1>7 DEF Final
<1>9. AnswersBack' /\ OffersBack'
  BY <1>8 DEF AnswersBack, OffersBack, Describes, Descriptions
<1>10. ServerWaits' /\ ClientWaits'
  BY <1>1 DEF ServerWaits, ClientWaits, Stable
<1>11. Answering'
  BY <1>1, <1>3, <1>7 DEF Answering
<1>12. ClientOK'
  BY <1>1 DEF Exchange, ClientOK
<1>13. Together'
  <2>1. \A i \in 1..Len(toServer') : i + 1 \in 1..Len(toServer)
    BY <1>3
  <2>2. QED BY <1>1, <1>3, <2>1 DEF Exchange, Tasking, Together, Has, Active
<1>14. Works' /\ Starts'
  BY <1>1 DEF Works, Starts
<1>15. QED BY <1>4, <1>5, <1>9, <1>10, <1>11, <1>12, <1>13, <1>14 DEF Exchange, Talk, Tasking

\* An answer is always the awaited one: nobody else answered, and no offer has been
\* made since.
LEMMA ExchangeOnAnswer ==
  ASSUME Sound, Exchange, ~finished, OnAnswer
  PROVE  Exchange'
<1>1. /\ UNCHANGED <<cOffer, seen, made, described, cRemote,
                     cDescribed, cOffered, cAttached, wantOffer, call, echo, lock, attached,
                     starter, held, unsent, code, signaling, role, finished>>
      /\ Way' = Way /\ Reads("answer") /\ reader' = "check"
  BY DEF OnAnswer, Way
<1>2. Up /\ lock = "free" /\ Up'
  BY <1>1 DEF Up, Active, Reads
<1>3. /\ 1 \in 1..Len(toServer) /\ Len(toServer) \in Nat /\ toServer[1].type = "answer"
      /\ toServer[1] = Head(toServer)
      /\ \A i \in 1..Len(toServer') :
           /\ i + 1 \in 2..Len(toServer) /\ toServer'[i] = toServer[i + 1]
           /\ Final(i)' <=> Final(i + 1)
      /\ \A i \in 2..Len(toServer) :
           /\ i - 1 \in 1..Len(toServer') /\ toServer'[i - 1] = toServer[i]
           /\ Final(i - 1)' <=> Final(i)
  BY <1>1, Behind
<1>4. /\ toServer[1].n = localOffer /\ localOffer # 0 /\ toServer[1].tracks = cDescribed
      /\ \A j \in 1..Len(toServer) : j # 1 => toServer[j].type # "answer"
      /\ ~Has(Way, "offer") /\ ~Has(Way, "answer")
  BY <1>2, <1>3 DEF Exchange, Talk, AnswersBack
<1>5. applied' = TRUE /\ remote' = cDescribed /\ localOffer' = 0
  BY <1>3, <1>4 DEF OnAnswer, Stable
<1>6. Flow'
  BY <1>1, <1>4, <1>5, FlowStays DEF Exchange
<1>7. LastDescribed'
  BY <1>1, LastStays DEF Exchange, Talk
<1>8. ASSUME NEW i \in 1..Len(toServer')
      PROVE  i + 1 \in 1..Len(toServer) /\ i + 1 # 1 /\ toServer'[i].type # "answer"
  <2>1. i + 1 \in 1..Len(toServer) /\ i + 1 # 1 /\ toServer'[i] = toServer[i + 1]
    BY <1>3
  <2>2. QED BY <1>4, <2>1
<1>9. AnswersBack'
  BY <1>8 DEF AnswersBack
<1>10. OffersBack'
  <2>1. SUFFICES ASSUME NEW i \in 1..Len(toServer'), toServer'[i].type = "offer"
                 PROVE  /\ Final(i)' /\ toServer'[i].n = cOffer /\ cOffer # 0
                        /\ toServer'[i].tracks = cOffered /\ ~Has(Way, "answer") /\ lock # "answer"
    BY <1>1 DEF OffersBack
  <2>2. i + 1 \in 1..Len(toServer) /\ toServer[i + 1] = toServer'[i]
    BY <1>3, <1>8
  <2>3. ~Later(toServer, i + 1, "answer")
    <3>1. \A j \in (i + 1 + 1)..Len(toServer) : j \in 1..Len(toServer) /\ j # 1
      BY <1>3, <2>2
    <3>2. QED BY <1>4, <3>1 DEF Later
  <2>4. /\ Final(i + 1) /\ toServer[i + 1].n = cOffer /\ cOffer # 0
        /\ toServer[i + 1].tracks = cOffered /\ ~Has(Way, "answer") /\ lock # "answer"
    BY <1>2, <2>1, <2>2, <2>3 DEF Exchange, Talk, OffersBack
  <2>5. QED BY <1>3, <2>2, <2>4
<1>11. ServerWaits'
  BY <1>5 DEF ServerWaits, Stable
<1>12. ClientWaits'
  <2>1. SUFFICES ASSUME cOffer # 0, ~unsent
                 PROVE  \E i \in 1..Len(toServer') : toServer'[i].type = "offer" /\ Final(i)'
    BY <1>1 DEF ClientWaits
  <2>2. PICK i \in 1..Len(toServer) : toServer[i].type = "offer" /\ Final(i)
    BY <1>2, <1>4, <2>1 DEF Exchange, Talk, ClientWaits
  <2>3. i \in 2..Len(toServer)
    BY <1>3, <2>2
  <2>4. QED BY <1>3, <2>2, <2>3
<1>13. Answering'
  BY <1>1, <1>2, <1>4, <1>5 DEF Answering
<1>14. ClientOK'
  BY <1>1 DEF Exchange, ClientOK
<1>15. Together'
  <2>1. ASSUME NEW i \in 1..Len(toServer')
        PROVE  toServer'[i].type # "closed" /\ toServer'[i].type # "lost"
    <3>1. i + 1 \in 1..Len(toServer) /\ toServer'[i] = toServer[i + 1]
      BY <1>3, <1>8
    <3>2. QED BY <3>1 DEF Exchange, Tasking, Together, Has
  <2>2. QED BY <1>1, <2>1 DEF Exchange, Tasking, Together, Has
<1>16. Works' /\ Starts'
  BY <1>1, <1>5 DEF Works, Starts
<1>17. QED BY <1>6, <1>7, <1>9, <1>10, <1>11, <1>12, <1>13, <1>14, <1>15, <1>16
       DEF Exchange, Talk, Tasking

-----------------------------------------------------------------------------
(* The server describes *)

\* A description and what was held back for it are on the way, or the session ends.
Put(m) ==
  /\ Len(Way) \in Nat /\ Len(Way') \in Nat /\ Len(Way) + 1 \in 1..Len(Way')
  /\ \A i \in 1..Len(Way) : i \in 1..Len(Way') /\ Way'[i] = Way[i]
  /\ Way'[Len(Way) + 1] = m
  /\ \A i \in (Len(Way) + 2)..Len(Way') :
       ~Special(Way'[i]) /\ (Way'[i].type = "candidate" => Way'[i].n <= made + 1)

LEMMA SendDescription ==
  ASSUME Sound, Flow, ~finished, NEW type \in {"offer", "answer"}, NEW n \in Nat,
         NEW tracks \in SUBSET attached, signaling = "open", toClient' = toClient,
         Send(<<Message(type, n, tracks)>> \o held)
  PROVE  \/ Way' = Way /\ code' = "queue_exhausted"
         \/ Put(Message(type, n, tracks)) /\ code' = code
<1> DEFINE messages == <<Message(type, n, tracks)>> \o held
<1>1. /\ messages \in Seq(Down)
      /\ Len(messages) = Len(held) + 1 /\ Len(held) \in Nat
      /\ messages[1] = Message(type, n, tracks)
      /\ \A i \in 1..Len(held) : messages[i + 1] = held[i]
  BY SayHeld
<1>2. Send(messages)
  OBVIOUS
<1> HIDE DEF messages
<1>3. CASE outbound' = outbound /\ code' = "queue_exhausted"
  BY <1>3 DEF Way
<1>4. CASE outbound' = outbound \o messages /\ code' = code
  <2>1. /\ Moves(Way, Way', 0) /\ Len(Way') = Len(Way) + Len(messages)
        /\ \A i \in 1..Len(messages) : Way'[Len(Way) + i] = messages[i]
    BY <1>1, <1>4, WayGrown
  <2>2. Len(Way) \in Nat /\ Len(Way') = Len(Way) + Len(held) + 1
    BY <1>1, <2>1, WayTyped
  <2>3. \A i \in 1..Len(Way) : i \in 1..Len(Way') /\ Way'[i] = Way[i]
    <3>1. \A i \in 1..(Len(Way) - 0) : Way'[i] = Way[i + 0]
      BY <2>1 DEF Moves
    <3>2. QED BY <1>1, <2>2, <3>1
  <2>4. Way'[Len(Way) + 1] = Message(type, n, tracks)
    BY <1>1, <2>1
  <2>5. ASSUME NEW i \in (Len(Way) + 2)..Len(Way')
        PROVE  ~Special(Way'[i]) /\ (Way'[i].type = "candidate" => Way'[i].n <= made + 1)
    <3>1. PICK j \in 1..Len(held) : i = Len(Way) + (j + 1)
      <4>1. i - Len(Way) - 1 \in 1..Len(held) /\ i = Len(Way) + ((i - Len(Way) - 1) + 1)
        BY <1>1, <2>2
      <4>2. QED BY <4>1
    <3>2. j + 1 \in 1..Len(messages) /\ messages[j + 1] = held[j]
      BY <1>1, <3>1
    <3>3. Way'[i] = held[j]
      BY <2>1, <3>1, <3>2
    <3>4. held[j].n <= made + 1
      BY <3>1 DEF Flow, Order
    <3>5. held[j] \in Messages({"candidate"})
      BY <3>1 DEF Sound, Queues
    <3>6. QED BY <3>3, <3>4, <3>5 DEF Messages, Special
  <2>6. QED BY <1>1, <1>4, <2>2, <2>3, <2>4, <2>5 DEF Put
<1>5. QED BY <1>2, <1>3, <1>4 DEF Send

\* The candidates follow their description.
LEMMA OrderPut ==
  ASSUME Sound, Flow, Active, ~finished, NEW type \in {"offer", "answer"}, NEW n, NEW tracks,
         Put(Message(type, n, tracks)), ~Has(Way, type),
         seen' = seen, made' = made + 1, held' = <<>>, finished' = finished
  PROVE  /\ Order'
         /\ Has(Way', type)
         /\ \A other \in {"session", "offer", "answer"} \ {type} : Has(Way, other) <=> Has(Way', other)
<1> DEFINE L == Len(Way)
<1>1. Message(type, n, tracks).type = type
  BY MessageFields
<1>2. /\ L \in Nat /\ Len(Way') \in Nat /\ L + 1 \in 1..Len(Way')
      /\ \A i \in 1..L : i \in 1..Len(Way') /\ Way'[i] = Way[i]
      /\ Way'[L + 1].type = type
      /\ \A i \in (L + 2)..Len(Way') :
           ~Special(Way'[i]) /\ (Way'[i].type = "candidate" => Way'[i].n <= made + 1)
  BY <1>1 DEF Put
<1>3. /\ \A i \in 1..L : Way[i].type = "candidate" =>
           Way[i].n <= seen + One(Upto(Way, i, "answer")) + One(Upto(Way, i, "offer"))
      /\ made = seen + One(Has(Way, "answer")) + One(Has(Way, "offer"))
  BY DEF Flow, Order
<1>4. seen \in Nat /\ made \in Nat
  BY DEF Sound, Sides, Numbers
<1>5. Len(Way) = L
  OBVIOUS
<1> HIDE DEF L
<1>6. Has(Way', type)
  BY <1>2 DEF Has
<1>7. ASSUME NEW other \in {"session", "offer", "answer"} \ {type}
      PROVE  Has(Way, other) <=> Has(Way', other)
  <2>1. ASSUME NEW i \in 1..L, Way[i].type = other PROVE Has(Way', other)
    BY <1>2, <2>1 DEF Has
  <2>2. ASSUME NEW i \in 1..Len(Way'), Way'[i].type = other PROVE Has(Way, other)
    <3>1. i # L + 1 /\ i \notin (L + 2)..Len(Way')
      BY <1>2, <1>7, <2>2 DEF Special
    <3>2. i \in 1..L
      BY <1>2, <3>1
    <3>3. QED BY <1>2, <1>5, <2>2, <3>2 DEF Has
  <2>3. QED BY <1>5, <2>1, <2>2 DEF Has
<1>8. made' = seen + One(Has(Way', "answer")) + One(Has(Way', "offer"))
  <2>1. One(Has(Way', type)) = 1 /\ One(Has(Way, type)) = 0
    BY <1>6 DEF One
  <2>2. CASE type = "offer"
    <3>1. Has(Way, "answer") <=> Has(Way', "answer")
      BY <1>7, <2>2
    <3>2. One(Has(Way', "answer")) = One(Has(Way, "answer"))
      BY <3>1 DEF One
    <3>3. One(Has(Way, "answer")) \in {0, 1}
      BY DEF One
    <3>4. QED BY <1>3, <1>4, <2>1, <2>2, <3>2, <3>3
  <2>3. CASE type = "answer"
    <3>1. Has(Way, "offer") <=> Has(Way', "offer")
      BY <1>7, <2>3
    <3>2. One(Has(Way', "offer")) = One(Has(Way, "offer"))
      BY <3>1 DEF One
    <3>3. One(Has(Way, "offer")) \in {0, 1}
      BY DEF One
    <3>4. QED BY <1>3, <1>4, <2>1, <2>3, <3>2, <3>3
  <2>4. QED BY <2>2, <2>3
<1>9. ASSUME NEW i \in 1..Len(Way'), Way'[i].type = "candidate"
      PROVE  Way'[i].n <= seen + One(Upto(Way', i, "answer")) + One(Upto(Way', i, "offer"))
  <2>1. i # L + 1
    BY <1>2, <1>9
  <2>2. CASE i <= L
    <3>1. i \in 1..L /\ Way'[i] = Way[i]
      BY <1>2, <2>2
    <3>2. ASSUME NEW t PROVE Upto(Way, i, t) <=> Upto(Way', i, t)
      <4>1. \A j \in 1..i : j \in 1..L
        BY <1>2, <3>1
      <4>2. QED BY <1>2, <4>1 DEF Upto
    <3>3. /\ One(Upto(Way, i, "answer")) = One(Upto(Way', i, "answer"))
          /\ One(Upto(Way, i, "offer")) = One(Upto(Way', i, "offer"))
      BY <3>2 DEF One
    <3>4. Way[i].n <= seen + One(Upto(Way, i, "answer")) + One(Upto(Way, i, "offer"))
      BY <1>3, <1>9, <3>1
    <3>5. QED BY <3>1, <3>3, <3>4
  <2>3. CASE ~(i <= L)
    <3>1. i \in (L + 2)..Len(Way')
      BY <1>2, <2>1, <2>3
    <3>2. Way'[i].n <= made'
      BY <1>2, <1>9, <3>1
    <3>3. ASSUME NEW t \in {"offer", "answer"} PROVE Has(Way', t) <=> Upto(Way', i, t)
      <4>1. ASSUME NEW j \in 1..Len(Way'), Way'[j].type = t PROVE Upto(Way', i, t)
        <5>1. j \notin (L + 2)..Len(Way')
          BY <1>2, <3>3, <4>1 DEF Special
        <5>2. j \in 1..i
          BY <1>2, <3>1, <4>1, <5>1
        <5>3. QED BY <4>1, <5>2 DEF Upto
      <4>2. \A j \in 1..i : j \in 1..Len(Way')
        BY <1>2
      <4>3. QED BY <4>1, <4>2 DEF Has, Upto
    <3>4. /\ One(Has(Way', "answer")) = One(Upto(Way', i, "answer"))
          /\ One(Has(Way', "offer")) = One(Upto(Way', i, "offer"))
      BY <3>3 DEF One
    <3>5. QED BY <1>8, <3>2, <3>4
  <2>4. QED BY <2>2, <2>3
<1>10. \A i \in 1..Len(held') : held'[i].n <= made' + 1
  OBVIOUS
<1>11. Order'
  BY <1>8, <1>9, <1>10 DEF Order
<1>12. QED BY <1>6, <1>7, <1>11

\* The session that could not send ends; what is on the way stays true.
LEMMA ExchangeFull ==
  ASSUME Exchange, ~finished, Way' = Way, code' # "none", held' = <<>>,
         UNCHANGED <<cOffer, seen, call, applied, signaling, toServer, cDescribed, cAttached,
                     cOffered, wantOffer>>,
         localOffer' = localOffer \/ ~Has(Way, "offer")
  PROVE  Exchange'
<1>1. HelloFirst' /\ AnswersFirst'
  BY DEF Exchange, Flow, HelloFirst, AnswersFirst
<1>2. OffersLast'
  BY DEF Exchange, Flow, OffersLast, Has
<1>3. Order'
  BY DEF Exchange, Flow, Order, Active
<1>4. ClientOK'
  BY DEF Exchange, ClientOK
<1>5. Together'
  BY DEF Exchange, Tasking, Together, Has, Active
<1>6. ~Up'
  BY DEF Up, Active
<1>7. Talk' /\ Works' /\ Starts'
  BY <1>6 DEF Talk, LastDescribed, AnswersBack, OffersBack, ServerWaits, ClientWaits, Answering,
     Works, Starts
<1>8. QED BY <1>1, <1>2, <1>3, <1>4, <1>5, <1>7 DEF Exchange, Flow, Tasking

\* The only offer on the way, behind an answer if there is one.
LEMMA ExchangeMakeOffer ==
  ASSUME Sound, Exchange, ~finished, MakeOffer
  PROVE  Exchange'
<1> DEFINE m == Message("offer", negotiations, attached)
<1>1. /\ UNCHANGED <<cOffer, seen, applied, cRemote, toClient, toServer, cDescribed, cOffered,
                     cAttached, wantOffer, remote, echo, call, attached, signaling, role, finished>>
      /\ Active /\ lock = "offer" /\ described' = attached /\ made' = made + 1
      /\ localOffer' = negotiations /\ held' = <<>> /\ lock' = "free"
      /\ Send(<<m>> \o held)
  BY DEF MakeOffer
<1>2. /\ negotiations \in Nat /\ negotiations # 0 /\ Stable /\ signaling = "open" /\ Up
      /\ attached \in SUBSET attached
  BY <1>1 DEF Sound, Sides, Numbers, Locked, Up, Exchange, Tasking, Together
<1>3. reader # "ended" /\ reader' # "ended"
  BY <1>1 DEF MakeOffer, Continue, Exchange, Tasking, Together
<1>4. ~Has(Way, "offer") /\ ~Has(toServer, "answer")
  BY <1>2 DEF Exchange, Flow, Talk, OffersLast, AnswersBack, Has, Stable
<1>5. \/ Way' = Way /\ code' = "queue_exhausted"
      \/ Put(m) /\ code' = code
  BY <1>1, <1>2, SendDescription DEF Exchange
<1>6. m.type = "offer" /\ m.n = negotiations /\ m.tracks = attached
  BY MessageFields
<1>7. CASE Way' = Way /\ code' = "queue_exhausted"
  BY <1>1, <1>4, <1>7, ExchangeFull
<1>8. CASE Put(m) /\ code' = code
  <2>1. /\ Order' /\ Has(Way', "offer")
        /\ \A other \in {"session", "offer", "answer"} \ {"offer"} : Has(Way, other) <=> Has(Way', other)
    BY <1>1, <1>4, <1>8, OrderPut DEF Exchange
  <2>2. (Has(Way, "session") <=> Has(Way', "session")) /\ (Has(Way, "answer") <=> Has(Way', "answer"))
    BY <2>1
  <2>3. /\ Len(Way) \in Nat /\ Len(Way') \in Nat /\ Len(Way) + 1 \in 1..Len(Way')
        /\ \A i \in 1..Len(Way) : i \in 1..Len(Way') /\ Way'[i] = Way[i]
        /\ Way'[Len(Way) + 1] = m
        /\ \A i \in (Len(Way) + 2)..Len(Way') : ~Special(Way'[i])
    BY <1>8 DEF Put
  <2> HIDE DEF m
  <2>4. \A i \in 1..Len(Way') : Special(Way'[i]) =>
          \/ i \in 1..Len(Way) /\ Way'[i] = Way[i]
          \/ i = Len(Way) + 1
    BY <2>3
  <2>5. HelloFirst'
    <3>1. SUFFICES ASSUME NEW i \in 1..Len(Way'), Way'[i].type = "session"
                   PROVE  i = 1 /\ cOffer = 0 /\ seen = 0 /\ \A t \in ClientTracks : call[t] = "none"
      BY <1>1 DEF HelloFirst
    <3>2. i \in 1..Len(Way) /\ Way'[i] = Way[i]
      BY <1>6, <2>3, <2>4, <3>1 DEF Special
    <3>3. QED BY <3>1, <3>2 DEF Exchange, Flow, HelloFirst
  <2>6. AnswersFirst'
    <3>1. SUFFICES ASSUME NEW i \in 1..Len(Way'), Way'[i].type = "answer"
                   PROVE  /\ Way'[i].n = cOffer /\ cOffer # 0 /\ applied
                          /\ \A j \in 1..Len(Way') : j # i /\ Describes(Way'[j]) => i < j
      BY <1>1 DEF AnswersFirst
    <3>2. i \in 1..Len(Way) /\ Way'[i] = Way[i]
      BY <1>6, <2>3, <2>4, <3>1 DEF Special
    <3>3. /\ Way[i].n = cOffer /\ cOffer # 0 /\ applied
          /\ \A j \in 1..Len(Way) : j # i /\ Describes(Way[j]) => i < j
      BY <3>1, <3>2 DEF Exchange, Flow, AnswersFirst
    <3>4. ASSUME NEW j \in 1..Len(Way'), j # i, Describes(Way'[j]) PROVE i < j
      <4>1. \/ j \in 1..Len(Way) /\ Way'[j] = Way[j]
            \/ j = Len(Way) + 1
        BY <2>4, <3>4 DEF Special, Describes, Descriptions
      <4>2. QED BY <2>3, <3>2, <3>3, <3>4, <4>1
    <3>5. QED BY <3>2, <3>3, <3>4
  <2>7. OffersLast'
    <3>1. SUFFICES ASSUME NEW i \in 1..Len(Way'), Way'[i].type = "offer"
                   PROVE  /\ Way'[i].n = negotiations /\ negotiations # 0
                          /\ \A j \in 1..Len(Way') : j # i /\ Describes(Way'[j]) => j < i
      BY <1>1 DEF OffersLast
    <3>2. i = Len(Way) + 1
      BY <1>4, <2>4, <3>1 DEF Special, Has
    <3>3. ASSUME NEW j \in 1..Len(Way'), j # i, Describes(Way'[j]) PROVE j < i
      <4>1. j \in 1..Len(Way)
        BY <2>4, <3>2, <3>3 DEF Special, Describes, Descriptions
      <4>2. QED BY <2>3, <3>2, <4>1
    <3>4. QED BY <1>2, <1>6, <2>3, <3>2, <3>3
  <2>8. LastDescribed'
    <3>1. Describes(Way'[Len(Way) + 1]) /\ Way'[Len(Way) + 1].tracks = attached
      BY <1>6, <2>3 DEF Describes, Descriptions
    <3>2. ASSUME NEW i \in 1..Len(Way'), Describes(Way'[i]),
                 \A j \in (i + 1)..Len(Way') : ~Describes(Way'[j])
          PROVE  i = Len(Way) + 1
      <4>1. ~(Len(Way) + 1 \in (i + 1)..Len(Way'))
        BY <3>1, <3>2
      <4>2. \/ i \in 1..Len(Way)
            \/ i = Len(Way) + 1
        BY <2>4, <3>2 DEF Special, Describes, Descriptions
      <4>3. QED BY <2>3, <4>1, <4>2
    <3>3. \E i \in 1..Len(Way') : Describes(Way'[i])
      BY <2>3, <3>1
    <3>4. QED BY <1>1, <3>1, <3>2, <3>3 DEF LastDescribed
  <2>9. AnswersBack'
    BY <1>1, <1>4 DEF AnswersBack, Has
  <2>10. OffersBack'
    <3>1. \A i \in 1..Len(toServer) : Final(i)' <=> Final(i)
      BY <1>1 DEF Final
    <3>2. QED BY <1>1, <1>2, <1>4, <2>2, <3>1 DEF Exchange, Talk, OffersBack, Later
  <2>11. ServerWaits' /\ ClientWaits'
    BY <2>1 DEF ServerWaits, ClientWaits
  <2>12. Answering'
    BY <1>1, <1>2, <2>2 DEF Exchange, Talk, Answering
  <2>13. ClientOK'
    BY <1>1 DEF Exchange, ClientOK
  <2>14. Together'
    BY <1>1, <1>2, <1>3 DEF Exchange, Tasking, Together, Has
  <2>15. Works'
    BY <1>1 DEF Works
  <2>16. Starts'
    <3>1. Broken => Broken'
      BY <1>1 DEF MakeOffer, Continue, Sound, Locked, Sides, Tasked
    <3>2. ~Stable'
      BY <1>1, <1>2 DEF Stable
    <3>3. QED BY <1>1, <1>2, <2>2, <3>1, <3>2 DEF Exchange, Tasking, Starts
  <2>17. QED BY <2>1, <2>5, <2>6, <2>7, <2>8, <2>9, <2>10, <2>11, <2>12, <2>13, <2>14, <2>15, <2>16
         DEF Exchange, Flow, Talk, Tasking
<1>9. QED BY <1>5, <1>7, <1>8

\* What was held back for a description that failed follows no description and
\* belongs to none; the session ends, or a call fails.
LEMMA ExchangeDescribeFails ==
  ASSUME Sound, Exchange, ~finished, DescribeFails
  PROVE  Exchange'
<1>1. /\ UNCHANGED <<cOffer, seen, applied, localOffer, made, described, cRemote, cDescribed,
                     cOffered, cAttached, wantOffer, remote, echo, call, attached, signaling, role,
                     finished, toClient, toServer>>
      /\ Active /\ lock # "free" /\ held' = <<>> /\ lock' = "free"
      /\ Continue(holder, "failed")
  BY DEF DescribeFails
<1>2. outbound' = outbound \/ outbound' = outbound \o Orphans
  <2>1. CASE holder \in ServerTracks
    BY <2>1 DEF DescribeFails, Orphans, Send
  <2>2. CASE holder \notin ServerTracks
    BY <2>2 DEF DescribeFails, Orphans
  <2>3. QED BY <2>1, <2>2
<1>3. /\ Orphans \in Seq(Down) /\ Len(Way) \in Nat /\ Len(toServer) \in Nat
      /\ seen \in Nat /\ Passes(toServer, toServer', 0)
      /\ \A i \in 1..Len(Orphans) : ~Special(Orphans[i]) /\ Orphans[i].n = 0
  <2>1. Len(Way) \in Nat /\ Len(toServer) \in Nat /\ seen \in Nat
    BY WayTyped DEF Sound, Sides, Numbers
  <2>2. /\ Orphans \in Seq(Down)
        /\ \A i \in 1..Len(Orphans) : ~Special(Orphans[i]) /\ Orphans[i].n = 0
    BY OrphansTyped DEF Special
  <2>3. QED BY <1>1, <2>1, <2>2, Stays
<1>4. /\ Passes(Way, Way', 0)
      /\ \A i \in (Len(Way) + 1)..Len(Way') : Way'[i].n = 0
  <2>1. CASE outbound' = outbound
    <3>1. Way' = Way
      BY <1>1, <2>1 DEF Way
    <3>2. QED BY <1>3, <3>1, Stays
  <2>2. CASE outbound' = outbound \o Orphans
    <3>1. /\ Moves(Way, Way', 0) /\ Len(Way') = Len(Way) + Len(Orphans) /\ Len(Orphans) \in Nat
          /\ \A i \in 1..Len(Orphans) : Way'[Len(Way) + i] = Orphans[i]
      BY <1>1, <1>3, <2>2, WayGrown
    <3>2. ASSUME NEW i \in (Len(Way) + 1)..Len(Way')
          PROVE  ~Special(Way'[i]) /\ Way'[i].n = 0
      <4>1. /\ i - Len(Way) \in 1..Len(Orphans)
            /\ Way'[i] = Orphans[i - Len(Way)]
        <5>1. i - Len(Way) \in 1..Len(Orphans) /\ Len(Way) + (i - Len(Way)) = i
          BY <1>3, <3>1, <3>2
        <5>2. QED BY <3>1, <5>1
      <4>2. QED BY <1>3, <4>1
    <3>3. QED BY <1>3, <3>1, <3>2 DEF Passes
  <2>3. QED BY <1>2, <2>1, <2>2
<1>5. Flow'
  <2>1. \A i \in (Len(Way) - 0 + 1)..Len(Way') : Way'[i].type = "candidate" =>
          Way'[i].n <= seen + One(Has(Way, "answer")) + One(Has(Way, "offer"))
    BY <1>3, <1>4 DEF One
  <2>2. \A i \in 1..Len(held') : held'[i].n <= made + 1
    BY <1>1
  <2>3. QED BY <1>1, <1>4, <2>1, <2>2, CarriedFlow DEF Exchange
<1>6. ClientOK'
  BY <1>1 DEF Exchange, ClientOK
<1>7. CASE holder \notin ServerTracks
  <2>1. ~Active' /\ ~Up'
    BY <1>7 DEF DescribeFails, Active, Up
  <2>2. Together'
    BY <1>1, <2>1 DEF Exchange, Tasking, Together, Has
  <2>3. Talk' /\ Works' /\ Starts'
    BY <2>1 DEF Talk, LastDescribed, AnswersBack, OffersBack, ServerWaits, ClientWaits, Answering,
       Works, Starts
  <2>4. QED BY <1>5, <1>6, <2>2, <2>3 DEF Exchange, Tasking
<1>8. CASE holder \in ServerTracks
  <2>1. lock # "answer" /\ ~unsent /\ Broken' /\ reader' = reader
    <3>1. lock # "answer" /\ ~unsent
      BY <1>1, <1>8 DEF Sound, Locked, Stable
    <3>2. Broken' /\ reader' = reader
      BY <1>1, <1>8 DEF Continue, Sound, Sides, Tasked
    <3>3. QED BY <3>1, <3>2
  <2>2. Talk'
    BY <1>1, <1>3, <1>4, <2>1, CarriedTalk DEF Exchange
  <2>3. Together'
    BY <1>1, <2>1 DEF Exchange, Tasking, Together, Has
  <2>4. Works' /\ Starts'
    BY <2>1 DEF Works, Starts
  <2>5. QED BY <1>5, <1>6, <2>2, <2>3, <2>4 DEF Exchange, Tasking
<1>9. QED BY <1>7, <1>8

\* The only description on the way: the server waits for nothing, and the client
\* for this answer.
LEMMA ExchangeMakeAnswer ==
  ASSUME Sound, Exchange, ~finished, MakeAnswer
  PROVE  Exchange'
<1>1. PICK more \in SUBSET (attached \ described) :
        /\ described' = described \cup more
        /\ Send(<<Message("answer", echo, described \cup more)>> \o held)
  BY DEF MakeAnswer
<1> DEFINE m == Message("answer", echo, described \cup more)
<1>2. /\ UNCHANGED <<cOffer, seen, applied, cRemote, toClient, toServer, cDescribed, cOffered,
                     cAttached, wantOffer, remote, localOffer, call, signaling, role, finished>>
      /\ Active /\ lock = "answer" /\ made' = made + 1
      /\ held' = <<>> /\ lock' = "free" /\ reader' = "check"
  BY DEF MakeAnswer
<1>3. /\ echo \in Nat /\ Stable /\ signaling = "open" /\ Up
      /\ described \cup more \in SUBSET attached
  BY <1>2 DEF Sound, Sides, Numbers, Media, Locked, Up, Exchange, Tasking, Together
<1>4. /\ ~Has(Way, "offer") /\ ~Has(toServer, "answer") /\ ~Has(Way, "answer")
      /\ echo = cOffer /\ cOffer # 0 /\ applied /\ remote = cOffered
  BY <1>2, <1>3 DEF Exchange, Flow, Talk, OffersLast, AnswersBack, Answering, Has, Stable
<1>5. \/ Way' = Way /\ code' = "queue_exhausted"
      \/ Put(m) /\ code' = code
  BY <1>1, <1>2, <1>3, SendDescription DEF Exchange
<1>6. m.type = "answer" /\ m.n = echo /\ m.tracks = described \cup more
  BY MessageFields
<1>7. CASE Way' = Way /\ code' = "queue_exhausted"
  BY <1>2, <1>7, ExchangeFull
<1>8. CASE Put(m) /\ code' = code
  <2>1. /\ Order' /\ Has(Way', "answer")
        /\ \A other \in {"session", "offer", "answer"} \ {"answer"} : Has(Way, other) <=> Has(Way', other)
    BY <1>2, <1>4, <1>8, OrderPut DEF Exchange
  <2>2. (Has(Way, "session") <=> Has(Way', "session")) /\ ~Has(Way', "offer")
    BY <1>4, <2>1
  <2>3. /\ Len(Way) \in Nat /\ Len(Way') \in Nat /\ Len(Way) + 1 \in 1..Len(Way')
        /\ \A i \in 1..Len(Way) : i \in 1..Len(Way') /\ Way'[i] = Way[i]
        /\ Way'[Len(Way) + 1] = m
        /\ \A i \in (Len(Way) + 2)..Len(Way') : ~Special(Way'[i])
    BY <1>8 DEF Put
  <2> HIDE DEF m
  <2>4. \A i \in 1..Len(Way') : Special(Way'[i]) =>
          \/ i \in 1..Len(Way) /\ Way'[i] = Way[i]
          \/ i = Len(Way) + 1
    BY <2>3
  <2>5. \A i \in 1..Len(Way) : ~Describes(Way[i])
    BY <1>4 DEF Has, Describes, Descriptions
  <2>6. \A i \in 1..Len(Way') : Describes(Way'[i]) => i = Len(Way) + 1
    BY <2>4, <2>5 DEF Special, Describes, Descriptions
  <2>7. HelloFirst'
    <3>1. SUFFICES ASSUME NEW i \in 1..Len(Way'), Way'[i].type = "session"
                   PROVE  i = 1 /\ cOffer = 0 /\ seen = 0 /\ \A t \in ClientTracks : call[t] = "none"
      BY <1>2 DEF HelloFirst
    <3>2. i \in 1..Len(Way) /\ Way'[i] = Way[i]
      BY <1>6, <2>3, <2>4, <3>1 DEF Special
    <3>3. QED BY <3>1, <3>2 DEF Exchange, Flow, HelloFirst
  <2>8. AnswersFirst'
    <3>1. \A i \in 1..Len(Way') : Way'[i].type = "answer" => i = Len(Way) + 1
      BY <2>6 DEF Describes, Descriptions
    <3>2. QED BY <1>2, <1>4, <1>6, <2>3, <2>6, <3>1 DEF AnswersFirst
  <2>9. OffersLast'
    BY <2>2 DEF OffersLast, Has
  <2>10. LastDescribed'
    <3>1. Describes(Way'[Len(Way) + 1]) /\ Way'[Len(Way) + 1].tracks = described \cup more
      BY <1>6, <2>3 DEF Describes, Descriptions
    <3>2. QED BY <1>1, <2>3, <2>6, <3>1 DEF LastDescribed
  <2>11. AnswersBack'
    BY <1>2, <1>4 DEF AnswersBack, Has
  <2>12. OffersBack'
    <3>1. \A i \in 1..Len(toServer) : toServer[i].type # "offer"
      BY <1>2, <1>3, <1>4 DEF Exchange, Talk, OffersBack, Later, Has
    <3>2. QED BY <1>2, <3>1 DEF OffersBack
  <2>13. ServerWaits' /\ ClientWaits'
    BY <1>2, <1>3, <2>1 DEF ServerWaits, ClientWaits, Stable
  <2>14. Answering'
    BY <1>2, <1>4, <2>1 DEF Answering
  <2>15. ClientOK'
    BY <1>2 DEF Exchange, ClientOK
  <2>16. Together'
    BY <1>2, <1>3 DEF Exchange, Tasking, Together, Has
  <2>17. Works' /\ Starts'
    BY <1>2, <1>4 DEF Works, Starts
  <2>18. QED BY <2>1, <2>7, <2>8, <2>9, <2>10, <2>11, <2>12, <2>13, <2>14, <2>15, <2>16, <2>17
         DEF Exchange, Flow, Talk, Tasking
<1>9. QED BY <1>5, <1>7, <1>8

-----------------------------------------------------------------------------
(* The client reads *)

\* What is behind the message that the client takes.
LEMMA Ahead ==
  ASSUME Sound, NEW type, Takes(type), outbound' = outbound
  PROVE  /\ 1 \in 1..Len(Way) /\ Len(Way) \in Nat /\ Len(Way') = Len(Way) - 1
         /\ Way[1] = Head(toClient) /\ Way[1].type = type
         /\ \A i \in 1..Len(Way') : i + 1 \in 2..Len(Way) /\ Way'[i] = Way[i + 1]
         /\ \A i \in 2..Len(Way) : i - 1 \in 1..Len(Way') /\ Way'[i - 1] = Way[i]
<1>1. /\ Moves(Way, Way', 1) /\ Len(Way') = Len(Way) - 1
      /\ Way[1] = Head(toClient) /\ Way[1].type = type /\ Len(Way) \in Nat
  BY WayTaken, WayTyped
<1>2. /\ 1 <= Len(Way)
      /\ \A i \in 1..(Len(Way) - 1) : Way'[i] = Way[i + 1]
      /\ \A i \in 2..Len(Way) : Way'[i - 1] = Way[i]
  BY <1>1 DEF Moves
<1>3. \A i \in 1..Len(Way') : i \in 1..(Len(Way) - 1) /\ i + 1 \in 2..Len(Way)
  BY <1>1
<1>4. \A i \in 2..Len(Way) : i - 1 \in 1..Len(Way')
  BY <1>1
<1>5. QED BY <1>1, <1>2, <1>3, <1>4

\* The greeting or a description is taken: none of its kind is left, no greeting is,
\* and after an offer no answer.
LEMMA OrderTaken ==
  ASSUME Sound, Flow, ~finished, NEW type \in {"session", "offer", "answer"}, Takes(type),
         UNCHANGED <<outbound, made, held, code, finished>>,
         seen' = IF type = "session" THEN seen ELSE seen + 1
  PROVE  /\ Order' /\ ~Has(Way', "session") /\ ~Has(Way', type)
         /\ type = "offer" => ~Has(Way, "answer") /\ ~Has(Way', "answer")
         /\ type # "offer" => (Has(Way, "offer") <=> Has(Way', "offer"))
         /\ type # "answer" => (Has(Way, "answer") <=> Has(Way', "answer"))
<1>1. /\ 1 \in 1..Len(Way) /\ Len(Way) \in Nat /\ Len(Way') = Len(Way) - 1 /\ Way[1].type = type
      /\ \A i \in 1..Len(Way') : i + 1 \in 2..Len(Way) /\ Way'[i] = Way[i + 1]
      /\ \A i \in 2..Len(Way) : i - 1 \in 1..Len(Way') /\ Way'[i - 1] = Way[i]
  BY Ahead
<1>2. \A i \in 1..Len(Way') : i + 1 \in 1..Len(Way) /\ i + 1 # 1 /\ ~(i + 1 < 1)
  BY <1>1
<1>3. ~Has(Way', "session")
  <2>1. SUFFICES ASSUME NEW i \in 1..Len(Way'), Way'[i].type = "session" PROVE FALSE
    BY DEF Has
  <2>2. i + 1 \in 1..Len(Way) /\ Way[i + 1].type = "session"
    BY <1>1, <1>2, <2>1
  <2>3. i + 1 = 1
    BY <2>2 DEF Flow, HelloFirst
  <2>4. QED BY <1>2, <2>3
<1>4. ~Has(Way', type)
  <2>1. SUFFICES ASSUME type # "session", NEW i \in 1..Len(Way'), Way'[i].type = type PROVE FALSE
    BY <1>3 DEF Has
  <2>2. i + 1 \in 1..Len(Way) /\ i + 1 # 1 /\ Way[i + 1].type = type
    BY <1>1, <1>2, <2>1
  <2>3. Describes(Way[1]) /\ Describes(Way[i + 1])
    BY <1>1, <2>1, <2>2 DEF Describes, Descriptions
  <2>4. CASE type = "answer"
    <3>1. i + 1 < 1
      BY <1>1, <2>2, <2>3, <2>4 DEF Flow, AnswersFirst
    <3>2. QED BY <1>2, <3>1
  <2>5. CASE type = "offer"
    <3>1. i + 1 < 1
      BY <1>1, <2>2, <2>3, <2>5 DEF Flow, OffersLast
    <3>2. QED BY <1>2, <3>1
  <2>6. QED BY <2>1, <2>4, <2>5
<1>5. ASSUME NEW t, t # type PROVE Has(Way, t) <=> Has(Way', t)
  <2>1. ASSUME NEW i \in 1..Len(Way), Way[i].type = t PROVE Has(Way', t)
    <3>1. i \in 2..Len(Way)
      BY <1>1, <1>5, <2>1
    <3>2. QED BY <1>1, <2>1, <3>1 DEF Has
  <2>2. ASSUME NEW i \in 1..Len(Way'), Way'[i].type = t PROVE Has(Way, t)
    BY <1>1, <1>2, <2>2 DEF Has
  <2>3. QED BY <2>1, <2>2 DEF Has
<1>6. ASSUME type = "offer" PROVE ~Has(Way, "answer") /\ ~Has(Way', "answer")
  <2>1. SUFFICES ASSUME NEW i \in 1..Len(Way), Way[i].type = "answer" PROVE FALSE
    BY <1>5, <1>6 DEF Has
  <2>2. i # 1 /\ Describes(Way[i])
    BY <1>1, <1>6, <2>1 DEF Describes, Descriptions
  <2>3. i < 1
    BY <1>1, <1>6, <2>2 DEF Flow, OffersLast
  <2>4. QED BY <2>1, <2>3
<1>7. seen \in Nat /\ made \in Nat
  BY DEF Sound, Sides, Numbers
<1>8. Has(Way, type)
  BY <1>1 DEF Has
<1>9. Active => made = seen' + One(Has(Way', "answer")) + One(Has(Way', "offer"))
  <2>1. SUFFICES ASSUME Active
                 PROVE  made = seen' + One(Has(Way', "answer")) + One(Has(Way', "offer"))
    OBVIOUS
  <2>2. made = seen + One(Has(Way, "answer")) + One(Has(Way, "offer"))
    BY <2>1 DEF Flow, Order
  <2>3. CASE type = "session"
    <3>1. /\ One(Has(Way, "answer")) = One(Has(Way', "answer"))
          /\ One(Has(Way, "offer")) = One(Has(Way', "offer"))
      BY <1>5, <2>3 DEF One
    <3>2. QED BY <2>2, <2>3, <3>1
  <2>4. CASE type = "answer"
    <3>1. /\ One(Has(Way, "answer")) = 1 /\ One(Has(Way', "answer")) = 0
          /\ One(Has(Way, "offer")) = One(Has(Way', "offer"))
      BY <1>4, <1>5, <1>8, <2>4 DEF One
    <3>2. One(Has(Way, "offer")) \in {0, 1}
      BY DEF One
    <3>3. QED BY <1>7, <2>2, <2>4, <3>1, <3>2
  <2>5. CASE type = "offer"
    <3>1. /\ One(Has(Way, "offer")) = 1 /\ One(Has(Way', "offer")) = 0
          /\ One(Has(Way, "answer")) = One(Has(Way', "answer"))
      BY <1>4, <1>5, <1>8, <2>5 DEF One
    <3>2. One(Has(Way, "answer")) \in {0, 1}
      BY DEF One
    <3>3. QED BY <1>7, <2>2, <2>5, <3>1, <3>2
  <2>6. QED BY <2>3, <2>4, <2>5
<1>10. ASSUME NEW i \in 1..Len(Way'), Way'[i].type = "candidate"
       PROVE  Way'[i].n <= seen' + One(Upto(Way', i, "answer")) + One(Upto(Way', i, "offer"))
  <2>1. i + 1 \in 1..Len(Way) /\ Way'[i] = Way[i + 1]
    BY <1>1, <1>2
  <2>2. Way'[i].n <= seen + One(Upto(Way, i + 1, "answer")) + One(Upto(Way, i + 1, "offer"))
    BY <1>10, <2>1 DEF Flow, Order
  <2>3. ASSUME NEW t, t # type PROVE Upto(Way, i + 1, t) <=> Upto(Way', i, t)
    <3>1. ASSUME NEW j \in 1..(i + 1), Way[j].type = t PROVE Upto(Way', i, t)
      <4>1. j # 1 /\ j \in 2..Len(Way) /\ j - 1 \in 1..i
        BY <1>1, <2>1, <2>3, <3>1
      <4>2. QED BY <1>1, <3>1, <4>1 DEF Upto
    <3>2. ASSUME NEW j \in 1..i, Way'[j].type = t PROVE Upto(Way, i + 1, t)
      <4>1. j \in 1..Len(Way') /\ j + 1 \in 1..(i + 1)
        BY <1>1, <3>2
      <4>2. QED BY <1>1, <3>2, <4>1 DEF Upto
    <3>3. QED BY <3>1, <3>2 DEF Upto
  <2>4. /\ One(Upto(Way, i + 1, "answer")) \in {0, 1} /\ One(Upto(Way, i + 1, "offer")) \in {0, 1}
        /\ One(Upto(Way', i, "answer")) \in {0, 1} /\ One(Upto(Way', i, "offer")) \in {0, 1}
    BY DEF One
  <2>5. Way'[i].n \in Nat
    <3>1. Way[i + 1] \in Arriving
      BY <2>1, WayTyped
    <3>2. QED BY <2>1, <3>1 DEF Arriving, Messages
  <2>6. type # "answer" => One(Upto(Way, i + 1, "answer")) = One(Upto(Way', i, "answer"))
    BY <2>3 DEF One
  <2>7. type # "offer" => One(Upto(Way, i + 1, "offer")) = One(Upto(Way', i, "offer"))
    BY <2>3 DEF One
  <2>8. QED BY <1>7, <2>2, <2>4, <2>5, <2>6, <2>7
<1>11. Order'
  <2>1. \A i \in 1..Len(held') : held'[i].n <= made' + 1
    BY DEF Flow, Order
  <2>2. Active' => made' = seen' + One(Has(Way', "answer")) + One(Has(Way', "offer"))
    BY <1>9 DEF Active
  <2>3. QED BY <1>10, <2>1, <2>2 DEF Order
<1>12. QED BY <1>3, <1>4, <1>5, <1>6, <1>11

\* A new offer goes out last.
Adds ==
  /\ Len(toServer) \in Nat /\ Len(toServer') = Len(toServer) + 1
  /\ \A i \in 1..Len(toServer) : i \in 1..Len(toServer') /\ toServer'[i] = toServer[i]
  /\ toServer'[Len(toServer) + 1] = Message("offer", counter + 1, cAttached')

\* pump with an offer wanted and none pending
LEMMA PumpOffers ==
  ASSUME Sound, NEW calls, Pump(0, TRUE, calls, <<>>), cAttached' \subseteq ClientTracks
  PROVE  /\ Adds /\ cOffer' = counter + 1 /\ cOffer' # 0 /\ wantOffer' = FALSE
         /\ cOffered' = cAttached'
<1>1. /\ cOffer' = counter + 1 /\ wantOffer' = FALSE /\ cOffered' = cAttached'
      /\ toServer' = toServer \o <<>> \o <<Message("offer", counter + 1, cAttached')>>
  BY DEF Pump
<1>2. toServer \in Seq(Upward) /\ counter \in Nat /\ counter + 1 \in Nat
  BY DEF Sound, Queues, Sides, Numbers
<1>3. Message("offer", counter + 1, cAttached') \in Upward
  BY <1>2, SayableOne
<1>4. toServer' = toServer \o <<Message("offer", counter + 1, cAttached')>>
  BY <1>1, <1>2
<1>5. toServer' = Append(toServer, Message("offer", counter + 1, cAttached'))
  BY <1>2, <1>3, <1>4, AppendJoin
<1>6. Adds
  BY <1>2, <1>3, <1>5, AppendElements DEF Adds
<1>7. QED BY <1>1, <1>2, <1>6

\* pump with nothing to offer
LEMMA PumpSettles ==
  ASSUME Sound, NEW calls, Pump(0, FALSE, calls, <<>>)
  PROVE  toServer' = toServer /\ cOffer' = 0 /\ wantOffer' = FALSE /\ cOffered' = cOffered
<1>1. toServer \in Seq(Upward)
  BY DEF Sound, Queues
<1>2. QED BY <1>1 DEF Pump

\* The offer that is new is the one the client waits for; those before it gave way.
LEMMA OffersAdded ==
  ASSUME Sound, Adds, cOffer' = counter + 1, cOffer' # 0, cOffered' = cAttached',
         lock' # "answer", ~Has(Way', "answer"),
         \A i \in 1..Len(toServer) : toServer[i].type = "offer" => Later(toServer, i, "answer")
  PROVE  /\ OffersBack' /\ ClientWaits'
         /\ Has(toServer, "answer") <=> Has(toServer', "answer")
         /\ \A i \in 1..Len(toServer') : toServer'[i].type # "offer" =>
              i \in 1..Len(toServer) /\ toServer'[i] = toServer[i]
<1>1. /\ Len(toServer) \in Nat /\ Len(toServer') = Len(toServer) + 1
      /\ \A i \in 1..Len(toServer) : i \in 1..Len(toServer') /\ toServer'[i] = toServer[i]
      /\ toServer'[Len(toServer) + 1].type = "offer"
      /\ toServer'[Len(toServer) + 1].n = cOffer'
      /\ toServer'[Len(toServer) + 1].tracks = cOffered'
  BY MessageFields DEF Adds
<1>2. PICK L \in Nat : L = Len(toServer) + 1 /\ Final(L)'
  <2>1. PICK L \in Nat : L = Len(toServer) + 1
    BY <1>1
  <2>2. Final(L)'
    BY <1>1, <2>1 DEF Final
  <2>3. QED BY <2>1, <2>2
<1>3. Len(toServer) + 1 \in 1..Len(toServer')
  BY <1>1
<1>4. ASSUME NEW i \in 1..Len(toServer'), i # Len(toServer) + 1
      PROVE  i \in 1..Len(toServer) /\ toServer'[i] = toServer[i]
  BY <1>1, <1>4
<1>5. OffersBack'
  <2>1. SUFFICES ASSUME NEW i \in 1..Len(toServer'), toServer'[i].type = "offer"
                 PROVE  \/ Later(toServer', i, "answer")
                        \/ /\ Final(i)' /\ toServer'[i].n = cOffer' /\ cOffer' # 0
                           /\ toServer'[i].tracks = cOffered'
                           /\ ~Has(Way', "answer") /\ lock' # "answer"
    BY DEF OffersBack
  <2>2. CASE i = Len(toServer) + 1
    BY <1>1, <1>2, <2>2
  <2>3. CASE i # Len(toServer) + 1
    <3>1. i \in 1..Len(toServer) /\ toServer[i].type = "offer"
      BY <1>4, <2>1, <2>3
    <3>2. PICK j \in (i + 1)..Len(toServer) : toServer[j].type = "answer"
      BY <3>1 DEF Later
    <3>3. j \in 1..Len(toServer) /\ j \in (i + 1)..Len(toServer')
      BY <1>1, <3>1, <3>2
    <3>4. QED BY <1>1, <3>2, <3>3 DEF Later
  <2>4. QED BY <2>2, <2>3
<1>6. ClientWaits'
  <2>1. \E i \in 1..Len(toServer') : toServer'[i].type = "offer" /\ Final(i)'
    BY <1>1, <1>2, <1>3
  <2>2. QED BY <2>1 DEF ClientWaits
<1>7. \A i \in 1..Len(toServer') : toServer'[i].type # "offer" =>
        i \in 1..Len(toServer) /\ toServer'[i] = toServer[i]
  BY <1>1, <1>4
<1>8. Has(toServer, "answer") <=> Has(toServer', "answer")
  BY <1>1, <1>7 DEF Has
<1>9. QED BY <1>5, <1>6, <1>7, <1>8

\* What the server sent before is answered as before.
LEMMA AnswersStay ==
  ASSUME AnswersBack, UNCHANGED <<code, finished, localOffer, cDescribed>>,
         Has(Way', "offer") => Has(Way, "offer"), Has(Way', "answer") => Has(Way, "answer"),
         \A i \in 1..Len(toServer') : toServer'[i].type = "answer" =>
           i \in 1..Len(toServer) /\ toServer'[i] = toServer[i]
  PROVE  AnswersBack'
  BY DEF AnswersBack, Up, Active

\* Steps of the client leave the tasks of the server where they are.
LEMMA TaskingStays ==
  ASSUME Tasking, UNCHANGED <<role, serverV, finished>>,
         \A i \in 1..Len(toServer') : toServer'[i].type \in {"closed", "lost"} =>
           i \in 1..Len(toServer) /\ toServer'[i] = toServer[i],
         Has(Way, "session") \/ cOffer # 0 => Has(Way', "session") \/ cOffer' # 0 \/ role = "offerer"
  PROVE  Tasking'
<1>1. Together'
  BY DEF Tasking, Together, Has, Active
<1>2. Works'
  BY DEF Tasking, Works, Up, Active, Stable
<1>3. Starts'
  BY DEF Tasking, Starts, Up, Active, Stable
<1>4. QED BY <1>1, <1>2, <1>3 DEF Tasking

\* What is behind the message that was taken keeps its order.
LEMMA FlowTaken ==
  ASSUME Sound, Flow, ~finished, NEW type \in {"session", "offer", "answer"}, Takes(type),
         UNCHANGED <<outbound, made, held, code, finished, applied, localOffer>>,
         seen' = IF type = "session" THEN seen ELSE seen + 1,
         cOffer' = cOffer \/ ~Has(Way', "answer")
  PROVE  Flow'
<1>1. /\ 1 \in 1..Len(Way) /\ Len(Way) \in Nat /\ Len(Way') = Len(Way) - 1
      /\ \A i \in 1..Len(Way') : i + 1 \in 2..Len(Way) /\ Way'[i] = Way[i + 1]
  BY Ahead
<1>2. Order' /\ ~Has(Way', "session")
  BY OrderTaken
<1>3. \A i \in 1..Len(Way') : i + 1 \in 1..Len(Way)
  BY <1>1
<1>4. HelloFirst'
  BY <1>2 DEF HelloFirst, Has
<1>5. AnswersFirst'
  <2>1. SUFFICES ASSUME NEW i \in 1..Len(Way'), Way'[i].type = "answer"
                 PROVE  /\ Way'[i].n = cOffer' /\ cOffer' # 0 /\ applied
                        /\ \A j \in 1..Len(Way') : j # i /\ Describes(Way'[j]) => i < j
    BY DEF AnswersFirst
  <2>2. cOffer' = cOffer
    BY <2>1 DEF Has
  <2>3. i + 1 \in 1..Len(Way) /\ Way'[i] = Way[i + 1]
    BY <1>1, <1>3
  <2>4. /\ Way[i + 1].n = cOffer /\ cOffer # 0 /\ applied
        /\ \A j \in 1..Len(Way) : j # i + 1 /\ Describes(Way[j]) => i + 1 < j
    BY <2>1, <2>3 DEF Flow, AnswersFirst
  <2>5. ASSUME NEW j \in 1..Len(Way'), j # i, Describes(Way'[j]) PROVE i < j
    <3>1. j + 1 \in 1..Len(Way) /\ Way'[j] = Way[j + 1] /\ j + 1 # i + 1
      BY <1>1, <1>3, <2>5
    <3>2. i + 1 < j + 1
      BY <2>4, <2>5, <3>1
    <3>3. QED BY <3>2
  <2>6. QED BY <2>2, <2>3, <2>4, <2>5
<1>6. OffersLast'
  <2>1. SUFFICES ASSUME NEW i \in 1..Len(Way'), Way'[i].type = "offer"
                 PROVE  /\ Way'[i].n = localOffer /\ localOffer # 0
                        /\ \A j \in 1..Len(Way') : j # i /\ Describes(Way'[j]) => j < i
    BY DEF OffersLast
  <2>2. i + 1 \in 1..Len(Way) /\ Way'[i] = Way[i + 1]
    BY <1>1, <1>3
  <2>3. /\ Way[i + 1].n = localOffer /\ localOffer # 0
        /\ \A j \in 1..Len(Way) : j # i + 1 /\ Describes(Way[j]) => j < i + 1
    BY <2>1, <2>2 DEF Flow, OffersLast
  <2>4. ASSUME NEW j \in 1..Len(Way'), j # i, Describes(Way'[j]) PROVE j < i
    <3>1. j + 1 \in 1..Len(Way) /\ Way'[j] = Way[j + 1] /\ j + 1 # i + 1
      BY <1>1, <1>3, <2>4
    <3>2. j + 1 < i + 1
      BY <2>3, <2>4, <3>1
    <3>3. QED BY <3>2
  <2>5. QED BY <2>2, <2>3, <2>4
<1>7. QED BY <1>2, <1>4, <1>5, <1>6 DEF Flow

\* The last description on the way is the server's, whether it is taken or not.
LEMMA LastTaken ==
  ASSUME Sound, NEW type, Takes(type), outbound' = outbound, Up, LastDescribed
  PROVE  /\ \A i \in 1..Len(Way') :
              Describes(Way'[i]) /\ (\A j \in (i + 1)..Len(Way') : ~Describes(Way'[j])) =>
                Way'[i].tracks = described
         /\ (\A i \in 1..Len(Way') : ~Describes(Way'[i])) =>
              IF Describes(Way[1]) THEN Way[1].tracks = described ELSE cRemote = described
<1>1. /\ 1 \in 1..Len(Way) /\ Way[1].type = type /\ Len(Way) \in Nat
      /\ Len(Way') = Len(Way) - 1
      /\ \A i \in 1..Len(Way') : i + 1 \in 2..Len(Way) /\ Way'[i] = Way[i + 1]
      /\ \A i \in 2..Len(Way) : i - 1 \in 1..Len(Way') /\ Way'[i - 1] = Way[i]
  BY Ahead
<1>2. ASSUME NEW i \in 1..Len(Way'), Describes(Way'[i]),
             \A j \in (i + 1)..Len(Way') : ~Describes(Way'[j])
      PROVE  Way'[i].tracks = described
  <2>1. i + 1 \in 1..Len(Way) /\ Way'[i] = Way[i + 1]
    BY <1>1
  <2>2. ASSUME NEW j \in (i + 1 + 1)..Len(Way) PROVE ~Describes(Way[j])
    <3>1. j \in 2..Len(Way) /\ j - 1 \in (i + 1)..Len(Way')
      BY <1>1, <2>1, <2>2
    <3>2. QED BY <1>1, <1>2, <3>1
  <2>3. QED BY <1>2, <2>1, <2>2 DEF LastDescribed
<1>3. ASSUME \A i \in 1..Len(Way') : ~Describes(Way'[i])
      PROVE  IF Describes(Way[1]) THEN Way[1].tracks = described ELSE cRemote = described
  <2>1. \A i \in 2..Len(Way) : ~Describes(Way[i])
    BY <1>1, <1>3
  <2>2. CASE Describes(Way[1])
    BY <1>1, <2>1, <2>2 DEF LastDescribed
  <2>3. CASE ~Describes(Way[1])
    <3>1. \A i \in 1..Len(Way) : i = 1 \/ i \in 2..Len(Way)
      BY <1>1
    <3>2. QED BY <2>1, <2>3, <3>1 DEF LastDescribed
  <2>4. QED BY <2>2, <2>3
<1>4. QED BY <1>2, <1>3

\* An offer that is not answered yet is one the client waits for: without one, all
\* that is on its way gave way.
LEMMA AllGaveWay ==
  ASSUME Up, OffersBack, cOffer = 0 \/ Has(Way, "answer")
  PROVE  \A i \in 1..Len(toServer) : toServer[i].type = "offer" => Later(toServer, i, "answer")
  BY DEF OffersBack

\* The greeting: the client of an answerer makes the first offer.
LEMMA ExchangeOnHello ==
  ASSUME Sound, Exchange, ~finished, OnHello
  PROVE  Exchange'
<1>1. /\ UNCHANGED <<role, serverV, finished, cDescribed, cRemote, made, seen, candidates, cAttached>>
      /\ Takes("session") /\ outbound' = outbound
  BY DEF OnHello
<1>2. /\ 1 \in 1..Len(Way) /\ Way[1].type = "session" /\ Len(Way) \in Nat
      /\ Len(Way') = Len(Way) - 1
      /\ \A i \in 1..Len(Way') : i + 1 \in 2..Len(Way) /\ Way'[i] = Way[i + 1]
      /\ \A i \in 2..Len(Way) : i - 1 \in 1..Len(Way') /\ Way'[i - 1] = Way[i]
  BY <1>1, Ahead
<1>3. cOffer = 0 /\ seen = 0
  BY <1>2 DEF Exchange, Flow, HelloFirst
<1>4. ~Has(Way, "answer")
  BY <1>3 DEF Exchange, Flow, AnswersFirst, Has
<1>5. /\ ~Has(Way', "answer") /\ (Has(Way, "offer") <=> Has(Way', "offer"))
  BY <1>1, <1>4, OrderTaken DEF Exchange
<1>6. Flow'
  BY <1>1, <1>5, FlowTaken DEF Exchange
<1>7. LastDescribed'
  <2>1. ~Describes(Way[1])
    BY <1>2 DEF Describes, Descriptions
  <2>2. Up' => Up
    BY <1>1 DEF Up, Active
  <2>3. QED BY <1>1, <2>1, <2>2, LastTaken DEF LastDescribed, Exchange, Talk
<1>8. CASE role = "answerer"
  <2>1. Pump(0, TRUE, call, <<>>)
    BY <1>8 DEF OnHello
  <2>2. /\ Adds /\ cOffer' = counter + 1 /\ cOffer' # 0 /\ wantOffer' = FALSE
        /\ cOffered' = cAttached'
    <3>1. cAttached' \subseteq ClientTracks
      BY <1>1 DEF Sound, Sides, Media
    <3>2. QED BY <2>1, <3>1, PumpOffers
  <2>3. CASE ~Up'
    <3>1. Talk'
      BY <2>3 DEF Talk, LastDescribed, AnswersBack, OffersBack, ServerWaits, ClientWaits, Answering
    <3>2. ClientOK'
      BY <2>2 DEF ClientOK
    <3>3. Tasking'
      <4>1. \A i \in 1..Len(toServer') : toServer'[i].type \in {"closed", "lost"} =>
              i \in 1..Len(toServer) /\ toServer'[i] = toServer[i]
        BY <2>2, MessageFields DEF Adds
      <4>2. QED BY <1>1, <2>2, <4>1, TaskingStays DEF Exchange
    <3>4. QED BY <1>6, <3>1, <3>2, <3>3 DEF Exchange
  <2>4. CASE Up'
    <3>1. Up
      BY <1>1, <2>4 DEF Up, Active
    <3>2. lock # "answer" /\ lock' # "answer"
      BY <1>1, <1>3, <3>1 DEF Exchange, Talk, Answering
    <3>3. \A i \in 1..Len(toServer) : toServer[i].type = "offer" => Later(toServer, i, "answer")
      BY <1>3, <3>1, AllGaveWay DEF Exchange, Talk
    <3>4. /\ OffersBack' /\ ClientWaits'
          /\ Has(toServer, "answer") <=> Has(toServer', "answer")
          /\ \A i \in 1..Len(toServer') : toServer'[i].type # "offer" =>
               i \in 1..Len(toServer) /\ toServer'[i] = toServer[i]
      BY <1>5, <2>2, <3>2, <3>3, OffersAdded
    <3>5. AnswersBack'
      BY <1>1, <1>5, <3>4, AnswersStay DEF Exchange, Talk
    <3>6. ServerWaits'
      BY <1>1, <1>5, <3>1, <3>4 DEF Exchange, Talk, ServerWaits, Stable
    <3>7. Answering'
      BY <1>1, <1>4, <1>5, <3>1, <3>2, <3>4 DEF Exchange, Talk, Answering
    <3>8. ClientOK'
      BY <2>2 DEF ClientOK
    <3>9. Tasking'
      BY <1>1, <2>2, <3>4, TaskingStays DEF Exchange
    <3>10. QED BY <1>6, <1>7, <3>4, <3>5, <3>6, <3>7, <3>8, <3>9 DEF Exchange, Talk
  <2>5. QED BY <2>3, <2>4
<1>9. CASE role # "answerer"
  <2>1. UNCHANGED <<cOffer, counter, wantOffer, cOffered, call, toServer>>
    BY <1>9 DEF OnHello
  <2>2. role = "offerer"
    BY <1>9 DEF Sound, Sides, Tasked
  <2>3. AnswersBack'
    BY <1>1, <1>5, <2>1, AnswersStay DEF Exchange, Talk
  <2>4. OffersBack'
    <3>1. \A i \in 1..Len(toServer) : Final(i)' <=> Final(i)
      BY <2>1 DEF Final
    <3>2. QED BY <1>1, <1>5, <2>1, <3>1 DEF Exchange, Talk, OffersBack, Later, Up, Active
  <2>5. ServerWaits'
    BY <1>1, <1>5, <2>1 DEF Exchange, Talk, ServerWaits, Stable, Up, Active
  <2>6. ClientWaits'
    BY <1>3, <2>1 DEF ClientWaits
  <2>7. Answering'
    BY <1>1, <1>4, <1>5, <2>1 DEF Exchange, Talk, Answering, Up, Active
  <2>8. ClientOK'
    BY <1>1, <2>1 DEF Exchange, ClientOK
  <2>9. Tasking'
    BY <1>1, <2>1, <2>2, TaskingStays DEF Exchange
  <2>10. QED BY <1>6, <1>7, <2>3, <2>4, <2>5, <2>6, <2>7, <2>8, <2>9 DEF Exchange, Talk
<1>10. QED BY <1>8, <1>9

\* The client takes the answer it waits for; what it added since it offers next.
LEMMA ExchangeOnAnswered ==
  ASSUME Sound, Exchange, ~finished, OnAnswered
  PROVE  Exchange'
<1>1. /\ UNCHANGED <<role, serverV, finished, made, candidates, cAttached>>
      /\ Takes("answer") /\ outbound' = outbound
  BY DEF OnAnswered
<1>2. /\ 1 \in 1..Len(Way) /\ Way[1].type = "answer" /\ Len(Way) \in Nat
      /\ Way[1] = Head(toClient)
  BY <1>1, Ahead
<1>3. Way[1].n = cOffer /\ cOffer # 0 /\ applied /\ Has(Way, "answer")
  BY <1>2 DEF Exchange, Flow, AnswersFirst, Has
<1>4. /\ cDescribed' = cOffered /\ cRemote' = Way[1].tracks /\ seen' = seen + 1
      /\ Pump(0, wantOffer, call, <<>>)
  BY <1>2, <1>3 DEF OnAnswered
<1>5. /\ ~Has(Way', "answer") /\ (Has(Way, "offer") <=> Has(Way', "offer"))
  BY <1>1, <1>4, OrderTaken DEF Exchange
<1>6. Flow'
  BY <1>1, <1>4, <1>5, FlowTaken DEF Exchange
<1>7. LastDescribed'
  <2>1. Describes(Way[1])
    BY <1>2 DEF Describes, Descriptions
  <2>2. Up' => Up
    BY <1>1 DEF Up, Active
  <2>3. QED BY <1>1, <1>4, <2>1, <2>2, LastTaken DEF LastDescribed, Exchange, Talk
<1>8. CASE wantOffer
  <2>1. Pump(0, TRUE, call, <<>>)
    BY <1>4, <1>8 DEF Sound, Sides, Flags
  <2>2. /\ Adds /\ cOffer' = counter + 1 /\ cOffer' # 0 /\ wantOffer' = FALSE
        /\ cOffered' = cAttached'
    <3>1. cAttached' \subseteq ClientTracks
      BY <1>1 DEF Sound, Sides, Media
    <3>2. QED BY <2>1, <3>1, PumpOffers
  <2>3. ClientOK'
    BY <2>2 DEF ClientOK
  <2>4. Tasking'
    <3>1. \A i \in 1..Len(toServer') : toServer'[i].type \in {"closed", "lost"} =>
            i \in 1..Len(toServer) /\ toServer'[i] = toServer[i]
      BY <2>2, MessageFields DEF Adds
    <3>2. QED BY <1>1, <2>2, <3>1, TaskingStays DEF Exchange
  <2>5. CASE ~Up'
    <3>1. Talk'
      BY <2>5 DEF Talk, LastDescribed, AnswersBack, OffersBack, ServerWaits, ClientWaits, Answering
    <3>2. QED BY <1>6, <2>3, <2>4, <3>1 DEF Exchange
  <2>6. CASE Up'
    <3>1. Up
      BY <1>1, <2>6 DEF Up, Active
    <3>2. lock # "answer" /\ lock' # "answer"
      BY <1>1, <1>3, <3>1 DEF Exchange, Talk, Answering
    <3>3. \A i \in 1..Len(toServer) : toServer[i].type = "offer" => Later(toServer, i, "answer")
      BY <1>3, <3>1, AllGaveWay DEF Exchange, Talk
    <3>4. /\ OffersBack' /\ ClientWaits'
          /\ Has(toServer, "answer") <=> Has(toServer', "answer")
          /\ \A i \in 1..Len(toServer') : toServer'[i].type # "offer" =>
               i \in 1..Len(toServer) /\ toServer'[i] = toServer[i]
      BY <1>5, <2>2, <3>2, <3>3, OffersAdded
    <3>5. ~Has(toServer, "answer")
      BY <1>3, <3>1 DEF Exchange, Talk, AnswersBack, Has
    <3>6. AnswersBack'
      BY <3>4, <3>5 DEF AnswersBack, Has
    <3>7. ServerWaits'
      BY <1>1, <1>5, <3>1, <3>4 DEF Exchange, Talk, ServerWaits, Stable
    <3>8. Answering'
      BY <1>1, <1>3, <1>4, <1>5, <3>1, <3>2 DEF Exchange, Talk, Answering
    <3>9. QED BY <1>6, <1>7, <2>3, <2>4, <3>4, <3>6, <3>7, <3>8 DEF Exchange, Talk
  <2>7. QED BY <2>5, <2>6
<1>9. CASE ~wantOffer
  <2>1. Pump(0, FALSE, call, <<>>)
    BY <1>4, <1>9 DEF Sound, Sides, Flags
  <2>2. toServer' = toServer /\ cOffer' = 0 /\ wantOffer' = FALSE /\ cOffered' = cOffered
    BY <2>1, PumpSettles
  <2>3. ClientOK'
    BY <1>1, <1>3, <1>4, <1>9, <2>2 DEF Exchange, ClientOK
  <2>4. Tasking'
    <3>1. Together'
      BY <1>1, <2>2 DEF Exchange, Tasking, Together, Active
    <3>2. Works' /\ Starts'
      BY <1>1, <1>3 DEF Exchange, Tasking, Works, Starts, Up, Active, Stable
    <3>3. QED BY <3>1, <3>2 DEF Tasking
  <2>5. CASE ~Up'
    <3>1. Talk'
      BY <2>5 DEF Talk, LastDescribed, AnswersBack, OffersBack, ServerWaits, ClientWaits, Answering
    <3>2. QED BY <1>6, <2>3, <2>4, <3>1 DEF Exchange
  <2>6. CASE Up'
    <3>1. Up
      BY <1>1, <2>6 DEF Up, Active
    <3>2. lock # "answer" /\ lock' # "answer"
      BY <1>1, <1>3, <3>1 DEF Exchange, Talk, Answering
    <3>3. ~Has(toServer, "answer")
      BY <1>3, <3>1 DEF Exchange, Talk, AnswersBack, Has
    <3>4. \A i \in 1..Len(toServer) : toServer[i].type # "offer"
      <4>1. \A i \in 1..Len(toServer) : toServer[i].type = "offer" => Later(toServer, i, "answer")
        BY <1>3, <3>1, AllGaveWay DEF Exchange, Talk
      <4>2. ASSUME NEW i \in 1..Len(toServer), Later(toServer, i, "answer") PROVE FALSE
        <5>1. PICK j \in (i + 1)..Len(toServer) : toServer[j].type = "answer"
          BY <4>2 DEF Later
        <5>2. j \in 1..Len(toServer)
          BY <4>2, <5>1, WayTyped
        <5>3. QED BY <3>3, <5>1, <5>2 DEF Has
      <4>3. QED BY <4>1, <4>2
    <3>5. AnswersBack' /\ OffersBack' /\ ClientWaits'
      BY <2>2, <3>3, <3>4 DEF AnswersBack, OffersBack, ClientWaits, Has
    <3>6. ServerWaits'
      BY <1>1, <1>5, <2>2, <3>1 DEF Exchange, Talk, ServerWaits, Stable
    <3>7. Answering'
      BY <1>1, <1>3, <1>4, <1>5, <3>1, <3>2 DEF Exchange, Talk, Answering
    <3>8. QED BY <1>6, <1>7, <2>3, <2>4, <3>5, <3>6, <3>7 DEF Exchange, Talk
  <2>7. QED BY <2>5, <2>6
<1>10. QED BY <1>8, <1>9

\* addTrack() adds a track: it is offered now, or with the next offer.
LEMMA ExchangePrepare ==
  ASSUME Sound, Exchange, ~finished, NEW t \in ClientTracks, Prepare(t)
  PROVE  Exchange'
<1> DEFINE calls == [call EXCEPT ![t] = IF @ = "called" THEN "added" ELSE @]
<1>1. /\ UNCHANGED <<role, serverV, finished, cDescribed, cRemote, seen, toClient, made, candidates>>
      /\ cAttached' = cAttached \cup {t} /\ call[t] # "none"
      /\ Pump(cOffer, TRUE, calls, <<>>)
  BY DEF Prepare
<1> HIDE DEF calls
<1>2. Way' = Way
  BY <1>1 DEF Way
<1>3. ~Has(Way, "session")
  BY <1>1 DEF Exchange, Flow, HelloFirst, Has
<1>4. cOffer = 0 => ~Has(Way, "answer")
  BY DEF Exchange, Flow, AnswersFirst, Has
<1>5. cOffer' = cOffer \/ cOffer = 0
  BY <1>1 DEF Pump
<1>6. Flow'
  <2>1. HelloFirst'
    BY <1>2, <1>3 DEF HelloFirst, Has
  <2>2. AnswersFirst'
    BY <1>1, <1>2, <1>4, <1>5 DEF Exchange, Flow, AnswersFirst, Has
  <2>3. OffersLast'
    BY <1>1, <1>2 DEF Exchange, Flow, OffersLast
  <2>4. Order'
    BY <1>1, <1>2 DEF Exchange, Flow, Order, Active
  <2>5. QED BY <2>1, <2>2, <2>3, <2>4 DEF Flow
<1>7. LastDescribed'
  BY <1>1, <1>2, LastStays DEF Exchange, Talk
<1>8. CASE cOffer = 0
  <2>1. Pump(0, TRUE, calls, <<>>)
    BY <1>1, <1>8
  <2>2. /\ Adds /\ cOffer' = counter + 1 /\ cOffer' # 0 /\ wantOffer' = FALSE
        /\ cOffered' = cAttached'
    <3>1. cAttached' \subseteq ClientTracks
      BY <1>1 DEF Sound, Sides, Media
    <3>2. QED BY <2>1, <3>1, PumpOffers
  <2>3. ClientOK'
    BY <2>2 DEF ClientOK
  <2>4. Tasking'
    <3>1. \A i \in 1..Len(toServer') : toServer'[i].type \in {"closed", "lost"} =>
            i \in 1..Len(toServer) /\ toServer'[i] = toServer[i]
      BY <2>2, MessageFields DEF Adds
    <3>2. QED BY <1>1, <2>2, <3>1, TaskingStays DEF Exchange
  <2>5. CASE ~Up'
    <3>1. Talk'
      BY <2>5 DEF Talk, LastDescribed, AnswersBack, OffersBack, ServerWaits, ClientWaits, Answering
    <3>2. QED BY <1>6, <2>3, <2>4, <3>1 DEF Exchange
  <2>6. CASE Up'
    <3>1. Up
      BY <1>1, <2>6 DEF Up, Active
    <3>2. lock # "answer" /\ lock' # "answer"
      BY <1>1, <1>8, <3>1 DEF Exchange, Talk, Answering
    <3>3. \A i \in 1..Len(toServer) : toServer[i].type = "offer" => Later(toServer, i, "answer")
      BY <1>8, <3>1, AllGaveWay DEF Exchange, Talk
    <3>4. /\ OffersBack' /\ ClientWaits'
          /\ Has(toServer, "answer") <=> Has(toServer', "answer")
          /\ \A i \in 1..Len(toServer') : toServer'[i].type # "offer" =>
               i \in 1..Len(toServer) /\ toServer'[i] = toServer[i]
      BY <1>2, <1>4, <1>8, <2>2, <3>2, <3>3, OffersAdded
    <3>5. AnswersBack'
      BY <1>1, <1>2, <3>4, AnswersStay DEF Exchange, Talk
    <3>6. ServerWaits'
      BY <1>1, <1>2, <3>1, <3>4 DEF Exchange, Talk, ServerWaits, Stable
    <3>7. Answering'
      BY <1>1, <1>2, <1>4, <1>8, <3>1, <3>2, <3>4 DEF Exchange, Talk, Answering
    <3>8. QED BY <1>6, <1>7, <2>3, <2>4, <3>4, <3>5, <3>6, <3>7 DEF Exchange, Talk
  <2>7. QED BY <2>5, <2>6
<1>9. CASE cOffer # 0
  <2>1. /\ cOffer' = cOffer /\ wantOffer' = TRUE /\ toServer' = toServer \o <<>>
        /\ cOffered' = cOffered
    BY <1>1, <1>9 DEF Pump
  <2>2. toServer' = toServer
    <3>1. toServer \in Seq(Upward)
      BY DEF Sound, Queues
    <3>2. QED BY <2>1, <3>1
  <2>3. ClientOK'
    BY <1>9, <2>1 DEF ClientOK
  <2>4. Tasking'
    BY <1>1, <1>9, <2>1, <2>2, TaskingStays DEF Exchange
  <2>5. AnswersBack'
    BY <1>1, <1>2, <2>2, AnswersStay DEF Exchange, Talk
  <2>6. \A i \in 1..Len(toServer) : Final(i)' <=> Final(i)
    BY <2>2 DEF Final
  <2>7. OffersBack'
    BY <1>1, <1>2, <2>1, <2>2, <2>6 DEF Exchange, Talk, OffersBack, Later, Up, Active
  <2>8. ServerWaits'
    BY <1>1, <1>2, <2>2 DEF Exchange, Talk, ServerWaits, Stable, Up, Active
  <2>9. ClientWaits'
    BY <1>1, <1>2, <2>1, <2>2, <2>6 DEF Exchange, Talk, ClientWaits, Up, Active
  <2>10. Answering'
    BY <1>1, <1>2, <2>1, <2>2 DEF Exchange, Talk, Answering, Up, Active
  <2>11. QED BY <1>6, <1>7, <2>3, <2>4, <2>5, <2>7, <2>8, <2>9, <2>10 DEF Exchange, Talk
<1>10. QED BY <1>8, <1>9

\* The answer of a client that gives way goes out at place K, and behind it the
\* offer that it still wants.
Replies(K, n, tracks, wants) ==
  /\ K = Len(toServer) + 1 /\ Len(toServer) \in Nat
  /\ Len(toServer') = IF wants THEN K + 1 ELSE K
  /\ \A i \in 1..Len(toServer) : toServer'[i] = toServer[i]
  /\ toServer'[K] = Message("answer", n, tracks)
  /\ wantOffer' = FALSE
  /\ wants => /\ toServer'[K + 1] = Message("offer", counter + 1, cAttached')
              /\ cOffer' = counter + 1 /\ cOffer' # 0 /\ cOffered' = cAttached'
  /\ ~wants => cOffer' = 0 /\ cOffered' = cOffered

\* pump after an answer
LEMMA PumpAnswers ==
  ASSUME Sound, NEW n \in Nat, NEW tracks \in SUBSET ClientTracks, NEW wants \in BOOLEAN, NEW calls,
         cAttached' \subseteq ClientTracks,
         Pump(0, wants, calls, <<Message("answer", n, tracks)>>)
  PROVE  \E K \in Nat : Replies(K, n, tracks, wants)
<1> DEFINE answer == Message("answer", n, tracks)
           offer  == Message("offer", counter + 1, cAttached')
<1>1. toServer \in Seq(Upward) /\ counter \in Nat /\ counter + 1 \in Nat /\ counter + 1 # 0
  BY DEF Sound, Queues, Sides, Numbers
<1>2. answer \in Upward /\ offer \in Upward
  BY <1>1, SayableOne
<1>3. /\ wants => /\ toServer' = toServer \o <<answer>> \o <<offer>>
                  /\ cOffer' = counter + 1 /\ cOffered' = cAttached'
      /\ ~wants => toServer' = toServer \o <<answer>> /\ cOffer' = 0 /\ cOffered' = cOffered
      /\ wantOffer' = FALSE
  BY DEF Pump
<1> HIDE DEF answer, offer
<1>4. toServer \o <<answer>> = Append(toServer, answer)
  BY <1>1, <1>2, AppendJoin
<1>5. /\ Append(toServer, answer) \in Seq(Upward) /\ Len(toServer) \in Nat
      /\ Len(Append(toServer, answer)) = Len(toServer) + 1
      /\ \A i \in 1..Len(toServer) : Append(toServer, answer)[i] = toServer[i]
      /\ Append(toServer, answer)[Len(toServer) + 1] = answer
  BY <1>1, <1>2, AppendElements
<1>6. PICK K \in Nat : K = Len(toServer) + 1
  BY <1>5
<1>7. CASE wants
  <2>1. toServer' = Append(Append(toServer, answer), offer)
    <3>1. Append(toServer, answer) \o <<offer>> = Append(Append(toServer, answer), offer)
      BY <1>2, <1>5, AppendJoin
    <3>2. QED BY <1>3, <1>4, <1>7, <3>1
  <2>2. /\ Len(toServer') = K + 1 /\ toServer'[K + 1] = offer
        /\ \A i \in 1..K : toServer'[i] = Append(toServer, answer)[i]
    BY <1>2, <1>5, <1>6, <2>1, AppendElements
  <2>3. toServer'[K] = answer /\ \A i \in 1..Len(toServer) : toServer'[i] = toServer[i]
    BY <1>5, <1>6, <2>2
  <2>4. QED BY <1>1, <1>3, <1>5, <1>6, <1>7, <2>2, <2>3 DEF answer, offer, Replies
<1>8. CASE ~wants
  <2>1. toServer' = Append(toServer, answer)
    BY <1>3, <1>4, <1>8
  <2>2. /\ Len(toServer') = K /\ toServer'[K] = answer
        /\ \A i \in 1..Len(toServer) : toServer'[i] = toServer[i]
    BY <1>5, <1>6, <2>1
  <2>3. QED BY <1>3, <1>5, <1>6, <1>8, <2>2 DEF answer, Replies
<1>9. QED BY <1>7, <1>8

\* The client takes an offer: it answers, and makes the offer that gave way again.
LEMMA ExchangeOnOffer ==
  ASSUME Sound, Exchange, ~finished, OnOffer
  PROVE  Exchange'
<1>1. /\ UNCHANGED <<role, serverV, finished, made, candidates, cAttached>>
      /\ Takes("offer") /\ outbound' = outbound
      /\ cRemote' = Head(toClient).tracks /\ seen' = seen + 1
  BY DEF OnOffer
<1>2. /\ 1 \in 1..Len(Way) /\ Way[1].type = "offer" /\ Len(Way) \in Nat
      /\ Way[1] = Head(toClient)
  BY <1>1, Ahead
<1>3. Way[1].n = localOffer /\ localOffer # 0 /\ Has(Way, "offer")
  BY <1>2 DEF Exchange, Flow, OffersLast, Has
<1>4. lock' = "free" /\ Head(toClient).n = localOffer /\ localOffer \in Nat
  BY <1>1, <1>2, <1>3 DEF Sound, Locked, Stable, Sides, Tasked, Numbers
<1>5. /\ ~Has(Way', "session") /\ ~Has(Way', "offer") /\ ~Has(Way', "answer")
      /\ ~Has(Way, "answer")
  BY <1>1, OrderTaken DEF Exchange
<1>6. ~Has(Way, "session")
  <2>1. SUFFICES ASSUME NEW i \in 1..Len(Way), Way[i].type = "session" PROVE FALSE
    BY DEF Has
  <2>2. i = 1
    BY <2>1 DEF Exchange, Flow, HelloFirst
  <2>3. QED BY <1>2, <2>1, <2>2
<1>7. Flow'
  BY <1>1, <1>5, FlowTaken DEF Exchange
<1>8. LastDescribed'
  <2>1. Describes(Way[1])
    BY <1>2 DEF Describes, Descriptions
  <2>2. Up' => Up
    BY <1>1 DEF Up, Active
  <2>3. QED BY <1>1, <1>2, <2>1, <2>2, LastTaken DEF LastDescribed, Exchange, Talk
<1>9. PICK more \in SUBSET (cAttached \ cDescribed) :
        /\ cDescribed' = cDescribed \cup more
        /\ Pump(0, Wants, call, <<Message("answer", Head(toClient).n, cDescribed \cup more)>>)
  BY DEF OnOffer
<1>10. Wants \in BOOLEAN /\ (cOffer # 0 => Wants) /\ (~Wants => cOffer = 0 /\ ~wantOffer)
  BY DEF Wants, Sound, Sides, Flags
<1>11. /\ cAttached' \subseteq ClientTracks /\ cDescribed' \in SUBSET ClientTracks
       /\ Pump(0, Wants, call, <<Message("answer", localOffer, cDescribed')>>)
  BY <1>1, <1>4, <1>9 DEF Sound, Sides, Media
<1>12. PICK K \in Nat :
         /\ K = Len(toServer) + 1 /\ Len(toServer) \in Nat
         /\ Len(toServer') = IF Wants THEN K + 1 ELSE K
         /\ \A i \in 1..Len(toServer) : toServer'[i] = toServer[i]
         /\ toServer'[K] = Message("answer", localOffer, cDescribed')
         /\ wantOffer' = FALSE
         /\ Wants => /\ toServer'[K + 1] = Message("offer", counter + 1, cAttached')
                     /\ cOffer' = counter + 1 /\ cOffer' # 0 /\ cOffered' = cAttached'
         /\ ~Wants => cOffer' = 0 /\ cOffered' = cOffered
  <2>1. PICK K \in Nat : Replies(K, localOffer, cDescribed', Wants)
    BY <1>4, <1>10, <1>11, PumpAnswers
  <2>2. QED BY <2>1 DEF Replies
<1>13. ClientOK'
  <2>1. CASE Wants
    BY <1>12, <2>1 DEF ClientOK
  <2>2. CASE ~Wants
    <3>1. cDescribed' = cAttached' /\ cOffer' = 0 /\ ~wantOffer'
      BY <1>1, <1>9, <1>10, <1>12, <2>2 DEF Exchange, ClientOK
    <3>2. QED BY <3>1 DEF ClientOK
  <2>3. QED BY <2>1, <2>2
<1>14. /\ toServer'[K].type = "answer" /\ toServer'[K].n = localOffer
       /\ toServer'[K].tracks = cDescribed' /\ K \in 1..Len(toServer')
       /\ Wants => /\ toServer'[K + 1].type = "offer" /\ toServer'[K + 1].n = cOffer'
                   /\ toServer'[K + 1].tracks = cOffered' /\ K + 1 \in 1..Len(toServer')
  <2>1. K \in 1..Len(toServer') /\ (Wants => K + 1 \in 1..Len(toServer'))
    BY <1>12
  <2>2. QED BY <1>12, <2>1, MessageFields
<1>15. ASSUME NEW i \in 1..Len(toServer')
       PROVE  \/ i \in 1..Len(toServer) /\ toServer'[i] = toServer[i]
              \/ i = K
              \/ Wants /\ i = K + 1
  BY <1>12, <1>15
<1>16. Tasking'
  <2>1. \A i \in 1..Len(toServer') : toServer'[i].type \in {"closed", "lost"} =>
          i \in 1..Len(toServer) /\ toServer'[i] = toServer[i]
    BY <1>14, <1>15
  <2>2. Has(Way, "session") \/ cOffer # 0 => Has(Way', "session") \/ cOffer' # 0 \/ role = "offerer"
    BY <1>6, <1>10, <1>12
  <2>3. QED BY <1>1, <2>1, <2>2, TaskingStays DEF Exchange
<1>17. CASE ~Up'
  <2>1. Talk'
    BY <1>17 DEF Talk, LastDescribed, AnswersBack, OffersBack, ServerWaits, ClientWaits, Answering
  <2>2. QED BY <1>7, <1>13, <1>16, <2>1 DEF Exchange
<1>18. CASE Up'
  <2>1. Up
    BY <1>1, <1>18 DEF Up, Active
  <2>2. ~Has(toServer, "answer")
    BY <1>3, <2>1 DEF Exchange, Talk, AnswersBack, Has
  <2>3. \A i \in 1..Len(toServer') : toServer'[i].type = "answer" => i = K
    BY <1>14, <1>15, <2>2 DEF Has
  <2>4. Has(toServer', "answer")
    BY <1>14 DEF Has
  <2>5. AnswersBack'
    BY <1>1, <1>3, <1>5, <1>14, <2>3 DEF AnswersBack
  <2>6. Wants => \E L \in Nat : L = K + 1 /\ Final(L)'
    <3>1. PICK L \in Nat : L = K + 1
      BY <1>12
    <3>2. Wants => Final(L)'
      BY <1>12, <3>1 DEF Final
    <3>3. QED BY <3>1, <3>2
  <2>7. OffersBack'
    <3>1. SUFFICES ASSUME NEW i \in 1..Len(toServer'), toServer'[i].type = "offer"
                   PROVE  \/ Later(toServer', i, "answer")
                          \/ /\ Final(i)' /\ toServer'[i].n = cOffer' /\ cOffer' # 0
                             /\ toServer'[i].tracks = cOffered'
                             /\ ~Has(Way', "answer") /\ lock' # "answer"
      BY DEF OffersBack
    <3>2. CASE i \in 1..Len(toServer)
      <4>1. K \in (i + 1)..Len(toServer')
        BY <1>12, <1>14, <3>2
      <4>2. QED BY <1>14, <4>1 DEF Later
    <3>3. CASE Wants /\ i = K + 1
      BY <1>4, <1>5, <1>12, <1>14, <2>6, <3>3
    <3>4. QED BY <1>14, <1>15, <3>1, <3>2, <3>3
  <2>8. ClientWaits'
    <3>1. CASE Wants
      <4>1. \E i \in 1..Len(toServer') : toServer'[i].type = "offer" /\ Final(i)'
        BY <1>14, <2>6, <3>1
      <4>2. QED BY <4>1 DEF ClientWaits
    <3>2. CASE ~Wants
      BY <1>12, <3>2 DEF ClientWaits
    <3>3. QED BY <3>1, <3>2
  <2>9. ServerWaits'
    BY <2>4 DEF ServerWaits
  <2>10. Answering'
    BY <1>4, <1>5, <2>4 DEF Answering
  <2>11. QED BY <1>7, <1>8, <1>13, <1>16, <2>5, <2>7, <2>8, <2>9, <2>10 DEF Exchange, Talk
<1>19. QED BY <1>17, <1>18

-----------------------------------------------------------------------------
(* The theorems *)

\* The exchange starts with the greeting.
LEMMA ExchangeInit ==
  ASSUME Init PROVE Exchange
<1>1. Way = <<Message("session", 0, {})>> /\ Len(Way) = 1 /\ Way[1].type = "session"
  <2>1. toClient = <<Message("session", 0, {})>> /\ outbound = <<>>
    BY DEF Init
  <2>2. <<Message("session", 0, {})>> \o <<>> = <<Message("session", 0, {})>>
    BY DEF Message
  <2>3. Way = <<Message("session", 0, {})>>
    BY <2>1, <2>2 DEF Way
  <2>4. QED BY <2>3, MessageFields
<1>2. /\ toServer = <<>> /\ held = <<>> /\ Len(toServer) = 0 /\ Len(held) = 0
      /\ cOffer = 0 /\ wantOffer = FALSE /\ seen = 0 /\ made = 0 /\ applied = FALSE
      /\ localOffer = 0 /\ lock = "free" /\ signaling = "open" /\ reader = "read"
      /\ described = {} /\ cRemote = {} /\ remote = {} /\ cDescribed = {} /\ cAttached = {}
      /\ role \in Roles /\ starter = IF role = "offerer" THEN "todo" ELSE "done"
      /\ \A t \in ClientTracks : call[t] = "none"
  BY DEF Init
<1>3. \A i \in 1..Len(Way) : i = 1 /\ Way[i].type = "session"
  BY <1>1
<1>4. ~Has(Way, "answer") /\ ~Has(Way, "offer") /\ Has(Way, "session")
  BY <1>1, <1>3 DEF Has
<1>5. HelloFirst /\ AnswersFirst /\ OffersLast
  BY <1>2, <1>3 DEF HelloFirst, AnswersFirst, OffersLast
<1>6. Order
  <2>1. One(Has(Way, "answer")) = 0 /\ One(Has(Way, "offer")) = 0
    BY <1>4 DEF One
  <2>2. QED BY <1>2, <1>3, <2>1 DEF Order
<1>7. ClientOK
  BY <1>2 DEF ClientOK
<1>8. LastDescribed
  BY <1>2, <1>3 DEF LastDescribed, Describes, Descriptions
<1>9. AnswersBack /\ OffersBack
  BY <1>2 DEF AnswersBack, OffersBack
<1>10. ServerWaits /\ ClientWaits /\ Answering
  BY <1>2, <1>4 DEF ServerWaits, ClientWaits, Answering, Stable
<1>11. Together /\ Works /\ Starts
  BY <1>2, <1>4 DEF Together, Works, Starts, Has
<1>12. QED BY <1>5, <1>6, <1>7, <1>8, <1>9, <1>10, <1>11 DEF Exchange, Flow, Talk, Tasking

\* Nothing happens.
LEMMA ExchangeStutter ==
  ASSUME Exchange, UNCHANGED vars PROVE Exchange'
<1>1. Way' = Way
  BY DEF vars, serverV, Way
<1>2. \A i \in 1..Len(toServer) : Final(i)' <=> Final(i)
  BY DEF Final, vars
<1>3. UNCHANGED <<role, code, signaling, reader, starter, track, lock, echo, localOffer, unsent, applied,
                  held, attached, described, remote, finished, cOffer, wantOffer, call, cAttached,
                  cOffered, cDescribed, cRemote, toServer, made, seen>>
  BY DEF vars, serverV, clientV, taskV, lockV, offerV, peerV, mediaV
<1>4. Flow'
  BY <1>1, <1>3 DEF Exchange, Flow, HelloFirst, AnswersFirst, OffersLast, Order, Active
<1>5. ClientOK' /\ Tasking'
  BY <1>1, <1>3 DEF Exchange, ClientOK, Tasking, Together, Works, Starts, Up, Active, Stable
<1>6. LastDescribed' /\ AnswersBack' /\ ServerWaits' /\ Answering'
  BY <1>1, <1>3 DEF Exchange, Talk, LastDescribed, AnswersBack, ServerWaits, Answering, Up, Active, Stable
<1>7. OffersBack' /\ ClientWaits'
  BY <1>1, <1>2, <1>3 DEF Exchange, Talk, OffersBack, ClientWaits, Up, Active
<1>8. QED BY <1>4, <1>5, <1>6, <1>7 DEF Exchange, Talk

\* A client that is gone does not come back.
LEMMA GoneForGood ==
  ASSUME finished, [Next]_vars PROVE finished'
<1>1. CASE Client
  BY <1>1 DEF Client, OnHello, OnOffer, OnAnswered, OnOther, Takes, Closed, Finish, Prepare
<1>2. CASE Calls
  BY <1>2 DEF Calls, SendTrack, AddTrack, clientV
<1>3. CASE Environment
  BY <1>3 DEF Environment, OnLocalCandidate, OnIceCandidate, AnswerTimeout, DescribeFails,
     Disconnect, Finish, clientV
<1>4. CASE Server
  BY <1>4 DEF Server, Renegotiate, RenegotiateFails, Return, MakeOffer, IgnoreOffer, AcceptOffer,
     MakeAnswer, OnAnswer, Check, OnCandidate, OnClosed, Abandon, clientV
<1>5. CASE Write \/ GraceOver \/ Over \/ UNCHANGED vars
  BY <1>5 DEF Write, GraceOver, Over, clientV, vars
<1>6. QED BY <1>1, <1>2, <1>3, <1>4, <1>5 DEF Next

\* No step of either side breaks the exchange.
LEMMA ExchangeNext ==
  ASSUME Sound, Exchange, [Next]_vars PROVE Exchange'
<1>1. CASE finished'
  BY <1>1, GoneExchange
<1>2. CASE UNCHANGED vars
  BY <1>2, ExchangeStutter
<1>3. CASE ~finished' /\ Next
  <2>1. ~finished
    BY <1>3, GoneForGood
  <2>2. CASE Calls
    BY <2>1, <2>2, ExchangeSendTrack, ExchangeAddTrack DEF Calls
  <2>3. CASE Environment
    <3>1. ~Disconnect("lost") /\ ~Disconnect("closed")
      BY <1>3 DEF Disconnect, Finish
    <3>2. QED BY <2>1, <2>3, <3>1, ExchangeOnLocalCandidate, ExchangeOnIceCandidate,
                 ExchangeAnswerTimeout, ExchangeDescribeFails DEF Environment
  <2>4. CASE Server
    BY <2>1, <2>4, ExchangeRenegotiate, ExchangeNoSocket, ExchangeReturn, ExchangeMakeOffer,
       ExchangeIgnoreOffer, ExchangeAcceptOffer, ExchangeMakeAnswer, ExchangeOnAnswer,
       ExchangeCheck, ExchangeOnCandidate, ExchangeOnClosed, ExchangeAbandon DEF Server
  <2>5. CASE Client
    <3>1. ~Closed
      BY <1>3 DEF Closed, Finish
    <3>2. QED BY <2>1, <2>5, <3>1, ExchangeOnHello, ExchangeOnOffer, ExchangeOnAnswered,
                 ExchangeOnOther, ExchangePrepare DEF Client
  <2>6. CASE Write
    BY <2>1, <2>6, ExchangeWrite
  <2>7. CASE GraceOver
    BY <2>1, <2>7, ExchangeNoSocket
  <2>8. CASE Over
    BY <2>8, ExchangeStutter DEF Over
  <2>9. QED BY <1>3, <2>2, <2>3, <2>4, <2>5, <2>6, <2>7, <2>8 DEF Next
<1>4. QED BY <1>1, <1>2, <1>3

\* When nothing is on its way, both sides have what the other has described.
LEMMA QuietAgrees ==
  ASSUME Sound, Exchange PROVE Agreement
<1>1. SUFFICES ASSUME Quiet
               PROVE  /\ Stable /\ cOffer = 0 /\ ~wantOffer /\ applied
                      /\ cRemote = described /\ described = attached
                      /\ remote = cDescribed /\ cDescribed = cAttached
  BY DEF Agreement
<1>2. /\ Up /\ ~finished /\ lock = "free" /\ reader = "read" /\ starter = "done"
      /\ toClient = <<>> /\ toServer = <<>> /\ outbound = <<>>
      /\ \A t \in ServerTracks : track[t] \in {"none", "done"}
      /\ ~Broken
  BY <1>1 DEF Quiet, Idle, Up
<1>3. Len(Way) = 0 /\ Len(toServer) = 0
  BY <1>2, WayTyped
<1>4. /\ ~Has(Way, "session") /\ ~Has(Way, "offer") /\ ~Has(Way, "answer")
      /\ ~Has(toServer, "answer")
  BY <1>3 DEF Has
<1>5. Stable /\ ~unsent
  BY <1>2, <1>4 DEF Exchange, Talk, ServerWaits, Stable, Sound, Locked
<1>6. cOffer = 0
  BY <1>2, <1>3, <1>4, <1>5 DEF Exchange, Talk, ClientWaits
<1>7. ~wantOffer /\ cDescribed = cAttached
  BY <1>2, <1>6 DEF Exchange, ClientOK
<1>8. applied
  BY <1>2, <1>4, <1>5, <1>6 DEF Exchange, Tasking, Starts
<1>9. cRemote = described
  BY <1>2, <1>3 DEF Exchange, Talk, LastDescribed
<1>10. remote = cDescribed
  BY <1>2, <1>4 DEF Exchange, Talk, Answering
<1>11. described = attached
  BY <1>2, <1>5, <1>8 DEF Exchange, Tasking, Works
<1>12. QED BY <1>5, <1>6, <1>7, <1>8, <1>9, <1>10, <1>11

\* The candidate at place i is preceded by as many descriptions as Order says.
LEMMA DescriptionsBefore ==
  ASSUME Sound, NEW i \in 1..Len(toClient)
  PROVE  One(Upto(Way, i, "answer")) + One(Upto(Way, i, "offer"))
           <= Cardinality({j \in 1..i : toClient[j].type \in Descriptions})
<1> DEFINE D == {j \in 1..i : toClient[j].type \in Descriptions}
<1>1. /\ \A j \in 1..i : Way[j] = toClient[j]
      /\ i \in Nat
  BY WayTyped
<1>2. IsFiniteSet(1..i)
  <2>1. 1 \in Int /\ i \in Int
    BY <1>1
  <2>2. QED BY <2>1, FS_Interval
<1>3. IsFiniteSet(D) /\ Cardinality(D) \in Nat
  BY <1>2, FS_Subset, FS_CardinalityType
<1>4. ASSUME NEW type \in Descriptions, Upto(Way, i, type)
      PROVE  \E j \in D : toClient[j].type = type
  BY <1>1, <1>4 DEF Upto
<1>5. D # {} => Cardinality(D) # 0
  BY <1>3, FS_EmptySet
<1>6. CASE Upto(Way, i, "answer") /\ Upto(Way, i, "offer")
  <2>1. PICK a \in D : toClient[a].type = "answer"
    BY <1>4, <1>6 DEF Descriptions
  <2>2. PICK o \in D : toClient[o].type = "offer"
    BY <1>4, <1>6 DEF Descriptions
  <2>3. a # o
    BY <2>1, <2>2
  <2>4. Cardinality(D) # 1
    <3>1. SUFFICES ASSUME Cardinality(D) = 1 PROVE FALSE
      OBVIOUS
    <3>2. PICK x : D = {x}
      BY <1>3, <3>1, FS_Singleton
    <3>3. QED BY <2>1, <2>2, <2>3, <3>2
  <2>5. Cardinality(D) >= 2
    <3>1. Cardinality(D) # 0
      BY <1>5, <2>1
    <3>2. QED BY <1>3, <2>4, <3>1
  <2>6. One(Upto(Way, i, "answer")) = 1 /\ One(Upto(Way, i, "offer")) = 1
    BY <1>6 DEF One
  <2>7. QED BY <1>3, <2>5, <2>6
<1>7. CASE ~(Upto(Way, i, "answer") /\ Upto(Way, i, "offer"))
  <2>1. CASE Upto(Way, i, "answer") \/ Upto(Way, i, "offer")
    <3>1. Cardinality(D) >= 1
      <4>1. D # {}
        BY <1>4, <2>1 DEF Descriptions
      <4>2. QED BY <1>3, <1>5, <4>1
    <3>2. \/ One(Upto(Way, i, "answer")) = 0 /\ One(Upto(Way, i, "offer")) = 1
          \/ One(Upto(Way, i, "answer")) = 1 /\ One(Upto(Way, i, "offer")) = 0
      BY <1>7, <2>1 DEF One
    <3>3. QED BY <1>3, <3>1, <3>2
  <2>2. CASE ~(Upto(Way, i, "answer") \/ Upto(Way, i, "offer"))
    <3>1. One(Upto(Way, i, "answer")) = 0 /\ One(Upto(Way, i, "offer")) = 0
      BY <2>2 DEF One
    <3>2. QED BY <1>3, <3>1
  <2>3. QED BY <2>1, <2>2
<1>8. QED BY <1>6, <1>7

-----------------------------------------------------------------------------
(* Candidates without a description *)

\* Every candidate in a queue belongs to a description.
Numbered(q) == \A i \in 1..Len(q) : q[i].type = "candidate" => q[i].n # 0

\* Only a call of send_track() that failed, or the end of the session, leaves
\* candidates without one.
Traced == Active /\ ~Broken => Numbered(held) /\ Numbered(outbound) /\ Numbered(toClient)

LEMMA NumberedTail ==
  ASSUME NEW T, NEW q \in Seq(T), q # <<>>, Numbered(q)
  PROVE  Numbered(Tail(q))
  BY TailElements DEF Numbered

LEMMA NumberedJoin ==
  ASSUME NEW T, NEW q \in Seq(T), NEW r \in Seq(T), Numbered(q), Numbered(r)
  PROVE  Numbered(q \o r)
<1>1. SUFFICES ASSUME NEW i \in 1..Len(q \o r), (q \o r)[i].type = "candidate"
               PROVE  (q \o r)[i].n # 0
  BY DEF Numbered
<1>2. /\ Len(q \o r) = Len(q) + Len(r) /\ Len(q) \in Nat /\ Len(r) \in Nat
      /\ (q \o r)[i] = IF i <= Len(q) THEN q[i] ELSE r[i - Len(q)]
  BY JoinElements
<1>3. CASE i <= Len(q)
  <2>1. i \in 1..Len(q) /\ (q \o r)[i] = q[i]
    BY <1>2, <1>3
  <2>2. QED BY <1>1, <2>1 DEF Numbered
<1>4. CASE ~(i <= Len(q))
  <2>1. i - Len(q) \in 1..Len(r) /\ (q \o r)[i] = r[i - Len(q)]
    BY <1>2, <1>4
  <2>2. QED BY <1>1, <2>1 DEF Numbered
<1>5. QED BY <1>3, <1>4

LEMMA NumberedAppend ==
  ASSUME NEW T, NEW q \in Seq(T), NEW m \in T, Numbered(q), m.type = "candidate" => m.n # 0
  PROVE  Numbered(Append(q, m))
<1>1. /\ Len(Append(q, m)) = Len(q) + 1 /\ Len(q) \in Nat
      /\ \A i \in 1..Len(q) : Append(q, m)[i] = q[i]
      /\ Append(q, m)[Len(q) + 1] = m
  BY AppendElements
<1>2. ASSUME NEW i \in 1..Len(Append(q, m)), Append(q, m)[i].type = "candidate"
      PROVE  Append(q, m)[i].n # 0
  <2>1. CASE i = Len(q) + 1
    BY <1>1, <1>2, <2>1
  <2>2. CASE i # Len(q) + 1
    <3>1. i \in 1..Len(q)
      BY <1>1, <1>2, <2>2
    <3>2. QED BY <1>1, <1>2, <3>1 DEF Numbered
  <2>3. QED BY <2>1, <2>2
<1>3. QED BY <1>2 DEF Numbered

\* One message by itself, and with what was held back behind it.
LEMMA NumberedOne ==
  ASSUME NEW type, NEW n, NEW tracks, type = "candidate" => n # 0
  PROVE  Numbered(<<Message(type, n, tracks)>>)
<1>1. Len(<<Message(type, n, tracks)>>) = 1 /\ <<Message(type, n, tracks)>>[1] = Message(type, n, tracks)
  OBVIOUS
<1>2. QED BY <1>1, MessageFields DEF Numbered

LEMMA NumberedDescription ==
  ASSUME Sound, Numbered(held), NEW type \in {"offer", "answer"}, NEW n \in Nat,
         NEW tracks \in SUBSET attached
  PROVE  Numbered(<<Message(type, n, tracks)>> \o held)
<1>1. tracks \in SUBSET AllTracks
  BY DEF Sound, Sides, Media, AllTracks
<1>2. <<Message(type, n, tracks)>> \in Seq(Down)
  BY <1>1, SayOne
<1>3. held \in Seq(Down)
  <2>1. Messages({"candidate"}) \subseteq Down
    BY DEF Messages, Down
  <2>2. QED BY <2>1, Wider DEF Sound, Queues
<1>4. Numbered(<<Message(type, n, tracks)>>)
  BY NumberedOne
<1>5. QED BY <1>2, <1>3, <1>4, NumberedJoin

\* _send adds what it is given.
LEMMA NumberedSend ==
  ASSUME Sound, NEW messages \in Seq(Down), Send(messages), Numbered(outbound), Numbered(messages)
  PROVE  Numbered(outbound')
<1>1. outbound' = outbound \/ outbound' = outbound \o messages
  BY DEF Send
<1>2. Numbered(outbound \o messages)
  BY NumberedJoin DEF Sound, Queues
<1>3. QED BY <1>1, <1>2

\* A call that failed stays so.
LEMMA BrokenForGood ==
  ASSUME Sound, Broken, Next PROVE Broken'
<1>1. PICK t \in ServerTracks : track[t] = "failed"
  OBVIOUS
<1>2. track \in [ServerTracks -> {"none", "added", "waiting", "settled", "done", "failed"}]
  BY DEF Sound, Sides, Tasked
<1>3. track'[t] = "failed"
  <2>1. CASE Calls
    BY <1>1, <1>2, <2>1 DEF Calls, SendTrack, AddTrack
  <2>2. CASE Environment
    <3>1. CASE DescribeFails
      BY <1>1, <1>2, <3>1 DEF DescribeFails, Continue
    <3>2. QED BY <1>1, <2>2, <3>1 DEF Environment, OnLocalCandidate, OnIceCandidate, AnswerTimeout,
                 Disconnect, Finish
  <2>3. CASE Server
    <3>1. CASE \E w \in Tasks : Renegotiate(w) \/ RenegotiateFails(w)
      BY <1>1, <1>2, <3>1 DEF Renegotiate, RenegotiateFails, Renegotiating, Continue
    <3>2. CASE MakeOffer
      BY <1>1, <1>2, <3>2 DEF MakeOffer, Continue, Sound, Locked
    <3>3. CASE OnAnswer
      BY <1>1, <3>3 DEF OnAnswer, Settled
    <3>4. CASE Abandon
      BY <1>1, <3>4 DEF Abandon
    <3>5. CASE \E u \in ServerTracks : Return(u)
      BY <1>1, <1>2, <3>5 DEF Return
    <3>6. QED BY <1>1, <2>3, <3>1, <3>2, <3>3, <3>4, <3>5 DEF Server, IgnoreOffer, AcceptOffer,
                 MakeAnswer, Check, OnCandidate, OnClosed
  <2>4. CASE Client
    BY <1>1, <2>4 DEF Client, OnHello, OnOffer, OnAnswered, OnOther, Closed, Finish, Prepare
  <2>5. CASE Write \/ GraceOver \/ Over
    BY <1>1, <2>5 DEF Write, GraceOver, Over, vars
  <2>6. QED BY <2>1, <2>2, <2>3, <2>4, <2>5 DEF Next
<1>4. QED BY <1>3

\* A session that has ended stays so.
LEMMA EndedForGood ==
  ASSUME ~Active, Next PROVE ~Active'
<1>1. CASE Calls
  BY <1>1 DEF Calls, SendTrack, AddTrack, Active
<1>2. CASE Environment
  BY <1>2 DEF Environment, OnLocalCandidate, OnIceCandidate, AnswerTimeout, DescribeFails, Disconnect,
              Finish, Active
<1>3. CASE Server
  BY <1>3 DEF Server, Renegotiate, RenegotiateFails, Return, MakeOffer, IgnoreOffer, AcceptOffer,
              MakeAnswer, OnAnswer, Check, OnCandidate, OnClosed, Reads, Abandon, Active
<1>4. CASE Client
  BY <1>4 DEF Client, OnHello, OnOffer, OnAnswered, OnOther, Closed, Finish, Prepare, serverV, Active
<1>5. CASE Write \/ GraceOver \/ Over
  BY <1>5 DEF Write, GraceOver, Over, vars, serverV, Active
<1>6. QED BY <1>1, <1>2, <1>3, <1>4, <1>5 DEF Next

\* No step sends a candidate without a description unless a call has failed or the
\* session ends.
LEMMA TracedNext ==
  ASSUME Sound, Traced, [Next]_vars PROVE Traced'
<1>1. CASE UNCHANGED vars
  BY <1>1 DEF vars, serverV, Active, Traced
<1>2. CASE Next
  <2>1. SUFFICES ASSUME ~Broken', Active' PROVE Numbered(held') /\ Numbered(outbound') /\ Numbered(toClient')
    BY DEF Traced, Numbered
  <2>2. ~Broken /\ ~unsent /\ Numbered(held) /\ Numbered(outbound) /\ Numbered(toClient)
    <3>1. ~Broken
      BY <1>2, <2>1, BrokenForGood
    <3>2. Active
      BY <1>2, <2>1, EndedForGood
    <3>3. QED BY <3>1, <3>2 DEF Traced, Sound, Locked
  <2>3. Numbered(<<>>)
    BY DEF Numbered
  <2> HIDE DEF Broken
  <2>4. CASE Calls
    BY <2>2, <2>4 DEF Calls, SendTrack, AddTrack
  <2>5. CASE OnIceCandidate \/ AnswerTimeout \/ GraceOver \/ Over
    BY <2>2, <2>5 DEF OnIceCandidate, AnswerTimeout, GraceOver, Over, vars
  <2>6. CASE Disconnect("lost") \/ Disconnect("closed") \/ Closed
    BY <2>2, <2>3, <2>6 DEF Disconnect, Closed, Finish
  <2>7. CASE OnLocalCandidate
    <3>1. /\ Candidate \in Messages({"candidate"}) /\ Candidate \in Down /\ Candidate.n # 0
          /\ toClient' = toClient
      BY <2>2, <2>7 DEF OnLocalCandidate, Candidate, Message, Messages, Down, Sound, Sides, Numbers
    <3>2. CASE lock = "free"
      <4>1. Send(<<Candidate>>) /\ held' = held
        BY <2>7, <3>2 DEF OnLocalCandidate
      <4>2. <<Candidate>> \in Seq(Down) /\ Numbered(<<Candidate>>)
        BY <3>1 DEF Numbered
      <4>3. QED BY <2>2, <3>1, <4>1, <4>2, NumberedSend
    <3>3. CASE lock # "free"
      <4>1. held' = Append(held, Candidate) /\ outbound' = outbound
        BY <2>7, <3>3 DEF OnLocalCandidate
      <4>2. Numbered(Append(held, Candidate))
        BY <2>2, <3>1, NumberedAppend DEF Sound, Queues
      <4>3. QED BY <2>2, <3>1, <4>1, <4>2
    <3>4. QED BY <3>2, <3>3
  <2>8. CASE DescribeFails
    <3>1. holder \notin ServerTracks
      BY <2>1, <2>8 DEF DescribeFails, Continue, Sound, Sides, Tasked, Broken
    <3>2. ~Active'
      BY <2>8, <3>1 DEF DescribeFails, Active
    <3>3. QED BY <2>1, <3>2
  <2>9. CASE MakeOffer
    <3>1. /\ Send(<<Message("offer", negotiations, attached)>> \o held) /\ held' = <<>>
          /\ toClient' = toClient /\ negotiations \in Nat /\ attached \in SUBSET attached
      BY <2>9 DEF MakeOffer, Sound, Sides, Numbers
    <3>2. /\ Numbered(<<Message("offer", negotiations, attached)>> \o held)
          /\ <<Message("offer", negotiations, attached)>> \o held \in Seq(Down)
      BY <2>2, <3>1, NumberedDescription, SayHeld
    <3>3. QED BY <2>2, <2>3, <3>1, <3>2, NumberedSend
  <2>10. CASE MakeAnswer
    <3>1. PICK more \in SUBSET (attached \ described) :
            Send(<<Message("answer", echo, described \cup more)>> \o held)
      BY <2>10 DEF MakeAnswer
    <3>2. /\ held' = <<>> /\ toClient' = toClient /\ echo \in Nat
          /\ described \cup more \in SUBSET attached
      BY <2>10 DEF MakeAnswer, Sound, Sides, Numbers, Media
    <3>3. /\ Numbered(<<Message("answer", echo, described \cup more)>> \o held)
          /\ <<Message("answer", echo, described \cup more)>> \o held \in Seq(Down)
      BY <2>2, <3>2, NumberedDescription, SayHeld
    <3>4. QED BY <2>2, <2>3, <3>1, <3>2, <3>3, NumberedSend
  <2>11. CASE OnCandidate
    <3>1. held' = held /\ toClient' = toClient
      BY <2>11 DEF OnCandidate
    <3>2. outbound' = outbound \/ Send(<<Message("error", 0, {})>>)
      BY <2>11 DEF OnCandidate
    <3>3. <<Message("error", 0, {})>> \in Seq(Down) /\ Numbered(<<Message("error", 0, {})>>)
      BY SayOne, NumberedOne
    <3>4. QED BY <2>2, <3>1, <3>2, <3>3, NumberedSend
  <2>12. CASE Write
    <3>1. /\ outbound \in Seq(Down) /\ toClient \in Seq(Arriving) /\ outbound # <<>>
          /\ outbound' = Tail(outbound) /\ held' = held
          /\ toClient' \in {toClient, Append(toClient, Head(outbound))}
      BY <2>12 DEF Write, Sound, Queues
    <3>2. /\ Head(outbound) \in Arriving
          /\ Head(outbound).type = "candidate" => Head(outbound).n # 0
      <4>1. Head(outbound) \in Down /\ Head(outbound) = outbound[1] /\ 1 \in 1..Len(outbound)
        BY <3>1, TailElements
      <4>2. QED BY <2>2, <4>1 DEF Numbered, Down, Arriving, Messages
    <3>3. Numbered(Tail(outbound)) /\ Numbered(Append(toClient, Head(outbound)))
      BY <2>2, <3>1, <3>2, NumberedTail, NumberedAppend
    <3>4. QED BY <2>2, <3>1, <3>3
  <2>13. CASE \E type \in {"session", "offer", "answer", "candidate", "error"} : Takes(type) /\ UNCHANGED <<held, outbound>>
    <3>1. toClient \in Seq(Arriving) /\ toClient # <<>> /\ toClient' = Tail(toClient)
      BY <2>13 DEF Takes, Sound, Queues
    <3>2. QED BY <2>2, <2>13, <3>1, NumberedTail
  <2>14. CASE OnHello \/ OnOffer \/ OnAnswered \/ OnOther
    BY <2>13, <2>14 DEF OnHello, OnOffer, OnAnswered, OnOther
  <2>15. CASE \E t \in ClientTracks : Prepare(t)
    BY <2>2, <2>15 DEF Prepare
  <2>16. CASE \E w \in Tasks : Renegotiate(w) \/ RenegotiateFails(w)
    BY <2>2, <2>16 DEF Renegotiate, RenegotiateFails
  <2>17. CASE IgnoreOffer \/ AcceptOffer \/ OnAnswer \/ Check \/ OnClosed
              \/ \E t \in ServerTracks : Return(t)
    BY <2>2, <2>17 DEF IgnoreOffer, AcceptOffer, OnAnswer, Check, OnClosed, Return
  <2>18. CASE Abandon
    BY <2>2, <2>3, <2>18 DEF Abandon
  <2>19. QED BY <1>2, <2>4, <2>5, <2>6, <2>7, <2>8, <2>9, <2>10, <2>11, <2>12, <2>14, <2>15, <2>16,
                <2>17, <2>18 DEF Next, Calls, Environment, Server, Client
<1>3. QED BY <1>1, <1>2

\* A candidate on its way follows its description.
LEMMA CandidatesInOrder ==
  ASSUME Sound, Exchange, Traced PROVE CandidatesFollow
<1>1. Active /\ applied /\ lock = "free" => pending = 0
  BY DEF Sound, Locked
<1>2. ASSUME NEW i \in 1..Len(toClient), toClient[i].type = "candidate"
      PROVE  toClient[i].n <= seen + Cardinality({j \in 1..i : toClient[j].type \in Descriptions})
  <2>1. ~finished
    BY <1>2 DEF Sound, Locked
  <2>2. i \in 1..Len(Way) /\ Way[i] = toClient[i] /\ i \in Nat
    BY WayTyped
  <2>3. toClient[i].n <= seen + One(Upto(Way, i, "answer")) + One(Upto(Way, i, "offer"))
    BY <1>2, <2>1, <2>2 DEF Exchange, Flow, Order
  <2>4. One(Upto(Way, i, "answer")) \in {0, 1} /\ One(Upto(Way, i, "offer")) \in {0, 1}
    BY DEF One
  <2>5. Cardinality({j \in 1..i : toClient[j].type \in Descriptions}) \in Nat
    <3>1. IsFiniteSet(1..i)
      BY <2>2, FS_Interval
    <3>2. QED BY <3>1, FS_Subset, FS_CardinalityType
  <2>6. seen \in Nat /\ toClient[i].n \in Nat
    <3>1. Way[i] \in Arriving
      BY <2>2, WayTyped
    <3>2. QED BY <2>2, <3>1 DEF Arriving, Messages, Sound, Sides, Numbers
  <2>7. QED BY <2>3, <2>4, <2>5, <2>6, DescriptionsBefore
<1>3. ASSUME NEW i \in 1..Len(toClient), toClient[i].type = "candidate", toClient[i].n = 0
      PROVE  ~Active \/ Broken
  BY <1>3 DEF Traced, Numbered
<1>4. QED BY <1>1, <1>2, <1>3 DEF CandidatesFollow

\* Whatever offers cross, once nothing is on its way and no call of send_track() has
\* failed, both sides are stable and each has the other's last description, with
\* every track that was added: the client that gives way in onDescription() makes
\* its offer again.
THEOREM BothAgree == FairSpec => []Agreement
<1>1. Init => Sound /\ Exchange
  BY SoundInit, ExchangeInit
<1>2. Sound /\ Exchange /\ [Next]_vars => (Sound /\ Exchange)'
  BY SoundNext, SoundStutter, ExchangeNext
<1>3. Sound /\ Exchange => Agreement
  BY QuietAgrees
<1>4. QED BY <1>1, <1>2, <1>3, PTL DEF FairSpec

\* Candidates found while a description is made are held back by
\* _on_local_candidate() and sent behind it, so the client never gets one before its
\* description; _on_offer() and _on_answer() give the engine those that waited.  A
\* description that fails sends what it held back with nothing before it: the client
\* gets a candidate of no description only after a call of send_track() has failed
\* or when the session has ended.
THEOREM CandidatesArriveInOrder == FairSpec => []CandidatesFollow
<1>1. Init => Sound /\ Exchange /\ Traced
  <2>1. Init => Numbered(held) /\ Numbered(outbound) /\ Numbered(toClient)
    <3>1. Numbered(<<>>) /\ Numbered(<<Message("session", 0, {})>>)
      BY NumberedOne DEF Numbered
    <3>2. QED BY <3>1 DEF Init
  <2>2. QED BY <2>1, SoundInit, ExchangeInit DEF Traced
<1>2. Sound /\ Exchange /\ Traced /\ [Next]_vars => (Sound /\ Exchange /\ Traced)'
  BY SoundNext, SoundStutter, ExchangeNext, TracedNext
<1>3. Sound /\ Exchange /\ Traced => CandidatesFollow
  BY CandidatesInOrder
<1>4. QED BY <1>1, <1>2, <1>3, PTL DEF FairSpec
=============================================================================
