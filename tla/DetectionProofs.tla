--------------------------- MODULE DetectionProofs ---------------------------
(***************************************************************************)
(* The survivors of a crash, for any number of them, of messages in flight *)
(* and of handlers at work: what they hold of the lost member is undone    *)
(* only by handlers that have made their tests before.                     *)
(***************************************************************************)
EXTENDS Detection, TLAPS

IsOldNews(r) == r.status = "ALIVE" => r.heartbeat <= LastHeartbeat

IsOldMessage(m) == IsOldNews(m.mention) /\ (m.kind = "own" => m.code <= LastHeartbeat)

\* Nothing in the cluster calls the lost member alive at a heartbeat it never
\* reached: neither a record, nor a message in flight or being handled, nor a Node
\* that was removed.
AliveIsOld ==
    /\ \A h \in Host : IsOldNews(record[h])
    /\ \A m \in network : IsOldMessage(m)
    /\ \A g \in handlers : IsOldMessage(g.message) /\ IsOldNews(g.node)

\* Handler g is going to store that the member is alive.
Reviving(g) ==
    /\ g.registered
    /\ g.fresh
    /\ g.message.kind = "own" \/ g.message.mention.status = "ALIVE"

\* A handler that is going to undo a verdict made its tests before it was given.
RacesAreNoted ==
    \A g \in handlers : Reviving(g) /\ Beyond(g.message.to) => g \in overtaken

\* A heartbeat that a host is going to store is a natural number: the code is not 0.
AdvancesAreNat == \A g \in handlers : g.advance => g.message.code > 0

DInv == DTypeOK /\ AliveIsOld /\ RacesAreNoted /\ AdvancesAreNat

-----------------------------------------------------------------------------
(* The operators *)

LEMMA AbsentType == Absent \in Record /\ IsOldNews(Absent)
BY DEF Absent, Record, IsOldNews

LEMMA RecordParts ==
    ASSUME NEW r \in Record
    PROVE  r.heartbeat \in Nat /\ r.status \in {"ALIVE", "SUSPECTED", "DEAD", "UNKNOWN"}
BY DEF Record

\* What a handler makes of a Node has a record's type, and is old news if the Node
\* and the message were.
LEMMA ToldIsOld ==
    ASSUME NEW g \in Handlers, IsOldMessage(g.message),
           NEW r \in Record, IsOldNews(r)
    PROVE  /\ Told(g, r) \in Record
           /\ IsOldNews(Told(g, r))
           /\ Told(g, r).status = "ALIVE" /\ r.status # "ALIVE" =>
                 /\ g.fresh
                 /\ g.message.kind = "own" \/ g.message.mention.status = "ALIVE"
  <1> DEFINE m == g.message
  <1>1. m \in Messages
    BY DEF Handlers
  <1>2. m.mention \in Record /\ m.code \in Nat
    BY <1>1 DEF Messages
  <1>3. CASE ~g.fresh
    BY <1>3 DEF Told
  <1>4. CASE g.fresh /\ m.kind = "own"
    <2>1. Told(g, r) = ApplySender(Lost, r, m.code)
      BY <1>4 DEF Told
    <2>2. m.code <= LastHeartbeat
      BY <1>4 DEF IsOldMessage
    <2> QED
      BY <1>2, <1>4, <2>1, <2>2 DEF ApplySender, updateNodeStatus, Record, IsOldNews
  <1>5. CASE g.fresh /\ m.kind # "own"
    <2>1. Told(g, r) = ApplyGossip(m.to, Lost, r, m.mention)
      BY <1>5 DEF Told
    <2>2. IsOldNews(m.mention)
      BY DEF IsOldMessage
    <2>3. \/ Told(g, r) = r
          \/ Told(g, r) = [status |-> m.mention.status, heartbeat |-> m.mention.heartbeat,
                           source |-> m.mention.source]
      BY <2>1, Zenon DEF ApplyGossip, updateNodeStatus
    <2> QED
      BY <1>2, <1>5, <2>2, <2>3 DEF Record, IsOldNews
  <1> QED
    BY <1>3, <1>4, <1>5

LEMMA EscalateStep ==
    ASSUME NEW r \in Record, NEW heartbeat \in Nat
    PROVE  LET q == Escalate(Lost, r, heartbeat)
           IN  q \in Record /\ q.status # "ALIVE"
BY DEF Escalate, updateNodeStatus, Record

LEMMA DeadStep ==
    ASSUME NEW r \in Record, NEW heartbeat \in Nat
    PROVE  LET q == updateNodeStatus(r, "DEAD", heartbeat, Lost)
           IN  q \in Record /\ q.status # "ALIVE"
BY DEF updateNodeStatus, Record

LEMMA MoreType == ASSUME NEW count \in 0 .. MaxPending PROVE More(count) \in 0 .. MaxPending
BY BoundAssumption DEF More

LEMMA AdvancedType == ASSUME NEW code \in Nat, code > 0 PROVE Advanced(code) \in Nat
BY DEF Advanced

LEMMA MessageType ==
    ASSUME NEW to \in Host, NEW kind \in {"gossip", "PINGREQ"}, NEW code \in Nat,
           NEW mention \in Record, IsOldNews(mention)
    PROVE  /\ Message(to, kind, code, mention) \in Messages
           /\ IsOldMessage(Message(to, kind, code, mention))
BY DEF Message, Messages, IsOldMessage

LEMMA MentionsAreOld ==
    ASSUME DInv, NEW h \in Host, NEW mention \in Mentions(h)
    PROVE  mention \in Record /\ IsOldNews(mention)
  <1>1. record[h] \in Record /\ IsOldNews(record[h])
    BY DEF DInv, DTypeOK, AliveIsOld
  <1>2. mention = record[h] \/ mention = Absent
    BY DEF Mentions
  <1> QED
    BY <1>1, <1>2, AbsentType

-----------------------------------------------------------------------------
(* What a step may do to each part of the state *)

SoundHeartbeats == currentHeartbeat' \in [Host -> Nat]

SoundRetries == deadNodeRetries' \in [Host -> 0 .. MaxDeadNodeRetries]

SoundRecords ==
    /\ record' \in [Host -> Record]
    /\ \A h \in Host : IsOldNews(record'[h])

SoundAnswers ==
    /\ pinging' \in [Host -> 0 .. MaxPending]
    /\ awaiting' \in [Host -> 0 .. MaxPending]

SoundNetwork ==
    /\ network' \subseteq Messages
    /\ \A m \in network' : IsOldMessage(m)

\* The handlers that are new cannot undo a verdict.
SoundHandlers ==
    /\ handlers' \subseteq Handlers
    /\ \A g \in handlers' : IsOldMessage(g.message) /\ IsOldNews(g.node)
    /\ \A g \in handlers' : g.advance => g.message.code > 0
    /\ \A g \in handlers' \ handlers : ~(Reviving(g) /\ Beyond(g.message.to)')

Sound ==
    SoundHeartbeats /\ SoundRetries /\ SoundRecords /\ SoundAnswers /\ SoundNetwork
        /\ SoundHandlers

LEMMA SoundStep == ASSUME DInv, Sound, NoteVerdicts PROVE DInv'
  <1>1. DTypeOK'
    <2>1. overtaken' \subseteq handlers'
      BY DEF NoteVerdicts
    <2> QED
      BY <2>1 DEF DTypeOK, Sound, SoundHeartbeats, SoundRetries, SoundRecords, SoundAnswers,
                  SoundNetwork, SoundHandlers
  <1>2. AliveIsOld'
    BY DEF AliveIsOld, Sound, SoundRecords, SoundNetwork, SoundHandlers
  <1>3. RacesAreNoted'
    <2> SUFFICES ASSUME NEW g \in handlers', Reviving(g), Beyond(g.message.to)'
                 PROVE  g \in overtaken'
      BY Zenon DEF RacesAreNoted, Reviving
    <2>1. g \in handlers
      BY DEF Sound, SoundHandlers
    <2>2. CASE Beyond(g.message.to)
      BY <2>1, <2>2, Zenon DEF DInv, RacesAreNoted, NoteVerdicts
    <2>3. CASE ~Beyond(g.message.to)
      BY <2>1, <2>3, Zenon DEF NoteVerdicts
    <2> QED
      BY <2>2, <2>3
  <1>4. AdvancesAreNat'
    BY DEF AdvancesAreNat, Sound, SoundHandlers
  <1> QED
    BY <1>1, <1>2, <1>3, <1>4 DEF DInv

LEMMA SameHeartbeats == ASSUME DInv, UNCHANGED currentHeartbeat PROVE SoundHeartbeats
BY DEF DInv, DTypeOK, SoundHeartbeats

LEMMA Ticked == ASSUME DInv, NEW h \in Host, Tick(h) PROVE SoundHeartbeats
BY DEF DInv, DTypeOK, Tick, SoundHeartbeats

LEMMA SameRecords == ASSUME DInv, UNCHANGED record PROVE SoundRecords
BY DEF DInv, DTypeOK, AliveIsOld, SoundRecords

LEMMA SameRetries == ASSUME DInv, UNCHANGED deadNodeRetries PROVE SoundRetries
BY DEF DInv, DTypeOK, SoundRetries

LEMMA SameAnswers == ASSUME DInv, UNCHANGED <<pinging, awaiting>> PROVE SoundAnswers
BY DEF DInv, DTypeOK, SoundAnswers

LEMMA FewerMessages == ASSUME DInv, network' \subseteq network PROVE SoundNetwork
BY DEF DInv, DTypeOK, AliveIsOld, SoundNetwork

LEMMA FewerHandlers == ASSUME DInv, handlers' \subseteq handlers PROVE SoundHandlers
BY DEF DInv, DTypeOK, AliveIsOld, AdvancesAreNat, SoundHandlers

LEMMA RetriesType ==
    ASSUME DInv, NEW h \in Host, NEW r
    PROVE  Retries(h, r) \in 0 .. MaxDeadNodeRetries
  <1>1. deadNodeRetries[h] \in 0 .. MaxDeadNodeRetries
    BY DEF DInv, DTypeOK
  <1> QED
    BY <1>1, BoundAssumption DEF Retries

LEMMA Revised ==
    ASSUME DInv, NEW h \in Host, NEW r \in Record, IsOldNews(r), Revise(h, r)
    PROVE  SoundRecords /\ SoundRetries
  <1>1. Retries(h, r) \in 0 .. MaxDeadNodeRetries
    BY RetriesType
  <1>2. record \in [Host -> Record] /\ \A k \in Host : IsOldNews(record[k])
    BY DEF DInv, DTypeOK, AliveIsOld
  <1>3. deadNodeRetries \in [Host -> 0 .. MaxDeadNodeRetries]
    BY DEF DInv, DTypeOK
  <1>4. SoundRetries
    BY <1>1, <1>3 DEF Revise, SoundRetries
  <1>5. \A k \in Host : record'[k] = IF k = h THEN r ELSE record[k]
    BY <1>2 DEF Revise
  <1> QED
    BY <1>2, <1>4, <1>5 DEF Revise, SoundRecords

LEMMA Transmitted ==
    ASSUME DInv, NEW msgs,
           \A m \in msgs : m \in Messages /\ IsOldMessage(m),
           Transmit(msgs)
    PROVE  SoundNetwork
BY DEF Transmit, DInv, DTypeOK, AliveIsOld, SoundNetwork

-----------------------------------------------------------------------------
(* The actions *)

LEMMA PingOtherStep == ASSUME DInv, NEW h \in Host, PingOther(h) PROVE Sound
BY Ticked, SameRecords, SameRetries, SameAnswers, FewerMessages, FewerHandlers
   DEF PingOther, Sound

LEMMA BackoffStep == ASSUME DInv, NEW h \in Host, Backoff(h) PROVE Sound
  <1>1. SoundRetries
    BY BoundAssumption DEF DInv, DTypeOK, Backoff, SoundRetries
  <1> QED
    BY <1>1, SameHeartbeats, SameRecords, SameAnswers, FewerMessages, FewerHandlers
       DEF Backoff, Sound

LEMMA PingStep == ASSUME DInv, NEW h \in Host, Ping(h) PROVE Sound
  <1>1. deadNodeRetries \in [Host -> 0 .. MaxDeadNodeRetries]
    BY DEF DInv, DTypeOK
  <1>2. SoundRetries
    BY <1>1, BoundAssumption DEF Ping, SoundRetries
  <1>3. pinging \in [Host -> 0 .. MaxPending] /\ awaiting \in [Host -> 0 .. MaxPending]
    BY DEF DInv, DTypeOK
  <1>4. More(pinging[h]) \in 0 .. MaxPending
    BY <1>3, MoreType
  <1>5. SoundAnswers
    BY <1>3, <1>4 DEF Ping, SoundAnswers
  <1> QED
    BY <1>2, <1>5, Ticked, SameRecords, FewerMessages, FewerHandlers DEF Ping, Sound

\* A Node that is removed takes what the registry held of it to the handlers that
\* have looked it up.
LEMMA ForgetStep == ASSUME DInv, NEW h \in Host, Forget(h) PROVE Sound
  <1>1. record \in [Host -> Record] /\ handlers \subseteq Handlers
    BY DEF DInv, DTypeOK
  <1>2. SoundRetries
    <2>1. deadNodeRetries \in [Host -> 0 .. MaxDeadNodeRetries]
      BY DEF DInv, DTypeOK
    <2>2. deadNodeRetries' = [deadNodeRetries EXCEPT ![h] = 0]
      BY DEF Forget
    <2> QED
      BY <2>1, <2>2, BoundAssumption DEF SoundRetries
  <1>3. SoundRecords
    <2>1. \A k \in Host : record'[k] = IF k = h THEN Absent ELSE record[k]
      BY <1>1 DEF Forget
    <2>2. record' \in [Host -> Record]
      BY <1>1, AbsentType DEF Forget
    <2> QED
      BY <2>1, <2>2, AbsentType DEF DInv, AliveIsOld, SoundRecords
  <1>4. SoundHandlers
    <2>1. ASSUME NEW q \in handlers'
          PROVE  /\ q \in Handlers
                 /\ IsOldMessage(q.message) /\ IsOldNews(q.node)
                 /\ q.advance => q.message.code > 0
                 /\ q \notin handlers => ~q.registered
      <3>1. PICK g \in handlers :
               q = IF g.message.to = h /\ g.registered
                   THEN [g EXCEPT !.registered = FALSE, !.node = record[h]]
                   ELSE g
        BY Zenon DEF Forget
      <3>2. g \in Handlers /\ IsOldMessage(g.message) /\ IsOldNews(g.node)
        BY <1>1 DEF DInv, AliveIsOld
      <3>3. g.advance => g.message.code > 0
        BY DEF DInv, AdvancesAreNat
      <3>4. record[h] \in Record /\ IsOldNews(record[h])
        BY <1>1 DEF DInv, AliveIsOld
      <3>5. CASE q = g
        BY <3>2, <3>3, <3>5
      <3>6. CASE q = [g EXCEPT !.registered = FALSE, !.node = record[h]]
        <4>1. /\ q \in Handlers
              /\ q.message = g.message
              /\ q.advance = g.advance
              /\ q.node = record[h]
              /\ q.registered = FALSE
          BY <3>2, <3>4, <3>6, ZenonT(60) DEF Handlers
        <4> QED
          BY <3>2, <3>3, <3>4, <4>1
      <3> QED
        BY <3>1, <3>5, <3>6
    <2> QED
      BY <2>1, Zenon DEF SoundHandlers, Reviving
  <1> QED
    BY <1>2, <1>3, <1>4, SameHeartbeats, SameAnswers, FewerMessages DEF Forget, Sound

LEMMA PingTimeoutStep == ASSUME DInv, NEW h \in Host, PingTimeout(h) PROVE Sound
  <1>1. /\ pinging \in [Host -> 0 .. MaxPending]
        /\ awaiting \in [Host -> 0 .. MaxPending]
        /\ record[h] \in Record
        /\ currentHeartbeat[h] \in Nat
    BY DEF DInv, DTypeOK
  <1>2. pinging' \in [Host -> 0 .. MaxPending]
    BY <1>1, BoundAssumption DEF PingTimeout
  <1>3. PICK via \in SUBSET (Host \ {h}) :
           IF via = {}
           THEN /\ IF Known(h)
                   THEN Revise(h, updateNodeStatus(record[h], "DEAD", currentHeartbeat[h], Lost))
                   ELSE UNCHANGED <<record, deadNodeRetries>>
                /\ UNCHANGED <<awaiting, network>>
           ELSE /\ awaiting' = [awaiting EXCEPT ![h] = More(@)]
                /\ \E mention \in Mentions(h) :
                      Transmit({Message(k, "PINGREQ", currentHeartbeat[h], mention) : k \in via})
                /\ UNCHANGED <<record, deadNodeRetries>>
    BY Zenon DEF PingTimeout
  <1>4. SoundHeartbeats /\ SoundHandlers
    BY SameHeartbeats, FewerHandlers DEF PingTimeout
  <1>5. CASE via = {}
    <2>1. SoundRecords /\ SoundRetries
      <3>1. CASE Known(h)
        <4> DEFINE q == updateNodeStatus(record[h], "DEAD", currentHeartbeat[h], Lost)
        <4>1. q \in Record /\ q.status # "ALIVE"
          BY <1>1, DeadStep, Zenon
        <4>2. Revise(h, q)
          BY <1>3, <1>5, <3>1, Zenon
        <4> HIDE DEF q
        <4>3. IsOldNews(q)
          BY <4>1 DEF IsOldNews
        <4> QED
          BY <4>1, <4>2, <4>3, Revised
      <3>2. CASE ~Known(h)
        BY <1>3, <1>5, <3>2, SameRecords, SameRetries
      <3> QED
        BY <3>1, <3>2
    <2>2. SoundAnswers /\ SoundNetwork
      BY <1>1, <1>2, <1>3, <1>5, FewerMessages DEF SoundAnswers
    <2> QED
      BY <1>4, <2>1, <2>2 DEF Sound
  <1>6. CASE via # {}
    <2>1. SoundAnswers
      BY <1>1, <1>2, <1>3, <1>6, MoreType DEF SoundAnswers
    <2>2. PICK mention \in Mentions(h) :
             Transmit({Message(k, "PINGREQ", currentHeartbeat[h], mention) : k \in via})
      BY <1>3, <1>6, Zenon
    <2>3. mention \in Record /\ IsOldNews(mention)
      BY MentionsAreOld
    <2> DEFINE msgs == {Message(k, "PINGREQ", currentHeartbeat[h], mention) : k \in via}
    <2>4. \A m \in msgs : m \in Messages /\ IsOldMessage(m)
      BY <1>1, <2>3, MessageType
    <2>5. SoundNetwork
      <3>1. Transmit(msgs)
        BY <2>2
      <3> HIDE DEF msgs
      <3> QED
        BY <2>4, <3>1, Transmitted, Zenon
    <2>6. SoundRecords /\ SoundRetries
      BY <1>3, <1>6, SameRecords, SameRetries
    <2> QED
      BY <1>4, <2>1, <2>5, <2>6 DEF Sound
  <1> QED
    BY <1>5, <1>6

LEMMA ProbeTimeoutStep == ASSUME DInv, NEW h \in Host, ProbeTimeout(h) PROVE Sound
  <1>1. /\ awaiting \in [Host -> 0 .. MaxPending]
        /\ pinging \in [Host -> 0 .. MaxPending]
        /\ record[h] \in Record
        /\ currentHeartbeat[h] \in Nat
    BY DEF DInv, DTypeOK
  <1>2. SoundAnswers
    BY <1>1, BoundAssumption DEF ProbeTimeout, SoundAnswers
  <1>3. SoundRecords /\ SoundRetries
    <2>1. CASE Known(h)
      <3> DEFINE q == Escalate(Lost, record[h], currentHeartbeat[h])
      <3>1. q \in Record /\ q.status # "ALIVE"
        BY <1>1, EscalateStep, Zenon
      <3>2. Revise(h, q)
        BY <2>1 DEF ProbeTimeout
      <3> HIDE DEF q
      <3>3. IsOldNews(q)
        BY <3>1 DEF IsOldNews
      <3> QED
        BY <3>1, <3>2, <3>3, Revised
    <2>2. CASE ~Known(h)
      BY <2>2, SameRecords, SameRetries DEF ProbeTimeout
    <2> QED
      BY <2>1, <2>2
  <1> QED
    BY <1>2, <1>3, SameHeartbeats, FewerMessages, FewerHandlers DEF ProbeTimeout, Sound

LEMMA SettleStep == ASSUME DInv, NEW h \in Host, Settle(h) PROVE Sound
  <1>1. awaiting \in [Host -> 0 .. MaxPending] /\ pinging \in [Host -> 0 .. MaxPending]
    BY DEF DInv, DTypeOK
  <1>2. SoundAnswers
    BY <1>1, BoundAssumption DEF Settle, SoundAnswers
  <1> QED
    BY <1>2, SameHeartbeats, SameRecords, SameRetries, FewerMessages, FewerHandlers
       DEF Settle, Sound

LEMMA SendStep == ASSUME DInv, NEW h \in Host, NEW k \in Host, Send(h, k) PROVE Sound
  <1>1. PICK mention \in Mentions(h) :
           Transmit({Message(k, "gossip", currentHeartbeat[h], mention)})
    BY Zenon DEF Send
  <1>2. mention \in Record /\ IsOldNews(mention)
    BY MentionsAreOld
  <1>3. currentHeartbeat[h] \in Nat
    BY DEF DInv, DTypeOK
  <1> DEFINE msgs == {Message(k, "gossip", currentHeartbeat[h], mention)}
  <1>4. \A m \in msgs : m \in Messages /\ IsOldMessage(m)
    BY <1>2, <1>3, MessageType
  <1>5. SoundNetwork
    <2>1. Transmit(msgs)
      BY <1>1
    <2> HIDE DEF msgs
    <2> QED
      BY <1>4, <2>1, Transmitted, Zenon
  <1> QED
    BY <1>5, SameHeartbeats, SameRecords, SameRetries, SameAnswers, FewerHandlers
       DEF Send, Sound

LEMMA LoseStep == ASSUME DInv, NEW m \in network, Lose(m) PROVE Sound
BY SameHeartbeats, SameRecords, SameRetries, SameAnswers, FewerMessages, FewerHandlers
   DEF Lose, Sound

\* The tests keep old news from being fresh to a host that is beyond them.
LEMMA ReceiveStep == ASSUME DInv, NEW m \in network, Receive(m) PROVE Sound
  <1> DEFINE h == m.to
  <1>0. PICK g : g = [message |-> m, advance |-> IsAhead(currentHeartbeat[h], m.code),
                      fresh |-> Fresh(record[h], m), registered |-> Known(h),
                      node |-> Absent]
    OBVIOUS
  <1>1. /\ m \in Messages
        /\ IsOldMessage(m)
    BY DEF DInv, DTypeOK, AliveIsOld
  <1>2. /\ h \in Host
        /\ m.code \in Nat
        /\ m.mention \in Record
    BY <1>1 DEF Messages
  <1>3. /\ record[h] \in Record
        /\ record[h].heartbeat \in Nat
        /\ m.mention.heartbeat \in Nat
    BY <1>2, RecordParts DEF DInv, DTypeOK
  <1>4. g \in Handlers
    <2>1. IsAhead(currentHeartbeat[h], m.code) \in BOOLEAN
      BY DEF IsAhead
    <2>2. Fresh(record[h], m) \in BOOLEAN
      <3>1. IsRecent(record[h], m.code) \in BOOLEAN
        BY DEF IsRecent
      <3>2. (m.mention # Absent /\ ~IsOld(record[h], m.mention)) \in BOOLEAN
        OBVIOUS
      <3> QED
        BY <3>1, <3>2, Zenon DEF Fresh
    <2>3. Known(h) \in BOOLEAN
      BY DEF Known
    <2> QED
      BY <1>0, <1>1, <2>1, <2>2, <2>3, AbsentType, Zenon DEF Handlers
  <1>5. /\ g.message = m
        /\ g.advance = IsAhead(currentHeartbeat[h], m.code)
        /\ g.fresh = Fresh(record[h], m)
        /\ g.node = Absent
    BY <1>0
  <1>6. g.advance => m.code > 0
    BY <1>5 DEF IsAhead
  <1>7. ~(Reviving(g) /\ Beyond(h))
    <2> SUFFICES ASSUME Reviving(g), Beyond(h) PROVE FALSE
      OBVIOUS
    <2>1. Fresh(record[h], m)
      BY <1>5 DEF Reviving
    <2>2. m.kind = "own" \/ m.mention.status = "ALIVE"
      BY <1>5 DEF Reviving
    <2>3. CASE m.kind = "own"
      BY <1>1, <1>2, <1>3, <2>1, <2>3, BoundAssumption DEF Fresh, IsRecent, IsOldMessage, Beyond
    <2>4. CASE m.kind # "own"
      BY <1>1, <1>3, <2>1, <2>2, <2>4, BoundAssumption
         DEF Fresh, IsOld, IsOldMessage, IsOldNews, Beyond
    <2> QED
      BY <2>3, <2>4
  <1>8. handlers' = handlers \cup {g} /\ UNCHANGED record
    BY <1>0 DEF Receive
  <1>9. SoundHandlers
    <2>1. handlers' \subseteq Handlers
      BY <1>4, <1>8 DEF DInv, DTypeOK
    <2>2. \A q \in handlers' : IsOldMessage(q.message) /\ IsOldNews(q.node)
      BY <1>1, <1>5, <1>8, AbsentType DEF DInv, AliveIsOld
    <2>3. \A q \in handlers' : q.advance => q.message.code > 0
      BY <1>5, <1>6, <1>8 DEF DInv, AdvancesAreNat
    <2>4. Beyond(g.message.to)' <=> Beyond(h)
      BY <1>5, <1>8 DEF Beyond
    <2> QED
      BY <1>7, <1>8, <2>1, <2>2, <2>3, <2>4 DEF SoundHandlers
  <1> QED
    BY <1>9, SameHeartbeats, SameRecords, SameRetries, SameAnswers, FewerMessages
       DEF Receive, Sound

\* What handler g works on.
Held(g) == IF g.registered THEN record[g.message.to] ELSE g.node

LEMMA HeldIsOld ==
    ASSUME DInv, NEW g \in handlers
    PROVE  /\ g \in Handlers
           /\ g.message.to \in Host
           /\ g.message.code \in Nat
           /\ IsOldMessage(g.message)
           /\ Held(g) \in Record
           /\ IsOldNews(Held(g))
  <1>1. g \in Handlers /\ IsOldMessage(g.message) /\ IsOldNews(g.node)
    BY DEF DInv, DTypeOK, AliveIsOld
  <1>2. g.message.to \in Host /\ g.message.code \in Nat /\ g.node \in Record
    BY <1>1 DEF Handlers, Messages
  <1>3. record[g.message.to] \in Record /\ IsOldNews(record[g.message.to])
    BY <1>2 DEF DInv, DTypeOK, AliveIsOld
  <1> QED
    BY <1>1, <1>2, <1>3 DEF Held

LEMMA StoreStep == ASSUME DInv, NEW g \in handlers, Store(g) PROVE Sound
  <1> DEFINE h == g.message.to
  <1> DEFINE told == Told(g, Held(g))
  <1>1. /\ g \in Handlers
        /\ h \in Host
        /\ g.message.code \in Nat
    BY HeldIsOld
  <1>2. told \in Record /\ IsOldNews(told)
    BY HeldIsOld, ToldIsOld
  <1>3. /\ handlers' = handlers \ {g}
        /\ currentHeartbeat' = [currentHeartbeat EXCEPT ![h] =
              IF g.advance THEN Advanced(g.message.code) ELSE @]
        /\ record' = [record EXCEPT ![h] = IF g.registered \/ Adds(g) THEN told ELSE @]
        /\ deadNodeRetries' = [deadNodeRetries EXCEPT ![h] = Retries(h, told)]
        /\ awaiting' = [awaiting EXCEPT ![h] =
              IF g.message.kind = "PINGREQ" THEN More(@) ELSE @]
        /\ UNCHANGED <<pinging, network>>
    BY Zenon DEF Store, Held
  <1> HIDE DEF told
  <1>4. SoundHeartbeats
    <2>1. currentHeartbeat \in [Host -> Nat]
      BY DEF DInv, DTypeOK
    <2>2. g.advance => Advanced(g.message.code) \in Nat
      BY <1>1, AdvancedType DEF DInv, AdvancesAreNat
    <2> QED
      BY <1>1, <1>3, <2>1, <2>2 DEF SoundHeartbeats
  <1>5. SoundRecords
    <2>1. record \in [Host -> Record] /\ \A k \in Host : IsOldNews(record[k])
      BY DEF DInv, DTypeOK, AliveIsOld
    <2>2. record' = [record EXCEPT ![h] = told] \/ record' = record
      BY <1>1, <1>3, <2>1
    <2>3. CASE record' = [record EXCEPT ![h] = told]
      <3>1. \A k \in Host : record'[k] = IF k = h THEN told ELSE record[k]
        BY <2>1, <2>3
      <3> QED
        BY <1>2, <2>1, <2>3, <3>1 DEF SoundRecords
    <2>4. CASE record' = record
      BY <2>4, SameRecords
    <2> QED
      BY <2>2, <2>3, <2>4
  <1>6. SoundRetries
    <2>1. Retries(h, told) \in 0 .. MaxDeadNodeRetries
      BY <1>1, RetriesType
    <2>2. deadNodeRetries \in [Host -> 0 .. MaxDeadNodeRetries]
      BY DEF DInv, DTypeOK
    <2> QED
      BY <1>1, <1>3, <2>1, <2>2 DEF SoundRetries
  <1>7. SoundAnswers
    <2>1. pinging \in [Host -> 0 .. MaxPending] /\ awaiting \in [Host -> 0 .. MaxPending]
      BY DEF DInv, DTypeOK
    <2>2. More(awaiting[h]) \in 0 .. MaxPending
      BY <1>1, <2>1, MoreType
    <2> QED
      BY <1>1, <1>3, <2>1, <2>2 DEF SoundAnswers
  <1> QED
    BY <1>3, <1>4, <1>5, <1>6, <1>7, FewerMessages, FewerHandlers DEF Sound

\* A handler that holds the member alive, though the host is beyond it, is noted.
LEMMA StoreIsFinal == ASSUME DInv, NEW g \in handlers, Store(g) PROVE Final
  <1> DEFINE h == g.message.to
  <1> SUFFICES ASSUME NEW k \in Host, Beyond(k), record'[k].status = "ALIVE"
               PROVE  \E q \in handlers \ handlers' : q.message.to = k /\ q \in overtaken
    BY Zenon DEF Final
  <1>1. record[k] \in Record /\ record[k].heartbeat \in Nat /\ IsOldNews(record[k])
    BY RecordParts DEF DInv, DTypeOK, AliveIsOld
  <1>2. record[k].status # "ALIVE"
    BY <1>1, BoundAssumption DEF IsOldNews, Beyond
  <1>3. record \in [Host -> Record] /\ h \in Host
    BY HeldIsOld DEF DInv, DTypeOK
  <1>4. record' = [record EXCEPT ![h] =
                     IF g.registered \/ Adds(g) THEN Told(g, Held(g)) ELSE @]
    BY Zenon DEF Store, Held
  <1>5. k = h /\ (g.registered \/ Adds(g)) /\ record'[k] = Told(g, Held(g))
    BY <1>2, <1>3, <1>4
  <1>6. Known(h)
    BY <1>1, <1>5, BoundAssumption DEF Known, Absent, Beyond
  <1>7. g.registered /\ Held(g) = record[k]
    BY <1>5, <1>6 DEF Adds, Held
  <1>8. Reviving(g)
    <2>1. Told(g, Held(g)).status = "ALIVE" /\ Held(g).status # "ALIVE"
      BY <1>2, <1>5, <1>7
    <2>2. g.fresh /\ (g.message.kind = "own" \/ g.message.mention.status = "ALIVE")
      BY <2>1, HeldIsOld, ToldIsOld
    <2> QED
      BY <1>7, <2>2 DEF Reviving
  <1>9. g \in overtaken
    BY <1>5, <1>8 DEF DInv, RacesAreNoted
  <1>10. g \notin handlers'
    BY DEF Store
  <1> QED
    BY <1>5, <1>9, <1>10

\* Nothing but a handler undoes a verdict.
LEMMA OthersAreFinal ==
    ASSUME DInv, NEW h \in Host, NEW r, r.status # "ALIVE",
           \/ UNCHANGED record
           \/ record' = [record EXCEPT ![h] = r]
    PROVE  Final
  <1> SUFFICES ASSUME NEW k \in Host, Beyond(k), record'[k].status = "ALIVE"
               PROVE  FALSE
    BY Zenon DEF Final
  <1>1. record \in [Host -> Record] /\ record[k].heartbeat \in Nat /\ IsOldNews(record[k])
    BY RecordParts DEF DInv, DTypeOK, AliveIsOld
  <1>2. record[k].status # "ALIVE"
    BY <1>1, BoundAssumption DEF IsOldNews, Beyond
  <1> QED
    BY <1>1, <1>2

LEMMA TurnIsFinal ==
    ASSUME DInv, NEW h \in Host, Turn(h) \/ PingOther(h) PROVE Sound /\ Final
  <1> USE Zenon
  <1>1. Absent.status # "ALIVE"
    BY DEF Absent
  <1>2. CASE UNCHANGED record
    BY <1>1, <1>2, OthersAreFinal, BackoffStep, PingStep, ForgetStep, PingOtherStep DEF Turn
  <1>3. CASE Forget(h)
    BY <1>1, <1>3, OthersAreFinal, ForgetStep DEF Forget
  <1> QED
    BY <1>2, <1>3 DEF Turn, Backoff, Ping, PingOther

LEMMA CheckIsFinal == ASSUME DInv, NEW h \in Host, Check(h) PROVE Sound /\ Final
  <1>1. Sound
    BY PingTimeoutStep, ProbeTimeoutStep, SettleStep DEF Check
  <1>2. record[h] \in Record /\ currentHeartbeat[h] \in Nat
    BY DEF DInv, DTypeOK
  <1> DEFINE dead == updateNodeStatus(record[h], "DEAD", currentHeartbeat[h], Lost)
  <1> DEFINE worse == Escalate(Lost, record[h], currentHeartbeat[h])
  <1>3. dead.status # "ALIVE" /\ worse.status # "ALIVE"
    BY <1>2, DeadStep, EscalateStep, Zenon
  <1>4. \/ UNCHANGED record
        \/ record' = [record EXCEPT ![h] = dead]
        \/ record' = [record EXCEPT ![h] = worse]
    BY Zenon DEF Check, PingTimeout, ProbeTimeout, Settle, Revise
  <1> HIDE DEF dead, worse
  <1> QED
    BY <1>1, <1>3, <1>4, OthersAreFinal, Zenon

\* Every step keeps the invariant and the verdicts.
LEMMA StepIsSound == ASSUME DInv, [DNext]_dvars PROVE DInv' /\ [Final]_dvars
  <1>1. CASE UNCHANGED dvars
    <2>1. DInv'
      BY <1>1, Zenon DEF dvars, DInv, DTypeOK, AliveIsOld, RacesAreNoted, AdvancesAreNat,
                         IsOldNews, IsOldMessage, Reviving, Beyond
    <2> QED
      BY <1>1, <2>1
  <1>2. CASE DNext
    <2>1. ASSUME NEW h \in Host, Turn(h) \/ PingOther(h) PROVE Sound /\ Final
      BY <2>1, TurnIsFinal
    <2>2. ASSUME NEW h \in Host, Check(h) PROVE Sound /\ Final
      BY <2>2, CheckIsFinal
    <2>n. Absent.status # "ALIVE"
      BY DEF Absent
    <2>3. ASSUME NEW h \in Host, NEW k \in Host, Send(h, k) PROVE Sound /\ Final
      <3>1. UNCHANGED record
        BY <2>3 DEF Send
      <3> QED
        BY <2>3, <2>n, <3>1, SendStep, OthersAreFinal, Zenon
    <2>4. ASSUME NEW m \in network, Receive(m) \/ Lose(m) PROVE Sound /\ Final
      <3>1. UNCHANGED record
        BY <2>4 DEF Receive, Lose
      <3>2. m.to \in Host
        BY DEF DInv, DTypeOK, Messages
      <3> QED
        BY <2>4, <2>n, <3>1, <3>2, ReceiveStep, LoseStep, OthersAreFinal, Zenon
    <2>5. ASSUME NEW g \in handlers, Store(g) PROVE Sound /\ Final
      BY <2>5, StoreStep, StoreIsFinal
    <2>6. Sound /\ Final
      BY <1>2, <2>1, <2>2, <2>3, <2>4, <2>5, Zenon DEF DNext
    <2>7. NoteVerdicts
      BY <1>2 DEF DNext
    <2> QED
      BY <2>6, <2>7, SoundStep
  <1> QED
    BY <1>1, <1>2

LEMMA StartIsSound == DInit => DInv
  <1> SUFFICES ASSUME DInit PROVE DInv
    OBVIOUS
  <1>1. \A m \in network : \E h \in Host, k \in 1 .. LastHeartbeat :
           m = Message(h, "own", k, Absent)
    BY DEF DInit
  <1>2. ASSUME NEW m \in network PROVE m \in Messages /\ IsOldMessage(m)
    <2>1. PICK h \in Host, k \in 1 .. LastHeartbeat : m = Message(h, "own", k, Absent)
      BY <1>1
    <2> QED
      BY <2>1, AbsentType, BoundAssumption DEF Message, Messages, IsOldMessage
  <1>3. record \in [Host -> Record] /\ \A h \in Host : IsOldNews(record[h])
    BY BoundAssumption DEF DInit, Record, IsOldNews
  <1>4. DTypeOK
    BY <1>2, <1>3, BoundAssumption DEF DInit, DTypeOK
  <1>5. AliveIsOld /\ RacesAreNoted /\ AdvancesAreNat
    BY <1>2, <1>3 DEF DInit, AliveIsOld, RacesAreNoted, AdvancesAreNat
  <1> QED
    BY <1>4, <1>5 DEF DInv

-----------------------------------------------------------------------------
(* The theorems *)

\* A verdict at a heartbeat that the lost member never reached is undone at a host
\* that does not forget the member only by a handler that made its tests before the
\* host went beyond that heartbeat: neither old messages of the member nor gossip
\* that survivors relay pass the tests of updateStatusesFromMessage afterwards.
THEOREM Finality == DSpec => VerdictsAreFinal
  <1>1. DInit => DInv
    BY StartIsSound
  <1>2. DInv /\ [DNext]_dvars => DInv'
    BY StepIsSound
  <1>3. DInv /\ [DNext]_dvars => [Final]_dvars
    BY StepIsSound
  <1> QED
    BY <1>1, <1>2, <1>3, PTL DEF DSpec, VerdictsAreFinal

\* The types of the survivors' state: in particular no retry count ever exceeds
\* maxDeadNodeRetries, though a dead member is retried, forgotten and heard of again.
THEOREM DetectionTypeCorrect == DSpec => []DTypeOK
  <1>1. DInit => DInv
    BY StartIsSound
  <1>2. DInv /\ [DNext]_dvars => DInv'
    BY StepIsSound
  <1>3. DInv => DTypeOK
    BY DEF DInv
  <1> QED
    BY <1>1, <1>2, <1>3, PTL DEF DSpec

=============================================================================
