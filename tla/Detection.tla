------------------------------ MODULE Detection ------------------------------
(***************************************************************************)
(* What becomes of a member that has crashed: how the surviving hosts find *)
(* out, tell each other and finally forget it (Begin's heartbeat loop,     *)
(* startTimeoutCheckLoop, doForwardOnTimeout, updateStatusesFromMessage).  *)
(*                                                                         *)
(* Membership fixes who is in the registries; here the lost member is      *)
(* removed from them and comes back, and the question is what becomes of   *)
(* it in the end.  A message is handled in two steps, its tests and its    *)
(* stores, and the handler keeps the Node it was given even if the registry *)
(* removes it in between.  Which of the removed Nodes are the same one is  *)
(* left to Registry.                                                       *)
(***************************************************************************)
EXTENDS NodeStatus, FiniteSets

CONSTANTS
    Host,                \* the surviving members
    Lost,                \* the member that crashed
    LastHeartbeat,       \* bound: its highest heartbeat
    MaxHeartbeat,        \* bound: where the survivors' heartbeats stop
    MaxDeadNodeRetries,  \* maxDeadNodeRetries: 10
    MaxPending,          \* bound: answers of a kind a host waits for; one more
                         \* takes the place of another, as a pack of its key does
    MaxInFlight          \* bound: messages in flight or being handled; a send
                         \* beyond it is lost

ASSUME HostAssumption == IsFiniteSet(Host) /\ Lost \notin Host

ASSUME BoundAssumption == /\ LastHeartbeat \in Nat
                          /\ MaxHeartbeat \in Nat
                          /\ MaxDeadNodeRetries \in Nat \ {0}
                          /\ MaxPending \in Nat

VARIABLES
    currentHeartbeat,  \* the host's heartbeat
    record,            \* what the host's registry holds about the lost member
    deadNodeRetries,   \* the host's retry count for it; 0 when there is none
    pinging,           \* the PING answers of the lost member the host waits for
    awaiting,          \* the PINGREQ and NFP answers about it the host waits for
    network,           \* messages in flight
    handlers,          \* messages that are being handled, with the tests they passed
    overtaken          \* history: the handlers whose tests a later verdict outdates

dvars == <<currentHeartbeat, record, deadNodeRetries, pinging, awaiting, network,
           handlers, overtaken>>

-----------------------------------------------------------------------------
(* Data *)

\* The fresh Node that decodeMessage creates for a member it does not know.  The
\* records name no source: nothing here depends on it.
Absent == [status |-> "UNKNOWN", heartbeat |-> 0, source |-> Lost]

Known(h) == record[h] # Absent

Record == [status : {"ALIVE", "SUSPECTED", "DEAD", "UNKNOWN"}, heartbeat : Nat,
           source : {Lost}]

\* A message: its sender's heartbeat, whether it is a PINGREQ for the lost member,
\* and its mention of the lost member, Absent if there is none.  Those written by
\* the lost member are "own".
Message(to, kind, code, mention) ==
    [to |-> to, kind |-> kind, code |-> code, mention |-> mention]

Messages == [to : Host, kind : {"own", "gossip", "PINGREQ"}, code : Nat,
             mention : Record]

\* A goroutine that handles a message, after its tests: "advance" if the message's
\* heartbeat was ahead of the host's, "fresh" if it brought news of the lost member.
\* It stores to the registered Node, or to a Node that is not, or no longer, in the
\* registry.
Handlers == [message : Messages, advance : BOOLEAN, fresh : BOOLEAN,
             registered : BOOLEAN, node : Record]

\* What host h may say about the lost member to another host: what it holds, or
\* nothing if there is a third survivor to speak of.
Mentions(h) == {record[h]} \cup (IF \E i, j \in Host \ {h} : i # j THEN {Absent} ELSE {})

\* Messages are written.  Each joins the messages in flight, or it is lost.
Transmit(msgs) ==
    \E S \in SUBSET msgs :
        /\ Cardinality(network \cup S) + Cardinality(handlers') <= MaxInFlight
        /\ network' = network \cup S

\* One answer more to wait for.
More(count) == IF count < MaxPending THEN count + 1 ELSE count

\* Mutant of Retries: whatever is heard of the member restarts the count.
RetriesRestart(h, r) == 0

\* deadNodeRetries after the record of host h became r: updateNodeStatus deletes
\* the entry when the status is not DEAD.
Retries(h, r) ==
    IF r.status \in {"DEAD", "UNKNOWN"} THEN deadNodeRetries[h] ELSE 0

\* Host h revises its record to r.
Revise(h, r) ==
    /\ record' = [record EXCEPT ![h] = r]
    /\ deadNodeRetries' = [deadNodeRetries EXCEPT ![h] = Retries(h, r)]

-----------------------------------------------------------------------------
(* The heartbeat loop *)

\* currentHeartbeat++ for every ping.
Tick(h) ==
    currentHeartbeat' = [currentHeartbeat EXCEPT ![h] =
        IF @ < MaxHeartbeat THEN @ + 1 ELSE @]

\* The turn of another survivor comes at host h; what is written to it is in Send.
PingOther(h) ==
    /\ Tick(h)
    /\ UNCHANGED <<record, deadNodeRetries, pinging, awaiting, network, handlers>>

\* The first turn of a dead member makes its deadNodeCounter.  Neither in this turn
\* nor while the counter's ever longer countdown lasts is it pinged.
Backoff(h) ==
    /\ record[h].status = "DEAD"
    /\ deadNodeRetries[h] = 0
    /\ deadNodeRetries' = [deadNodeRetries EXCEPT ![h] = 1]
    /\ UNCHANGED <<currentHeartbeat, record, pinging, awaiting, network, handlers>>

\* Mutant of Ping: there is no limit to the retries.
PingWithoutLimit(h) ==
    /\ Known(h)
    /\ record[h].status = "DEAD" => deadNodeRetries[h] > 0
    /\ deadNodeRetries' = [deadNodeRetries EXCEPT ![h] =
          IF record[h].status = "DEAD" THEN @ + 1 ELSE @]
    /\ Tick(h)
    /\ pinging' = [pinging EXCEPT ![h] = More(@)]
    /\ UNCHANGED <<record, awaiting, network, handlers>>

\* The turn of the lost member comes at host h, and it is pinged; a dead one only
\* when a countdown has ended.
Ping(h) ==
    /\ Known(h)
    /\ record[h].status = "DEAD" =>
          deadNodeRetries[h] > 0 /\ deadNodeRetries[h] + 1 <= MaxDeadNodeRetries
    /\ deadNodeRetries' = [deadNodeRetries EXCEPT ![h] =
          IF record[h].status = "DEAD" THEN @ + 1 ELSE @]
    /\ Tick(h)
    /\ pinging' = [pinging EXCEPT ![h] = More(@)]
    /\ UNCHANGED <<record, awaiting, network, handlers>>

\* "Forgetting dead node": its retries are used up, RemoveNode.  A handler that has
\* looked the Node up goes on with it.
Forget(h) ==
    /\ record[h].status = "DEAD"
    /\ deadNodeRetries[h] > 0
    /\ deadNodeRetries[h] + 1 > MaxDeadNodeRetries
    /\ record' = [record EXCEPT ![h] = Absent]
    /\ deadNodeRetries' = [deadNodeRetries EXCEPT ![h] = 0]
    /\ handlers' = {IF g.message.to = h /\ g.registered
                    THEN [g EXCEPT !.registered = FALSE, !.node = record[h]]
                    ELSE g : g \in handlers}
    /\ UNCHANGED <<currentHeartbeat, pinging, awaiting, network>>

-----------------------------------------------------------------------------
(* Timeouts *)

\* The PING was not answered: doForwardOnTimeout asks other survivors, those that h
\* does not hold dead, or gives the verdict when there is none.
PingTimeout(h) ==
    /\ pinging[h] > 0
    /\ pinging' = [pinging EXCEPT ![h] = @ - 1]
    /\ UNCHANGED <<currentHeartbeat, handlers>>
    /\ \E via \in SUBSET (Host \ {h}) :
          IF via = {}
          THEN /\ IF Known(h)
                  THEN Revise(h, updateNodeStatus(record[h], "DEAD", currentHeartbeat[h], Lost))
                  ELSE UNCHANGED <<record, deadNodeRetries>>
               /\ UNCHANGED <<awaiting, network>>
          ELSE /\ awaiting' = [awaiting EXCEPT ![h] = More(@)]
               /\ \E mention \in Mentions(h) :
                     Transmit({Message(k, "PINGREQ", currentHeartbeat[h], mention) : k \in via})
               /\ UNCHANGED <<record, deadNodeRetries>>

\* A PINGREQ or an NFP about the lost member was not answered.
ProbeTimeout(h) ==
    /\ awaiting[h] > 0
    /\ awaiting' = [awaiting EXCEPT ![h] = @ - 1]
    /\ IF Known(h) THEN Revise(h, Escalate(Lost, record[h], currentHeartbeat[h]))
       ELSE UNCHANGED <<record, deadNodeRetries>>
    /\ UNCHANGED <<currentHeartbeat, pinging, network, handlers>>

\* The host stops waiting without a verdict.  The pack of a PINGREQ to host k is
\* consumed by any ACK of k with its code, and any pack is overwritten by the next
\* one with its key; and the verdict of a timeout is lost on a Node that has been
\* removed.
Settle(h) ==
    /\ \/ /\ pinging[h] > 0
          /\ pinging' = [pinging EXCEPT ![h] = @ - 1]
          /\ UNCHANGED awaiting
       \/ /\ awaiting[h] > 0
          /\ awaiting' = [awaiting EXCEPT ![h] = @ - 1]
          /\ UNCHANGED pinging
    /\ UNCHANGED <<currentHeartbeat, record, deadNodeRetries, network, handlers>>

-----------------------------------------------------------------------------
(* Messages *)

\* Host h writes a PING, an ACK or an NFPING of other members to host k.
Send(h, k) ==
    /\ k # h
    /\ UNCHANGED <<currentHeartbeat, record, deadNodeRetries, pinging, awaiting, handlers>>
    /\ \E mention \in Mentions(h) :
          Transmit({Message(k, "gossip", currentHeartbeat[h], mention)})

Lose(m) ==
    /\ network' = network \ {m}
    /\ UNCHANGED <<currentHeartbeat, record, deadNodeRetries, pinging, awaiting, handlers>>

\* Did message m bring news of the lost member to a host that holds r?
Fresh(r, m) ==
    IF m.kind = "own" THEN IsRecent(r, m.code)
    ELSE m.mention # Absent /\ ~IsOld(r, m.mention)

\* receiveMessageUDP, up to the tests of updateStatusesFromMessage.
Receive(m) ==
    LET h == m.to
    IN  /\ network' = network \ {m}
        /\ handlers' = handlers \cup
              {[message |-> m, advance |-> IsAhead(currentHeartbeat[h], m.code),
                fresh |-> Fresh(record[h], m), registered |-> Known(h), node |-> Absent]}
        /\ UNCHANGED <<currentHeartbeat, record, deadNodeRetries, pinging, awaiting>>

\* What handler g makes of the Node it has: r is its record.
Told(g, r) ==
    IF ~g.fresh THEN r
    ELSE IF g.message.kind = "own" THEN ApplySender(Lost, r, g.message.code)
    ELSE ApplyGossip(g.message.to, Lost, r, g.message.mention)

\* AddNode puts a Node that is not registered into the registry, unless there is one.
Adds(g) == ~Known(g.message.to) /\ (g.fresh \/ g.message.kind = "own")

\* The stores of handler g: the heartbeat, and with updateStatusesFromMessage the
\* Node that it has looked up.  A PINGREQ makes the host wait for the answer to its
\* own, non-forwarding ping.
Store(g) ==
    LET h == g.message.to
        told == Told(g, IF g.registered THEN record[h] ELSE g.node)
    IN  /\ handlers' = handlers \ {g}
        /\ currentHeartbeat' = [currentHeartbeat EXCEPT ![h] =
              IF g.advance THEN Advanced(g.message.code) ELSE @]
        /\ record' = [record EXCEPT ![h] = IF g.registered \/ Adds(g) THEN told ELSE @]
        /\ deadNodeRetries' = [deadNodeRetries EXCEPT ![h] = Retries(h, told)]
        /\ awaiting' = [awaiting EXCEPT ![h] =
              IF g.message.kind = "PINGREQ" THEN More(@) ELSE @]
        /\ UNCHANGED <<pinging, network>>

-----------------------------------------------------------------------------

\* The lost member was known everywhere since Begin, and has crashed; its last
\* messages may still be in flight.
DInit ==
    /\ currentHeartbeat = [h \in Host |-> 0]
    /\ record = [h \in Host |-> [status |-> "ALIVE", heartbeat |-> 0, source |-> Lost]]
    /\ deadNodeRetries = [h \in Host |-> 0]
    /\ pinging = [h \in Host |-> 0]
    /\ awaiting = [h \in Host |-> 0]
    /\ network \in {S \in SUBSET {Message(h, "own", k, Absent) :
                                     h \in Host, k \in 1 .. LastHeartbeat} :
                       Cardinality(S) <= MaxInFlight}
    /\ handlers = {}
    /\ overtaken = {}

\* The turn of the lost member in the heartbeat loop.
Turn(h) == Backoff(h) \/ Ping(h) \/ Forget(h)

\* A time that startTimeoutCheckLoop looks at the answers h waits for.
Check(h) == PingTimeout(h) \/ ProbeTimeout(h) \/ Settle(h)

\* The record of host h is stated at a heartbeat that the lost member never reached.
Beyond(h) == record[h].heartbeat > LastHeartbeat

\* The record goes beyond that heartbeat while a handler is past its tests.
NoteVerdicts ==
    overtaken' = {g \in handlers' : \/ g \in overtaken
                                    \/ /\ g \in handlers
                                       /\ ~Beyond(g.message.to)
                                       /\ Beyond(g.message.to)'}

DNext ==
    /\ \/ \E h \in Host :
             Turn(h) \/ PingOther(h) \/ Check(h) \/ \E k \in Host : Send(h, k)
       \/ \E m \in network : Receive(m) \/ Lose(m)
       \/ \E g \in handlers : Store(g)
    /\ NoteVerdicts

DSpec == DInit /\ [][DNext]_dvars

\* The loops come to every member again and again, and no message and no handler is
\* kept for ever.
FairSpec ==
    /\ DSpec
    /\ \A h \in Host : WF_dvars(Turn(h) /\ NoteVerdicts) /\ WF_dvars(Check(h) /\ NoteVerdicts)
    /\ WF_dvars(\E m \in network : (Receive(m) \/ Lose(m)) /\ NoteVerdicts)
    /\ WF_dvars(\E g \in handlers : Store(g) /\ NoteVerdicts)

-----------------------------------------------------------------------------
(* Properties *)

\* Types.  No host counts more retries of the lost member than maxDeadNodeRetries.
DTypeOK ==
    /\ currentHeartbeat \in [Host -> Nat]
    /\ record \in [Host -> Record]
    /\ deadNodeRetries \in [Host -> 0 .. MaxDeadNodeRetries]
    /\ pinging \in [Host -> 0 .. MaxPending]
    /\ awaiting \in [Host -> 0 .. MaxPending]
    /\ network \subseteq Messages
    /\ handlers \subseteq Handlers
    /\ overtaken \subseteq handlers

\* A suspicion or verdict stated at a heartbeat that the lost member never reached
\* is undone only in a race: by a handler that made its tests before the record went
\* beyond that heartbeat, and stores after it (updateStatusesFromMessage tests, but
\* updateNodeStatus does not test again).  Nothing that is received later, whether it
\* was written before the crash or relayed since, makes a host hold the member alive
\* again, unless the host has forgotten it.
Final ==
    \A h \in Host :
        Beyond(h) /\ record'[h].status = "ALIVE" =>
            \E g \in handlers \ handlers' : g.message.to = h /\ g \in overtaken

VerdictsAreFinal == [][Final]_dvars

\* "Dead nodes are ... eventually removed": a survivor that is told of the lost
\* member, however often, forgets it each time (Begin's heartbeat loop), unless it is
\* told again and again that the member is only suspected.
EventuallyForgotten ==
    \A h \in Host : <>[](record[h].status \in {"DEAD", "UNKNOWN"}) => []<>~Known(h)

-----------------------------------------------------------------------------
(* What the comments of the code say *)

\* "Dead nodes are pinged (far) less often, and are eventually removed": if from some
\* time on no survivor holds the lost member for anything but dead, then there is a
\* time from which on it is in nobody's registry (registry.go).
EventuallyRemoved ==
    <>[](\A h \in Host : record[h].status \in {"DEAD", "UNKNOWN"}) =>
        <>[](\A h \in Host : ~Known(h))

=============================================================================
