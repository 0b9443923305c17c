----------------------------- MODULE Membership -----------------------------
(***************************************************************************)
(* Failure detection and status gossip in an established smudge cluster    *)
(* (membership.go, with the status bookkeeping of registry.go).            *)
(*                                                                         *)
(* Every host was started by Begin() with all members in its initial       *)
(* hosts, so every registry holds every member and a member is denoted by  *)
(* its address.  A host pings its peers from its heartbeat loop; a ping    *)
(* that times out is followed by PINGREQs through other peers, each of     *)
(* which sends a non-forwarding ping (NFPING) and relays the ACK; probes   *)
(* that time out escalate a member from ALIVE to SUSPECTED to DEAD; every  *)
(* message carries the sender's view of some other members.                *)
(*                                                                         *)
(* UDP may lose, delay, reorder and duplicate messages.  Hosts crash,      *)
(* losing all their state, and start again.  A timeout may fire at any     *)
(* time: timing is abstracted away.                                        *)
(***************************************************************************)
EXTENDS NodeStatus, FiniteSets

CONSTANTS
    Node,              \* the addresses of the members
    NoNode,            \* the nil *Node
    PingRequestCount,  \* pingRequestCount(): int(2.5 * ln(members) + 0.5)
    MaxTicks,          \* bound: heartbeats of all the hosts together
    MaxInFlight,       \* bound: messages in flight or being handled; a send beyond it is lost
    MaxHandlers,       \* bound: messages that are being handled at a time
    MaxFaults          \* bound: crashes and duplicated messages together

\* With two members or more, pingRequestCount() is at least 2.
ASSUME NodeAssumption == NoNode \notin Node

ASSUME CountAssumption == PingRequestCount \in Nat \ {0}

ASSUME BoundAssumption == /\ MaxTicks \in Nat
                          /\ MaxInFlight \in Nat
                          /\ MaxHandlers \in Nat
                          /\ MaxFaults \in Nat

VARIABLES
    currentHeartbeat,  \* the host's heartbeat
    loop,              \* the next step of the host's heartbeat loop
    register,          \* currentHeartbeat + 1, loaded and not yet stored
    knownNodes,        \* the host's record of each member
    pingMillis,        \* the host's last ping result for each member
    pendingAcks,       \* the answers the host waits for
    goroutines,        \* goroutines the host has spawned, not yet finished
    network,           \* messages in flight
    handlers,          \* messages that are being handled, with the tests they passed
    ticks,             \* heartbeats so far, of all the hosts
    faults             \* crashes and duplicated messages so far

vars == <<currentHeartbeat, loop, register, knownNodes, pingMillis, pendingAcks,
          goroutines, network, handlers, ticks, faults>>

-----------------------------------------------------------------------------
(* Data *)

Status == {"ALIVE", "SUSPECTED", "DEAD"}

\* What a host records about a member: the status, the heartbeat at which it
\* was stated, and the host that stated it first (statusSource).
Record == [status : Status, heartbeat : Nat, source : Node]

PingMillis == {"NoData", "Measured", "TimedOut"}

\* A pendingAck.  Its map key is node.Address():code.  callback is the target
\* of the indirect ping in a PINGREQ and its requester in an NFP.
Pack == [packType : {"PING", "PINGREQ", "NFP"}, node : Node, code : Nat,
         callback : Node \cup {NoNode}, callbackCode : Nat]

\* doForwardOnTimeout(pack) before and after it has chosen its targets (via are
\* those still to be asked), and the spawned transmitVerbAckUDP.
Goroutine == [task : {"forward", "forwarding", "ack"}, pack : Pack,
              via : SUBSET Node]

\* A message.  forwardTo is the FORWARD_TO member of a PINGREQ; members is the
\* gossip, a record for each member the sender chose to mention.
IsMessage(m) ==
    /\ m.from \in Node
    /\ m.to \in Node
    /\ m.verb \in {"PING", "ACK", "PINGREQ", "NFPING"}
    /\ m.code \in Nat
    /\ m.forwardTo \in Node \cup {NoNode}
    /\ DOMAIN m.members \subseteq Node
    /\ m.members \in [DOMAIN m.members -> Record]

\* A goroutine that handles a message, after its tests: "advance" if the message's
\* heartbeat was ahead of the host's, "fresh" the members of whom it brought news.
IsHandler(g) ==
    /\ IsMessage(g.message)
    /\ g.advance \in BOOLEAN
    /\ g.fresh \subseteq DOMAIN g.message.members \cup {g.message.from}

\* The messages in flight and those that are being handled.
Underway == network \cup {g.message : g \in handlers}

-----------------------------------------------------------------------------
(* Status bookkeeping *)

\* What the goroutine that handles message m finds in the tests it makes: whether
\* the heartbeat has to advance, and for which of the members that m is about the
\* news are fresh.
Tested(h, m) ==
    [message |-> m,
     advance |-> IsAhead(currentHeartbeat[h], m.code),
     fresh |-> {n \in DOMAIN m.members : ~IsOld(knownNodes[h][n], m.members[n])}
               \cup (IF IsRecent(knownNodes[h][m.from], m.code) THEN {m.from} ELSE {})]

\* updateStatusesFromMessage, for the members whose news are fresh.  A message does
\* not mention its sender.
updateStatusesFromMessage(h, view, m, fresh) ==
    [n \in Node |-> IF n \notin fresh THEN view[n]
                    ELSE IF n = m.from THEN ApplySender(h, view[n], m.code)
                    ELSE ApplyGossip(h, n, view[n], m.members[n])]

-----------------------------------------------------------------------------
(* Messages *)

\* Mutant of Mentioned: the destination of the message is not left out.
MentionedAll(h, to) ==
    {S \in SUBSET (Node \ {h}) :
        /\ Cardinality(S) <= PingRequestCount
        /\ S = {} => Node \ {h} = {}}

\* The members transmitVerbGenericUDP may mention to host "to": at most
\* PingRequestCount of the others, and some unless there are no others.  Which
\* ones depends on the emit counters and on chance; any choice is allowed here.
Mentioned(h, to) ==
    {S \in SUBSET (Node \ {h, to}) :
        /\ Cardinality(S) <= PingRequestCount
        /\ S = {} => Node \ {h, to} = {}}

\* The messages transmitVerbGenericUDP may write, given host h's view.
Transmissions(h, to, verb, code, forwardTo, view) ==
    {[from |-> h, to |-> to, verb |-> verb, code |-> code, forwardTo |-> forwardTo,
      members |-> [n \in S |-> view[n]]] : S \in Mentioned(h, to)}

\* One of msgs is written.  It joins the messages in flight, or it is lost.
Transmit(msgs) ==
    \/ network' = network
    \/ /\ Cardinality(network \cup {g.message : g \in handlers'}) < MaxInFlight
       /\ \E m \in msgs : network' = network \cup {m}

\* m is taken from the messages in flight, or only a duplicate of it is.
Deliver(m) ==
    \/ /\ network' = network \ {m}
       /\ UNCHANGED faults
    \/ /\ faults < MaxFaults
       /\ faults' = faults + 1
       /\ UNCHANGED network

\* pendingAcks.m[key] = pack: a pack with the same key is overwritten.
Expect(packs, p) ==
    {q \in packs : q.node # p.node \/ q.code # p.code} \cup {p}

-----------------------------------------------------------------------------
(* The heartbeat loop *)

\* currentHeartbeat++ is not atomic: the handlers below may run, and store to
\* currentHeartbeat, between its load and its store.
LoadHeartbeat(h) ==
    /\ loop[h] = "load"
    /\ ticks < MaxTicks
    /\ ticks' = ticks + 1
    /\ loop' = [loop EXCEPT ![h] = "store"]
    /\ register' = [register EXCEPT ![h] = currentHeartbeat[h] + 1]
    /\ UNCHANGED <<currentHeartbeat, knownNodes, pingMillis, pendingAcks,
                   goroutines, network, handlers, faults>>

StoreHeartbeat(h) ==
    /\ loop[h] = "store"
    /\ loop' = [loop EXCEPT ![h] = "ping"]
    /\ currentHeartbeat' = [currentHeartbeat EXCEPT ![h] = register[h]]
    /\ register' = [register EXCEPT ![h] = 0]
    /\ UNCHANGED <<knownNodes, pingMillis, pendingAcks, goroutines, network,
                   handlers, ticks, faults>>

\* PingNode(n) for the next member of the shuffled list.  The turn of a dead
\* member is skipped while its backoff lasts, so any other member may be next.
PingNode(h, n) ==
    /\ loop[h] = "ping"
    /\ n # h
    /\ loop' = [loop EXCEPT ![h] = "load"]
    /\ pendingAcks' = [pendingAcks EXCEPT ![h] =
          Expect(@, [packType |-> "PING", node |-> n, code |-> currentHeartbeat[h],
                     callback |-> NoNode, callbackCode |-> 0])]
    /\ UNCHANGED <<currentHeartbeat, register, knownNodes, pingMillis, goroutines,
                   handlers, ticks, faults>>
    /\ Transmit(Transmissions(h, n, "PING", currentHeartbeat[h], NoNode, knownNodes[h]))

-----------------------------------------------------------------------------
(* receiveMessageUDP *)

\* A goroutine takes message m and makes the tests.  What it stores it stores later,
\* in one of the steps below, when the timeouts, the heartbeat loop and the handlers
\* of other messages may have changed what it has tested: nothing is locked, and
\* nothing is tested again.
ReceiveMessage(h, m) ==
    /\ m.to = h
    /\ Cardinality(handlers) < MaxHandlers
    /\ handlers' = handlers \cup {Tested(h, m)}
    /\ Deliver(m)
    /\ UNCHANGED <<currentHeartbeat, loop, register, knownNodes, pingMillis,
                   pendingAcks, goroutines, ticks>>

\* What handler g stores, whatever the verb.
Accept(h, g) ==
    /\ g.message.to = h
    /\ handlers' = handlers \ {g}
    /\ currentHeartbeat' = [currentHeartbeat EXCEPT ![h] =
          IF g.advance THEN Advanced(g.message.code) ELSE @]
    /\ knownNodes' = [knownNodes EXCEPT ![h] =
          updateStatusesFromMessage(h, @, g.message, g.fresh)]

\* Mutant of ReceivePing: the ACK carries the host's heartbeat, not the ping's code.
ReceivePingOwnCode(h, g) ==
    LET m == g.message
    IN  /\ m.verb \in {"PING", "NFPING"}
        /\ Accept(h, g)
        /\ Transmit(Transmissions(h, m.from, "ACK", currentHeartbeat'[h], NoNode,
                                  knownNodes'[h]))
        /\ UNCHANGED <<loop, register, pingMillis, pendingAcks, goroutines, ticks,
                       faults>>

\* receiveVerbPingUDP and receiveVerbNonForwardPingUDP.
ReceivePing(h, g) ==
    LET m == g.message
    IN  /\ m.verb \in {"PING", "NFPING"}
        /\ Accept(h, g)
        /\ Transmit(Transmissions(h, m.from, "ACK", m.code, NoNode, knownNodes'[h]))
        /\ UNCHANGED <<loop, register, pingMillis, pendingAcks, goroutines, ticks,
                       faults>>

\* Mutant of ReceiveAck: a relayed answer is timed as the target's own.
ReceiveAckTimesTarget(h, g) ==
    LET m == g.message
        answered == {p \in pendingAcks[h] : p.node = m.from /\ p.code = m.code}
        timed(p) == IF p.callback = NoNode THEN p.node ELSE p.callback
    IN  /\ m.verb = "ACK"
        /\ Accept(h, g)
        /\ pendingAcks' = [pendingAcks EXCEPT ![h] = @ \ answered]
        /\ goroutines' = [goroutines EXCEPT ![h] = @ \cup
              {[task |-> "ack", pack |-> p, via |-> {}] :
                  p \in {q \in answered : q.callback # NoNode}}]
        /\ pingMillis' = [pingMillis EXCEPT ![h] =
              [n \in Node |-> IF \E p \in answered : timed(p) = n
                              THEN "Measured" ELSE @[n]]]
        /\ UNCHANGED <<loop, register, network, ticks, faults>>

\* receiveVerbAckUDP: an answered pack with a callback spawns the ACK to it; one
\* without records the response time.
ReceiveAck(h, g) ==
    LET m == g.message
        answered == {p \in pendingAcks[h] : p.node = m.from /\ p.code = m.code}
    IN  /\ m.verb = "ACK"
        /\ Accept(h, g)
        /\ pendingAcks' = [pendingAcks EXCEPT ![h] = @ \ answered]
        /\ goroutines' = [goroutines EXCEPT ![h] = @ \cup
              {[task |-> "ack", pack |-> p, via |-> {}] :
                  p \in {q \in answered : q.callback # NoNode}}]
        /\ pingMillis' = [pingMillis EXCEPT ![h] =
              [n \in Node |-> IF \E p \in answered : p.node = n /\ p.callback = NoNode
                              THEN "Measured" ELSE @[n]]]
        /\ UNCHANGED <<loop, register, network, ticks, faults>>

\* receiveVerbForwardUDP.
ReceivePingRequest(h, g) ==
    LET m == g.message
    IN  /\ m.verb = "PINGREQ"
        /\ Accept(h, g)
        /\ pendingAcks' = [pendingAcks EXCEPT ![h] =
              Expect(@, [packType |-> "NFP", node |-> m.forwardTo, code |-> m.code,
                         callback |-> m.from, callbackCode |-> m.code])]
        /\ Transmit(Transmissions(h, m.forwardTo, "NFPING", m.code, NoNode,
                                  knownNodes'[h]))
        /\ UNCHANGED <<loop, register, pingMillis, goroutines, ticks, faults>>

-----------------------------------------------------------------------------
(* startTimeoutCheckLoop *)

\* A PING was not answered: indirect pings are left to a new goroutine.
PingTimeout(h, p) ==
    /\ p.packType = "PING"
    /\ goroutines' = [goroutines EXCEPT ![h] =
          @ \cup {[task |-> "forward", pack |-> p, via |-> {}]}]
    /\ UNCHANGED <<knownNodes, pingMillis>>

\* A PINGREQ was not answered: its target is suspected, or dead.
PingReqTimeout(h, p) ==
    /\ p.packType = "PINGREQ"
    /\ knownNodes' = [knownNodes EXCEPT ![h][p.callback] =
          Escalate(h, @, currentHeartbeat[h])]
    /\ pingMillis' = IF knownNodes[h][p.callback].status = "DEAD" THEN pingMillis
                     ELSE [pingMillis EXCEPT ![h][p.callback] = "TimedOut"]
    /\ UNCHANGED goroutines

\* A requested ping was not answered.  The ping time that is overwritten is the
\* requester's.
NFPTimeout(h, p) ==
    /\ p.packType = "NFP"
    /\ knownNodes' = [knownNodes EXCEPT ![h][p.node] =
          Escalate(h, @, currentHeartbeat[h])]
    /\ pingMillis' = IF knownNodes[h][p.node].status = "DEAD" THEN pingMillis
                     ELSE [pingMillis EXCEPT ![h][p.callback] = "TimedOut"]
    /\ UNCHANGED goroutines

\* The loop finds that pack p has expired.
Timeout(h, p) ==
    /\ \/ PingTimeout(h, p)
       \/ PingReqTimeout(h, p)
       \/ NFPTimeout(h, p)
    /\ pendingAcks' = [pendingAcks EXCEPT ![h] = @ \ {p}]
    /\ UNCHANGED <<currentHeartbeat, loop, register, network, handlers, ticks,
                   faults>>

-----------------------------------------------------------------------------
(* Spawned goroutines *)

\* Mutant of TargetNodes: the member that did not answer is asked to ping itself.
TargetNodesAll(h, n) ==
    LET live == {k \in Node \ {h} : knownNodes[h][k].status # "DEAD"}
    IN  {S \in SUBSET live : /\ Cardinality(S) <= PingRequestCount
                             /\ S # live => Cardinality(S) = PingRequestCount}

\* getTargetNodes: PingRequestCount members that are neither this host, nor n,
\* nor dead, or all of them when there are fewer.
TargetNodes(h, n) ==
    LET live == {k \in Node \ {h, n} : knownNodes[h][k].status # "DEAD"}
    IN  {S \in SUBSET live : /\ Cardinality(S) <= PingRequestCount
                             /\ S # live => Cardinality(S) = PingRequestCount}

\* doForwardOnTimeout picks its targets; with nobody to ask, the member is dead.
DoForwardOnTimeout(h, g) ==
    /\ g.task = "forward"
    /\ \E via \in TargetNodes(h, g.pack.node) :
          IF via = {}
          THEN /\ knownNodes' = [knownNodes EXCEPT ![h][g.pack.node] =
                     updateNodeStatus(@, "DEAD", currentHeartbeat[h], h)]
               /\ goroutines' = [goroutines EXCEPT ![h] = @ \ {g}]
          ELSE /\ goroutines' = [goroutines EXCEPT ![h] = (@ \ {g}) \cup
                     {[task |-> "forwarding", pack |-> g.pack, via |-> via]}]
               /\ UNCHANGED knownNodes
    /\ UNCHANGED <<currentHeartbeat, loop, register, pingMillis, pendingAcks,
                   network, handlers, ticks, faults>>

\* transmitVerbForwardUDP(n, pack.node, currentHeartbeat), one target at a time.
TransmitForward(h, g, n) ==
    /\ g.task = "forwarding"
    /\ n \in g.via
    /\ pendingAcks' = [pendingAcks EXCEPT ![h] =
          Expect(@, [packType |-> "PINGREQ", node |-> n, code |-> currentHeartbeat[h],
                     callback |-> g.pack.node, callbackCode |-> 0])]
    /\ goroutines' = [goroutines EXCEPT ![h] = (@ \ {g}) \cup
          (IF g.via = {n} THEN {}
           ELSE {[task |-> "forwarding", pack |-> g.pack, via |-> g.via \ {n}]})]
    /\ UNCHANGED <<currentHeartbeat, loop, register, knownNodes, pingMillis, handlers,
                   ticks, faults>>
    /\ Transmit(Transmissions(h, n, "PINGREQ", currentHeartbeat[h], g.pack.node,
                              knownNodes[h]))

\* The transmitVerbAckUDP spawned by receiveVerbAckUDP.
TransmitAck(h, g) ==
    /\ g.task = "ack"
    /\ goroutines' = [goroutines EXCEPT ![h] = @ \ {g}]
    /\ UNCHANGED <<currentHeartbeat, loop, register, knownNodes, pingMillis,
                   pendingAcks, handlers, ticks, faults>>
    /\ Transmit(Transmissions(h, g.pack.callback, "ACK", g.pack.callbackCode, NoNode,
                              knownNodes[h]))

-----------------------------------------------------------------------------
(* Crashing and starting again *)

\* Mutant of InitialView: AddNode gives a new node no status.
InitialViewUnknown(h) ==
    [n \in Node |-> [status |-> "UNKNOWN", heartbeat |-> 0, source |-> h]]

\* What Begin leaves in the registry of host h: itself and the initial hosts.
InitialView(h) == [n \in Node |-> [status |-> "ALIVE", heartbeat |-> 0, source |-> h]]

\* The process of host h has ended, losing its memory, and Begin starts it again.  A
\* host that is down meanwhile is one that takes no step.
Begin(h) ==
    /\ faults < MaxFaults
    /\ faults' = faults + 1
    /\ currentHeartbeat' = [currentHeartbeat EXCEPT ![h] = 0]
    /\ loop' = [loop EXCEPT ![h] = "load"]
    /\ register' = [register EXCEPT ![h] = 0]
    /\ knownNodes' = [knownNodes EXCEPT ![h] = InitialView(h)]
    /\ pingMillis' = [pingMillis EXCEPT ![h] = [n \in Node |-> "NoData"]]
    /\ pendingAcks' = [pendingAcks EXCEPT ![h] = {}]
    /\ goroutines' = [goroutines EXCEPT ![h] = {}]
    /\ handlers' = {g \in handlers : g.message.to # h}
    /\ UNCHANGED <<network, ticks>>

-----------------------------------------------------------------------------
Init ==
    /\ currentHeartbeat = [h \in Node |-> 0]
    /\ loop = [h \in Node |-> "load"]
    /\ register = [h \in Node |-> 0]
    /\ knownNodes = [h \in Node |-> InitialView(h)]
    /\ pingMillis = [h \in Node |-> [n \in Node |-> "NoData"]]
    /\ pendingAcks = [h \in Node |-> {}]
    /\ goroutines = [h \in Node |-> {}]
    /\ network = {}
    /\ handlers = {}
    /\ ticks = 0
    /\ faults = 0

Receive(h) ==
    \/ \E m \in network : ReceiveMessage(h, m)
    \/ \E g \in handlers : ReceivePing(h, g) \/ ReceiveAck(h, g) \/ ReceivePingRequest(h, g)

RunGoroutine(h) ==
    \E g \in goroutines[h] :
        \/ DoForwardOnTimeout(h, g)
        \/ \E n \in Node : TransmitForward(h, g, n)
        \/ TransmitAck(h, g)

\* Everything but the timeouts.
Other ==
    \E h \in Node :
        \/ LoadHeartbeat(h)
        \/ StoreHeartbeat(h)
        \/ \E n \in Node : PingNode(h, n)
        \/ Receive(h)
        \/ RunGoroutine(h)
        \/ Begin(h)

Next == Other \/ \E h \in Node : \E p \in pendingAcks[h] : Timeout(h, p)

Spec == Init /\ [][Next]_vars

-----------------------------------------------------------------------------
(* Properties *)

\* Types of the globals of each host, of its goroutines and of the messages in flight.
TypeOK ==
    /\ currentHeartbeat \in [Node -> Nat]
    /\ loop \in [Node -> {"load", "store", "ping"}]
    /\ register \in [Node -> Nat]
    /\ knownNodes \in [Node -> [Node -> Record]]
    /\ pingMillis \in [Node -> [Node -> PingMillis]]
    /\ pendingAcks \in [Node -> SUBSET Pack]
    /\ goroutines \in [Node -> SUBSET Goroutine]
    /\ \A m \in network : IsMessage(m)
    /\ \A g \in handlers : IsHandler(g)
    /\ ticks \in Nat
    /\ faults \in Nat

\* No host is ever told that it is suspected or dead: its record of itself stays
\* what Begin made it.  updateStatusesFromMessage refuses only the news that it is
\* dead; what keeps the suspicions out is that transmitVerbGenericUDP never
\* mentions a message's destination in it.
SelfAlive == \A h \in Node : knownNodes[h][h] = InitialView(h)[h]

\* Probes always involve distinct hosts.  A host neither waits for its own answer
\* nor writes to itself; an indirect ping is asked of a third host, on behalf of a
\* second one that is neither asked nor asking, so that every answer a relay waits
\* for has somebody to be reported to; only an unanswered PING is followed up by
\* ping requests (getTargetNodes' exclusions, receiveVerbForwardUDP,
\* startTimeoutCheckLoop).
WellFormedProbes ==
    /\ \A h \in Node : \A p \in pendingAcks[h] :
          /\ h \notin {p.node, p.callback}
          /\ p.node # p.callback
          /\ p.packType = "PING" <=> p.callback = NoNode
    /\ \A h \in Node : \A g \in goroutines[h] :
          /\ h \notin {g.pack.node, g.pack.callback} \cup g.via
          /\ g.pack.node \notin g.via
          /\ g.pack.packType = "PING" <=> g.task # "ack"
          /\ g.pack.packType = "PING" <=> g.pack.callback = NoNode
    /\ \A m \in Underway :
          /\ m.from # m.to
          /\ m.forwardTo \notin {m.from, m.to}
          /\ m.verb = "PINGREQ" <=> m.forwardTo # NoNode
          /\ DOMAIN m.members \cap {m.from, m.to} = {}

\* Heartbeats come from heartbeat loops only.  Hosts adopt the heartbeats they
\* read in messages, answer with them and store them in their records, and hosts
\* that restart begin again at 0; this never drives a heartbeat anywhere beyond the
\* number of heartbeats that were made ("Synchronize heartbeats" in
\* receiveMessageUDP).
NoHeartbeatInflation ==
    /\ \A h \in Node :
          /\ currentHeartbeat[h] <= ticks
          /\ register[h] <= ticks
          /\ \A n \in Node : knownNodes[h][n].heartbeat <= ticks
          /\ \A p \in pendingAcks[h] : p.code <= ticks /\ p.callbackCode <= ticks
          /\ \A g \in goroutines[h] : g.pack.code <= ticks /\ g.pack.callbackCode <= ticks
    /\ \A m \in Underway :
          /\ m.code <= ticks
          /\ \A n \in DOMAIN m.members : m.members[n].heartbeat <= ticks

=============================================================================
