-------------------------- MODULE MembershipProofs --------------------------
(***************************************************************************)
(* The safety of Membership, for any number of members, heartbeats,        *)
(* messages in flight, handlers between their tests and their stores, and  *)
(* crashes.  The invariants of the first half are proved at once: their    *)
(* conjunction is inductive, no smaller part of it is.  It is regrouped by *)
(* the piece of state it speaks of, so that an action has one fact to      *)
(* re-establish for each variable it changes.                              *)
(*                                                                         *)
(* The second half proves that beliefs and answers are grounded.  Its      *)
(* inductive invariant adds to the properties what keeps them true: why a  *)
(* host waits for an answer.                                               *)
(***************************************************************************)
EXTENDS MembershipHistory, TLAPS

\* What holds, t heartbeats having been made, of host h's view of the members,
GoodView(h, v, t) ==
    /\ v \in [Node -> Record]
    /\ \A n \in Node : v[n].heartbeat <= t
    /\ v[h] = InitialView(h)[h]

\* of a pending ack of host h,
GoodPack(h, p, t) ==
    /\ p \in Pack
    /\ p.code <= t
    /\ p.callbackCode <= t
    /\ h \notin {p.node, p.callback}
    /\ p.node # p.callback
    /\ p.packType = "PING" <=> p.callback = NoNode

\* of a goroutine of host h,
GoodGoroutine(h, g, t) ==
    /\ g \in Goroutine
    /\ GoodPack(h, g.pack, t)
    /\ h \notin g.via
    /\ g.pack.node \notin g.via
    /\ g.pack.packType = "PING" <=> g.task # "ack"

\* and of a message in flight.
GoodMessage(m, t) ==
    /\ IsMessage(m)
    /\ m.code <= t
    /\ \A n \in DOMAIN m.members : m.members[n].heartbeat <= t
    /\ m.from # m.to
    /\ m.forwardTo \notin {m.from, m.to}
    /\ m.verb = "PINGREQ" <=> m.forwardTo # NoNode
    /\ DOMAIN m.members \cap {m.from, m.to} = {}

\* What it takes for a handler to advance the heartbeat is tested beforehand.
GoodHandler(g, t) ==
    /\ IsHandler(g)
    /\ GoodMessage(g.message, t)
    /\ g.advance => g.message.code > 0

GoodHeartbeats ==
    /\ ticks \in Nat
    /\ currentHeartbeat \in [Node -> 0..ticks]
    /\ register \in [Node -> 0..ticks]

GoodViews ==
    /\ knownNodes \in [Node -> [Node -> Record]]
    /\ \A h \in Node : GoodView(h, knownNodes[h], ticks)

GoodPacks ==
    /\ pendingAcks \in [Node -> SUBSET Pack]
    /\ \A h \in Node : \A p \in pendingAcks[h] : GoodPack(h, p, ticks)

GoodGoroutines ==
    /\ goroutines \in [Node -> SUBSET Goroutine]
    /\ \A h \in Node : \A g \in goroutines[h] : GoodGoroutine(h, g, ticks)

GoodNetwork == \A m \in network : GoodMessage(m, ticks)

GoodHandlers == \A g \in handlers : GoodHandler(g, ticks)

GoodRest ==
    /\ loop \in [Node -> {"load", "store", "ping"}]
    /\ pingMillis \in [Node -> [Node -> PingMillis]]
    /\ faults \in Nat

\* The inductive invariant.
Inv == /\ GoodHeartbeats
       /\ GoodViews
       /\ GoodPacks
       /\ GoodGoroutines
       /\ GoodNetwork
       /\ GoodHandlers
       /\ GoodRest

\* The inductive invariant is the four invariants of Membership, regrouped.
LEMMA InvImpliesSafety ==
    Inv => TypeOK /\ SelfAlive /\ WellFormedProbes /\ NoHeartbeatInflation
<1> SUFFICES ASSUME Inv
             PROVE  TypeOK /\ SelfAlive /\ WellFormedProbes /\ NoHeartbeatInflation
    OBVIOUS
<1>1. TypeOK
      BY DEF Inv, GoodHeartbeats, GoodViews, GoodPacks, GoodGoroutines, GoodNetwork,
             GoodHandlers, GoodHandler, GoodRest, GoodMessage, TypeOK
<1> \A m \in Underway : GoodMessage(m, ticks)
    BY DEF Inv, GoodNetwork, GoodHandlers, GoodHandler, Underway
<1>2. SelfAlive
      BY DEF Inv, GoodViews, GoodView, SelfAlive
<1>3. WellFormedProbes
  <2>1. ASSUME NEW h \in Node, NEW g \in goroutines[h]
        PROVE  /\ h \notin {g.pack.node, g.pack.callback} \cup g.via
               /\ g.pack.node \notin g.via
               /\ g.pack.packType = "PING" <=> g.task # "ack"
               /\ g.pack.packType = "PING" <=> g.pack.callback = NoNode
        BY <2>1 DEF Inv, GoodGoroutines, GoodGoroutine, GoodPack
  <2> QED BY <2>1 DEF Inv, GoodPacks, GoodPack, GoodMessage, WellFormedProbes
<1>4. NoHeartbeatInflation
  <2>1. ASSUME NEW h \in Node
        PROVE  currentHeartbeat[h] <= ticks /\ register[h] <= ticks
        BY DEF Inv, GoodHeartbeats
  <2>2. ASSUME NEW h \in Node, NEW g \in goroutines[h]
        PROVE  g.pack.code <= ticks /\ g.pack.callbackCode <= ticks
        BY <2>2 DEF Inv, GoodGoroutines, GoodGoroutine, GoodPack
  <2> QED BY <2>1, <2>2 DEF Inv, GoodViews, GoodView, GoodPacks, GoodPack,
                            GoodMessage, NoHeartbeatInflation
<1> QED BY <1>1, <1>2, <1>3, <1>4

-----------------------------------------------------------------------------
(* What the operators preserve *)

\* updateNodeStatus yields a record.
LEMMA UpdatedRecord ==
    ASSUME NEW r \in Record, NEW status \in Status, NEW k \in Nat, NEW source \in Node
    PROVE  updateNodeStatus(r, status, k, source) \in Record
BY DEF updateNodeStatus, Record

\* The gossip and the sender of a good message leave a view good: nothing in it
\* is about the host that reads it.
LEMMA GoodUpdate ==
    ASSUME NEW h \in Node, NEW t \in Nat, NEW v, GoodView(h, v, t),
           NEW m, GoodMessage(m, t), m.to = h,
           NEW fresh, fresh \subseteq DOMAIN m.members \cup {m.from}
    PROVE  GoodView(h, updateStatusesFromMessage(h, v, m, fresh), t)
<1> DEFINE w == updateStatusesFromMessage(h, v, m, fresh)
<1>1. w = [n \in Node |-> IF n \notin fresh THEN v[n]
                          ELSE IF n = m.from THEN ApplySender(h, v[n], m.code)
                          ELSE ApplyGossip(h, n, v[n], m.members[n])]
      BY Zenon DEF updateStatusesFromMessage
<1>2. ASSUME NEW n \in Node
      PROVE  v[n] \in Record /\ v[n].heartbeat <= t
      BY DEF GoodView
<1>3. ASSUME NEW n \in Node, n \in fresh, n # m.from
      PROVE  /\ ApplyGossip(h, n, v[n], m.members[n]) \in Record
             /\ ApplyGossip(h, n, v[n], m.members[n]).heartbeat <= t
  <2>1. m.members[n] \in Record /\ m.members[n].heartbeat <= t
        BY <1>3 DEF GoodMessage, IsMessage
  <2> QED BY <1>2, <2>1 DEF ApplyGossip, updateNodeStatus, Record
<1>4. ASSUME NEW n \in Node
      PROVE  /\ ApplySender(h, v[n], m.code) \in Record
             /\ ApplySender(h, v[n], m.code).heartbeat <= t
  <2>1. m.code \in Nat /\ m.code <= t
        BY DEF GoodMessage, IsMessage
  <2> QED BY <1>2, <2>1 DEF ApplySender, updateNodeStatus, Record, Status
<1>5. w[h] = v[h]
  <2>1. h \notin fresh
        BY DEF GoodMessage
  <2> QED BY <1>1, <2>1
<1> HIDE DEF w
<1>6. w \in [Node -> Record] /\ \A n \in Node : w[n].heartbeat <= t
      BY <1>1, <1>2, <1>3, <1>4
<1> QED BY <1>5, <1>6 DEF GoodView, w

\* What transmitVerbGenericUDP writes is a good message.
LEMMA GoodTransmission ==
    ASSUME NEW h \in Node, NEW to \in Node, h # to,
           NEW t \in Nat, NEW code \in Nat, code <= t,
           NEW verb \in {"PING", "ACK", "PINGREQ", "NFPING"},
           NEW forwardTo \in Node \cup {NoNode}, forwardTo \notin {h, to},
           verb = "PINGREQ" <=> forwardTo # NoNode,
           NEW v, GoodView(h, v, t),
           NEW m \in Transmissions(h, to, verb, code, forwardTo, v)
    PROVE  GoodMessage(m, t)
<1>1. PICK S \in SUBSET (Node \ {h, to}) :
         m = [from |-> h, to |-> to, verb |-> verb, code |-> code,
              forwardTo |-> forwardTo, members |-> [n \in S |-> v[n]]]
      BY DEF Transmissions, Mentioned
<1>2. /\ m.from = h /\ m.to = to /\ m.verb = verb /\ m.code = code
      /\ m.forwardTo = forwardTo /\ m.members = [n \in S |-> v[n]]
      BY <1>1
<1>3. DOMAIN m.members = S /\ m.members \in [S -> Record]
      BY <1>2 DEF GoodView
<1>4. \A n \in S : m.members[n].heartbeat <= t
      BY <1>2 DEF GoodView
<1> QED BY <1>2, <1>3, <1>4 DEF GoodMessage, IsMessage

\* Messages that were good and messages that are good are all that is in flight
\* after a transmission.
LEMMA GoodTransmit ==
    ASSUME NEW msgs, Transmit(msgs), GoodNetwork, ticks' = ticks,
           \A m \in msgs : GoodMessage(m, ticks)
    PROVE  GoodNetwork'
BY DEF Transmit, GoodNetwork

\* Time passing spoils nothing.
LEMMA GoodLater ==
    ASSUME NEW t \in Nat
    PROVE  /\ \A h \in Node : \A v : GoodView(h, v, t) => GoodView(h, v, t + 1)
           /\ \A h \in Node : \A p : GoodPack(h, p, t) => GoodPack(h, p, t + 1)
           /\ \A h \in Node : \A g : GoodGoroutine(h, g, t) => GoodGoroutine(h, g, t + 1)
           /\ \A m : GoodMessage(m, t) => GoodMessage(m, t + 1)
           /\ \A g : GoodHandler(g, t) => GoodHandler(g, t + 1)
<1>1. ASSUME NEW h \in Node, NEW v, GoodView(h, v, t)
      PROVE  GoodView(h, v, t + 1)
      BY <1>1 DEF GoodView, Record
<1>2. ASSUME NEW h \in Node, NEW p, GoodPack(h, p, t)
      PROVE  GoodPack(h, p, t + 1)
      BY <1>2 DEF GoodPack, Pack
<1>3. ASSUME NEW h \in Node, NEW g, GoodGoroutine(h, g, t)
      PROVE  GoodGoroutine(h, g, t + 1)
      BY <1>2, <1>3 DEF GoodGoroutine
<1>4. ASSUME NEW m, GoodMessage(m, t)
      PROVE  GoodMessage(m, t + 1)
  <2>1. \A n \in DOMAIN m.members : m.members[n] \in Record
        BY <1>4 DEF GoodMessage, IsMessage
  <2> QED BY <1>4, <2>1 DEF GoodMessage, IsMessage, Record
<1>5. ASSUME NEW g, GoodHandler(g, t)
      PROVE  GoodHandler(g, t + 1)
      BY <1>4, <1>5, Zenon DEF GoodHandler
<1> QED BY <1>1, <1>2, <1>3, <1>4, <1>5

-----------------------------------------------------------------------------
(* Every action preserves the invariant *)

\* Begin leaves a good view.
LEMMA GoodInitialView ==
    ASSUME NEW h \in Node, NEW t \in Nat
    PROVE  GoodView(h, InitialView(h), t)
BY DEF GoodView, InitialView, Record, Status

LEMMA InitInv == Init => Inv
<1> SUFFICES ASSUME Init PROVE Inv
    OBVIOUS
<1>1. GoodHeartbeats
      BY DEF Init, GoodHeartbeats
<1>2. GoodViews
  <2>1. \A h \in Node : GoodView(h, knownNodes[h], ticks)
        BY GoodInitialView DEF Init
  <2>2. \A h \in Node : knownNodes[h] \in [Node -> Record]
        BY <2>1 DEF GoodView
  <2> QED BY <2>1, <2>2 DEF Init, GoodViews
<1>3. GoodPacks /\ GoodGoroutines /\ GoodNetwork /\ GoodHandlers /\ GoodRest
      BY DEF Init, GoodPacks, GoodGoroutines, GoodNetwork, GoodHandlers, GoodRest, PingMillis
<1> QED BY <1>1, <1>2, <1>3 DEF Inv

LEMMA LoadHeartbeatInv ==
    ASSUME Inv, NEW h \in Node, LoadHeartbeat(h)
    PROVE  Inv'
<1> USE DEF Inv, LoadHeartbeat
<1>1. ticks \in Nat /\ ticks' = ticks + 1
      BY DEF GoodHeartbeats
<1>2. GoodHeartbeats'
      BY <1>1 DEF GoodHeartbeats
<1>3. GoodViews' /\ GoodPacks' /\ GoodGoroutines' /\ GoodNetwork' /\ GoodHandlers'
      BY <1>1, GoodLater DEF GoodViews, GoodPacks, GoodGoroutines, GoodNetwork, GoodHandlers
<1>4. GoodRest'
      BY DEF GoodRest
<1> QED BY <1>2, <1>3, <1>4

LEMMA StoreHeartbeatInv ==
    ASSUME Inv, NEW h \in Node, StoreHeartbeat(h)
    PROVE  Inv'
<1> USE DEF Inv, StoreHeartbeat
<1>1. GoodHeartbeats'
      BY DEF GoodHeartbeats
<1>2. GoodViews' /\ GoodPacks' /\ GoodGoroutines' /\ GoodNetwork' /\ GoodHandlers' /\ GoodRest'
      BY DEF GoodViews, GoodPacks, GoodGoroutines, GoodNetwork, GoodHandlers, GoodRest
<1> QED BY <1>1, <1>2

\* A host that waits for one more good answer still waits for good ones only.
LEMMA GoodExpect ==
    ASSUME GoodPacks, ticks' = ticks, NEW h \in Node, NEW p, GoodPack(h, p, ticks),
           pendingAcks' = [pendingAcks EXCEPT ![h] = Expect(@, p)]
    PROVE  GoodPacks'
<1>1. p \in Pack
      BY DEF GoodPack
<1>2. pendingAcks' \in [Node -> SUBSET Pack]
      BY <1>1 DEF GoodPacks, Expect
<1>3. ASSUME NEW k \in Node, NEW q \in pendingAcks'[k]
      PROVE  GoodPack(k, q, ticks)
      BY <1>3 DEF GoodPacks, Expect
<1> QED BY <1>2, <1>3 DEF GoodPacks

LEMMA PingNodeInv ==
    ASSUME Inv, NEW h \in Node, NEW n \in Node, PingNode(h, n)
    PROVE  Inv'
<1> DEFINE p == [packType |-> "PING", node |-> n, code |-> currentHeartbeat[h],
                 callback |-> NoNode, callbackCode |-> 0]
           msgs == Transmissions(h, n, "PING", currentHeartbeat[h], NoNode, knownNodes[h])
<1>1. ticks \in Nat /\ currentHeartbeat[h] \in Nat /\ currentHeartbeat[h] <= ticks
      BY DEF Inv, GoodHeartbeats
<1>2. GoodPack(h, p, ticks)
      BY <1>1, NodeAssumption DEF GoodPack, Pack, PingNode
<1>3. GoodPacks'
      BY <1>2, GoodExpect, Zenon DEF Inv, PingNode
<1>4. \A m \in msgs : GoodMessage(m, ticks)
      BY <1>1, GoodTransmission, NodeAssumption DEF Inv, GoodViews, PingNode
<1>5. GoodNetwork'
      BY <1>4, GoodTransmit, Zenon DEF Inv, PingNode
<1>6. GoodHeartbeats' /\ GoodViews' /\ GoodGoroutines' /\ GoodHandlers' /\ GoodRest'
      BY DEF Inv, PingNode, GoodHeartbeats, GoodViews, GoodGoroutines, GoodHandlers, GoodRest
<1> QED BY <1>3, <1>5, <1>6 DEF Inv

\* The tests of a good message make a good handler.
LEMMA GoodTested ==
    ASSUME NEW h, NEW t, NEW m, GoodMessage(m, t)
    PROVE  GoodHandler(Tested(h, m), t)
<1> DEFINE g == Tested(h, m)
<1>1. g.message = m
      BY Zenon DEF Tested
<1>2. /\ g.advance = IsAhead(currentHeartbeat[h], m.code)
      /\ g.fresh = {n \in DOMAIN m.members : ~IsOld(knownNodes[h][n], m.members[n])}
                      \cup (IF IsRecent(knownNodes[h][m.from], m.code)
                            THEN {m.from} ELSE {})
      BY Zenon DEF Tested
<1>3. g.advance \in BOOLEAN /\ (g.advance => m.code > 0)
      BY <1>2, Zenon DEF IsAhead
<1>4. g.fresh \subseteq DOMAIN m.members \cup {m.from}
      BY <1>2
<1> HIDE DEF g
<1>5. GoodHandler(g, t)
      BY <1>1, <1>3, <1>4, Zenon DEF GoodHandler, IsHandler, GoodMessage
<1> QED BY <1>5, Zenon DEF g

LEMMA ReceiveMessageInv ==
    ASSUME Inv, NEW h \in Node, NEW m \in network, ReceiveMessage(h, m)
    PROVE  Inv'
<1>1. GoodMessage(m, ticks) /\ ticks' = ticks
      BY Zenon DEF Inv, GoodNetwork, ReceiveMessage
<1>2. GoodHandlers'
  <2>1. GoodHandler(Tested(h, m), ticks)
        BY <1>1, GoodTested, Zenon
  <2>2. handlers' = handlers \cup {Tested(h, m)}
        BY Zenon DEF ReceiveMessage
  <2> QED BY <1>1, <2>1, <2>2, Zenon DEF Inv, GoodHandlers
<1>3. GoodNetwork' /\ faults' \in Nat
      BY <1>1 DEF Inv, GoodNetwork, GoodRest, ReceiveMessage, Deliver
<1>4. GoodHeartbeats' /\ GoodViews' /\ GoodPacks' /\ GoodGoroutines' /\ GoodRest'
      BY <1>3 DEF Inv, ReceiveMessage, GoodHeartbeats, GoodViews, GoodPacks, GoodGoroutines,
                  GoodRest
<1> QED BY <1>2, <1>3, <1>4, Zenon DEF Inv

\* What a handler stores, whatever the verb.
LEMMA AcceptInv ==
    ASSUME Inv, NEW h \in Node, NEW g \in handlers, Accept(h, g), ticks' = ticks,
           register' = register
    PROVE  /\ GoodMessage(g.message, ticks)
           /\ g.message.to = h
           /\ GoodHeartbeats'
           /\ GoodViews'
           /\ GoodHandlers'
<1> DEFINE m == g.message
<1>1. ticks \in Nat /\ GoodHandler(g, ticks) /\ GoodMessage(m, ticks) /\ m.to = h
      BY Zenon DEF Inv, GoodHeartbeats, GoodHandlers, GoodHandler, Accept
<1>2. GoodHeartbeats'
  <2>1. g.advance => Advanced(m.code) \in 0..ticks
    <3>1. g.advance => m.code > 0
          BY <1>1, Zenon DEF GoodHandler
    <3>2. m.code \in Nat /\ m.code <= ticks
          BY <1>1, Zenon DEF GoodMessage, IsMessage
    <3> QED BY <1>1, <3>1, <3>2 DEF Advanced
  <2> QED BY <2>1 DEF Inv, GoodHeartbeats, Accept
<1>3. GoodViews'
  <2> DEFINE w == updateStatusesFromMessage(h, knownNodes[h], m, g.fresh)
  <2>1. g.fresh \subseteq DOMAIN m.members \cup {m.from}
        BY <1>1, Zenon DEF GoodHandler, IsHandler
  <2>2. GoodView(h, knownNodes[h], ticks)
        BY Zenon DEF Inv, GoodViews
  <2>3. GoodView(h, w, ticks)
        BY <1>1, <2>1, <2>2, GoodUpdate, Zenon
  <2>4. w \in [Node -> Record]
        BY <2>3, Zenon DEF GoodView
  <2>5. knownNodes' = [knownNodes EXCEPT ![h] = w]
        BY Zenon DEF Accept
  <2> HIDE DEF w
  <2> QED BY <2>3, <2>4, <2>5 DEF Inv, GoodViews
<1>4. GoodHandlers'
      BY DEF Inv, GoodHandlers, Accept
<1> QED BY <1>1, <1>2, <1>3, <1>4

LEMMA ReceivePingInv ==
    ASSUME Inv, NEW h \in Node, NEW g \in handlers, ReceivePing(h, g)
    PROVE  Inv'
<1> DEFINE m == g.message
           msgs == Transmissions(h, m.from, "ACK", m.code, NoNode, knownNodes'[h])
<1>1. GoodMessage(m, ticks) /\ GoodHeartbeats' /\ GoodViews' /\ GoodHandlers' /\ m.to = h
      BY AcceptInv, Zenon DEF ReceivePing
<1>2. ticks \in Nat /\ ticks' = ticks
      BY Zenon DEF Inv, GoodHeartbeats, ReceivePing
<1>3. \A k \in msgs : GoodMessage(k, ticks)
      BY <1>1, <1>2, GoodTransmission, NodeAssumption DEF GoodViews, GoodMessage, IsMessage
<1>4. GoodNetwork'
      BY <1>2, <1>3, GoodTransmit, Zenon DEF Inv, ReceivePing
<1>5. GoodPacks' /\ GoodGoroutines' /\ GoodRest'
      BY DEF Inv, ReceivePing, GoodPacks, GoodGoroutines, GoodRest
<1> QED BY <1>1, <1>4, <1>5 DEF Inv

LEMMA ReceiveAckInv ==
    ASSUME Inv, NEW h \in Node, NEW g \in handlers, ReceiveAck(h, g)
    PROVE  Inv'
<1> DEFINE m == g.message
           answered == {p \in pendingAcks[h] : p.node = m.from /\ p.code = m.code}
           acks == {[task |-> "ack", pack |-> p, via |-> {}] :
                       p \in {q \in answered : q.callback # NoNode}}
<1>1. GoodHeartbeats' /\ GoodViews' /\ GoodHandlers'
      BY AcceptInv, Zenon DEF ReceiveAck
<1>2. ticks' = ticks
      BY DEF ReceiveAck
<1>3. GoodPacks'
      BY <1>2 DEF Inv, ReceiveAck, GoodPacks
<1>4. GoodGoroutines'
  <2>1. ASSUME NEW k \in acks
        PROVE  GoodGoroutine(h, k, ticks)
    <3>1. PICK p \in pendingAcks[h] : /\ p.callback # NoNode
                                      /\ k = [task |-> "ack", pack |-> p, via |-> {}]
          BY <2>1
    <3>2. GoodPack(h, p, ticks)
          BY DEF Inv, GoodPacks
    <3> QED BY <3>1, <3>2 DEF GoodGoroutine, Goroutine, GoodPack
  <2>2. acks \subseteq Goroutine
        BY <2>1 DEF GoodGoroutine
  <2>3. goroutines' = [goroutines EXCEPT ![h] = @ \cup acks]
        BY DEF ReceiveAck
  <2> HIDE DEF acks
  <2> QED BY <1>2, <2>1, <2>2, <2>3 DEF Inv, GoodGoroutines
<1>5. GoodNetwork'
      BY <1>2 DEF Inv, ReceiveAck, GoodNetwork
<1>6. GoodRest'
      BY DEF Inv, ReceiveAck, GoodRest, PingMillis
<1> QED BY <1>1, <1>3, <1>4, <1>5, <1>6 DEF Inv

LEMMA ReceivePingRequestInv ==
    ASSUME Inv, NEW h \in Node, NEW g \in handlers, ReceivePingRequest(h, g)
    PROVE  Inv'
<1> DEFINE m == g.message
           p == [packType |-> "NFP", node |-> m.forwardTo, code |-> m.code,
                 callback |-> m.from, callbackCode |-> m.code]
           msgs == Transmissions(h, m.forwardTo, "NFPING", m.code, NoNode, knownNodes'[h])
<1>1. GoodMessage(m, ticks) /\ GoodHeartbeats' /\ GoodViews' /\ GoodHandlers' /\ m.to = h
      BY AcceptInv, Zenon DEF ReceivePingRequest
<1>2. ticks \in Nat /\ ticks' = ticks
      BY DEF Inv, GoodHeartbeats, ReceivePingRequest
<1>3. m.verb = "PINGREQ" /\ m.forwardTo \in Node \ {h, m.from} /\ m.from \in Node \ {h}
      BY <1>1 DEF ReceivePingRequest, GoodMessage, IsMessage
<1>4. m.code \in Nat /\ m.code <= ticks
      BY <1>1 DEF GoodMessage, IsMessage
<1>5. GoodPacks'
  <2>1. GoodPack(h, p, ticks)
        BY <1>3, <1>4, NodeAssumption DEF GoodPack, Pack
  <2> QED BY <1>2, <2>1, GoodExpect, Zenon DEF Inv, ReceivePingRequest
<1>6. \A k \in msgs : GoodMessage(k, ticks)
      BY <1>1, <1>2, <1>3, <1>4, GoodTransmission, NodeAssumption, Zenon DEF GoodViews
<1>7. GoodNetwork'
      BY <1>2, <1>6, GoodTransmit, Zenon DEF Inv, ReceivePingRequest
<1>8. GoodGoroutines' /\ GoodRest'
      BY DEF Inv, ReceivePingRequest, GoodGoroutines, GoodRest
<1> QED BY <1>1, <1>5, <1>7, <1>8 DEF Inv

\* A host may change its record of another member for one that is not ahead.
LEMMA GoodChange ==
    ASSUME GoodViews, ticks' = ticks, NEW h \in Node, NEW n \in Node, n # h,
           NEW r \in Record, r.heartbeat <= ticks,
           knownNodes' = [knownNodes EXCEPT ![h][n] = r]
    PROVE  GoodViews'
<1>1. knownNodes' \in [Node -> [Node -> Record]]
      BY DEF GoodViews
<1>2. ASSUME NEW k \in Node
      PROVE  GoodView(k, knownNodes'[k], ticks)
  <2>1. GoodView(k, knownNodes[k], ticks)
        BY DEF GoodViews
  <2>2. CASE k # h
        BY <2>1, <2>2 DEF GoodViews
  <2>3. CASE k = h
    <3>1. knownNodes'[h] = [knownNodes[h] EXCEPT ![n] = r]
          BY DEF GoodViews
    <3> QED BY <2>1, <2>3, <3>1 DEF GoodView
  <2> QED BY <2>2, <2>3
<1> QED BY <1>1, <1>2, Zenon DEF GoodViews

\* The record of a member whose probe timed out.
LEMMA GoodEscalate ==
    ASSUME GoodHeartbeats, GoodViews, NEW h \in Node, NEW n \in Node
    PROVE  /\ Escalate(h, knownNodes[h][n], currentHeartbeat[h]) \in Record
           /\ Escalate(h, knownNodes[h][n], currentHeartbeat[h]).heartbeat <= ticks
<1>1. knownNodes[h][n] \in Record /\ knownNodes[h][n].heartbeat <= ticks
      BY DEF GoodViews, GoodView
<1>2. currentHeartbeat[h] \in Nat /\ currentHeartbeat[h] <= ticks
      BY DEF GoodHeartbeats
<1> QED BY <1>1, <1>2 DEF Escalate, updateNodeStatus, Record, Status

LEMMA TimeoutInv ==
    ASSUME Inv, NEW h \in Node, NEW p \in pendingAcks[h], Timeout(h, p)
    PROVE  Inv'
<1>1. GoodPack(h, p, ticks) /\ ticks' = ticks
      BY DEF Inv, GoodPacks, Timeout
<1>2. GoodHeartbeats' /\ GoodPacks' /\ GoodNetwork' /\ GoodHandlers'
      BY DEF Inv, Timeout, GoodHeartbeats, GoodPacks, GoodNetwork, GoodHandlers
<1>3. loop' \in [Node -> {"load", "store", "ping"}] /\ faults' \in Nat
      BY DEF Inv, Timeout, GoodRest
<1>4. CASE PingTimeout(h, p)
  <2>1. GoodViews' /\ GoodRest'
        BY <1>1, <1>3, <1>4 DEF Inv, PingTimeout, GoodViews, GoodRest
  <2>2. GoodGoroutines'
    <3> DEFINE g == [task |-> "forward", pack |-> p, via |-> {}]
    <3>1. GoodGoroutine(h, g, ticks)
          BY <1>1, <1>4, Zenon DEF GoodGoroutine, Goroutine, PingTimeout, GoodPack
    <3>2. g \in Goroutine
          BY <3>1 DEF GoodGoroutine
    <3>3. goroutines' = [goroutines EXCEPT ![h] = @ \cup {g}]
          BY <1>4 DEF PingTimeout
    <3> HIDE DEF g
    <3> QED BY <1>1, <3>1, <3>2, <3>3, Zenon DEF Inv, GoodGoroutines
  <2> QED BY <1>2, <2>1, <2>2 DEF Inv
<1>5. CASE PingReqTimeout(h, p)
  <2>1. p.callback \in Node /\ p.callback # h
        BY <1>1, <1>5 DEF GoodPack, Pack, PingReqTimeout
  <2>2. GoodViews'
    <3>1. knownNodes' = [knownNodes EXCEPT ![h][p.callback] =
                            Escalate(h, knownNodes[h][p.callback], currentHeartbeat[h])]
          BY <1>5 DEF PingReqTimeout
    <3> QED BY <1>1, <2>1, <3>1, GoodEscalate, GoodChange, Zenon DEF Inv
  <2>3. GoodGoroutines' /\ GoodRest'
        BY <1>1, <1>3, <1>5, <2>1
           DEF Inv, PingReqTimeout, GoodGoroutines, GoodRest, PingMillis
  <2> QED BY <1>2, <2>2, <2>3 DEF Inv
<1>6. CASE NFPTimeout(h, p)
  <2>1. p.node \in Node /\ p.node # h /\ p.callback \in Node
        BY <1>1, <1>6 DEF GoodPack, Pack, NFPTimeout
  <2>2. GoodViews'
    <3>1. knownNodes' = [knownNodes EXCEPT ![h][p.node] =
                            Escalate(h, knownNodes[h][p.node], currentHeartbeat[h])]
          BY <1>6 DEF NFPTimeout
    <3> QED BY <1>1, <2>1, <3>1, GoodEscalate, GoodChange, Zenon DEF Inv
  <2>3. GoodGoroutines' /\ GoodRest'
        BY <1>1, <1>3, <1>6, <2>1
           DEF Inv, NFPTimeout, GoodGoroutines, GoodRest, PingMillis
  <2> QED BY <1>2, <2>2, <2>3 DEF Inv
<1> QED BY <1>4, <1>5, <1>6 DEF Timeout

\* A goroutine may be replaced by good ones.
LEMMA GoodReplace ==
    ASSUME GoodGoroutines, ticks' = ticks, NEW h \in Node, NEW g, NEW new,
           \A k \in new : GoodGoroutine(h, k, ticks),
           goroutines' = [goroutines EXCEPT ![h] = (@ \ {g}) \cup new]
    PROVE  GoodGoroutines'
<1>1. new \subseteq Goroutine
      BY DEF GoodGoroutine
<1>2. goroutines' \in [Node -> SUBSET Goroutine]
      BY <1>1 DEF GoodGoroutines
<1>3. ASSUME NEW i \in Node, NEW k \in goroutines'[i]
      PROVE  GoodGoroutine(i, k, ticks)
      BY <1>3 DEF GoodGoroutines
<1> QED BY <1>2, <1>3 DEF GoodGoroutines

\* A goroutine may end.
LEMMA GoodFinish ==
    ASSUME GoodGoroutines, ticks' = ticks, NEW h \in Node, NEW g,
           goroutines' = [goroutines EXCEPT ![h] = @ \ {g}]
    PROVE  GoodGoroutines'
BY DEF GoodGoroutines

LEMMA DoForwardOnTimeoutInv ==
    ASSUME Inv, NEW h \in Node, NEW g \in goroutines[h], DoForwardOnTimeout(h, g)
    PROVE  Inv'
<1>1. GoodGoroutine(h, g, ticks) /\ ticks' = ticks
      BY DEF Inv, GoodGoroutines, DoForwardOnTimeout
<1>2. g.pack.node \in Node /\ g.pack.node # h /\ g.pack \in Pack
      BY <1>1 DEF GoodGoroutine, GoodPack, Pack
<1>3. GoodHeartbeats' /\ GoodPacks' /\ GoodNetwork' /\ GoodHandlers' /\ GoodRest'
      BY DEF Inv, DoForwardOnTimeout, GoodHeartbeats, GoodPacks, GoodNetwork, GoodHandlers,
             GoodRest
<1>4. PICK via \in TargetNodes(h, g.pack.node) :
         IF via = {}
         THEN /\ knownNodes' = [knownNodes EXCEPT ![h][g.pack.node] =
                    updateNodeStatus(@, "DEAD", currentHeartbeat[h], h)]
              /\ goroutines' = [goroutines EXCEPT ![h] = @ \ {g}]
         ELSE /\ goroutines' = [goroutines EXCEPT ![h] = (@ \ {g}) \cup
                    {[task |-> "forwarding", pack |-> g.pack, via |-> via]}]
              /\ UNCHANGED knownNodes
      BY DEF DoForwardOnTimeout
<1>5. CASE via = {}
  <2>1. GoodViews'
    <3> DEFINE r == updateNodeStatus(knownNodes[h][g.pack.node], "DEAD",
                                     currentHeartbeat[h], h)
    <3>1. r \in Record /\ r.heartbeat <= ticks
      <4>1. knownNodes[h][g.pack.node] \in Record /\ knownNodes[h][g.pack.node].heartbeat <= ticks
            BY <1>2 DEF Inv, GoodViews, GoodView
      <4>2. currentHeartbeat[h] \in Nat /\ currentHeartbeat[h] <= ticks
            BY DEF Inv, GoodHeartbeats
      <4> QED BY <4>1, <4>2 DEF updateNodeStatus, Record, Status
    <3>2. knownNodes' = [knownNodes EXCEPT ![h][g.pack.node] = r]
          BY <1>4, <1>5
    <3> QED BY <1>1, <1>2, <3>1, <3>2, GoodChange, ZenonT(60) DEF Inv
  <2>2. GoodGoroutines'
    <3>1. goroutines' = [goroutines EXCEPT ![h] = @ \ {g}]
          BY <1>4, <1>5
    <3> QED BY <1>1, <3>1, GoodFinish, Zenon DEF Inv
  <2> QED BY <1>3, <2>1, <2>2 DEF Inv
<1>6. CASE via # {}
  <2> DEFINE k == [task |-> "forwarding", pack |-> g.pack, via |-> via]
  <2>1. GoodGoroutine(h, k, ticks)
    <3>1. via \subseteq Node \ {h, g.pack.node}
          BY DEF TargetNodes
    <3> QED BY <1>1, <1>2, <3>1 DEF GoodGoroutine, Goroutine, DoForwardOnTimeout
  <2>2. GoodGoroutines'
    <3>1. goroutines' = [goroutines EXCEPT ![h] = (@ \ {g}) \cup {k}]
          BY <1>4, <1>6
    <3>2. \A i \in {k} : GoodGoroutine(h, i, ticks)
          BY <2>1
    <3> HIDE DEF k
    <3> QED BY <1>1, <3>1, <3>2, GoodReplace, Zenon DEF Inv
  <2>3. GoodViews'
        BY <1>1, <1>4, <1>6 DEF Inv, GoodViews
  <2> QED BY <1>3, <2>2, <2>3 DEF Inv
<1> QED BY <1>5, <1>6

LEMMA TransmitForwardInv ==
    ASSUME Inv, NEW h \in Node, NEW g \in goroutines[h], NEW n \in Node,
           TransmitForward(h, g, n)
    PROVE  Inv'
<1> DEFINE p == [packType |-> "PINGREQ", node |-> n, code |-> currentHeartbeat[h],
                 callback |-> g.pack.node, callbackCode |-> 0]
           msgs == Transmissions(h, n, "PINGREQ", currentHeartbeat[h], g.pack.node,
                                 knownNodes[h])
           k == [task |-> "forwarding", pack |-> g.pack, via |-> g.via \ {n}]
<1>1. GoodGoroutine(h, g, ticks) /\ ticks' = ticks
      BY DEF Inv, GoodGoroutines, TransmitForward
<1>2. /\ g.pack \in Pack /\ g.pack.node \in Node
      /\ g.pack.node # h /\ n # h /\ n # g.pack.node
      BY <1>1 DEF GoodGoroutine, GoodPack, Pack, TransmitForward
<1>3. ticks \in Nat /\ currentHeartbeat[h] \in Nat /\ currentHeartbeat[h] <= ticks
      BY DEF Inv, GoodHeartbeats
<1>4. GoodPacks'
  <2>1. GoodPack(h, p, ticks)
        BY <1>2, <1>3, NodeAssumption DEF GoodPack, Pack
  <2> QED BY <1>1, <2>1, GoodExpect, ZenonT(60) DEF Inv, TransmitForward
<1>5. GoodNetwork'
  <2>1. \A m \in msgs : GoodMessage(m, ticks)
        BY <1>2, <1>3, GoodTransmission, NodeAssumption DEF Inv, GoodViews
  <2> QED BY <1>1, <2>1, GoodTransmit, Zenon DEF Inv, TransmitForward
<1>6. GoodGoroutines'
  <2>1. GoodGoroutine(h, k, ticks)
    <3>1. k \in Goroutine
          BY <1>1, <1>2 DEF GoodGoroutine, Goroutine
    <3> QED BY <1>1, <3>1 DEF GoodGoroutine, TransmitForward
  <2>2. PICK new \in {{}, {k}} :
           goroutines' = [goroutines EXCEPT ![h] = (@ \ {g}) \cup new]
        BY Zenon DEF TransmitForward
  <2>3. \A i \in new : GoodGoroutine(h, i, ticks)
        BY <2>1
  <2> QED BY <1>1, <2>2, <2>3, GoodReplace, Zenon DEF Inv
<1>7. GoodHeartbeats' /\ GoodViews' /\ GoodHandlers' /\ GoodRest'
      BY DEF Inv, TransmitForward, GoodHeartbeats, GoodViews, GoodHandlers, GoodRest
<1> QED BY <1>4, <1>5, <1>6, <1>7 DEF Inv

LEMMA TransmitAckInv ==
    ASSUME Inv, NEW h \in Node, NEW g \in goroutines[h], TransmitAck(h, g)
    PROVE  Inv'
<1> DEFINE msgs == Transmissions(h, g.pack.callback, "ACK", g.pack.callbackCode,
                                 NoNode, knownNodes[h])
<1>1. GoodGoroutine(h, g, ticks) /\ ticks' = ticks
      BY DEF Inv, GoodGoroutines, TransmitAck
<1>2. /\ g.pack.callback \in Node \ {h}
      /\ g.pack.callbackCode \in Nat /\ g.pack.callbackCode <= ticks
      BY <1>1, Zenon DEF GoodGoroutine, GoodPack, Pack, TransmitAck
<1>3. GoodNetwork'
  <2>1. \A m \in msgs : GoodMessage(m, ticks)
        BY <1>2, GoodTransmission, NodeAssumption, Zenon DEF Inv, GoodHeartbeats, GoodViews
  <2> QED BY <1>1, <2>1, GoodTransmit, Zenon DEF Inv, TransmitAck
<1>4. GoodGoroutines'
      BY <1>1, GoodFinish, Zenon DEF Inv, TransmitAck
<1>5. GoodHeartbeats' /\ GoodViews' /\ GoodPacks' /\ GoodHandlers' /\ GoodRest'
      BY DEF Inv, TransmitAck, GoodHeartbeats, GoodViews, GoodPacks, GoodHandlers, GoodRest
<1> QED BY <1>3, <1>4, <1>5 DEF Inv

LEMMA BeginInv ==
    ASSUME Inv, NEW h \in Node, Begin(h)
    PROVE  Inv'
<1> USE DEF Inv, Begin
<1>1. GoodHeartbeats'
      BY DEF GoodHeartbeats
<1>2. GoodViews'
  <2>1. GoodView(h, InitialView(h), ticks)
        BY GoodInitialView DEF GoodHeartbeats
  <2>2. InitialView(h) \in [Node -> Record]
        BY <2>1 DEF GoodView
  <2> QED BY <2>1, <2>2, Zenon DEF GoodViews
<1>3. GoodPacks' /\ GoodGoroutines' /\ GoodNetwork' /\ GoodHandlers'
      BY DEF GoodPacks, GoodGoroutines, GoodNetwork, GoodHandlers
<1>4. GoodRest'
      BY DEF GoodRest, PingMillis
<1> QED BY <1>1, <1>2, <1>3, <1>4

-----------------------------------------------------------------------------
(* The theorem *)

LEMMA OtherInv == Inv /\ Other => Inv'
<1> SUFFICES ASSUME Inv, Other PROVE Inv'
    OBVIOUS
<1> PICK h \in Node : \/ LoadHeartbeat(h)
                      \/ StoreHeartbeat(h)
                      \/ \E n \in Node : PingNode(h, n)
                      \/ Receive(h)
                      \/ RunGoroutine(h)
                      \/ Begin(h)
    BY DEF Other
<1>1. CASE LoadHeartbeat(h)
      BY <1>1, LoadHeartbeatInv
<1>2. CASE StoreHeartbeat(h)
      BY <1>2, StoreHeartbeatInv
<1>3. CASE \E n \in Node : PingNode(h, n)
      BY <1>3, PingNodeInv
<1>4. CASE Receive(h)
      BY <1>4, ReceiveMessageInv, ReceivePingInv, ReceiveAckInv, ReceivePingRequestInv, Zenon
         DEF Receive
<1>5. CASE RunGoroutine(h)
      BY <1>5, DoForwardOnTimeoutInv, TransmitForwardInv, TransmitAckInv DEF RunGoroutine
<1>6. CASE Begin(h)
      BY <1>6, BeginInv
<1> QED BY <1>1, <1>2, <1>3, <1>4, <1>5, <1>6

LEMMA NextInv == Inv /\ [Next]_vars => Inv'
<1>1. ASSUME Inv, Next PROVE Inv'
      BY <1>1, OtherInv, TimeoutInv DEF Next
<1>2. ASSUME Inv, UNCHANGED vars PROVE Inv'
      BY <1>2 DEF vars, Inv, GoodHeartbeats, GoodViews, GoodPacks, GoodGoroutines,
                  GoodNetwork, GoodHandlers, GoodRest
<1> QED BY <1>1, <1>2

\* Inv holds in every reachable state.
THEOREM Invariance == Spec => []Inv
BY InitInv, NextInv, PTL DEF Spec

\* Every variable keeps its type.
THEOREM TypeCorrect == Spec => []TypeOK
BY Invariance, InvImpliesSafety, PTL

\* No host ever believes that it is itself suspected or dead.
THEOREM NeverSelfDead == Spec => []SelfAlive
BY Invariance, InvImpliesSafety, PTL

\* Probes, and what is known of them, always involve distinct hosts.
THEOREM ProbesAreWellFormed == Spec => []WellFormedProbes
BY Invariance, InvImpliesSafety, PTL

\* No heartbeat anywhere exceeds the number of heartbeats that were made.
THEOREM HeartbeatsAreMade == Spec => []NoHeartbeatInflation
BY Invariance, InvImpliesSafety, PTL

-----------------------------------------------------------------------------
(* Beliefs and answers are grounded *)

\* S and E stand for sent and expired.

GroundedView(v, S, E) == \A n \in Node : Justified(n, v[n], S, E)

\* Host h asked for an indirect ping of a member whose ping had expired; it pings
\* on behalf of a host that had asked it to.
GroundedPack(h, p, S, E) ==
    /\ p.packType = "PINGREQ" => <<h, p.callback>> \in E /\ p.callbackCode = 0
    /\ p.packType = "NFP" => Probed(p.callback, h, p.callbackCode, S)

GroundedGoroutine(h, g, S, E) ==
    /\ g.task # "ack" => <<h, g.pack.node>> \in E
    /\ GroundedPack(h, g.pack, S, E)

GroundedMessage(m, S, E) ==
    /\ \A n \in DOMAIN m.members : Justified(n, m.members[n], S, E)
    /\ m.verb = "ACK" /\ m.code # 0 => Probed(m.to, m.from, m.code, S)

HeadersKept == \A m \in Underway : Header(m) \in sent

GroundedViews == \A h \in Node : GroundedView(knownNodes[h], sent, expired)

GroundedPacks ==
    \A h \in Node : \A p \in pendingAcks[h] : GroundedPack(h, p, sent, expired)

GroundedGoroutines ==
    \A h \in Node : \A g \in goroutines[h] : GroundedGoroutine(h, g, sent, expired)

GroundedNetwork == \A m \in Underway : GroundedMessage(m, sent, expired)

\* The inductive invariant.
HInv == /\ HeadersKept
        /\ GroundedViews
        /\ GroundedPacks
        /\ GroundedGoroutines
        /\ GroundedNetwork
        /\ MeasuredMeansAnswered

\* History only grows.
Growing == sent \subseteq sent' /\ expired \subseteq expired'

-----------------------------------------------------------------------------
(* What the operators preserve *)

\* What was grounded stays so when history grows.
LEMMA GroundedLater ==
    ASSUME NEW S, NEW E, NEW S2, NEW E2, S \subseteq S2, E \subseteq E2
    PROVE  /\ \A n, r : Justified(n, r, S, E) => Justified(n, r, S2, E2)
           /\ \A v : GroundedView(v, S, E) => GroundedView(v, S2, E2)
           /\ \A h, p : GroundedPack(h, p, S, E) => GroundedPack(h, p, S2, E2)
           /\ \A h, g : GroundedGoroutine(h, g, S, E) => GroundedGoroutine(h, g, S2, E2)
           /\ \A m : GroundedMessage(m, S, E) => GroundedMessage(m, S2, E2)
<1>1. \A n, r : Justified(n, r, S, E) => Justified(n, r, S2, E2)
      BY DEF Justified
<1>2. \A from, to, code : Probed(from, to, code, S) => Probed(from, to, code, S2)
      BY DEF Probed
<1>3. \A v : GroundedView(v, S, E) => GroundedView(v, S2, E2)
      BY <1>1 DEF GroundedView
<1>4. \A h, p : GroundedPack(h, p, S, E) => GroundedPack(h, p, S2, E2)
      BY <1>2 DEF GroundedPack
<1>5. \A h, g : GroundedGoroutine(h, g, S, E) => GroundedGoroutine(h, g, S2, E2)
      BY <1>4 DEF GroundedGoroutine
<1>6. \A m : GroundedMessage(m, S, E) => GroundedMessage(m, S2, E2)
      BY <1>1, <1>2 DEF GroundedMessage
<1> QED BY <1>1, <1>3, <1>4, <1>5, <1>6

\* A host that reads a message believes nothing but what its sender says, what it
\* believed already, and that the sender lives.
LEMMA GroundedUpdate ==
    ASSUME NEW h \in Node, NEW v, NEW m, NEW S, NEW E,
           GroundedView(v, S, E), GroundedMessage(m, S, E), Header(m) \in S,
           NEW fresh, fresh \subseteq DOMAIN m.members \cup {m.from}
    PROVE  GroundedView(updateStatusesFromMessage(h, v, m, fresh), S, E)
<1>1. updateStatusesFromMessage(h, v, m, fresh) =
         [n \in Node |-> IF n \notin fresh THEN v[n]
                         ELSE IF n = m.from THEN ApplySender(h, v[n], m.code)
                         ELSE ApplyGossip(h, n, v[n], m.members[n])]
      BY Zenon DEF updateStatusesFromMessage
<1>2. \A n \in Node : Justified(n, v[n], S, E)
      BY Zenon DEF GroundedView
<1>3. ASSUME NEW n \in Node, n \in fresh, n # m.from
      PROVE  Justified(n, ApplyGossip(h, n, v[n], m.members[n]), S, E)
  <2>1. Justified(n, m.members[n], S, E)
        BY <1>3, Zenon DEF GroundedMessage
  <2> QED BY <1>2, <2>1 DEF ApplyGossip, updateNodeStatus, Justified
<1>4. ASSUME NEW n \in Node, n = m.from
      PROVE  Justified(n, ApplySender(h, v[n], m.code), S, E)
  <2>1. \E s \in S : s.from = m.from /\ s.code = m.code
        BY Zenon DEF Header
  <2> QED BY <1>2, <1>4, <2>1, Zenon DEF ApplySender, updateNodeStatus, Justified
<1> QED BY <1>1, <1>2, <1>3, <1>4, Zenon DEF GroundedView

\* What transmitVerbGenericUDP writes is grounded if the host's view is and the
\* message is no ACK, has no code or answers a probe.
LEMMA GroundedTransmission ==
    ASSUME NEW h \in Node, NEW to, NEW verb, NEW code, NEW forwardTo, NEW v,
           NEW S, NEW E, GroundedView(v, S, E),
           verb = "ACK" /\ code # 0 => Probed(to, h, code, S),
           NEW m \in Transmissions(h, to, verb, code, forwardTo, v)
    PROVE  GroundedMessage(m, S, E)
<1>1. PICK M \in SUBSET (Node \ {h, to}) :
         m = [from |-> h, to |-> to, verb |-> verb, code |-> code,
              forwardTo |-> forwardTo, members |-> [n \in M |-> v[n]]]
      BY DEF Transmissions, Mentioned
<1>2. /\ m.from = h /\ m.to = to /\ m.verb = verb /\ m.code = code
      /\ DOMAIN m.members = M /\ \A n \in M : n \in Node /\ m.members[n] = v[n]
      BY <1>1
<1> QED BY <1>2, Zenon DEF GroundedMessage, GroundedView

\* What is on its way after a transmission was on its way or is what was written.
LEMMA GroundedTransmit ==
    ASSUME NEW S, NEW E, NEW msgs, Transmit(msgs), handlers' \subseteq handlers,
           \A m \in Underway : GroundedMessage(m, S, E),
           \A m \in msgs : GroundedMessage(m, S, E)
    PROVE  \A m \in Underway' : GroundedMessage(m, S, E)
<1> SUFFICES ASSUME NEW m \in Underway' PROVE m \in Underway \cup msgs
    BY Zenon
<1>1. CASE m \in network'
      BY <1>1, Zenon DEF Transmit, Underway
<1>2. CASE \E g \in handlers' : m = g.message
      BY <1>2, Zenon DEF Underway
<1> QED BY <1>1, <1>2, Zenon DEF Underway

\* A member that a host accuses has let one of the host's pings expire.
LEMMA GroundedAccusation ==
    ASSUME NEW h, NEW n, NEW r, NEW k, NEW S, NEW E, Justified(n, r, S, E),
           <<h, n>> \in E
    PROVE  /\ Justified(n, Escalate(h, r, k), S, E)
           /\ Justified(n, updateNodeStatus(r, "DEAD", k, h), S, E)
BY DEF Escalate, updateNodeStatus, Justified

-----------------------------------------------------------------------------
(* Every action preserves the invariant *)

\* The invariant but for the headers of the messages in flight, which NoteSent
\* takes care of.
Core == /\ GroundedViews
        /\ GroundedPacks
        /\ GroundedGoroutines
        /\ GroundedNetwork
        /\ MeasuredMeansAnswered

\* A member's ACK to host h was seen.
Answered(h, n, S) == \E s \in S : s.verb = "ACK" /\ s.from = n /\ s.to = h

\* What an action leaves alone is still grounded after it.
LEMMA Kept ==
    ASSUME HInv, Growing
    PROVE  /\ \A h \in Node : GroundedView(knownNodes[h], sent', expired')
           /\ \A h \in Node : \A p \in pendingAcks[h] : GroundedPack(h, p, sent', expired')
           /\ \A h \in Node : \A g \in goroutines[h] :
                 GroundedGoroutine(h, g, sent', expired')
           /\ \A m \in Underway : GroundedMessage(m, sent', expired') /\ Header(m) \in sent'
           /\ \A h, n \in Node : pingMillis[h][n] = "Measured" => Answered(h, n, sent')
<1>1. /\ \A v : GroundedView(v, sent, expired) => GroundedView(v, sent', expired')
      /\ \A h, p : GroundedPack(h, p, sent, expired) => GroundedPack(h, p, sent', expired')
      /\ \A h, g : GroundedGoroutine(h, g, sent, expired) =>
                       GroundedGoroutine(h, g, sent', expired')
      /\ \A m : GroundedMessage(m, sent, expired) => GroundedMessage(m, sent', expired')
      BY GroundedLater, Zenon DEF Growing
<1>2. \A h \in Node : GroundedView(knownNodes[h], sent', expired')
      BY <1>1, Zenon DEF HInv, GroundedViews
<1>3. \A h \in Node : \A p \in pendingAcks[h] : GroundedPack(h, p, sent', expired')
      BY <1>1, Zenon DEF HInv, GroundedPacks
<1>4. \A h \in Node : \A g \in goroutines[h] : GroundedGoroutine(h, g, sent', expired')
      BY <1>1, Zenon DEF HInv, GroundedGoroutines
<1>5. \A m \in Underway : GroundedMessage(m, sent', expired') /\ Header(m) \in sent'
      BY <1>1, Zenon DEF HInv, Growing, GroundedNetwork, HeadersKept
<1>6. \A h, n \in Node : pingMillis[h][n] = "Measured" => Answered(h, n, sent')
  <2>1. \A h, n \in Node : pingMillis[h][n] = "Measured" => Answered(h, n, sent)
        BY Zenon DEF HInv, MeasuredMeansAnswered, Answered
  <2>2. \A h, n : Answered(h, n, sent) => Answered(h, n, sent')
        BY Zenon DEF Growing, Answered
  <2> QED BY <2>1, <2>2, Zenon
<1> QED BY <1>2, <1>3, <1>4, <1>5, <1>6, Zenon

LEMMA KeptViews ==
    ASSUME HInv, Growing, UNCHANGED knownNodes
    PROVE  GroundedViews'
BY Kept, Zenon DEF GroundedViews

LEMMA KeptNetwork ==
    ASSUME HInv, Growing, network' \subseteq network,
           \A g \in handlers' : g.message \in Underway
    PROVE  GroundedNetwork'
<1>1. \A m \in Underway' : m \in Underway
      BY Zenon DEF Underway
<1> QED BY <1>1, Kept, Zenon DEF GroundedNetwork

LEMMA KeptMeasured ==
    ASSUME HInv, Growing,
           \A h, n \in Node : pingMillis'[h][n] = "Measured" => pingMillis[h][n] = "Measured"
    PROVE  MeasuredMeansAnswered'
<1>1. \A h, n \in Node : pingMillis'[h][n] = "Measured" => Answered(h, n, sent')
      BY Kept, Zenon
<1> QED BY <1>1, Zenon DEF MeasuredMeansAnswered, Answered

\* Steps that only move the heartbeat, or only make the tests of a message.
LEMMA QuietCore ==
    ASSUME HInv, Growing, NEW h \in Node,
           \/ LoadHeartbeat(h)
           \/ StoreHeartbeat(h)
           \/ \E m \in network : ReceiveMessage(h, m)
    PROVE  Core'
<1>1. UNCHANGED <<knownNodes, pendingAcks, goroutines, pingMillis>>
      BY Zenon DEF LoadHeartbeat, StoreHeartbeat, ReceiveMessage
<1>2. GroundedNetwork'
  <2>1. CASE LoadHeartbeat(h) \/ StoreHeartbeat(h)
        BY <2>1, KeptNetwork, Zenon DEF LoadHeartbeat, StoreHeartbeat, Underway
  <2>2. ASSUME NEW m \in network, ReceiveMessage(h, m)
        PROVE  GroundedNetwork'
    <3>1. network' \subseteq network
          BY <2>2, Zenon DEF ReceiveMessage, Deliver
    <3>2. Tested(h, m).message = m
          BY Zenon DEF Tested
    <3>3. \A g \in handlers' : g.message \in Underway
          BY <2>2, <3>2, Zenon DEF ReceiveMessage, Underway
    <3> QED BY <3>1, <3>3, KeptNetwork, Zenon
  <2> QED BY <2>1, <2>2, Zenon
<1> QED BY <1>1, <1>2, Kept, ZenonT(60)
           DEF Core, GroundedViews, GroundedPacks, GroundedGoroutines,
               MeasuredMeansAnswered, Answered

\* A host that waits for one more answer.
LEMMA GroundedExpect ==
    ASSUME Inv, HInv, Growing, NEW h \in Node, NEW p,
           GroundedPack(h, p, sent', expired'),
           pendingAcks' = [pendingAcks EXCEPT ![h] = Expect(@, p)]
    PROVE  GroundedPacks'
<1>1. pendingAcks \in [Node -> SUBSET Pack]
      BY Zenon DEF Inv, GoodPacks
<1>2. ASSUME NEW k \in Node, NEW q \in pendingAcks'[k]
      PROVE  GroundedPack(k, q, sent', expired')
      BY <1>1, <1>2, Kept DEF Expect
<1> QED BY <1>2 DEF GroundedPacks

LEMMA PingNodeCore ==
    ASSUME Inv, HInv, Growing, NEW h \in Node, NEW n \in Node, PingNode(h, n)
    PROVE  Core'
<1> DEFINE p == [packType |-> "PING", node |-> n, code |-> currentHeartbeat[h],
                 callback |-> NoNode, callbackCode |-> 0]
           msgs == Transmissions(h, n, "PING", currentHeartbeat[h], NoNode, knownNodes[h])
<1>1. GroundedPacks'
  <2>1. GroundedPack(h, p, sent', expired')
        BY DEF GroundedPack
  <2> QED BY <2>1, GroundedExpect, Zenon DEF PingNode
<1>2. GroundedNetwork'
  <2>1. \A m \in msgs : GroundedMessage(m, sent', expired')
    <3>1. GroundedView(knownNodes[h], sent', expired') /\ "PING" # "ACK"
          BY Kept
    <3> QED BY <3>1, GroundedTransmission, ZenonT(60)
  <2> QED BY <2>1, Kept, GroundedTransmit, Zenon DEF PingNode, GroundedNetwork
<1>3. GroundedViews' /\ GroundedGoroutines' /\ MeasuredMeansAnswered'
  <2>1. UNCHANGED <<knownNodes, goroutines, pingMillis>>
        BY Zenon DEF PingNode
  <2> QED BY <2>1, Kept, ZenonT(60) DEF GroundedViews, GroundedGoroutines, MeasuredMeansAnswered,
                                   Answered
<1> QED BY <1>1, <1>2, <1>3 DEF Core

\* What a handler stores, whatever the verb.
LEMMA AcceptCore ==
    ASSUME Inv, HInv, Growing, NEW h \in Node, NEW g \in handlers, Accept(h, g)
    PROVE  GroundedViews'
<1> DEFINE m == g.message
           w == updateStatusesFromMessage(h, knownNodes[h], m, g.fresh)
<1>1. knownNodes \in [Node -> [Node -> Record]]
      BY Zenon DEF Inv, GoodViews
<1>2. GroundedView(w, sent', expired')
  <2>1. m \in Underway
        BY Zenon DEF Underway
  <2>2. GroundedMessage(m, sent', expired') /\ Header(m) \in sent'
        BY <2>1, Kept, Zenon
  <2>3. GroundedView(knownNodes[h], sent', expired')
        BY Kept, Zenon
  <2>4. g.fresh \subseteq DOMAIN m.members \cup {m.from}
        BY Zenon DEF Inv, GoodHandlers, GoodHandler, IsHandler
  <2> HIDE DEF m
  <2> QED BY <2>2, <2>3, <2>4, GroundedUpdate, Zenon
<1>3. knownNodes' = [knownNodes EXCEPT ![h] = w]
      BY Zenon DEF Accept
<1> HIDE DEF w
<1> QED BY <1>1, <1>2, <1>3, Kept DEF GroundedViews

LEMMA ReceivePingCore ==
    ASSUME Inv, HInv, Growing, NEW h \in Node, NEW g \in handlers, ReceivePing(h, g)
    PROVE  Core'
<1> DEFINE m == g.message
           msgs == Transmissions(h, m.from, "ACK", m.code, NoNode, knownNodes'[h])
<1>1. GroundedViews'
      BY AcceptCore, Zenon DEF ReceivePing
<1>2. GroundedNetwork'
  <2>1. Header(m) \in sent' /\ m.to = h /\ m.verb \in Probe
        BY Kept, Zenon DEF ReceivePing, Accept, Probe, Underway
  <2>2. Probed(m.from, h, m.code, sent')
        BY <2>1 DEF Probed, Header
  <2>3. \A k \in msgs : GroundedMessage(k, sent', expired')
        BY <1>1, <2>2, GroundedTransmission, ZenonT(60) DEF GroundedViews
  <2> QED BY <2>3, Kept, GroundedTransmit, Zenon DEF ReceivePing, Accept, GroundedNetwork
<1>3. GroundedPacks' /\ GroundedGoroutines' /\ MeasuredMeansAnswered'
      BY Kept, ZenonT(60)
         DEF ReceivePing, GroundedPacks, GroundedGoroutines, MeasuredMeansAnswered,
                  Answered
<1> QED BY <1>1, <1>2, <1>3 DEF Core

LEMMA ReceiveAckCore ==
    ASSUME Inv, HInv, Growing, NEW h \in Node, NEW g \in handlers, ReceiveAck(h, g)
    PROVE  Core'
<1> DEFINE m == g.message
           answered == {p \in pendingAcks[h] : p.node = m.from /\ p.code = m.code}
           acks == {[task |-> "ack", pack |-> p, via |-> {}] :
                       p \in {q \in answered : q.callback # NoNode}}
<1>1. GroundedViews'
      BY AcceptCore, Zenon DEF ReceiveAck
<1>2. GroundedPacks'
      BY Kept, Zenon DEF ReceiveAck, Inv, GoodPacks, GroundedPacks
<1>3. GroundedGoroutines'
  <2>1. ASSUME NEW k \in acks
        PROVE  GroundedGoroutine(h, k, sent', expired')
    <3>1. PICK p \in pendingAcks[h] : k = [task |-> "ack", pack |-> p, via |-> {}]
          BY <2>1, Zenon
    <3>2. GroundedPack(h, p, sent', expired')
          BY Kept, Zenon
    <3> QED BY <3>1, <3>2 DEF GroundedGoroutine
  <2>2. goroutines' = [goroutines EXCEPT ![h] = @ \cup acks]
        BY DEF ReceiveAck
  <2>3. goroutines \in [Node -> SUBSET Goroutine]
        BY DEF Inv, GoodGoroutines
  <2> HIDE DEF acks
  <2> QED BY <2>1, <2>2, <2>3, Kept, Zenon DEF GroundedGoroutines
<1>4. GroundedNetwork'
      BY KeptNetwork, Zenon DEF ReceiveAck, Accept, Underway
<1>5. MeasuredMeansAnswered'
  <2>1. Answered(h, m.from, sent')
    <3>1. m \in Underway /\ m.verb = "ACK" /\ m.to = h
          BY Zenon DEF ReceiveAck, Accept, Underway
    <3>2. Header(m) \in sent'
          BY <3>1, Kept, Zenon
    <3> HIDE DEF m
    <3> QED BY <3>1, <3>2, Zenon DEF Answered, Header
  <2>2. ASSUME NEW k \in Node, NEW n \in Node, pingMillis'[k][n] = "Measured"
        PROVE  Answered(k, n, sent')
    <3>1. pingMillis' = [pingMillis EXCEPT ![h] =
              [i \in Node |-> IF \E p \in answered : p.node = i /\ p.callback = NoNode
                              THEN "Measured" ELSE pingMillis[h][i]]]
          BY DEF ReceiveAck
    <3>2. pingMillis \in [Node -> [Node -> PingMillis]]
          BY Zenon DEF Inv, GoodRest
    <3>3. pingMillis[k][n] = "Measured" \/ (k = h /\ n = m.from)
          BY <2>2, <3>1, <3>2
    <3> QED BY <2>1, <3>3, Kept, Zenon
  <2> QED BY <2>2 DEF MeasuredMeansAnswered, Answered
<1> QED BY <1>1, <1>2, <1>3, <1>4, <1>5 DEF Core

LEMMA ReceivePingRequestCore ==
    ASSUME Inv, HInv, Growing, NEW h \in Node, NEW g \in handlers,
           ReceivePingRequest(h, g)
    PROVE  Core'
<1> DEFINE m == g.message
           p == [packType |-> "NFP", node |-> m.forwardTo, code |-> m.code,
                 callback |-> m.from, callbackCode |-> m.code]
           msgs == Transmissions(h, m.forwardTo, "NFPING", m.code, NoNode, knownNodes'[h])
<1>1. GroundedViews'
      BY AcceptCore, Zenon DEF ReceivePingRequest
<1>2. GroundedPacks'
  <2>1. Header(m) \in sent' /\ m.to = h /\ m.verb \in Probe
        BY Kept, Zenon DEF ReceivePingRequest, Accept, Probe, Underway
  <2>2. Probed(m.from, h, m.code, sent')
        BY <2>1 DEF Probed, Header
  <2>3. GroundedPack(h, p, sent', expired')
        BY <2>2 DEF GroundedPack
  <2> QED BY <2>3, GroundedExpect, Zenon DEF ReceivePingRequest
<1>3. GroundedNetwork'
  <2>1. \A k \in msgs : GroundedMessage(k, sent', expired')
        BY <1>1, GroundedTransmission DEF GroundedViews
  <2> QED BY <2>1, Kept, GroundedTransmit, Zenon
             DEF ReceivePingRequest, Accept, GroundedNetwork
<1>4. GroundedGoroutines' /\ MeasuredMeansAnswered'
      BY Kept, ZenonT(60)
         DEF ReceivePingRequest, GroundedGoroutines, MeasuredMeansAnswered, Answered
<1> QED BY <1>1, <1>2, <1>3, <1>4 DEF Core

\* A host may change its record of a member for a justified one.
LEMMA GroundedChange ==
    ASSUME Inv, HInv, Growing, NEW h \in Node, NEW n \in Node, NEW r,
           Justified(n, r, sent', expired'),
           knownNodes' = [knownNodes EXCEPT ![h][n] = r]
    PROVE  GroundedViews'
<1>1. knownNodes \in [Node -> [Node -> Record]]
      BY DEF Inv, GoodViews
<1>2. ASSUME NEW k \in Node, NEW i \in Node
      PROVE  Justified(i, knownNodes'[k][i], sent', expired')
  <2>1. Justified(i, knownNodes[k][i], sent', expired')
        BY Kept DEF GroundedView
  <2>2. knownNodes'[k][i] = IF k = h /\ i = n THEN r ELSE knownNodes[k][i]
        BY <1>1
  <2> QED BY <2>1, <2>2
<1> QED BY <1>2 DEF GroundedViews, GroundedView

LEMMA TimeoutCore ==
    ASSUME Inv, HInv, Growing, NEW h \in Node, NEW p \in pendingAcks[h], Timeout(h, p),
           p.packType # "PINGREQ" => <<h, p.node>> \in expired'
    PROVE  Core'
<1>1. GoodPack(h, p, ticks) /\ GroundedPack(h, p, sent', expired')
      BY Kept DEF Inv, GoodPacks
<1>2. GroundedPacks' /\ GroundedNetwork'
  <2>1. GroundedPacks'
        BY Kept, Zenon DEF Timeout, Inv, GoodPacks, GroundedPacks
  <2>2. GroundedNetwork'
        BY KeptNetwork, Zenon DEF Timeout, Underway
  <2> QED BY <2>1, <2>2
<1>3. \A n \in Node : <<h, n>> \in expired' =>
         Justified(n, Escalate(h, knownNodes[h][n], currentHeartbeat[h]), sent', expired')
      BY Kept, GroundedAccusation, Zenon DEF GroundedView
<1>4. CASE PingTimeout(h, p)
  <2>1. GroundedViews' /\ MeasuredMeansAnswered'
        BY <1>4, KeptViews, KeptMeasured, Zenon DEF PingTimeout
  <2>2. GroundedGoroutines'
    <3> DEFINE g == [task |-> "forward", pack |-> p, via |-> {}]
    <3>1. GroundedGoroutine(h, g, sent', expired')
          BY <1>1, <1>4, ZenonT(60) DEF GroundedGoroutine, PingTimeout
    <3>2. goroutines' = [goroutines EXCEPT ![h] = @ \cup {g}]
          BY <1>4 DEF PingTimeout
    <3>3. goroutines \in [Node -> SUBSET Goroutine]
          BY DEF Inv, GoodGoroutines
    <3> HIDE DEF g
    <3> QED BY <3>1, <3>2, <3>3, Kept, Zenon DEF GroundedGoroutines
  <2> QED BY <1>2, <2>1, <2>2, Zenon DEF Core
<1>5. CASE PingReqTimeout(h, p) \/ NFPTimeout(h, p)
  <2>1. GroundedViews'
    <3>1. PICK n \in Node :
             /\ <<h, n>> \in expired'
             /\ knownNodes' = [knownNodes EXCEPT ![h][n] =
                                  Escalate(h, knownNodes[h][n], currentHeartbeat[h])]
      <4>1. CASE PingReqTimeout(h, p)
        <5>1. p.callback \in Node /\ <<h, p.callback>> \in expired'
              BY <1>1, <4>1 DEF PingReqTimeout, GoodPack, Pack, GroundedPack
        <5> QED BY <4>1, <5>1, Zenon DEF PingReqTimeout
      <4>2. CASE NFPTimeout(h, p)
        <5>1. p.node \in Node /\ <<h, p.node>> \in expired'
              BY <1>1, <4>2 DEF NFPTimeout, GoodPack, Pack
        <5> QED BY <4>2, <5>1, Zenon DEF NFPTimeout
      <4> QED BY <1>5, <4>1, <4>2
    <3> QED BY <1>3, <3>1, GroundedChange, Zenon
  <2>2. GroundedGoroutines'
        BY <1>5, Kept, Zenon DEF PingReqTimeout, NFPTimeout, GroundedGoroutines
  <2>3. MeasuredMeansAnswered'
    <3>1. \A k, n \in Node : pingMillis'[k][n] = "Measured" => pingMillis[k][n] = "Measured"
      <4>1. pingMillis' = pingMillis
               \/ pingMillis' = [pingMillis EXCEPT ![h][p.callback] = "TimedOut"]
            BY <1>5 DEF PingReqTimeout, NFPTimeout
      <4>2. pingMillis \in [Node -> [Node -> PingMillis]]
            BY DEF Inv, GoodRest
      <4> QED BY <4>1, <4>2
    <3> QED BY <3>1, KeptMeasured, Zenon
  <2> QED BY <1>2, <2>1, <2>2, <2>3 DEF Core
<1> QED BY <1>4, <1>5 DEF Timeout

\* A goroutine may be replaced by a grounded one.
LEMMA GroundedReplace ==
    ASSUME Inv, HInv, Growing, NEW h \in Node, NEW g, NEW k,
           GroundedGoroutine(h, k, sent', expired'),
           \/ goroutines' = [goroutines EXCEPT ![h] = (@ \ {g}) \cup {k}]
           \/ goroutines' = [goroutines EXCEPT ![h] = @ \ {g}]
    PROVE  GroundedGoroutines'
<1>1. goroutines \in [Node -> SUBSET Goroutine]
      BY ZenonT(60) DEF Inv, GoodGoroutines
<1>2. ASSUME NEW i \in Node, NEW j \in goroutines'[i]
      PROVE  GroundedGoroutine(i, j, sent', expired')
  <2>1. j \in goroutines[i] \/ (i = h /\ j = k)
        BY <1>1, <1>2
  <2> QED BY <2>1, Kept
<1> QED BY <1>2 DEF GroundedGoroutines

LEMMA DoForwardOnTimeoutCore ==
    ASSUME Inv, HInv, Growing, NEW h \in Node, NEW g \in goroutines[h],
           DoForwardOnTimeout(h, g)
    PROVE  Core'
<1>1. GroundedGoroutine(h, g, sent', expired') /\ g.task = "forward"
      BY Kept DEF DoForwardOnTimeout
<1>2. g.pack.node \in Node
      BY Zenon DEF Inv, GoodGoroutines, GoodGoroutine, GoodPack, Pack
<1>3. GroundedPacks' /\ GroundedNetwork' /\ MeasuredMeansAnswered'
  <2>1. GroundedPacks' /\ MeasuredMeansAnswered'
        BY Kept, ZenonT(60) DEF DoForwardOnTimeout, GroundedPacks, MeasuredMeansAnswered,
                                Answered
  <2>2. GroundedNetwork'
        BY KeptNetwork, Zenon DEF DoForwardOnTimeout, Underway
  <2> QED BY <2>1, <2>2
<1>4. PICK via : \* whatever was chosen
         IF via = {}
         THEN /\ knownNodes' = [knownNodes EXCEPT ![h][g.pack.node] =
                    updateNodeStatus(@, "DEAD", currentHeartbeat[h], h)]
              /\ goroutines' = [goroutines EXCEPT ![h] = @ \ {g}]
         ELSE /\ goroutines' = [goroutines EXCEPT ![h] = (@ \ {g}) \cup
                    {[task |-> "forwarding", pack |-> g.pack, via |-> via]}]
              /\ UNCHANGED knownNodes
      BY DEF DoForwardOnTimeout
<1> DEFINE k == [task |-> "forwarding", pack |-> g.pack, via |-> via]
<1>5. GroundedGoroutines'
  <2>1. GroundedGoroutine(h, k, sent', expired')
        BY <1>1, Zenon DEF GroundedGoroutine
  <2>2. \/ goroutines' = [goroutines EXCEPT ![h] = (@ \ {g}) \cup {k}]
        \/ goroutines' = [goroutines EXCEPT ![h] = @ \ {g}]
        BY <1>4
  <2> HIDE DEF k
  <2> QED BY <2>1, <2>2, GroundedReplace
<1>6. GroundedViews'
  <2>1. CASE via # {}
        BY <1>4, <2>1, Kept DEF GroundedViews
  <2>2. CASE via = {}
    <3> DEFINE r == updateNodeStatus(knownNodes[h][g.pack.node], "DEAD",
                                     currentHeartbeat[h], h)
    <3>1. Justified(g.pack.node, r, sent', expired')
          BY <1>1, <1>2, Kept, GroundedAccusation, Zenon DEF GroundedGoroutine, GroundedView
    <3>2. knownNodes' = [knownNodes EXCEPT ![h][g.pack.node] = r]
          BY <1>4, <2>2, Zenon
    <3> HIDE DEF r
    <3> QED BY <1>2, <3>1, <3>2, GroundedChange, Zenon
  <2> QED BY <2>1, <2>2
<1> QED BY <1>3, <1>5, <1>6, Zenon DEF Core

LEMMA TransmitForwardCore ==
    ASSUME Inv, HInv, Growing, NEW h \in Node, NEW g \in goroutines[h], NEW n \in Node,
           TransmitForward(h, g, n)
    PROVE  Core'
<1> DEFINE p == [packType |-> "PINGREQ", node |-> n, code |-> currentHeartbeat[h],
                 callback |-> g.pack.node, callbackCode |-> 0]
           msgs == Transmissions(h, n, "PINGREQ", currentHeartbeat[h], g.pack.node,
                                 knownNodes[h])
           k == [task |-> "forwarding", pack |-> g.pack, via |-> g.via \ {n}]
<1>1. GroundedGoroutine(h, g, sent', expired') /\ g.task = "forwarding"
      BY Kept DEF TransmitForward
<1>2. GroundedPacks'
  <2>1. GroundedPack(h, p, sent', expired')
        BY <1>1, ZenonT(60) DEF GroundedPack, GroundedGoroutine
  <2> QED BY <2>1, GroundedExpect, Zenon DEF TransmitForward
<1>3. GroundedNetwork'
  <2>1. \A m \in msgs : GroundedMessage(m, sent', expired')
        BY Kept, GroundedTransmission, Zenon
  <2> QED BY <2>1, Kept, GroundedTransmit, Zenon DEF TransmitForward, GroundedNetwork
<1>4. GroundedGoroutines'
  <2>1. GroundedGoroutine(h, k, sent', expired')
        BY <1>1 DEF GroundedGoroutine
  <2>2. \/ goroutines' = [goroutines EXCEPT ![h] = (@ \ {g}) \cup {k}]
        \/ goroutines' = [goroutines EXCEPT ![h] = (@ \ {g}) \cup {}]
        BY Zenon DEF TransmitForward
  <2>3. (goroutines[h] \ {g}) \cup {} = goroutines[h] \ {g}
        BY Zenon
  <2> HIDE DEF k
  <2> QED BY <2>1, <2>2, <2>3, GroundedReplace, Zenon
<1>5. GroundedViews' /\ MeasuredMeansAnswered'
      BY KeptViews, KeptMeasured, Zenon DEF TransmitForward
<1> QED BY <1>2, <1>3, <1>4, <1>5, ZenonT(60) DEF Core

LEMMA TransmitAckCore ==
    ASSUME Inv, HInv, Growing, NEW h \in Node, NEW g \in goroutines[h], TransmitAck(h, g)
    PROVE  Core'
<1> DEFINE msgs == Transmissions(h, g.pack.callback, "ACK", g.pack.callbackCode,
                                 NoNode, knownNodes[h])
<1>1. GroundedGoroutine(h, g, sent', expired')
      BY Kept, Zenon
<1>2. GroundedNetwork'
  <2>1. g.pack.packType \in {"PINGREQ", "NFP"}
        BY ZenonT(60) DEF Inv, GoodGoroutines, GoodGoroutine, GoodPack, Pack, TransmitAck
  <2>2. g.pack.callbackCode # 0 => Probed(g.pack.callback, h, g.pack.callbackCode, sent')
        BY <1>1, <2>1 DEF GroundedGoroutine, GroundedPack
  <2>3. \A m \in msgs : GroundedMessage(m, sent', expired')
        BY <2>2, Kept, GroundedTransmission, Zenon
  <2> QED BY <2>3, Kept, GroundedTransmit, ZenonT(60) DEF TransmitAck, GroundedNetwork
<1>3. GroundedGoroutines'
      BY <1>1, GroundedReplace, Zenon DEF TransmitAck
<1>4. GroundedViews' /\ GroundedPacks' /\ MeasuredMeansAnswered'
      BY Kept, ZenonT(60)
         DEF TransmitAck, GroundedViews, GroundedPacks, MeasuredMeansAnswered,
                  Answered
<1> QED BY <1>2, <1>3, <1>4 DEF Core

LEMMA BeginCore ==
    ASSUME Inv, HInv, Growing, NEW h \in Node, Begin(h)
    PROVE  Core'
<1>1. GroundedViews'
  <2>1. GroundedView(InitialView(h), sent', expired')
        BY DEF GroundedView, InitialView, Justified
  <2>2. knownNodes \in [Node -> [Node -> Record]]
        BY DEF Inv, GoodViews
  <2> QED BY <2>1, <2>2, Kept DEF Begin, GroundedViews
<1>2. GroundedPacks' /\ GroundedGoroutines' /\ GroundedNetwork'
  <2>1. GroundedPacks' /\ GroundedGoroutines'
        BY Kept DEF Begin, Inv, GoodPacks, GoodGoroutines, GroundedPacks, GroundedGoroutines
  <2>2. GroundedNetwork'
        BY KeptNetwork, Zenon DEF Begin, Underway
  <2> QED BY <2>1, <2>2
<1>3. MeasuredMeansAnswered'
  <2>1. pingMillis \in [Node -> [Node -> PingMillis]]
        BY DEF Inv, GoodRest
  <2> QED BY <2>1, Kept, ZenonT(60) DEF Begin, MeasuredMeansAnswered, Answered
<1> QED BY <1>1, <1>2, <1>3 DEF Core

-----------------------------------------------------------------------------
(* The theorems *)

LEMMA HInitInv == HInit => HInv
<1> SUFFICES ASSUME HInit PROVE HInv
    OBVIOUS
<1>1. GroundedViews
      BY DEF HInit, Init, InitialView, GroundedViews, GroundedView, Justified
<1>2. HeadersKept /\ GroundedPacks /\ GroundedGoroutines /\ GroundedNetwork
  <2>1. Underway = {}
        BY Zenon DEF HInit, Init, Underway
  <2> QED BY <2>1, Zenon
             DEF HInit, Init, HeadersKept, GroundedPacks, GroundedGoroutines, GroundedNetwork
<1>3. MeasuredMeansAnswered
      BY DEF HInit, Init, MeasuredMeansAnswered
<1> QED BY <1>1, <1>2, <1>3 DEF HInv

\* A message that is handled was on its way before.
LEMMA HandledBefore ==
    ASSUME Next
    PROVE  \A g \in handlers' : g.message \in Underway
<1>1. CASE handlers' \subseteq handlers
      BY <1>1, Zenon DEF Underway
<1>2. ASSUME NEW h, NEW m \in network, ReceiveMessage(h, m)
      PROVE  \A g \in handlers' : g.message \in Underway
  <2>1. Tested(h, m).message = m
        BY Zenon DEF Tested
  <2> QED BY <1>2, <2>1, Zenon DEF ReceiveMessage, Underway
<1>3. ASSUME NEW h, Receive(h)
      PROVE  \A g \in handlers' : g.message \in Underway
      BY <1>1, <1>2, <1>3, Zenon
         DEF Receive, ReceivePing, ReceiveAck, ReceivePingRequest, Accept
<1>4. ASSUME NEW h, RunGoroutine(h)
      PROVE  handlers' \subseteq handlers
      BY <1>4, Zenon DEF RunGoroutine, DoForwardOnTimeout, TransmitForward, TransmitAck
<1>5. ASSUME NEW h, \/ LoadHeartbeat(h)
                    \/ StoreHeartbeat(h)
                    \/ \E n \in Node : PingNode(h, n)
                    \/ Begin(h)
                    \/ \E p \in pendingAcks[h] : Timeout(h, p)
      PROVE  handlers' \subseteq handlers
      BY <1>5, Zenon DEF LoadHeartbeat, StoreHeartbeat, PingNode, Begin, Timeout
<1> QED BY <1>1, <1>3, <1>4, <1>5, ZenonT(60) DEF Next, Other

LEMMA HOtherInv == Inv /\ HInv /\ HOther => HInv'
<1> SUFFICES ASSUME Inv, HInv, HOther PROVE HInv'
    OBVIOUS
<1>1. Growing
      BY Zenon DEF HOther, NoteSent, Growing
<1>2. HeadersKept'
  <2>1. ASSUME NEW m \in Underway' PROVE Header(m) \in sent'
    <3>1. CASE m \in network'
          BY <3>1, Zenon DEF HOther, NoteSent
    <3>2. CASE \E g \in handlers' : m = g.message
      <4>1. m \in Underway
            BY <3>2, HandledBefore, Zenon DEF HOther, Next
      <4> QED BY <1>1, <4>1, Kept, Zenon
    <3> QED BY <3>1, <3>2, Zenon DEF Underway
  <2> QED BY <2>1, Zenon DEF HeadersKept
<1>3. Core'
  <2> PICK h \in Node : \/ LoadHeartbeat(h)
                        \/ StoreHeartbeat(h)
                        \/ \E n \in Node : PingNode(h, n)
                        \/ Receive(h)
                        \/ RunGoroutine(h)
                        \/ Begin(h)
      BY Zenon DEF HOther, Other
  <2>1. CASE LoadHeartbeat(h) \/ StoreHeartbeat(h)
        BY <1>1, <2>1, QuietCore, Zenon
  <2>2. CASE \E n \in Node : PingNode(h, n)
        BY <1>1, <2>2, PingNodeCore, Zenon
  <2>3. CASE Receive(h)
        BY <1>1, <2>3, QuietCore, ReceivePingCore, ReceiveAckCore, ReceivePingRequestCore,
           Zenon DEF Receive
  <2>4. CASE RunGoroutine(h)
        BY <1>1, <2>4, DoForwardOnTimeoutCore, TransmitForwardCore, TransmitAckCore, Zenon
           DEF RunGoroutine
  <2>5. CASE Begin(h)
        BY <1>1, <2>5, BeginCore, Zenon
  <2> QED BY <2>1, <2>2, <2>3, <2>4, <2>5
<1> QED BY <1>2, <1>3, Zenon DEF Core, HInv

LEMMA HTimeoutInv ==
    ASSUME Inv, HInv, NEW h \in Node, NEW p \in pendingAcks[h], HTimeout(h, p)
    PROVE  HInv'
<1>1. Growing /\ (p.packType # "PINGREQ" => <<h, p.node>> \in expired')
      BY Zenon DEF HTimeout, Growing
<1>2. HeadersKept'
      BY Zenon DEF HInv, HTimeout, Timeout, HeadersKept, Underway
<1> QED BY <1>1, <1>2, TimeoutCore, Zenon DEF HTimeout, Core, HInv

LEMMA HNextInv == Inv /\ HInv /\ [HNext]_hvars => Inv' /\ HInv'
<1>1. ASSUME Inv, HInv, HNext PROVE Inv' /\ HInv'
  <2>1. CASE HOther
        BY <1>1, <2>1, OtherInv, HOtherInv, Zenon DEF HOther
  <2>2. CASE \E h \in Node : \E p \in pendingAcks[h] : HTimeout(h, p)
        BY <1>1, <2>2, TimeoutInv, HTimeoutInv DEF HTimeout
  <2> QED BY <1>1, <2>1, <2>2 DEF HNext
<1>2. ASSUME Inv, HInv, UNCHANGED hvars PROVE Inv' /\ HInv'
  <2>1. UNCHANGED vars
        BY <1>2 DEF hvars
  <2>2. Inv'
        BY <1>2, <2>1, NextInv
  <2>3. UNCHANGED <<knownNodes, pendingAcks, goroutines, network, handlers, pingMillis, sent,
                    expired>>
        BY <1>2, <2>1 DEF hvars, vars
  <2>4. HeadersKept'
        BY <1>2, <2>3 DEF HInv, HeadersKept, Underway
  <2>5. GroundedViews'
        BY <1>2, <2>3 DEF HInv, GroundedViews
  <2>6. GroundedPacks'
        BY <1>2, <2>3 DEF HInv, GroundedPacks
  <2>7. GroundedGoroutines'
        BY <1>2, <2>3 DEF HInv, GroundedGoroutines
  <2>8. GroundedNetwork'
        BY <1>2, <2>3 DEF HInv, GroundedNetwork, Underway
  <2>9. MeasuredMeansAnswered'
        BY <1>2, <2>3 DEF HInv, MeasuredMeansAnswered
  <2> QED BY <2>2, <2>4, <2>5, <2>6, <2>7, <2>8, <2>9 DEF HInv
<1> QED BY <1>1, <1>2

\* The inductive invariant holds in every reachable state.
THEOREM HInvariance == HSpec => [](Inv /\ HInv)
<1>1. HInit => Inv /\ HInv
      BY InitInv, HInitInv DEF HInit
<1> QED BY <1>1, HNextInv, PTL DEF HSpec

\* Every belief and every piece of gossip rests on a message its subject wrote, or
\* on a ping of its subject that expired at the host it names.
THEOREM BeliefsAreGrounded == HSpec => []Grounded
<1>1. HInv => Grounded
      BY DEF HInv, GroundedViews, GroundedView, GroundedNetwork, GroundedMessage, Grounded
<1> QED BY <1>1, HInvariance, PTL

\* Every ACK with a code answers a probe that its addressee wrote to its sender.
THEOREM AcksAnswerProbes == HSpec => []AckAnswersProbe
<1>1. HInv => AckAnswersProbe
      BY DEF HInv, GroundedNetwork, GroundedMessage, AckAnswersProbe
<1> QED BY <1>1, HInvariance, PTL

\* Ping times are recorded for members that have answered.
THEOREM MeasuredHaveAnswered == HSpec => []MeasuredMeansAnswered
<1>1. HInv => MeasuredMeansAnswered
      BY Zenon DEF HInv
<1> QED BY <1>1, HInvariance, PTL

-----------------------------------------------------------------------------
(* No stale revival *)

\* The heartbeat at which message m speaks of member n.
Reported(m, n) == IF n = m.from THEN m.code ELSE m.members[n].heartbeat

\* News that a handler is about to store about a member held dead is no older than
\* the verdict, unless the verdict was given after the handler's tests.
SInv ==
    \A g \in handlers : \A n \in Node :
        n \in g.fresh /\ knownNodes[g.message.to][n].status = "DEAD" =>
            \/ <<n, g>> \in overtaken
            \/ Reported(g.message, n) >= knownNodes[g.message.to][n].heartbeat

\* updateNodeStatus leaves the verdict of death alone or overturns it.
LEMMA DeadRecord ==
    ASSUME NEW r, NEW new, NEW status, NEW k, NEW source, r.status = "DEAD",
           new = updateNodeStatus(r, status, k, source), new.status = "DEAD"
    PROVE  new = r
BY DEF updateNodeStatus

\* The record of a member that a message is about.
LEMMA Updated ==
    ASSUME Inv, NEW h \in Node, NEW g \in handlers, Accept(h, g), NEW k \in Node, NEW n \in Node
    PROVE  knownNodes'[k][n] =
              IF k # h \/ n \notin g.fresh THEN knownNodes[k][n]
              ELSE IF n = g.message.from THEN ApplySender(h, knownNodes[h][n], g.message.code)
              ELSE ApplyGossip(h, n, knownNodes[h][n], g.message.members[n])
<1> DEFINE w == updateStatusesFromMessage(h, knownNodes[h], g.message, g.fresh)
<1>1. knownNodes \in [Node -> [Node -> Record]]
      BY Zenon DEF Inv, GoodViews
<1>2. knownNodes' = [knownNodes EXCEPT ![h] = w]
      BY Zenon DEF Accept
<1>3. w[n] = IF n \notin g.fresh THEN knownNodes[h][n]
             ELSE IF n = g.message.from THEN ApplySender(h, knownNodes[h][n], g.message.code)
             ELSE ApplyGossip(h, n, knownNodes[h][n], g.message.members[n])
      BY Zenon DEF updateStatusesFromMessage
<1> HIDE DEF w
<1>4. knownNodes'[k] = IF k = h THEN w ELSE knownNodes[k]
      BY <1>1, <1>2, Zenon
<1> QED BY <1>3, <1>4, Zenon

\* What a step may do to host h's record of member n: a handler stores its news, the
\* host starts again, or the record stays or becomes one of an accusation.
LEMMA RecordStep ==
    ASSUME Inv, HNext, NEW h \in Node, NEW n \in Node
    PROVE  \/ \E g \in handlers : Accept(h, g) /\ n \in g.fresh
           \/ Begin(h)
           \/ knownNodes'[h][n] = knownNodes[h][n]
           \/ knownNodes'[h][n] = Escalate(h, knownNodes[h][n], currentHeartbeat[h])
           \/ knownNodes'[h][n] =
                  updateNodeStatus(knownNodes[h][n], "DEAD", currentHeartbeat[h], h)
<1> DEFINE Goal ==
           \/ \E g \in handlers : Accept(h, g) /\ n \in g.fresh
           \/ Begin(h)
           \/ knownNodes'[h][n] = knownNodes[h][n]
           \/ knownNodes'[h][n] = Escalate(h, knownNodes[h][n], currentHeartbeat[h])
           \/ knownNodes'[h][n] =
                  updateNodeStatus(knownNodes[h][n], "DEAD", currentHeartbeat[h], h)
<1>1. knownNodes \in [Node -> [Node -> Record]]
      BY Zenon DEF Inv, GoodViews
<1>2. ASSUME UNCHANGED knownNodes PROVE Goal
      BY <1>2, Zenon
<1>3. ASSUME NEW k \in Node, NEW g \in handlers, Accept(k, g) PROVE Goal
  <2>1. CASE k # h \/ n \notin g.fresh
    <3>1. knownNodes'[h][n] = knownNodes[h][n]
          BY <1>3, <2>1, Updated
    <3> QED BY <3>1, Zenon
  <2>2. CASE k = h /\ n \in g.fresh
        BY <1>3, <2>2, Zenon
  <2> QED BY <2>1, <2>2, Zenon
<1>4. ASSUME NEW k \in Node, NEW i, knownNodes' = [knownNodes EXCEPT ![k][i] =
                                              Escalate(k, @, currentHeartbeat[k])]
      PROVE  Goal
  <2>1. CASE k = h /\ i = n
        BY <1>1, <1>4, <2>1, Zenon
  <2>2. CASE ~(k = h /\ i = n)
        BY <1>1, <1>4, <2>2, Zenon
  <2> QED BY <2>1, <2>2, Zenon
<1>5. ASSUME NEW k \in Node, NEW i, knownNodes' = [knownNodes EXCEPT ![k][i] =
                                     updateNodeStatus(@, "DEAD", currentHeartbeat[k], k)]
      PROVE  Goal
  <2>1. CASE k = h /\ i = n
        BY <1>1, <1>5, <2>1, Zenon
  <2>2. CASE ~(k = h /\ i = n)
        BY <1>1, <1>5, <2>2, Zenon
  <2> QED BY <2>1, <2>2, Zenon
<1>6. ASSUME NEW k \in Node, Begin(k) PROVE Goal
      BY <1>1, <1>6, Zenon DEF Begin
<1> HIDE DEF Goal
<1>7. ASSUME NEW k \in Node, NEW p \in pendingAcks[k], Timeout(k, p) PROVE Goal
      BY <1>2, <1>4, <1>7, Zenon DEF Timeout, PingTimeout, PingReqTimeout, NFPTimeout
<1>8. ASSUME NEW k \in Node, RunGoroutine(k) PROVE Goal
      BY <1>2, <1>5, <1>8, Zenon DEF RunGoroutine, DoForwardOnTimeout, TransmitForward, TransmitAck
<1>9. ASSUME NEW k \in Node, Receive(k) PROVE Goal
      BY <1>2, <1>3, <1>9, Zenon
         DEF Receive, ReceiveMessage, ReceivePing, ReceiveAck, ReceivePingRequest
<1>10. ASSUME NEW k \in Node, \/ LoadHeartbeat(k)
                              \/ StoreHeartbeat(k)
                              \/ \E i \in Node : PingNode(k, i)
       PROVE  Goal
       BY <1>2, <1>10, Zenon DEF LoadHeartbeat, StoreHeartbeat, PingNode
<1>11. CASE Other
  <2> PICK k \in Node : \/ LoadHeartbeat(k)
                        \/ StoreHeartbeat(k)
                        \/ \E i \in Node : PingNode(k, i)
                        \/ Receive(k)
                        \/ RunGoroutine(k)
                        \/ Begin(k)
      BY <1>11, Zenon DEF Other
  <2>1. Goal
        BY <1>6, <1>8, <1>9, <1>10, Zenon
  <2> QED BY <2>1, Zenon DEF Goal
<1>12. Goal
  <2>1. CASE Other
        BY <1>11, <2>1, Zenon DEF Goal
  <2>2. CASE \E k \in Node : \E p \in pendingAcks[k] : Timeout(k, p)
        BY <1>7, <2>2, Zenon
  <2> QED BY <2>1, <2>2, Zenon DEF HNext, HOther, HTimeout
<1> QED BY <1>12, Zenon DEF Goal

\* A verdict of death that stands is not touched.
LEMMA VerdictKept ==
    ASSUME Inv, HNext, NEW h \in Node, NEW n \in Node,
           knownNodes[h][n].status = "DEAD", knownNodes'[h][n].status = "DEAD"
    PROVE  knownNodes'[h][n] = knownNodes[h][n]
<1>1. CASE \E g \in handlers : Accept(h, g) /\ n \in g.fresh
  <2> PICK g \in handlers : Accept(h, g) /\ n \in g.fresh
      BY <1>1, Zenon
  <2>1. CASE n = g.message.from
    <3>1. knownNodes'[h][n] =
             updateNodeStatus(knownNodes[h][n], "ALIVE", g.message.code, h)
          BY <2>1, Updated DEF ApplySender
    <3> QED BY <3>1, DeadRecord, Zenon
  <2>2. CASE n # g.message.from
    <3> DEFINE m == g.message.members[n]
    <3>1. \/ knownNodes'[h][n] = knownNodes[h][n]
          \/ knownNodes'[h][n] =
                updateNodeStatus(knownNodes[h][n], m.status, m.heartbeat, m.source)
          BY <2>2, Updated DEF ApplyGossip
    <3> HIDE DEF m
    <3> QED BY <3>1, DeadRecord, Zenon
  <2> QED BY <2>1, <2>2
<1>2. CASE Begin(h)
  <2>1. InitialView(h)[n].status = "ALIVE"
        BY Zenon DEF InitialView
  <2>2. knownNodes'[h] = InitialView(h)
        BY <1>2, Zenon DEF Begin, Inv, GoodViews
  <2> QED BY <2>1, <2>2, Zenon
<1>3. CASE knownNodes'[h][n] = Escalate(h, knownNodes[h][n], currentHeartbeat[h])
      BY <1>3, Zenon DEF Escalate
<1>4. CASE knownNodes'[h][n] =
              updateNodeStatus(knownNodes[h][n], "DEAD", currentHeartbeat[h], h)
      BY <1>4, DeadRecord, Zenon
<1> QED BY <1>1, <1>2, <1>3, <1>4, RecordStep, Zenon

\* News that the tests find fresh is no older than the record.
LEMMA TestedIsFresh ==
    ASSUME Inv, NEW h \in Node, NEW m \in network, m.to = h, NEW n \in Node,
           n \in Tested(h, m).fresh
    PROVE  Reported(m, n) >= knownNodes[h][n].heartbeat
<1>1. Tested(h, m).fresh = {i \in DOMAIN m.members : ~IsOld(knownNodes[h][i], m.members[i])}
                              \cup (IF IsRecent(knownNodes[h][m.from], m.code)
                                    THEN {m.from} ELSE {})
      BY Zenon DEF Tested
<1>2. GoodMessage(m, ticks) /\ knownNodes[h][n] \in Record
      BY Zenon DEF Inv, GoodNetwork, GoodViews
<1>3. m.code \in Nat /\ m.from \notin DOMAIN m.members
      BY <1>2 DEF GoodMessage, IsMessage
<1>4. knownNodes[h][n].heartbeat \in Nat
      BY <1>2 DEF Record
<1>5. CASE n = m.from
  <2>1. IsRecent(knownNodes[h][n], m.code)
        BY <1>1, <1>3, <1>5, Zenon
  <2>2. Reported(m, n) = m.code
        BY <1>5, Zenon DEF Reported
  <2> QED BY <1>3, <1>4, <2>1, <2>2 DEF IsRecent
<1>6. CASE n # m.from
  <2>1. n \in DOMAIN m.members /\ ~IsOld(knownNodes[h][n], m.members[n])
        BY <1>1, <1>6, Zenon
  <2>2. m.members[n].heartbeat \in Nat
        BY <1>2, <2>1 DEF GoodMessage, IsMessage, Record
  <2>3. Reported(m, n) = m.members[n].heartbeat
        BY <1>6, Zenon DEF Reported
  <2> QED BY <1>4, <2>1, <2>2, <2>3 DEF IsOld
<1> QED BY <1>5, <1>6

\* A handler that is new in a step has just made its tests.
LEMMA NewHandler ==
    ASSUME Next, NEW g \in handlers', g \notin handlers
    PROVE  \E h \in Node : \E m \in network :
               m.to = h /\ g = Tested(h, m) /\ UNCHANGED knownNodes
<1> DEFINE Goal == \E h \in Node : \E m \in network :
                       m.to = h /\ g = Tested(h, m) /\ UNCHANGED knownNodes
<1>1. ASSUME handlers' \subseteq handlers PROVE FALSE
      BY <1>1, Zenon
<1>2. ASSUME NEW h \in Node, Receive(h) PROVE Goal
      BY <1>2, Zenon
         DEF Receive, ReceiveMessage, ReceivePing, ReceiveAck, ReceivePingRequest, Accept
<1>3. ASSUME NEW h \in Node, RunGoroutine(h)
      PROVE  handlers' \subseteq handlers
      BY <1>3, Zenon DEF RunGoroutine, DoForwardOnTimeout, TransmitForward, TransmitAck
<1>4. ASSUME NEW h \in Node,
             \/ LoadHeartbeat(h)
             \/ StoreHeartbeat(h)
             \/ \E n \in Node : PingNode(h, n)
             \/ Begin(h)
             \/ \E p \in pendingAcks[h] : Timeout(h, p)
      PROVE  handlers' \subseteq handlers
      BY <1>4, Zenon DEF LoadHeartbeat, StoreHeartbeat, PingNode, Begin, Timeout
<1> QED BY <1>1, <1>2, <1>3, <1>4, ZenonT(60) DEF Next, Other

LEMMA SNextInv ==
    ASSUME Inv, SInv, HNext
    PROVE  SInv'
<1> SUFFICES ASSUME NEW g \in handlers', NEW n \in Node, n \in g.fresh,
                    knownNodes'[g.message.to][n].status = "DEAD"
             PROVE  \/ <<n, g>> \in overtaken'
                    \/ Reported(g.message, n) >= knownNodes'[g.message.to][n].heartbeat
    BY Zenon DEF SInv
<1> DEFINE h == g.message.to
<1>1. Next /\ NoteVerdicts
      BY Zenon DEF HNext, HOther, HTimeout, Next
<1>2. CASE g \notin handlers
  <2>1. PICK k \in Node, m \in network :
           m.to = k /\ g = Tested(k, m) /\ UNCHANGED knownNodes
        BY <1>1, <1>2, NewHandler, Zenon
  <2>2. g.message = m
        BY <2>1, Zenon DEF Tested
  <2>3. Reported(m, n) >= knownNodes[k][n].heartbeat
        BY <2>1, TestedIsFresh, Zenon
  <2> QED BY <2>1, <2>2, <2>3, Zenon
<1>3. CASE g \in handlers
  <2>1. h \in Node
        BY <1>3, Zenon DEF Inv, GoodHandlers, GoodHandler, GoodMessage, IsMessage
  <2>2. \A x \in Node \X handlers' :
           \/ x \in overtaken
           \/ x[2] \in handlers /\ Condemned(x[2].message.to, x[1])
           => x \in overtaken'
        BY <1>1, Zenon DEF NoteVerdicts
  <2>3. <<n, g>> \in Node \X handlers' /\ <<n, g>>[1] = n /\ <<n, g>>[2] = g
        OBVIOUS
  <2>4. <<n, g>> \in overtaken \/ Condemned(h, n) => <<n, g>> \in overtaken'
        BY <1>3, <2>2, <2>3, Zenon
  <2>5. CASE knownNodes[h][n].status # "DEAD"
        BY <2>4, <2>5, Zenon DEF Condemned
  <2>6. CASE knownNodes[h][n].status = "DEAD"
    <3>1. knownNodes'[h][n] = knownNodes[h][n]
          BY <2>1, <2>6, VerdictKept, Zenon
    <3>2. <<n, g>> \in overtaken \/ Reported(g.message, n) >= knownNodes[h][n].heartbeat
          BY <1>3, <2>6, Zenon DEF SInv
    <3> QED BY <2>4, <3>1, <3>2, Zenon
  <2> QED BY <2>5, <2>6, Zenon
<1> QED BY <1>2, <1>3, Zenon

\* A step that revives a dead member.
LEMMA RevivalStep ==
    ASSUME Inv, HInv, SInv, HNext, NEW h \in Node, NEW n \in Node,
           knownNodes[h][n].status = "DEAD", knownNodes'[h][n].status = "ALIVE", ~Begin(h)
    PROVE  \/ knownNodes[h][n].heartbeat = 0
           \/ \E s \in sent' : s.from = n /\ s.code >= knownNodes[h][n].heartbeat
           \/ \E g \in handlers \ handlers' : g.message.to = h /\ <<n, g>> \in overtaken
<1>1. PICK g \in handlers : Accept(h, g) /\ n \in g.fresh
  <2>1. Escalate(h, knownNodes[h][n], currentHeartbeat[h]) = knownNodes[h][n]
        BY Zenon DEF Escalate
  <2>2. updateNodeStatus(knownNodes[h][n], "DEAD", currentHeartbeat[h], h) = knownNodes[h][n]
        BY Zenon DEF updateNodeStatus
  <2> QED BY <2>1, <2>2, RecordStep, Zenon
<1> DEFINE m == g.message
           old == knownNodes[h][n].heartbeat
<1>2. m.to = h /\ g \notin handlers'
      BY <1>1, Zenon DEF Accept
<1>3. CASE <<n, g>> \in overtaken
      BY <1>2, <1>3, Zenon
<1>4. CASE Reported(m, n) >= old
  <2>1. GoodMessage(m, ticks) /\ knownNodes[h][n] \in Record
        BY Zenon DEF Inv, GoodHandlers, GoodHandler, GoodViews
  <2>2. m \in Underway /\ sent \subseteq sent'
        BY Zenon DEF Underway, HNext, HOther, NoteSent, HTimeout
  <2>3. old \in Nat
        BY <2>1 DEF Record
  <2>4. CASE n = m.from
    <3>1. Header(m) \in sent'
          BY <2>2, Zenon DEF HInv, HeadersKept
    <3>2. Header(m).from = n /\ Header(m).code = m.code /\ Reported(m, n) = m.code
          BY <2>4, Zenon DEF Header, Reported
    <3> HIDE DEF m, old
    <3>3. \E s \in sent' : s.from = n /\ s.code >= old
          BY <1>4, <3>1, <3>2, Zenon
    <3> QED BY <3>3, Zenon DEF old
  <2>5. CASE n # m.from
    <3> DEFINE r == m.members[n]
    <3>1. n \in DOMAIN m.members
          BY <1>1, <2>5, Zenon DEF Inv, GoodHandlers, GoodHandler, IsHandler
    <3>2. r \in Record /\ Reported(m, n) = r.heartbeat
      <4>1. r \in Record
            BY <2>1, <3>1 DEF GoodMessage, IsMessage
      <4> QED BY <2>5, <4>1, Zenon DEF Reported
    <3>3. r.status = "ALIVE"
      <4>1. knownNodes'[h][n] = ApplyGossip(h, n, knownNodes[h][n], r)
            BY <1>1, <2>5, Updated
      <4> HIDE DEF r
      <4> QED BY <4>1 DEF ApplyGossip, updateNodeStatus
    <3>4. Justified(n, r, sent, expired)
          BY <2>2, <3>1, Zenon DEF HInv, GroundedNetwork, GroundedMessage
    <3>5. r.heartbeat \in Nat
          BY <3>2 DEF Record
    <3> HIDE DEF r, m, old
    <3>6. r.heartbeat >= old
          BY <1>4, <3>2, Zenon
    <3>7. CASE r.heartbeat = 0
      <4>1. old = 0
            BY <2>3, <3>6, <3>7
      <4> QED BY <4>1, Zenon DEF old
    <3>8. CASE \E s \in sent : s.from = n /\ s.code = r.heartbeat
      <4>1. \E s \in sent' : s.from = n /\ s.code >= old
            BY <2>2, <3>6, <3>8, Zenon
      <4> QED BY <4>1, Zenon DEF old
    <3> QED BY <3>3, <3>4, <3>7, <3>8, Zenon DEF Justified
  <2> QED BY <2>4, <2>5, Zenon
<1> QED BY <1>1, <1>2, <1>3, <1>4, Zenon DEF SInv

\* No old message revives a dead member, but for the handlers that a verdict has
\* overtaken.
THEOREM DeadStayDead == HSpec => NoStaleRevival
<1>1. HInit => SInv
      BY Zenon DEF HInit, Init, SInv
<1>2. Inv /\ SInv /\ [HNext]_hvars => SInv'
  <2>1. ASSUME Inv, SInv, HNext PROVE SInv'
        BY <2>1, SNextInv
  <2>2. ASSUME SInv, UNCHANGED hvars PROVE SInv'
        BY <2>2, Zenon DEF hvars, vars, SInv
  <2> QED BY <2>1, <2>2
<1>3. Inv /\ HInv /\ SInv /\ [HNext]_hvars => [RevivedByRecentMessage]_hvars
      BY RevivalStep, Zenon DEF RevivedByRecentMessage
<1>4. HSpec => []SInv
      BY <1>1, <1>2, HInvariance, PTL DEF HSpec
<1> QED BY <1>3, <1>4, HInvariance, PTL DEF HSpec, NoStaleRevival

=============================================================================
