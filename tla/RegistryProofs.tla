--------------------------- MODULE RegistryProofs ---------------------------
(***************************************************************************)
(* The listeners hear of the status that every node object ends up with,   *)
(* and the registry is well typed, for any number of addresses, objects,   *)
(* handlers and transmitters.                                              *)
(***************************************************************************)
EXTENDS Registry, TLAPS

\* The fields of a node object, a handler and a transmitter.
NodeShape(n) ==
    /\ n = [status |-> n.status, emitCounter |-> n.emitCounter, due |-> n.due,
            heard |-> n.heard]
    /\ n.heard \in BOOLEAN

HandlerShape(h) ==
    \/ /\ h.stage \in {"idle", "contains", "enter"}
       /\ h = [stage |-> h.stage, object |-> h.object]
    \/ /\ h.stage \in {"update", "list", "notify"}
       /\ h = [stage |-> h.stage, object |-> h.object, status |-> h.status,
               then |-> h.then]
       /\ h.then \in {"idle", "contains", "enter"}

TransmitterShape(t) ==
    t.stage = "tested" => t.fresh \subseteq t.objects /\ t.forward \in t.objects \cup {None}

\* A handler is about to tell the listeners of the status that object o has.
Promised(o) ==
    \E g \in Handler : /\ handlers[g].object = o
                       /\ handlers[g].stage \in {"list", "notify"}
                       /\ handlers[g].status = nodes[o].status

Shapes ==
    /\ DOMAIN knownNodes = Peer
    /\ DOMAIN updatedNodes = Peer
    /\ DOMAIN handlers = Handler
    /\ DOMAIN transmitters = Transmitter
    /\ DOMAIN nodes = InUse(knownNodes, updatedNodes, handlers, transmitters)
    /\ \A o \in DOMAIN nodes : NodeShape(nodes[o])
    /\ \A g \in Handler : HandlerShape(handlers[g])
    /\ \A t \in Transmitter : TransmitterShape(transmitters[t])

\* An object whose status the listeners have not heard of has a handler that will
\* tell them of that very status, and not of another one.
Told == \A o \in DOMAIN nodes : nodes[o].heard \/ Promised(o)

NInv == Shapes /\ Told

-----------------------------------------------------------------------------
(* Objects in use *)

\* Whatever a map or a goroutine points to is an object.
LEMMA Pointed ==
    ASSUME Shapes
    PROVE  /\ \A a \in Peer : knownNodes[a] \in DOMAIN nodes \cup {None}
           /\ \A a \in Peer : updatedNodes[a] \in DOMAIN nodes \cup {None}
           /\ \A g \in Handler : handlers[g].object \in DOMAIN nodes \cup {None}
           /\ \A t \in Transmitter : transmitters[t].objects \subseteq DOMAIN nodes \cup {None}
BY DEF Shapes, InUse

\* Conversely, whatever set contains all that is pointed to contains the objects.
LEMMA Collected ==
    ASSUME NEW S,
           \A a \in Peer : knownNodes'[a] \in S \cup {None},
           \A a \in Peer : updatedNodes'[a] \in S \cup {None},
           \A g \in Handler : handlers'[g].object \in S \cup {None},
           \A t \in Transmitter : transmitters'[t].objects \subseteq S \cup {None}
    PROVE  InUse(knownNodes', updatedNodes', handlers', transmitters') \subseteq S
BY DEF InUse

\* What Keep makes of the objects.
LEMMA Kept ==
    ASSUME NEW values, Keep(values),
           DOMAIN knownNodes' = Peer, DOMAIN updatedNodes' = Peer,
           DOMAIN handlers' = Handler, DOMAIN transmitters' = Transmitter,
           \A g \in Handler : HandlerShape(handlers'[g]),
           \A t \in Transmitter : TransmitterShape(transmitters'[t]),
           NEW S,
           InUse(knownNodes', updatedNodes', handlers', transmitters') \subseteq S,
           \A o \in S : NodeShape(values[o])
    PROVE  /\ Shapes'
           /\ \A o \in DOMAIN nodes' : o \in S /\ nodes'[o] = values[o]
<1>1. DOMAIN nodes' = InUse(knownNodes', updatedNodes', handlers', transmitters')
  BY DEF Keep
<1>2. \A o \in DOMAIN nodes' : o \in S /\ nodes'[o] = values[o]
  BY <1>1 DEF Keep
<1>3. \A o \in DOMAIN nodes' : NodeShape(nodes'[o])
  BY <1>2
<1> QED
  BY <1>1, <1>2, <1>3 DEF Shapes, NodeShape, HandlerShape, TransmitterShape

-----------------------------------------------------------------------------
(* Steps *)

\* A handler goes on as H; the objects have the given values.
LEMMA HandlerStep ==
    ASSUME Shapes, NEW g \in Handler, NEW H, HandlerShape(H),
           H.object \in DOMAIN nodes \cup {None},
           handlers' = [handlers EXCEPT ![g] = H],
           UNCHANGED transmitters,
           DOMAIN knownNodes' = Peer, DOMAIN updatedNodes' = Peer,
           \A a \in Peer : knownNodes'[a] \in DOMAIN nodes \cup {None},
           \A a \in Peer : updatedNodes'[a] \in DOMAIN nodes \cup {None},
           NEW values, Keep(values),
           \A o \in DOMAIN nodes : NodeShape(values[o])
    PROVE  /\ Shapes'
           /\ \A o \in DOMAIN nodes' : o \in DOMAIN nodes /\ nodes'[o] = values[o]
<1>1. DOMAIN handlers' = Handler /\ \A k \in Handler : HandlerShape(handlers'[k])
      BY DEF Shapes
<1>2. DOMAIN transmitters' = Transmitter
      /\ \A t \in Transmitter : TransmitterShape(transmitters'[t])
      BY DEF Shapes
<1>3. \A k \in Handler : handlers'[k].object \in DOMAIN nodes \cup {None}
      BY Pointed DEF Shapes
<1>4. \A t \in Transmitter : transmitters'[t].objects \subseteq DOMAIN nodes \cup {None}
      BY Pointed
<1>5. InUse(knownNodes', updatedNodes', handlers', transmitters') \subseteq DOMAIN nodes
      BY <1>3, <1>4, Collected, Zenon
<1> QED BY <1>1, <1>2, <1>5, Kept, Zenon

\* A transmitter goes on as T; news may be taken off the list.
LEMMA TransmitterStep ==
    ASSUME NInv, NEW t \in Transmitter, NEW T, TransmitterShape(T),
           T.objects \subseteq DOMAIN nodes \cup {None},
           transmitters' = [transmitters EXCEPT ![t] = T],
           UNCHANGED <<knownNodes, handlers>>,
           DOMAIN updatedNodes' = Peer,
           \A a \in Peer : updatedNodes'[a] \in {updatedNodes[a], None},
           NEW values, Keep(values),
           \A o \in DOMAIN nodes : /\ NodeShape(values[o])
                                   /\ values[o].status = nodes[o].status
                                   /\ values[o].heard = nodes[o].heard
    PROVE  NInv' /\ DOMAIN nodes' \subseteq DOMAIN nodes
<1>1. DOMAIN handlers' = Handler /\ \A k \in Handler : HandlerShape(handlers'[k])
      BY DEF NInv, Shapes
<1>2. DOMAIN transmitters' = Transmitter
      /\ \A u \in Transmitter : TransmitterShape(transmitters'[u])
      BY DEF NInv, Shapes
<1>3. \A u \in Transmitter : transmitters'[u].objects \subseteq DOMAIN nodes \cup {None}
      BY Pointed DEF NInv, Shapes
<1>4. InUse(knownNodes', updatedNodes', handlers', transmitters') \subseteq DOMAIN nodes
      BY <1>3, Pointed, Collected, Zenon DEF NInv
<1>5. DOMAIN knownNodes' = Peer
      BY DEF NInv, Shapes
<1>6. Shapes' /\ \A o \in DOMAIN nodes' : o \in DOMAIN nodes /\ nodes'[o] = values[o]
      BY <1>1, <1>2, <1>4, <1>5, Kept, Zenon
<1>7. Told'
      BY <1>6 DEF NInv, Told, Promised
<1> QED BY <1>6, <1>7 DEF NInv

\* A handler that owes the listeners nothing goes on, or starts to owe.
LEMMA FreeStep ==
    ASSUME NInv, NEW g \in Handler, NEW H, HandlerShape(H),
           H.object \in DOMAIN nodes \cup {None},
           handlers[g].stage \notin {"list", "notify"},
           handlers' = [handlers EXCEPT ![g] = H],
           UNCHANGED <<transmitters, updatedNodes>>,
           DOMAIN knownNodes' = Peer,
           \A a \in Peer : knownNodes'[a] \in DOMAIN nodes \cup {None},
           Keep(nodes)
    PROVE  NInv' /\ DOMAIN nodes' \subseteq DOMAIN nodes
<1>1. Shapes' /\ \A o \in DOMAIN nodes' : o \in DOMAIN nodes /\ nodes'[o] = nodes[o]
      BY HandlerStep, Pointed, Zenon DEF NInv, Shapes
<1>2. \A k \in Handler \ {g} : handlers'[k] = handlers[k]
      BY DEF NInv, Shapes
<1>3. ASSUME NEW o \in DOMAIN nodes', ~nodes'[o].heard PROVE Promised(o)'
  <2>1. PICK k \in Handler : /\ handlers[k].object = o
                             /\ handlers[k].stage \in {"list", "notify"}
                             /\ handlers[k].status = nodes[o].status
        BY <1>1, <1>3 DEF NInv, Told, Promised
  <2> QED BY <1>1, <1>2, <2>1 DEF Promised
<1> QED BY <1>1, <1>3 DEF NInv, Told

-----------------------------------------------------------------------------
(* Handlers *)

LEMMA StartInv ==
    ASSUME NInv, NEW g \in Handler, NEW o, NEW H, HandlerShape(H), H.object = o,
           Start(g, o, H)
    PROVE  NInv' /\ DOMAIN nodes' \subseteq {o} \cup DOMAIN nodes
<1> DEFINE S == {o} \cup DOMAIN nodes
           values == [p \in S |-> IF p \in DOMAIN nodes THEN nodes[p] ELSE NewNode]
<1>1. Keep(values)
      BY DEF Start
<1>2. \A p \in S : NodeShape(values[p])
      BY Zenon DEF NInv, Shapes, NodeShape, NewNode
<1>3. DOMAIN handlers' = Handler /\ \A k \in Handler : HandlerShape(handlers'[k])
      BY DEF Start, NInv, Shapes
<1>4. DOMAIN transmitters' = Transmitter
      /\ \A t \in Transmitter : TransmitterShape(transmitters'[t])
      BY DEF Start, NInv, Shapes
<1>5. \A k \in Handler : handlers'[k].object \in S \cup {None}
      BY Pointed DEF Start, NInv, Shapes
<1>6. \A t \in Transmitter : transmitters'[t].objects \subseteq S \cup {None}
      BY Pointed DEF Start, NInv
<1>7. \A a \in Peer : knownNodes'[a] \in S \cup {None} /\ updatedNodes'[a] \in S \cup {None}
      BY Pointed DEF Start, NInv
<1>8. \A p \in S : values[p] = IF p \in DOMAIN nodes THEN nodes[p] ELSE NewNode
      OBVIOUS
<1> HIDE DEF values, S
<1>9. InUse(knownNodes', updatedNodes', handlers', transmitters') \subseteq S
      BY <1>5, <1>6, <1>7, Collected
<1>10. DOMAIN knownNodes' = Peer /\ DOMAIN updatedNodes' = Peer
      BY DEF Start, NInv, Shapes
<1>11. Shapes' /\ \A p \in DOMAIN nodes' : p \in S /\ nodes'[p] = values[p]
      BY <1>1, <1>2, <1>3, <1>4, <1>9, <1>10, Kept
<1>12. \A k \in Handler \ {g} : handlers'[k] = handlers[k]
      BY DEF Start, NInv, Shapes
<1>13. ASSUME NEW p \in DOMAIN nodes', ~nodes'[p].heard PROVE Promised(p)'
  <2>1. p \in DOMAIN nodes /\ nodes'[p] = nodes[p]
        BY <1>8, <1>11, <1>13 DEF NewNode
  <2>2. PICK k \in Handler : /\ handlers[k].object = p
                             /\ handlers[k].stage \in {"list", "notify"}
                             /\ handlers[k].status = nodes[p].status
        BY <1>13, <2>1 DEF NInv, Told, Promised
  <2> QED BY <1>12, <2>1, <2>2 DEF Promised, Start
<1> QED BY <1>11, <1>13 DEF NInv, Told, S

LEMMA BeginningsInv ==
    ASSUME NInv, NEW g \in Handler, NEW a \in Peer,
           \/ \E status \in {"ALIVE", "DEAD"} : Decode(g, a, status)
           \/ AwaitAck(g, a)
           \/ Create(g, a)
    PROVE  NInv'
<1>1. \A o, status, then : then \in {"idle", "contains", "enter"} =>
         HandlerShape(Updating(o, status, then)) /\ Updating(o, status, then).object = o
      BY DEF HandlerShape, Updating
<1>2. \A o : HandlerShape(Adding(o, "contains")) /\ Adding(o, "contains").object = o
      BY DEF HandlerShape, Adding
<1>3. CASE \E status \in {"ALIVE", "DEAD"} : Decode(g, a, status)
      BY <1>1, <1>3, StartInv DEF Decode
<1>4. CASE AwaitAck(g, a)
      BY <1>1, <1>4, StartInv DEF AwaitAck
<1>5. CASE Create(g, a)
      BY <1>2, <1>5, StartInv DEF Create
<1> QED BY <1>3, <1>4, <1>5

\* What a handler is after GoOn.
LEMMA GoneOn ==
    ASSUME NEW g \in Handler, NEW stage, GoOn(g, stage), HandlerShape(handlers[g]),
           \/ stage \in {"idle", "contains", "enter"}
           \/ /\ stage \in {"list", "notify"}
              /\ handlers[g].stage \in {"update", "list", "notify"}
    PROVE  \E H : /\ HandlerShape(H)
                  /\ H.object \in {handlers[g].object, None}
                  /\ handlers' = [handlers EXCEPT ![g] = H]
                  /\ H.stage = stage
                  /\ H.object = IF stage = "idle" THEN None ELSE handlers[g].object
                  /\ stage \in {"list", "notify"} => H.status = handlers[g].status
<1>1. CASE stage = "idle"
  <2>1. handlers' = [handlers EXCEPT ![g] = IdleHandler]
        BY <1>1 DEF GoOn
  <2>2. /\ HandlerShape(IdleHandler) /\ IdleHandler.object = None
        /\ IdleHandler.stage = "idle"
        BY DEF HandlerShape, IdleHandler
  <2> QED BY <1>1, <2>1, <2>2, Zenon
<1>2. CASE stage \in {"contains", "enter"}
  <2> DEFINE H == Adding(handlers[g].object, stage)
  <2>1. handlers' = [handlers EXCEPT ![g] = H]
        BY <1>2 DEF GoOn
  <2>2. HandlerShape(H) /\ H.object = handlers[g].object /\ H.stage = stage
        BY <1>2 DEF HandlerShape, Adding
  <2> HIDE DEF H
  <2> QED BY <1>2, <2>1, <2>2, Zenon
<1>3. CASE stage \in {"list", "notify"}
  <2> DEFINE H == [handlers[g] EXCEPT !.stage = stage]
  <2>1. handlers' = [handlers EXCEPT ![g] = H]
        BY <1>3, Zenon DEF GoOn
  <2>2. /\ handlers[g] = [stage |-> handlers[g].stage, object |-> handlers[g].object,
                          status |-> handlers[g].status, then |-> handlers[g].then]
        /\ handlers[g].then \in {"idle", "contains", "enter"}
        BY <1>3 DEF HandlerShape
  <2>3. H = [stage |-> stage, object |-> handlers[g].object,
             status |-> handlers[g].status, then |-> handlers[g].then]
        BY <2>2
  <2> HIDE DEF H
  <2>4. /\ H.stage = stage /\ H.object = handlers[g].object
        /\ H.status = handlers[g].status /\ H.then = handlers[g].then
        BY <2>3
  <2>5. HandlerShape(H)
        BY <1>3, <2>2, <2>3, <2>4 DEF HandlerShape
  <2> QED BY <1>3, <2>1, <2>4, <2>5, Zenon
<1> QED BY <1>1, <1>2, <1>3

\* The steps that leave the objects as they are.
LEMMA PlainInv ==
    ASSUME NInv, NEW g \in Handler, Drop(g) \/ Contains(g) \/ Enter(g)
    PROVE  NInv' /\ DOMAIN nodes' \subseteq DOMAIN nodes
<1>1. /\ HandlerShape(handlers[g])
      /\ handlers[g].object \in DOMAIN nodes \cup {None}
      /\ DOMAIN knownNodes = Peer
      /\ \A a \in Peer : knownNodes[a] \in DOMAIN nodes \cup {None}
      BY Pointed DEF NInv, Shapes
<1>2. Keep(nodes) /\ UNCHANGED <<transmitters, updatedNodes>>
      BY DEF Drop, Contains, Enter, GoOn
<1>3. handlers[g].stage \notin {"list", "notify"}
      BY DEF Drop, Contains, Enter
<1>4. \E H : /\ HandlerShape(H)
             /\ H.object \in {handlers[g].object, None}
             /\ handlers' = [handlers EXCEPT ![g] = H]
  <2>1. CASE Drop(g)
    <3>1. PICK stage \in {"idle", handlers[g].then} : GoOn(g, stage)
          BY <2>1 DEF Drop
    <3>2. stage \in {"idle", "contains", "enter"}
          BY <1>1, <2>1, <3>1 DEF Drop, HandlerShape
    <3> QED BY <1>1, <3>1, <3>2, GoneOn
  <2>2. CASE Contains(g)
    <3> DEFINE H == Updating(handlers[g].object, "ALIVE", "enter")
    <3>1. HandlerShape(H) /\ H.object = handlers[g].object
          BY DEF HandlerShape, Updating
    <3>2. \/ GoOn(g, "idle")
          \/ GoOn(g, "enter")
          \/ handlers' = [handlers EXCEPT ![g] = H]
          BY <2>2 DEF Contains
    <3> HIDE DEF H
    <3> QED BY <1>1, <3>1, <3>2, GoneOn
  <2>3. CASE Enter(g)
        BY <1>1, <2>3, GoneOn DEF Enter
  <2> QED BY <2>1, <2>2, <2>3
<1>5. /\ DOMAIN knownNodes' = Peer
      /\ \A a \in Peer : knownNodes'[a] \in DOMAIN nodes \cup {None}
      BY <1>1 DEF Drop, Contains, Enter
<1> QED BY <1>1, <1>2, <1>3, <1>4, <1>5, FreeStep, Zenon

\* The handler that assigns a status owes it to the listeners.
LEMMA UpdateInv ==
    ASSUME NInv, NEW g \in Handler, Update(g)
    PROVE  NInv' /\ DOMAIN nodes' \subseteq DOMAIN nodes
<1> DEFINE h == handlers[g]
           o == h.object
           n == [status |-> h.status, emitCounter |-> emitCount, due |-> emitCount,
                 heard |-> FALSE]
           values == [nodes EXCEPT ![o] = n]
<1>1. /\ HandlerShape(h) /\ h.stage = "update"
      /\ o \in DOMAIN nodes \cup {None}
      /\ DOMAIN knownNodes = Peer /\ DOMAIN updatedNodes = Peer
      /\ \A a \in Peer : knownNodes[a] \in DOMAIN nodes \cup {None}
      /\ \A a \in Peer : updatedNodes[a] \in DOMAIN nodes \cup {None}
      BY Pointed DEF NInv, Shapes, Update
<1>2. UNCHANGED <<knownNodes, updatedNodes, transmitters>>
      BY DEF Update, GoOn
<1>3. CASE GoOn(g, h.then) /\ Keep(nodes)
  <2>1. h.then \in {"idle", "contains", "enter"}
        BY <1>1 DEF HandlerShape
  <2> QED BY <1>1, <1>2, <1>3, <2>1, GoneOn, FreeStep
<1>4. CASE GoOn(g, Listing(h)) /\ Keep(values)
  <2>1. Listing(h) \in {"list", "notify"}
        BY DEF Listing
  <2>2. PICK H : /\ HandlerShape(H)
                 /\ handlers' = [handlers EXCEPT ![g] = H]
                 /\ H.stage \in {"list", "notify"}
                 /\ H.object = o /\ H.status = h.status
        BY <1>1, <1>4, <2>1, GoneOn
  <2>3. n.status = h.status /\ NodeShape(n)
        BY DEF NodeShape
  <2>4. \A p \in DOMAIN nodes : values[p] = IF p = o THEN n ELSE nodes[p]
        OBVIOUS
  <2> HIDE DEF n, values
  <2>5. \A p \in DOMAIN nodes : NodeShape(values[p])
        BY <2>3, <2>4 DEF NInv, Shapes
  <2>6. Shapes' /\ \A p \in DOMAIN nodes' : p \in DOMAIN nodes /\ nodes'[p] = values[p]
        BY <1>1, <1>2, <1>4, <2>2, <2>5, HandlerStep, Zenon DEF NInv
  <2>7. handlers'[g] = H /\ \A k \in Handler \ {g} : handlers'[k] = handlers[k]
        BY <2>2 DEF NInv, Shapes
  <2>8. ASSUME NEW p \in DOMAIN nodes', ~nodes'[p].heard PROVE Promised(p)'
    <3>1. CASE p = o
          BY <2>2, <2>3, <2>4, <2>6, <2>7, <3>1 DEF Promised
    <3>2. CASE p # o
      <4>1. p \in DOMAIN nodes /\ nodes'[p] = nodes[p]
            BY <2>4, <2>6, <3>2
      <4>2. PICK k \in Handler : /\ handlers[k].object = p
                                 /\ handlers[k].stage \in {"list", "notify"}
                                 /\ handlers[k].status = nodes[p].status
            BY <2>8, <4>1 DEF NInv, Told, Promised
      <4> QED BY <1>1, <2>7, <4>1, <4>2 DEF Promised
    <3> QED BY <3>1, <3>2
  <2> QED BY <2>6, <2>8 DEF NInv, Told
<1> QED BY <1>3, <1>4 DEF Update

LEMMA ListInv ==
    ASSUME NInv, NEW g \in Handler, List(g)
    PROVE  NInv' /\ DOMAIN nodes' \subseteq DOMAIN nodes
<1> DEFINE h == handlers[g]
           o == h.object
<1>1. /\ HandlerShape(h) /\ h.stage = "list"
      /\ o \in DOMAIN nodes \cup {None}
      /\ DOMAIN knownNodes = Peer /\ DOMAIN updatedNodes = Peer
      /\ \A a \in Peer : knownNodes[a] \in DOMAIN nodes \cup {None}
      /\ \A a \in Peer : updatedNodes[a] \in DOMAIN nodes \cup {None}
      BY Pointed DEF NInv, Shapes, List
<1>2. /\ UNCHANGED <<knownNodes, transmitters>>
      /\ updatedNodes' = [updatedNodes EXCEPT ![o.address] = o]
      /\ GoOn(g, "notify") /\ Keep(nodes)
      BY DEF List, GoOn
<1>3. PICK H : /\ HandlerShape(H)
               /\ handlers' = [handlers EXCEPT ![g] = H]
               /\ H.stage = "notify"
               /\ H.object = o /\ H.status = h.status
      BY <1>1, <1>2, GoneOn
<1>4. \A p \in DOMAIN nodes : NodeShape(nodes[p])
      BY DEF NInv, Shapes
<1>5. /\ DOMAIN updatedNodes' = Peer
      /\ \A a \in Peer : updatedNodes'[a] \in DOMAIN nodes \cup {None}
      BY <1>1, <1>2
<1>6. Shapes' /\ \A p \in DOMAIN nodes' : p \in DOMAIN nodes /\ nodes'[p] = nodes[p]
      BY <1>1, <1>2, <1>3, <1>4, <1>5, HandlerStep, Zenon DEF NInv
<1>7. handlers'[g] = H /\ \A k \in Handler \ {g} : handlers'[k] = handlers[k]
      BY <1>3 DEF NInv, Shapes
<1>8. ASSUME NEW p \in DOMAIN nodes', ~nodes'[p].heard PROVE Promised(p)'
  <2>1. PICK k \in Handler : /\ handlers[k].object = p
                             /\ handlers[k].stage \in {"list", "notify"}
                             /\ handlers[k].status = nodes[p].status
        BY <1>6, <1>8 DEF NInv, Told, Promised
  <2> QED BY <1>3, <1>6, <1>7, <2>1 DEF Promised
<1> QED BY <1>6, <1>8 DEF NInv, Told

\* The handler that tells the listeners of a status that is not the object's any
\* more leaves another one that owes them the status that it has.
LEMMA NotifyInv ==
    ASSUME NInv, NEW g \in Handler, Notify(g)
    PROVE  NInv' /\ DOMAIN nodes' \subseteq DOMAIN nodes
<1> DEFINE h == handlers[g]
           o == h.object
           values == [nodes EXCEPT ![o].heard = @ \/ nodes[o].status = h.status]
<1>1. /\ HandlerShape(h) /\ h.stage = "notify"
      /\ o \in DOMAIN nodes \cup {None}
      /\ DOMAIN knownNodes = Peer /\ DOMAIN updatedNodes = Peer
      /\ \A a \in Peer : knownNodes[a] \in DOMAIN nodes \cup {None}
      /\ \A a \in Peer : updatedNodes[a] \in DOMAIN nodes \cup {None}
      BY Pointed DEF NInv, Shapes, Notify
<1>2. /\ UNCHANGED <<knownNodes, updatedNodes, transmitters>>
      /\ GoOn(g, h.then) /\ Keep(values)
      BY DEF Notify, GoOn
<1>3. h.then \in {"idle", "contains", "enter"}
      BY <1>1 DEF HandlerShape
<1>4. PICK H : /\ HandlerShape(H)
               /\ handlers' = [handlers EXCEPT ![g] = H]
               /\ H.object \in {o, None}
      BY <1>1, <1>2, <1>3, GoneOn
<1>5. \A p \in DOMAIN nodes :
         /\ NodeShape(values[p])
         /\ values[p].status = nodes[p].status
         /\ nodes[p].heard \/ (p = o /\ nodes[p].status = h.status) => values[p].heard
  <2> SUFFICES ASSUME NEW p \in DOMAIN nodes
               PROVE  /\ NodeShape(values[p])
                      /\ values[p].status = nodes[p].status
                      /\ nodes[p].heard \/ (p = o /\ nodes[p].status = h.status)
                            => values[p].heard
      OBVIOUS
  <2>1. NodeShape(nodes[p])
        BY DEF NInv, Shapes
  <2>2. CASE p # o
        BY <2>1, <2>2
  <2>3. CASE p = o
    <3> DEFINE b == nodes[o].heard \/ nodes[o].status = h.status
    <3>1. values[p] = [nodes[p] EXCEPT !.heard = b]
          BY <2>3
    <3>2. b \in BOOLEAN /\ (nodes[p].heard \/ nodes[p].status = h.status => b)
          BY <2>3
    <3> HIDE DEF b, values
    <3>3. values[p] = [status |-> nodes[p].status, emitCounter |-> nodes[p].emitCounter,
                       due |-> nodes[p].due, heard |-> b]
          BY <2>1, <3>1 DEF NodeShape
    <3>4. /\ values[p].status = nodes[p].status /\ values[p].heard = b
          /\ values[p].emitCounter = nodes[p].emitCounter /\ values[p].due = nodes[p].due
          BY <3>3
    <3> QED BY <3>2, <3>3, <3>4 DEF NodeShape
  <2> QED BY <2>2, <2>3
<1> HIDE DEF values
<1>6. Shapes' /\ \A p \in DOMAIN nodes' : p \in DOMAIN nodes /\ nodes'[p] = values[p]
      BY <1>1, <1>2, <1>4, <1>5, HandlerStep, Zenon DEF NInv
<1>7. \A k \in Handler \ {g} : handlers'[k] = handlers[k]
      BY <1>4 DEF NInv, Shapes
<1>8. ASSUME NEW p \in DOMAIN nodes', ~nodes'[p].heard PROVE Promised(p)'
  <2>1. p \in DOMAIN nodes /\ ~nodes[p].heard
        BY <1>5, <1>6, <1>8
  <2>2. PICK k \in Handler : /\ handlers[k].object = p
                             /\ handlers[k].stage \in {"list", "notify"}
                             /\ handlers[k].status = nodes[p].status
        BY <2>1 DEF NInv, Told, Promised
  <2>3. k # g
        BY <1>5, <1>6, <1>8, <2>1, <2>2
  <2> QED BY <1>5, <1>6, <1>7, <2>2, <2>3 DEF Promised
<1> QED BY <1>6, <1>8 DEF NInv, Told

LEMMA RemoveNodeInv ==
    ASSUME NInv, NEW a \in Peer, RemoveNode(a)
    PROVE  NInv' /\ DOMAIN nodes' \subseteq DOMAIN nodes
<1>1. /\ UNCHANGED <<updatedNodes, handlers, transmitters>> /\ Keep(nodes)
      /\ DOMAIN knownNodes' = Peer
      /\ \A b \in Peer : knownNodes'[b] \in DOMAIN nodes \cup {None}
      BY Pointed DEF RemoveNode, NInv, Shapes
<1>2. InUse(knownNodes', updatedNodes', handlers', transmitters') \subseteq DOMAIN nodes
      BY <1>1, Pointed, Collected DEF NInv
<1>3. /\ DOMAIN updatedNodes' = Peer
      /\ DOMAIN handlers' = Handler /\ \A k \in Handler : HandlerShape(handlers'[k])
      /\ DOMAIN transmitters' = Transmitter
      /\ \A t \in Transmitter : TransmitterShape(transmitters'[t])
      /\ \A o \in DOMAIN nodes : NodeShape(nodes[o])
      BY <1>1 DEF NInv, Shapes
<1>4. Shapes' /\ \A o \in DOMAIN nodes' : o \in DOMAIN nodes /\ nodes'[o] = nodes[o]
      BY <1>1, <1>2, <1>3, Kept
<1> QED BY <1>1, <1>4 DEF NInv, Told, Promised

-----------------------------------------------------------------------------
(* Transmitters *)

LEMMA TestInv ==
    ASSUME NInv, NEW t \in Transmitter, NEW a, NEW f, Test(t, a, f)
    PROVE  NInv' /\ DOMAIN nodes' \subseteq DOMAIN nodes
<1> DEFINE news == {updatedNodes[b] : b \in Peer} \ {None}
           fresh == {o \in news : ~UsedUp(o)}
           T == [stage |-> "tested", to |-> a, forward |-> f, fresh |-> fresh,
                 old |-> {o.address : o \in news \ fresh},
                 objects |-> fresh \cup ({f} \ {None})]
<1>1. transmitters' = [transmitters EXCEPT ![t] = T]
      BY DEF Test
<1>2. fresh \subseteq DOMAIN nodes
      BY Pointed DEF NInv
<1>3. f \in DOMAIN nodes \cup {None}
      BY Pointed, Zenon DEF Test, NInv, Known
<1>4. TransmitterShape(T) /\ T.objects \subseteq DOMAIN nodes \cup {None}
      BY <1>2, <1>3 DEF TransmitterShape
<1> HIDE DEF T
<1>5. /\ UNCHANGED <<knownNodes, updatedNodes, handlers>> /\ Keep(nodes)
      /\ DOMAIN updatedNodes' = Peer
      /\ \A o \in DOMAIN nodes : NodeShape(nodes[o])
      BY DEF Test, NInv, Shapes
<1> QED BY <1>1, <1>4, <1>5, TransmitterStep, Zenon

LEMMA MentionInv ==
    ASSUME NInv, NEW t \in Transmitter, Mention(t)
    PROVE  NInv' /\ DOMAIN nodes' \subseteq DOMAIN nodes
<1> DEFINE g == transmitters[t]
           news == {o \in g.fresh : o.address # g.to}
           others == {knownNodes[b] : b \in Known \ {g.to}}
           Mentioned(members) ==
              [stage |-> "mentioned", forward |-> g.forward, members |-> members,
               status |-> [o \in members |-> nodes[o].status],
               value |-> [o \in members |-> Less(nodes[o].emitCounter, 1)],
               objects |-> members \cup ({g.forward} \ {None})]
           T(members) == IF members = {} /\ g.forward = None THEN IdleTransmitter
                         ELSE Mentioned(members)
<1>1. PICK members : /\ \/ members \in Top(emitCount, news)
                        \/ members \in RandomNodes(emitCount, others)
                     /\ transmitters' = [transmitters EXCEPT ![t] = T(members)]
                     /\ Keep(nodes)
      BY Zenon DEF Mention
<1>2. /\ UNCHANGED <<knownNodes, handlers>>
      /\ updatedNodes' = [b \in Peer |-> IF b \in g.old THEN None ELSE updatedNodes[b]]
      /\ g.stage = "tested"
      BY Zenon DEF Mention, Pruned
<1>3. /\ g.fresh \subseteq g.objects /\ g.forward \in g.objects \cup {None}
      /\ g.objects \subseteq DOMAIN nodes \cup {None}
      /\ others \subseteq DOMAIN nodes \cup {None}
      BY <1>2, Pointed DEF NInv, Shapes, TransmitterShape, Known
<1>4. members \subseteq DOMAIN nodes \cup {None}
      BY <1>1, <1>3 DEF Top, RandomNodes
<1>5. Mentioned(members).stage = "mentioned"
      /\ Mentioned(members).objects \subseteq DOMAIN nodes \cup {None}
      BY <1>3, <1>4
<1>6. TransmitterShape(T(members)) /\ T(members).objects \subseteq DOMAIN nodes \cup {None}
      BY <1>5 DEF TransmitterShape, IdleTransmitter
<1>7. \A o \in DOMAIN nodes : NodeShape(nodes[o])
      BY DEF NInv, Shapes
<1> DEFINE X == T(members)
<1>8. /\ TransmitterShape(X) /\ X.objects \subseteq DOMAIN nodes \cup {None}
      /\ transmitters' = [transmitters EXCEPT ![t] = X] /\ Keep(nodes)
      BY <1>1, <1>6
<1> HIDE DEF X
<1> QED BY <1>2, <1>7, <1>8, TransmitterStep, Zenon

\* n is object o with other counters.
Recounted(o, n) ==
    \/ n = nodes[o]
    \/ \E c : n = [nodes[o] EXCEPT !.emitCounter = c]
    \/ \E c, d : n = [nodes[o] EXCEPT !.emitCounter = c, !.due = d]

\* Counters are stored: neither a status nor what the listeners heard changes.
LEMMA Counted ==
    ASSUME NInv, NEW o \in DOMAIN nodes, NEW n, Recounted(o, n)
    PROVE  NodeShape(n) /\ n.status = nodes[o].status /\ n.heard = nodes[o].heard
BY DEF NodeShape, NInv, Shapes, Recounted

\* What the steps that send a message and decrement its counters do.
Counts(t) == Send(t) \/ FailToSend(t) \/ Load(t) \/ Store(t)

\* The value that Send leaves in object o, which it mentions.
Sent(t, o) ==
    [nodes[o] EXCEPT !.emitCounter = transmitters[t].value[o],
                     !.due = IF transmitters[t].status[o] = nodes[o].status
                             THEN Less(@, 1) ELSE @]

LEMMA CountInv ==
    ASSUME NInv, NEW t \in Transmitter, Counts(t)
    PROVE  NInv' /\ DOMAIN nodes' \subseteq DOMAIN nodes
<1> DEFINE g == transmitters[t]
           Stored(S) == [o \in DOMAIN nodes |->
              IF o \in S THEN [nodes[o] EXCEPT !.emitCounter = g.value[o]] ELSE nodes[o]]
           sent == [o \in DOMAIN nodes |-> IF o \in g.members THEN Sent(t, o) ELSE nodes[o]]
<1>1. \E T : /\ TransmitterShape(T) /\ T.objects \subseteq g.objects
             /\ transmitters' = [transmitters EXCEPT ![t] = T]
  <2>1. CASE FailToSend(t) \/ Store(t)
    <3>1. transmitters' = [transmitters EXCEPT ![t] = IdleTransmitter]
          BY <2>1, Zenon DEF FailToSend, Store
    <3> QED BY <3>1, Zenon DEF TransmitterShape, IdleTransmitter
  <2>2. CASE Send(t)
    <3> DEFINE T == [stage |-> "sent", forward |-> g.forward, members |-> g.members,
                     objects |-> g.objects]
    <3>1. transmitters' = [transmitters EXCEPT ![t] = T]
          BY <2>2, Zenon DEF Send
    <3>2. T.stage = "sent" /\ T.objects = g.objects
          OBVIOUS
    <3> HIDE DEF T
    <3> QED BY <3>1, <3>2, Zenon DEF TransmitterShape
  <2>3. CASE Load(t)
    <3> DEFINE T == [stage |-> "loaded", objects |-> g.objects,
                     value |-> [o \in g.objects |->
                        Less(nodes[o].emitCounter,
                             IF o = g.forward /\ o \in g.members THEN 2 ELSE 1)]]
    <3>1. transmitters' = [transmitters EXCEPT ![t] = T]
          BY <2>3, Zenon DEF Load
    <3>2. T.stage = "loaded" /\ T.objects = g.objects
          OBVIOUS
    <3> HIDE DEF T
    <3> QED BY <3>1, <3>2, Zenon DEF TransmitterShape
  <2> QED BY <2>1, <2>2, <2>3, Zenon DEF Counts
<1>2. g.objects \subseteq DOMAIN nodes \cup {None}
      BY Pointed DEF NInv
<1>3. /\ UNCHANGED <<knownNodes, updatedNodes, handlers>>
      /\ DOMAIN updatedNodes' = Peer
      BY DEF Counts, Send, FailToSend, Load, Store, NInv, Shapes
<1>4. PICK values : Keep(values) /\ \A o \in DOMAIN nodes : Recounted(o, values[o])
  <2>1. CASE Load(t)
        BY <2>1, Zenon DEF Load, Recounted
  <2>2. ASSUME NEW S, Keep(Stored(S))
        PROVE  \E values : Keep(values) /\ \A o \in DOMAIN nodes : Recounted(o, values[o])
    <3> DEFINE values == Stored(S)
    <3>1. ASSUME NEW o \in DOMAIN nodes PROVE Recounted(o, values[o])
      <4>1. values[o] = IF o \in S THEN [nodes[o] EXCEPT !.emitCounter = g.value[o]]
                        ELSE nodes[o]
            BY Zenon
      <4> QED BY <4>1, Zenon DEF Recounted
    <3> HIDE DEF values
    <3>2. Keep(values)
          BY <2>2 DEF values
    <3> QED BY <3>1, <3>2, Zenon
  <2>3. CASE Send(t)
    <3>1. Keep(sent)
          BY <2>3, Zenon DEF Send, Sent
    <3>2. ASSUME NEW o \in DOMAIN nodes PROVE Recounted(o, sent[o])
      <4>1. sent[o] = IF o \in g.members THEN Sent(t, o) ELSE nodes[o]
            BY Zenon
      <4>2. Recounted(o, Sent(t, o))
            BY Zenon DEF Sent, Recounted
      <4> QED BY <4>1, <4>2, Zenon DEF Recounted
    <3> HIDE DEF sent
    <3> QED BY <3>1, <3>2, Zenon
  <2>4. CASE FailToSend(t)
    <3>1. Keep(Stored(g.members))
          BY <2>4, Zenon DEF FailToSend
    <3> QED BY <2>2, <3>1, Zenon
  <2>5. CASE Store(t)
    <3>1. Keep(Stored(g.objects))
          BY <2>5, Zenon DEF Store
    <3> QED BY <2>2, <3>1, Zenon
  <2> QED BY <2>1, <2>3, <2>4, <2>5, Zenon DEF Counts
<1>5. \A o \in DOMAIN nodes : /\ NodeShape(values[o])
                              /\ values[o].status = nodes[o].status
                              /\ values[o].heard = nodes[o].heard
      BY <1>4, Counted, Zenon
<1> QED BY <1>1, <1>2, <1>3, <1>4, <1>5, TransmitterStep, Zenon

-----------------------------------------------------------------------------
(* The theorem *)

LEMMA InitNInv == RInit => NInv
<1> SUFFICES ASSUME RInit PROVE NInv
    OBVIOUS
<1>1. \A o \in DOMAIN nodes : NodeShape(nodes[o]) /\ nodes[o].heard
      BY Zenon DEF RInit, NodeShape, NewNode
<1>2. \A g \in Handler : HandlerShape(handlers[g])
      BY DEF RInit, HandlerShape, IdleHandler
<1>3. \A t \in Transmitter : TransmitterShape(transmitters[t])
      BY DEF RInit, TransmitterShape, IdleTransmitter
<1>4. DOMAIN nodes = InUse(knownNodes, updatedNodes, handlers, transmitters)
      BY InitialHostIsAPeer DEF RInit, InUse, IdleHandler, IdleTransmitter, InitialNode, None
<1>5. /\ DOMAIN knownNodes = Peer /\ DOMAIN updatedNodes = Peer
      /\ DOMAIN handlers = Handler /\ DOMAIN transmitters = Transmitter
      BY DEF RInit
<1> QED BY <1>1, <1>2, <1>3, <1>4, <1>5 DEF NInv, Shapes, Told

LEMMA NextNInv ==
    ASSUME NInv, [RNext]_rvars
    PROVE  NInv'
<1>1. CASE RNext
      BY <1>1, BeginningsInv, PlainInv, UpdateInv, ListInv, NotifyInv, RemoveNodeInv,
         TestInv, MentionInv, CountInv DEF RNext, Handle, Transmit, Counts
<1>2. CASE UNCHANGED rvars
  <2>1. UNCHANGED <<nodes, knownNodes, updatedNodes, handlers, transmitters>>
        BY <1>2 DEF rvars
  <2>2. Told'
        BY <2>1 DEF NInv, Told, Promised
  <2>3. Shapes'
        BY <2>1 DEF NInv, Shapes
  <2> QED BY <2>2, <2>3 DEF NInv
<1> QED BY <1>1, <1>2

\* The listeners are told of the status that a node object ends up with, however many
\* goroutines assign and report statuses of it at the same time (updateNodeStatus and
\* doStatusUpdate).
THEOREM ListenersHear == RSpec => []NewsIsHeard
<1>1. NInv => NewsIsHeard
      BY DEF NInv, Told, Promised, NewsIsHeard, Busy
<1> QED BY <1>1, InitNInv, NextNInv, PTL DEF RSpec

-----------------------------------------------------------------------------
(* Types *)

\* What an entry of a map may be, and the fields of objects and goroutines.
At(a) == {o \in Object : o.address = a} \cup {None}

NodeTyped(n) ==
    n \in [status : Status, emitCounter : Nat, due : Nat, heard : BOOLEAN]

HandlerTyped(h) ==
    /\ IF h.stage = "idle" THEN h.object = None ELSE h.object \in Object
    /\ h.stage \in {"update", "list", "notify"} => h.status \in {"ALIVE", "DEAD"}

TransmitterTyped(g) ==
    /\ g.objects \subseteq Object
    /\ g.stage \in {"mentioned", "sent"} =>
          g.objects = g.members \cup ({g.forward} \ {None})
    /\ g.stage = "mentioned" => g.value \in [g.members -> Nat]
    /\ g.stage = "loaded" => g.value \in [g.objects -> Nat]

\* A handler is past the assignment of a status in AddNode or updateNodeStatus.
Assigned(h) == h.stage \in {"list", "notify", "enter"}

\* Objects have a status before they are entered into knownNodes.
Types ==
    /\ \A a \in Peer : knownNodes[a] \in At(a) /\ updatedNodes[a] \in At(a)
    /\ \A o \in DOMAIN nodes : NodeTyped(nodes[o])
    /\ \A g \in Handler : HandlerTyped(handlers[g])
    /\ \A t \in Transmitter : TransmitterTyped(transmitters[t])
    /\ \A a \in Known : nodes[knownNodes[a]].status # "UNKNOWN"
    /\ \A g \in Handler :
          Assigned(handlers[g]) => nodes[handlers[g].object].status # "UNKNOWN"

LEMMA NoneIsNoObject == None \notin Object
BY DEF None, Object

LEMMA emitCountType == emitCount \in Nat
<1>1. Known \in SUBSET Peer
      BY DEF Known
<1> QED BY <1>1, EmitCountsAreNatural DEF emitCount

LEMMA LessType ==
    ASSUME NEW n \in Nat, NEW k \in Nat
    PROVE  Less(n, k) \in Nat
BY DEF Less

\* The objects before and after a step: none loses its status.
Grown ==
    \A o \in DOMAIN nodes' :
        /\ NodeTyped(nodes'[o])
        /\ o \in DOMAIN nodes => nodes'[o].status \in {nodes[o].status, "ALIVE", "DEAD"}

\* A handler goes on as H.
LEMMA HandlerTypes ==
    ASSUME NInv, Types, NInv', Grown, NEW g \in Handler, NEW H, HandlerTyped(H),
           handlers' = [handlers EXCEPT ![g] = H], UNCHANGED transmitters,
           Assigned(H) => nodes'[H.object].status # "UNKNOWN",
           \A a \in Peer : updatedNodes'[a] \in At(a),
           \A a \in Peer : \/ knownNodes'[a] = knownNodes[a]
                           \/ /\ handlers[g].stage = "enter"
                              /\ a = handlers[g].object.address
                              /\ knownNodes'[a] = handlers[g].object
    PROVE  Types'
<1>1. /\ \A a \in Peer : knownNodes[a] \in DOMAIN nodes \cup {None}
      /\ \A k \in Handler : handlers[k].object \in DOMAIN nodes \cup {None}
      BY Pointed, Zenon DEF NInv
<1>2. /\ \A a \in Peer : knownNodes'[a] \in DOMAIN nodes' \cup {None}
      /\ \A k \in Handler : handlers'[k].object \in DOMAIN nodes' \cup {None}
      BY DEF NInv, Shapes, InUse
<1>3. handlers'[g] = H /\ \A k \in Handler \ {g} : handlers'[k] = handlers[k]
      BY DEF NInv, Shapes
<1>4. handlers[g].stage = "enter" =>
         /\ handlers[g].object \in Object
         /\ nodes[handlers[g].object].status # "UNKNOWN"
      BY DEF Types, HandlerTyped, Assigned
<1>5. \A a \in Peer : knownNodes'[a] \in At(a)
      BY <1>4 DEF Types, At
<1>6. \A k \in Handler : HandlerTyped(handlers'[k])
      BY <1>3 DEF Types
<1>7. \A t \in Transmitter : TransmitterTyped(transmitters'[t])
      BY DEF Types
<1>8. ASSUME NEW a \in Peer, knownNodes'[a] # None
      PROVE  nodes'[knownNodes'[a]].status # "UNKNOWN"
  <2> DEFINE o == knownNodes'[a]
  <2>1. o \in DOMAIN nodes' /\ o \in DOMAIN nodes
        BY <1>1, <1>2, <1>8
  <2>2. nodes[o].status # "UNKNOWN"
        BY <1>4, <1>8 DEF Types, Known
  <2> QED BY <2>1, <2>2 DEF Grown
<1>9. ASSUME NEW k \in Handler, Assigned(handlers'[k])
      PROVE  nodes'[handlers'[k].object].status # "UNKNOWN"
  <2>1. CASE k = g
        BY <1>3, <1>9, <2>1
  <2>2. CASE k # g
    <3> DEFINE o == handlers[k].object
    <3>1. o \in Object /\ nodes[o].status # "UNKNOWN" /\ handlers'[k].object = o
          BY <1>3, <1>9, <2>2, Zenon DEF Types, HandlerTyped, Assigned
    <3>2. o \in DOMAIN nodes /\ o \in DOMAIN nodes'
          BY <1>1, <1>2, <3>1, NoneIsNoObject, Zenon
    <3> QED BY <3>1, <3>2 DEF Grown
  <2> QED BY <2>1, <2>2
<1> QED BY <1>5, <1>6, <1>7, <1>8, <1>9 DEF Types, Known, At, HandlerTyped, TransmitterTyped,
           Assigned, NodeTyped, Grown

\* The handlers stay where they are; entries of the maps may be deleted.
LEMMA OtherTypes ==
    ASSUME NInv, Types, NInv', Grown, DOMAIN nodes' \subseteq DOMAIN nodes,
           UNCHANGED handlers,
           \A a \in Peer : knownNodes'[a] \in {knownNodes[a], None},
           \A a \in Peer : updatedNodes'[a] \in {updatedNodes[a], None},
           \A t \in Transmitter : TransmitterTyped(transmitters'[t])
    PROVE  Types'
<1>1. /\ \A a \in Peer : knownNodes'[a] \in DOMAIN nodes' \cup {None}
      /\ \A k \in Handler : handlers'[k].object \in DOMAIN nodes' \cup {None}
      BY DEF NInv, Shapes, InUse
<1>2. \A a \in Peer : knownNodes'[a] \in At(a) /\ updatedNodes'[a] \in At(a)
      BY DEF Types, At
<1>3. ASSUME NEW a \in Peer, knownNodes'[a] # None
      PROVE  nodes'[knownNodes'[a]].status # "UNKNOWN"
      BY <1>1, <1>3 DEF Types, Known, Grown
<1>4. ASSUME NEW k \in Handler, Assigned(handlers[k])
      PROVE  nodes'[handlers[k].object].status # "UNKNOWN"
  <2>1. handlers[k].object \in Object /\ nodes[handlers[k].object].status # "UNKNOWN"
        BY <1>4 DEF Types, HandlerTyped, Assigned
  <2>2. handlers[k].object \in DOMAIN nodes'
        BY <1>1, <2>1, NoneIsNoObject
  <2> QED BY <2>1, <2>2 DEF Grown
<1> QED BY <1>2, <1>3, <1>4, Zenon
           DEF Types, Known, At, HandlerTyped, TransmitterTyped, Assigned,
           NodeTyped, Grown

LEMMA StartTypes ==
    ASSUME NInv, Types, NEW g \in Handler, NEW o \in Object, NEW H, HandlerShape(H),
           H.object = o, H.stage \in {"update", "contains"},
           H.stage = "update" => H.status \in {"ALIVE", "DEAD"},
           Start(g, o, H)
    PROVE  Types'
<1>1. NInv' /\ DOMAIN nodes' \subseteq {o} \cup DOMAIN nodes
      BY StartInv
<1>2. \A p \in DOMAIN nodes' : nodes'[p] = IF p \in DOMAIN nodes THEN nodes[p] ELSE NewNode
      BY <1>1, Zenon DEF Start, Keep
<1>3. NodeTyped(NewNode)
      BY DEF NodeTyped, NewNode, Status
<1>4. Grown
      BY <1>2, <1>3 DEF Grown, Types
<1>5. HandlerTyped(H) /\ ~Assigned(H)
      BY DEF HandlerTyped, Assigned
<1>6. /\ UNCHANGED <<knownNodes, updatedNodes, transmitters>>
      /\ handlers' = [handlers EXCEPT ![g] = H]
      BY Zenon DEF Start
<1>7. \A a \in Peer : updatedNodes[a] \in At(a)
      BY DEF Types
<1> QED BY <1>1, <1>4, <1>5, <1>6, <1>7, HandlerTypes, Zenon

LEMMA BeginningsTypes ==
    ASSUME NInv, Types, NEW g \in Handler, NEW a \in Peer,
           \/ \E status \in {"ALIVE", "DEAD"} : Decode(g, a, status)
           \/ AwaitAck(g, a)
           \/ Create(g, a)
    PROVE  Types'
<1>1. \A o, status, then : then \in {"idle", "contains", "enter"} =>
         /\ HandlerShape(Updating(o, status, then))
         /\ Updating(o, status, then).object = o
         /\ Updating(o, status, then).stage = "update"
         /\ Updating(o, status, then).status = status
      BY DEF HandlerShape, Updating
<1>2. \A o : /\ HandlerShape(Adding(o, "contains"))
             /\ Adding(o, "contains").object = o
             /\ Adding(o, "contains").stage = "contains"
      BY DEF HandlerShape, Adding
<1>3. a \in Known => knownNodes[a] \in Object
      BY DEF Types, Known, At
<1>4. New(a) \subseteq Object /\ Found(a) \subseteq Object
      BY <1>3 DEF New, Unused, Found
<1>5. CASE \E status \in {"ALIVE", "DEAD"} : Decode(g, a, status)
      BY <1>1, <1>4, <1>5, StartTypes DEF Decode
<1>6. CASE AwaitAck(g, a)
      BY <1>1, <1>3, <1>6, StartTypes DEF AwaitAck
<1>7. CASE Create(g, a)
      BY <1>2, <1>4, <1>7, StartTypes DEF Create
<1> QED BY <1>5, <1>6, <1>7

\* GoOn leaves a handler well typed.
LEMMA GoneOnTyped ==
    ASSUME NInv, Types, NEW g \in Handler, NEW stage, GoOn(g, stage),
           handlers[g].stage # "idle",
           \/ stage \in {"idle", "contains", "enter"}
           \/ /\ stage \in {"list", "notify"}
              /\ handlers[g].stage \in {"update", "list", "notify"}
    PROVE  \E H : /\ HandlerTyped(H)
                  /\ handlers' = [handlers EXCEPT ![g] = H]
                  /\ H.stage = stage
                  /\ stage # "idle" => H.object = handlers[g].object
<1>1. HandlerShape(handlers[g]) /\ HandlerTyped(handlers[g])
      BY DEF NInv, Shapes, Types
<1>2. PICK H : /\ handlers' = [handlers EXCEPT ![g] = H]
               /\ H.stage = stage
               /\ H.object = IF stage = "idle" THEN None ELSE handlers[g].object
               /\ stage \in {"list", "notify"} => H.status = handlers[g].status
      BY <1>1, GoneOn
<1>3. HandlerTyped(H)
      BY <1>1, <1>2 DEF HandlerTyped
<1> QED BY <1>2, <1>3, ZenonT(60)

\* The steps that leave the objects as they are.
LEMMA PlainTypes ==
    ASSUME NInv, Types, NEW g \in Handler, Drop(g) \/ Contains(g) \/ Enter(g)
    PROVE  Types'
<1> DEFINE h == handlers[g]
           o == h.object
<1>1. NInv' /\ DOMAIN nodes' \subseteq DOMAIN nodes
      BY PlainInv
<1>2. HandlerShape(h) /\ HandlerTyped(h) /\ h.stage # "idle" /\ o \in Object
      BY DEF NInv, Shapes, Types, HandlerTyped, Drop, Contains, Enter
<1>3. \A p \in DOMAIN nodes' : nodes'[p] = nodes[p]
      BY <1>1, Zenon DEF Drop, Contains, Enter, Keep
<1>4. Grown
      BY <1>1, <1>3 DEF Grown, Types
<1>5. o \in DOMAIN nodes
      BY <1>2, Pointed, NoneIsNoObject DEF NInv
<1>6. \E H : /\ HandlerTyped(H)
             /\ handlers' = [handlers EXCEPT ![g] = H]
             /\ Assigned(H) => H.object = o /\ HasStatus(o)
  <2>1. CASE Drop(g)
    <3>1. PICK stage \in {"idle", h.then} : GoOn(g, stage)
          BY <2>1 DEF Drop
    <3>2. stage \in {"idle", "contains"}
          BY <1>2, <2>1, <3>1 DEF Drop, HandlerShape
    <3> QED BY <1>2, <3>1, <3>2, GoneOnTyped DEF Assigned
  <2>2. CASE Contains(g)
    <3> DEFINE H == Updating(o, "ALIVE", "enter")
    <3>1. HandlerTyped(H) /\ H.stage = "update"
          BY <1>2 DEF HandlerTyped, Updating
    <3>2. \/ GoOn(g, "idle")
          \/ HasStatus(o) /\ GoOn(g, "enter")
          \/ handlers' = [handlers EXCEPT ![g] = H]
          BY <2>2, Zenon DEF Contains
    <3> HIDE DEF H
    <3> QED BY <1>2, <3>1, <3>2, GoneOnTyped DEF Assigned
  <2>3. CASE Enter(g)
        BY <1>2, <2>3, GoneOnTyped DEF Enter, Assigned
  <2> QED BY <2>1, <2>2, <2>3
<1>7. PICK H : <1>6!(H)
      BY <1>6, Zenon
<1>8. Assigned(H) => nodes'[H.object].status # "UNKNOWN"
  <2>1. ASSUME Assigned(H) PROVE H.object \in DOMAIN nodes'
    <3>1. handlers'[g] = H /\ H.object # None
          BY <1>2, <1>7, <2>1, NoneIsNoObject DEF NInv, Shapes
    <3> QED BY <1>1, <3>1 DEF NInv, Shapes, InUse
  <2> QED BY <1>3, <1>7, <2>1 DEF HasStatus
<1>9. /\ UNCHANGED transmitters
      /\ \A a \in Peer : updatedNodes'[a] \in At(a)
      /\ \A a \in Peer : \/ knownNodes'[a] = knownNodes[a]
                         \/ h.stage = "enter" /\ a = o.address /\ knownNodes'[a] = o
      BY Zenon DEF Drop, Contains, Enter, GoOn, Types, NInv, Shapes
<1> QED BY <1>1, <1>4, <1>7, <1>8, <1>9, HandlerTypes, Zenon

\* The handler of an object that a step leaves in use.
LEMMA ObjectKept ==
    ASSUME NInv', NEW g \in Handler, NEW H, handlers'[g] = H, H.object # None
    PROVE  H.object \in DOMAIN nodes'
BY DEF NInv, Shapes, InUse

LEMMA UpdateTypes ==
    ASSUME NInv, Types, NEW g \in Handler, Update(g)
    PROVE  Types'
<1> DEFINE h == handlers[g]
           o == h.object
           n == [status |-> h.status, emitCounter |-> emitCount, due |-> emitCount,
                 heard |-> FALSE]
<1>1. NInv' /\ DOMAIN nodes' \subseteq DOMAIN nodes
      BY UpdateInv, Zenon
<1>2. /\ HandlerShape(h) /\ HandlerTyped(h) /\ h.stage = "update" /\ o \in Object
      /\ h.then \in {"idle", "contains", "enter"} /\ h.status \in {"ALIVE", "DEAD"}
      BY ZenonT(60) DEF NInv, Shapes, Types, HandlerShape, HandlerTyped, Update
<1>3. NodeTyped(n) /\ n.status = h.status
      BY <1>2, emitCountType, Zenon DEF NodeTyped, Status
<1>4. PICK stage : /\ GoOn(g, stage)
                   /\ stage \in {"idle", "contains", "enter", "list", "notify"}
      BY <1>2, Zenon DEF Update, Listing
<1>5. PICK H : /\ HandlerTyped(H)
               /\ handlers' = [handlers EXCEPT ![g] = H]
               /\ H.stage # "idle" => H.object = o
  <2>1. \/ stage \in {"idle", "contains", "enter"}
        \/ /\ stage \in {"list", "notify"}
           /\ h.stage \in {"update", "list", "notify"}
        BY <1>2, <1>4
  <2>2. h.stage # "idle"
        BY <1>2
  <2>3. PICK H : /\ HandlerTyped(H)
                 /\ handlers' = [handlers EXCEPT ![g] = H]
                 /\ H.stage = stage
                 /\ stage # "idle" => H.object = h.object
        BY <1>4, <2>1, <2>2, GoneOnTyped, ZenonT(60)
  <2> QED BY <2>3, ZenonT(60)
<1>6. \A p \in DOMAIN nodes' :
         \/ nodes'[p] = nodes[p] /\ (p = o => nodes[p].status = h.status)
         \/ p = o /\ nodes'[p] = n
      BY <1>1, Zenon DEF Update, Keep
<1> HIDE DEF n
<1>7. Grown
      BY <1>1, <1>2, <1>3, <1>6 DEF Grown, Types
<1>8. Assigned(H) => nodes'[H.object].status # "UNKNOWN"
  <2>1. ASSUME Assigned(H) PROVE H.object = o /\ o \in DOMAIN nodes'
    <3>1. handlers'[g] = H /\ H.object = o /\ o # None
          BY <1>2, <1>5, <2>1, NoneIsNoObject DEF NInv, Shapes, Assigned
    <3> QED BY <1>1, <3>1, ObjectKept
  <2> QED BY <1>2, <1>3, <1>6, <2>1
<1>9. UNCHANGED <<knownNodes, updatedNodes, transmitters>>
      BY Zenon DEF Update, GoOn
<1>10. \A a \in Peer : updatedNodes'[a] \in At(a)
      BY <1>9 DEF Types
<1> QED BY <1>1, <1>5, <1>7, <1>8, <1>9, <1>10, HandlerTypes, ZenonT(60)

LEMMA ListTypes ==
    ASSUME NInv, Types, NEW g \in Handler, List(g)
    PROVE  Types'
<1> DEFINE o == handlers[g].object
<1>1. NInv' /\ DOMAIN nodes' \subseteq DOMAIN nodes
      BY ListInv
<1>2. /\ handlers[g].stage = "list" /\ o \in Object
      /\ nodes[o].status # "UNKNOWN"
      BY DEF NInv, Shapes, Types, HandlerTyped, List, Assigned
<1>3. PICK H : /\ HandlerTyped(H)
               /\ handlers' = [handlers EXCEPT ![g] = H]
               /\ H.object = o
      BY <1>2, GoneOnTyped DEF List
<1>4. \A p \in DOMAIN nodes' : nodes'[p] = nodes[p]
      BY <1>1, Zenon DEF List, Keep
<1>5. \A p \in DOMAIN nodes' : NodeTyped(nodes'[p]) /\ nodes'[p].status = nodes[p].status
      BY <1>1, <1>4 DEF Types
<1>6. Grown
      BY <1>5 DEF Grown
<1>7. nodes'[H.object].status # "UNKNOWN"
  <2>1. handlers'[g] = H /\ H.object # None
        BY <1>2, <1>3, NoneIsNoObject DEF NInv, Shapes
  <2> QED BY <1>1, <1>2, <1>3, <1>5, <2>1, ObjectKept
<1>8. /\ UNCHANGED <<knownNodes, transmitters>>
      /\ updatedNodes' = [updatedNodes EXCEPT ![o.address] = o]
      BY Zenon DEF List, GoOn
<1>9. \A a \in Peer : updatedNodes'[a] \in At(a)
      BY <1>2, <1>8 DEF Types, At, NInv, Shapes
<1> QED BY <1>1, <1>3, <1>6, <1>7, <1>8, <1>9, HandlerTypes, ZenonT(60)

LEMMA NotifyTypes ==
    ASSUME NInv, Types, NEW g \in Handler, Notify(g)
    PROVE  Types'
<1> DEFINE h == handlers[g]
           o == h.object
<1>1. NInv' /\ DOMAIN nodes' \subseteq DOMAIN nodes
      BY NotifyInv
<1>2. /\ HandlerShape(h) /\ h.stage = "notify" /\ o \in Object
      /\ h.then \in {"idle", "contains", "enter"}
      /\ nodes[o].status # "UNKNOWN"
      BY DEF NInv, Shapes, Types, HandlerShape, HandlerTyped, Notify, Assigned
<1>3. PICK H : /\ HandlerTyped(H)
               /\ handlers' = [handlers EXCEPT ![g] = H]
               /\ H.stage # "idle" => H.object = o
      BY <1>2, GoneOnTyped DEF Notify
<1>4. \A p \in DOMAIN nodes' :
         nodes'[p] = IF p = o THEN [nodes[p] EXCEPT !.heard = @ \/ nodes[o].status = h.status]
                     ELSE nodes[p]
      BY <1>1 DEF Notify, Keep
<1>5. \A p \in DOMAIN nodes' : NodeTyped(nodes'[p]) /\ nodes'[p].status = nodes[p].status
  <2> SUFFICES ASSUME NEW p \in DOMAIN nodes'
               PROVE  NodeTyped(nodes'[p]) /\ nodes'[p].status = nodes[p].status
      OBVIOUS
  <2>1. NodeTyped(nodes[p])
        BY <1>1 DEF Types
  <2> DEFINE b == nodes[p].heard \/ nodes[o].status = h.status
  <2>2. b \in BOOLEAN
        OBVIOUS
  <2>3. nodes'[p] = nodes[p] \/ nodes'[p] = [nodes[p] EXCEPT !.heard = b]
        BY <1>4
  <2> HIDE DEF b
  <2> QED BY <2>1, <2>2, <2>3 DEF NodeTyped
<1>6. Grown
      BY <1>5 DEF Grown
<1>7. Assigned(H) => nodes'[H.object].status # "UNKNOWN"
  <2>1. handlers'[g] = H /\ o # None
        BY <1>2, <1>3, NoneIsNoObject DEF NInv, Shapes
  <2> QED BY <1>1, <1>2, <1>3, <1>5, <2>1, ObjectKept DEF Assigned
<1>8. UNCHANGED <<knownNodes, updatedNodes, transmitters>>
      BY DEF Notify, GoOn
<1>9. \A a \in Peer : updatedNodes'[a] \in At(a)
      BY <1>8 DEF Types
<1> QED BY <1>1, <1>3, <1>6, <1>7, <1>8, <1>9, HandlerTypes, ZenonT(60)

LEMMA RemoveNodeTypes ==
    ASSUME NInv, Types, NEW a \in Peer, RemoveNode(a)
    PROVE  Types'
<1>1. NInv' /\ DOMAIN nodes' \subseteq DOMAIN nodes
      BY RemoveNodeInv
<1>2. \A p \in DOMAIN nodes' : nodes'[p] = nodes[p]
      BY <1>1, Zenon DEF RemoveNode, Keep
<1>3. Grown
      BY <1>1, <1>2 DEF Grown, Types
<1>4. /\ UNCHANGED <<handlers, updatedNodes, transmitters>>
      /\ \A b \in Peer : knownNodes'[b] \in {knownNodes[b], None}
      BY Zenon DEF RemoveNode, NInv, Shapes
<1>5. \A t \in Transmitter : TransmitterTyped(transmitters'[t])
      BY <1>4 DEF Types
<1> QED BY <1>1, <1>3, <1>4, <1>5, OtherTypes

\* A transmitter goes on as T.
LEMMA TransmitterTypes ==
    ASSUME NInv, Types, NInv', Grown, DOMAIN nodes' \subseteq DOMAIN nodes,
           NEW t \in Transmitter, NEW T, TransmitterTyped(T),
           transmitters' = [transmitters EXCEPT ![t] = T],
           UNCHANGED <<knownNodes, handlers>>,
           \A a \in Peer : updatedNodes'[a] \in {updatedNodes[a], None}
    PROVE  Types'
<1>1. \A u \in Transmitter : TransmitterTyped(transmitters'[u])
      BY DEF Types, NInv, Shapes
<1> QED BY <1>1, OtherTypes

LEMMA TestTypes ==
    ASSUME NInv, Types, NEW t \in Transmitter, NEW a, NEW f, Test(t, a, f)
    PROVE  Types'
<1> DEFINE news == {updatedNodes[b] : b \in Peer} \ {None}
           fresh == {o \in news : ~UsedUp(o)}
           T == [stage |-> "tested", to |-> a, forward |-> f, fresh |-> fresh,
                 old |-> {o.address : o \in news \ fresh},
                 objects |-> fresh \cup ({f} \ {None})]
<1>1. NInv' /\ DOMAIN nodes' \subseteq DOMAIN nodes
      BY TestInv, Zenon
<1>2. transmitters' = [transmitters EXCEPT ![t] = T]
      BY Zenon DEF Test
<1>3. fresh \subseteq Object /\ f \in Object \cup {None}
      BY DEF Types, At, Test, Known
<1>4. TransmitterTyped(T)
      BY <1>3, ZenonT(60) DEF TransmitterTyped
<1> HIDE DEF T
<1>5. \A p \in DOMAIN nodes' : nodes'[p] = nodes[p]
      BY <1>1, ZenonT(60) DEF Test, Keep
<1>6. Grown
      BY <1>1, <1>5, ZenonT(60) DEF Grown, Types
<1>7. UNCHANGED <<knownNodes, updatedNodes, handlers>>
      BY Zenon DEF Test
<1> QED BY <1>1, <1>2, <1>4, <1>6, <1>7, TransmitterTypes, Zenon

LEMMA MentionTypes ==
    ASSUME NInv, Types, NEW t \in Transmitter, Mention(t)
    PROVE  Types'
<1> DEFINE g == transmitters[t]
           news == {o \in g.fresh : o.address # g.to}
           others == {knownNodes[b] : b \in Known \ {g.to}}
           Mentioned(members) ==
              [stage |-> "mentioned", forward |-> g.forward, members |-> members,
               status |-> [o \in members |-> nodes[o].status],
               value |-> [o \in members |-> Less(nodes[o].emitCounter, 1)],
               objects |-> members \cup ({g.forward} \ {None})]
<1>1. NInv' /\ DOMAIN nodes' \subseteq DOMAIN nodes
      BY MentionInv
<1>2. PICK members :
         /\ members \in Top(emitCount, news) \/ members \in RandomNodes(emitCount, others)
         /\ transmitters' = [transmitters EXCEPT ![t] =
               IF members = {} /\ g.forward = None THEN IdleTransmitter ELSE Mentioned(members)]
         /\ Keep(nodes)
      BY Zenon DEF Mention
<1>3. /\ g.fresh \subseteq g.objects /\ g.forward \in g.objects \cup {None}
      /\ g.objects \subseteq Object
      BY DEF NInv, Shapes, TransmitterShape, Types, TransmitterTyped, Mention
<1>4. others \subseteq Object /\ g.objects \subseteq DOMAIN nodes /\ others \subseteq DOMAIN nodes
  <2>1. \A b \in Known : knownNodes[b] \in Object /\ knownNodes[b] \in DOMAIN nodes
    <3>1. \A b \in Known : b \in Peer /\ knownNodes[b] # None
          BY Zenon DEF Known
    <3>2. \A b \in Peer : /\ knownNodes[b] \in Object \cup {None}
                          /\ knownNodes[b] \in DOMAIN nodes \cup {None}
          BY Pointed, Zenon DEF NInv, Types, At
    <3> QED BY <3>1, <3>2, Zenon
  <2>2. g.objects \subseteq DOMAIN nodes
    <3>1. g.objects \subseteq DOMAIN nodes \cup {None}
          BY Pointed, Zenon DEF NInv
    <3> QED BY <1>3, <3>1, NoneIsNoObject
  <2> QED BY <2>1, <2>2, Zenon
<1>5. members \subseteq Object \cap DOMAIN nodes
      BY <1>2, <1>3, <1>4 DEF Top, RandomNodes
<1>6. \A o \in DOMAIN nodes' : nodes'[o] = nodes[o]
      BY <1>1, <1>2, Zenon DEF Keep
<1>7. \A o \in members : Less(nodes[o].emitCounter, 1) \in Nat
      BY <1>5, LessType, Zenon DEF Types, NodeTyped
<1>8. TransmitterTyped(Mentioned(members))
      BY <1>3, <1>5, <1>7, ZenonT(60) DEF TransmitterTyped
<1>9. TransmitterTyped(IdleTransmitter)
      BY Zenon DEF TransmitterTyped, IdleTransmitter
<1>10. \E T : TransmitterTyped(T) /\ transmitters' = [transmitters EXCEPT ![t] = T]
  <2> DEFINE M == Mentioned(members)
  <2>1. TransmitterTyped(M)
        BY <1>8
  <2>2. transmitters' \in {[transmitters EXCEPT ![t] = IdleTransmitter],
                           [transmitters EXCEPT ![t] = M]}
        BY <1>2, Zenon
  <2> HIDE DEF M
  <2> QED BY <1>9, <2>1, <2>2, Zenon
<1>11. Grown
      BY <1>1, <1>6 DEF Grown, Types
<1>12. /\ UNCHANGED <<knownNodes, handlers>>
       /\ \A a \in Peer : updatedNodes'[a] \in {updatedNodes[a], None}
      BY DEF Mention, Pruned
<1> QED BY <1>1, <1>10, <1>11, <1>12, TransmitterTypes, Zenon

\* Transmitter g has loaded the counter of object o and is about to store it.
Holding(g, o) ==
    \/ g.stage = "mentioned" /\ o \in g.members
    \/ g.stage = "loaded" /\ o \in g.objects

\* The goroutine of a transmission that goes on.
LEMMA CountedTransmitter ==
    ASSUME NInv, Types, NEW t \in Transmitter, Counts(t)
    PROVE  \E T : TransmitterTyped(T) /\ transmitters' = [transmitters EXCEPT ![t] = T]
<1> DEFINE g == transmitters[t]
<1>1. TransmitterTyped(g) /\ g.objects \subseteq DOMAIN nodes
      BY Pointed, NoneIsNoObject DEF NInv, Types, TransmitterTyped
<1>2. CASE FailToSend(t) \/ Store(t)
  <2>1. TransmitterTyped(IdleTransmitter)
        BY DEF TransmitterTyped, IdleTransmitter
  <2> QED BY <1>2, <2>1, Zenon DEF FailToSend, Store
<1>3. CASE Send(t)
  <2> DEFINE T == [stage |-> "sent", forward |-> g.forward, members |-> g.members,
                   objects |-> g.objects]
  <2>1. g.stage = "mentioned" /\ transmitters' = [transmitters EXCEPT ![t] = T]
        BY <1>3, Zenon DEF Send
  <2>2. TransmitterTyped(T)
        BY <1>1, <2>1 DEF TransmitterTyped
  <2> HIDE DEF T
  <2> QED BY <2>1, <2>2, Zenon
<1>4. CASE Load(t)
  <2> DEFINE Value(o) == Less(nodes[o].emitCounter,
                              IF o = g.forward /\ o \in g.members THEN 2 ELSE 1)
             T == [stage |-> "loaded", objects |-> g.objects,
                   value |-> [o \in g.objects |-> Value(o)]]
  <2>1. transmitters' = [transmitters EXCEPT ![t] = T]
        BY <1>4, Zenon DEF Load
  <2>2. \A o \in g.objects : Value(o) \in Nat
        BY <1>1, LessType, ZenonT(60) DEF Types, NodeTyped
  <2>3. /\ T.stage = "loaded" /\ T.objects = g.objects
        /\ T.value = [o \in g.objects |-> Value(o)]
        BY ZenonT(60)
  <2> HIDE DEF Value
  <2>4. TransmitterTyped(T)
        BY <1>1, <2>2, <2>3, ZenonT(60) DEF TransmitterTyped
  <2> HIDE DEF T
  <2> QED BY <2>1, <2>4, Zenon
<1> QED BY <1>2, <1>3, <1>4, Zenon DEF Counts

\* The objects that it leaves behind.
LEMMA CountedNodes ==
    ASSUME NInv, Types, NEW t \in Transmitter, Counts(t), NEW o \in DOMAIN nodes'
    PROVE  \/ nodes'[o] = nodes[o]
           \/ /\ Holding(transmitters[t], o)
              /\ \/ nodes'[o] = [nodes[o] EXCEPT !.emitCounter = transmitters[t].value[o]]
                 \/ nodes'[o] = Sent(t, o)
<1> DEFINE g == transmitters[t]
<1>1. DOMAIN nodes' \subseteq DOMAIN nodes
      BY CountInv, Zenon
<1>2. CASE Send(t)
  <2>1. g.stage = "mentioned"
        BY <1>2, Zenon DEF Send
  <2>2. nodes'[o] = IF o \in g.members THEN Sent(t, o) ELSE nodes[o]
        BY <1>1, <1>2, Zenon DEF Send, Keep, Sent
  <2> QED BY <2>1, <2>2, Zenon DEF Holding
<1>3. CASE FailToSend(t)
  <2>1. g.stage = "mentioned"
        BY <1>3, Zenon DEF FailToSend
  <2>2. nodes'[o] = IF o \in g.members THEN [nodes[o] EXCEPT !.emitCounter = g.value[o]]
                    ELSE nodes[o]
        BY <1>1, <1>3, Zenon DEF FailToSend, Keep
  <2> QED BY <2>1, <2>2, Zenon DEF Holding
<1>4. CASE Load(t)
      BY <1>1, <1>4, Zenon DEF Load, Keep
<1>5. CASE Store(t)
  <2>1. g.stage = "loaded"
        BY <1>5, Zenon DEF Store
  <2>2. nodes'[o] = IF o \in g.objects THEN [nodes[o] EXCEPT !.emitCounter = g.value[o]]
                    ELSE nodes[o]
        BY <1>1, <1>5, Zenon DEF Store, Keep
  <2> QED BY <2>1, <2>2, Zenon DEF Holding
<1> QED BY <1>2, <1>3, <1>4, <1>5, Zenon DEF Counts

LEMMA CountTypes ==
    ASSUME NInv, Types, NEW t \in Transmitter, Counts(t)
    PROVE  Types'
<1> DEFINE g == transmitters[t]
<1>1. NInv' /\ DOMAIN nodes' \subseteq DOMAIN nodes
      BY CountInv
<1>2. PICK T : TransmitterTyped(T) /\ transmitters' = [transmitters EXCEPT ![t] = T]
      BY CountedTransmitter
<1>3. \A o : Holding(g, o) => g.value[o] \in Nat
      BY Zenon DEF Types, TransmitterTyped, Holding
<1>4. ASSUME NEW o \in DOMAIN nodes'
      PROVE  NodeTyped(nodes'[o]) /\ nodes'[o].status = nodes[o].status
  <2>1. NodeTyped(nodes[o])
        BY <1>1 DEF Types
  <2>2. CASE nodes'[o] = nodes[o]
        BY <2>1, <2>2
  <2>3. CASE Holding(g, o) /\ nodes'[o] = [nodes[o] EXCEPT !.emitCounter = g.value[o]]
        BY <1>3, <2>1, <2>3, ZenonT(60) DEF NodeTyped
  <2>4. CASE Holding(g, o) /\ nodes'[o] = Sent(t, o)
    <3> DEFINE d == IF g.status[o] = nodes[o].status THEN Less(nodes[o].due, 1)
                    ELSE nodes[o].due
               c == g.value[o]
    <3>1. nodes'[o] = [nodes[o] EXCEPT !.emitCounter = c, !.due = d]
          BY <2>4 DEF Sent
    <3>2. nodes[o].due \in Nat
          BY <2>1 DEF NodeTyped
    <3>3. c \in Nat /\ d \in Nat
          BY <1>3, <2>4, <3>2, LessType, Zenon
    <3> HIDE DEF c, d
    <3> QED BY <2>1, <3>1, <3>3 DEF NodeTyped
  <2> QED BY <2>2, <2>3, <2>4, CountedNodes, Zenon
<1>5. Grown
      BY <1>4 DEF Grown
<1>6. UNCHANGED <<knownNodes, updatedNodes, handlers>>
      BY Zenon DEF Counts, Send, FailToSend, Load, Store
<1> QED BY <1>1, <1>2, <1>5, <1>6, TransmitterTypes, Zenon

LEMMA InitTypes == RInit => Types
<1> SUFFICES ASSUME RInit PROVE Types
    OBVIOUS
<1>1. InitialNode \in At(InitialHost) /\ InitialNode # None
      BY InitialHostIsAPeer, ObjectsAssumption, SMTT(30) DEF InitialNode, At, Object, None
<1>2. \A a \in Peer : knownNodes[a] \in At(a) /\ updatedNodes[a] \in At(a)
      BY <1>1 DEF RInit, At
<1>3. \A o \in DOMAIN nodes : NodeTyped(nodes[o]) /\ nodes[o].status = "ALIVE"
      BY Zenon DEF RInit, NodeTyped, NewNode, Status
<1>4. \A g \in Handler : HandlerTyped(handlers[g]) /\ ~Assigned(handlers[g])
      BY DEF RInit, HandlerTyped, IdleHandler, Assigned
<1>5. \A t \in Transmitter : TransmitterTyped(transmitters[t])
      BY DEF RInit, TransmitterTyped, IdleTransmitter
<1>6. \A a \in Known : knownNodes[a] \in DOMAIN nodes
      BY DEF Known, RInit
<1> QED BY <1>2, <1>3, <1>4, <1>5, <1>6, Zenon DEF Types

LEMMA NextTypes ==
    ASSUME NInv, Types, [RNext]_rvars
    PROVE  Types'
<1>1. CASE RNext
      BY <1>1, BeginningsTypes, PlainTypes, UpdateTypes, ListTypes, NotifyTypes,
         RemoveNodeTypes, TestTypes, MentionTypes, CountTypes, ZenonT(60)
  DEF RNext, Handle, Transmit, Counts
<1>2. CASE UNCHANGED rvars
      BY <1>2 DEF rvars, Types, Known, At, HandlerTyped, TransmitterTyped, Assigned, NodeTyped
<1> QED BY <1>1, <1>2, Zenon

\* The maps are functions on the addresses.
Maps ==
    /\ knownNodes = [a \in Peer |-> knownNodes[a]]
    /\ updatedNodes = [a \in Peer |-> updatedNodes[a]]

LEMMA InitMaps == RInit => Maps
BY Zenon DEF RInit, Maps

LEMMA NextMaps ==
    ASSUME Maps, [RNext]_rvars
    PROVE  Maps'
<1>1. CASE UNCHANGED <<knownNodes, updatedNodes>>
      BY <1>1 DEF Maps
<1>2. CASE UNCHANGED updatedNodes /\ \E a, o : knownNodes' = [knownNodes EXCEPT ![a] = o]
  <2>1. PICK a, o : knownNodes' = [knownNodes EXCEPT ![a] = o]
        BY <1>2, Zenon
  <2> QED BY <1>2, <2>1 DEF Maps
<1>3. CASE UNCHANGED knownNodes /\ \E a, o : updatedNodes' = [updatedNodes EXCEPT ![a] = o]
  <2>1. PICK a, o : updatedNodes' = [updatedNodes EXCEPT ![a] = o]
        BY <1>3, Zenon
  <2> QED BY <1>3, <2>1 DEF Maps
<1>4. CASE UNCHANGED knownNodes /\ \E old : updatedNodes' = Pruned(old)
  <2>1. PICK old : updatedNodes' = Pruned(old)
        BY <1>4
  <2> QED BY <1>4, <2>1 DEF Maps, Pruned
<1>5. ASSUME NEW g \in Handler, NEW a \in Peer,
             \/ \E status \in {"ALIVE", "DEAD"} : Decode(g, a, status)
             \/ AwaitAck(g, a)
             \/ Create(g, a)
      PROVE  UNCHANGED <<knownNodes, updatedNodes>>
      BY <1>5, Zenon DEF Decode, AwaitAck, Create, Start
<1>6. ASSUME NEW g \in Handler, Handle(g) PROVE Maps'
      BY <1>1, <1>2, <1>3, <1>6, Zenon DEF Handle, Drop, Update, List, Notify, Contains, Enter
<1>7. ASSUME NEW a \in Peer, RemoveNode(a) PROVE Maps'
      BY <1>2, <1>7, Zenon DEF RemoveNode
<1>8. ASSUME NEW t \in Transmitter, Transmit(t) PROVE Maps'
      BY <1>1, <1>4, <1>8, ZenonT(60) DEF Transmit, Mention, Send, FailToSend, Load, Store
<1>9. ASSUME NEW t, NEW a, NEW f, Test(t, a, f) PROVE Maps'
      BY <1>1, <1>9 DEF Test
<1>10. CASE UNCHANGED rvars
      BY <1>1, <1>10 DEF rvars
<1> QED BY <1>1, <1>5, <1>6, <1>7, <1>8, <1>9, <1>10, Zenon DEF RNext

\* The maps of a host hold objects under their own addresses, no goroutine keeps an
\* object that is not accounted for, and no object is entered into knownNodes before
\* it has a status (AddNode), however goroutines create and enter objects of one
\* address at the same time.
THEOREM RegistryTypeCorrect == RSpec => []RTypeOK
<1>1. NInv /\ Types /\ Maps => RTypeOK
  <2> SUFFICES ASSUME NInv, Types, Maps PROVE RTypeOK
      BY Zenon
  <2>1. \A a \in Peer : /\ knownNodes[a] \in Object \cup {None}
                        /\ updatedNodes[a] \in Object \cup {None}
                        /\ knownNodes[a] = None \/ knownNodes[a].address = a
                        /\ updatedNodes[a] = None \/ updatedNodes[a].address = a
        BY DEF Types, At
  <2>2. /\ knownNodes \in [Peer -> Object \cup {None}]
        /\ updatedNodes \in [Peer -> Object \cup {None}]
    <3>1. \A a \in Peer : knownNodes[a] \in Object \cup {None}
          BY <2>1
    <3>2. \A a \in Peer : updatedNodes[a] \in Object \cup {None}
          BY <2>1
    <3> QED BY <3>1, <3>2 DEF Maps
  <2> QED BY <2>1, <2>2 DEF NInv, Shapes, Types, NodeTyped, RTypeOK
<1>2. RSpec => []NInv
      BY InitNInv, NextNInv, PTL DEF RSpec
<1>3. RSpec => []Types
      BY <1>2, InitTypes, NextTypes, PTL DEF RSpec
<1>4. RSpec => []Maps
      BY InitMaps, NextMaps, PTL DEF RSpec
<1> QED BY <1>1, <1>2, <1>3, <1>4, PTL

=============================================================================
