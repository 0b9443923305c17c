------------------------------ MODULE Registry ------------------------------
(***************************************************************************)
(* The node objects of a host: who makes them, which maps and goroutines   *)
(* point to them, and how their news get out (registry.go, nodeMap.go,     *)
(* node.go and transmitVerbGenericUDP).                                    *)
(*                                                                         *)
(* knownNodes and updatedNodes map an address to an object.  A message,    *)
(* an initial host or the application brings a new object for an address   *)
(* that is not known; several goroutines do so at the same time, and each  *)
(* goes on with the object it has.  Maps are locked per access, objects    *)
(* are not locked at all.                                                  *)
(*                                                                         *)
(* Heartbeats are left out: whether a report is old is open, so that every *)
(* report may be dropped.                                                  *)
(***************************************************************************)
EXTENDS Naturals, FiniteSets

CONSTANTS
    Peer,         \* the addresses of other hosts
    InitialHost,  \* the one in GetInitialHosts()
    Handler,      \* goroutines that handle messages, timeouts and calls
    Transmitter,  \* goroutines that transmit
    EmitCounts,   \* int(2.5 * ln(n) + 0.5) for n known nodes, this host included
    MaxObjects,   \* bound: objects of an address that are in use at once
    MaxReports    \* bound: operations of the handlers

ASSUME InitialHostIsAPeer == InitialHost \in Peer

ASSUME ObjectsAssumption == MaxObjects \in Nat \ {0}

ASSUME EmitCountsAreNatural ==
    \A known \in SUBSET Peer : EmitCounts[Cardinality(known) + 1] \in Nat

VARIABLES
    nodes,         \* the objects in use
    knownNodes,    \* the object of an address, or None
    updatedNodes,  \* the object of an address with news, or None
    handlers,      \* what each handler is doing
    transmitters,  \* what each transmitter is doing
    reports        \* the operations of the handlers so far

rvars == <<nodes, knownNodes, updatedNodes, handlers, transmitters, reports>>

-----------------------------------------------------------------------------
(* Objects *)

Object == [address : Peer, id : 1 .. MaxObjects]

None == [address |-> "none", id |-> 0]

InitialNode == [address |-> InitialHost, id |-> 1]

\* Besides its status and its emit counter an object has a history: how many of the
\* emissions of its status are due, and whether the listeners have been told of it.
Status == {"UNKNOWN", "ALIVE", "DEAD"}

\* CreateNodeByIP
NewNode == [status |-> "UNKNOWN", emitCounter |-> 0, due |-> 0, heard |-> TRUE]

\* A counter that is not positive is never compared with another one, so that 0
\* stands for all of them.
Less(counter, n) == IF counter > n THEN counter - n ELSE 0

Known == {a \in Peer : knownNodes[a] # None}

\* emitCount() and pingRequestCount()
emitCount == EmitCounts[Cardinality(Known) + 1]

\* What the goroutines do between two operations.
IdleHandler == [stage |-> "idle", object |-> None]

IdleTransmitter == [stage |-> "idle", objects |-> {}]

\* The objects that are in use.
InUse(known, updated, hs, ts) ==
    ({known[a] : a \in Peer} \cup {updated[a] : a \in Peer}
        \cup {hs[g].object : g \in Handler}
        \cup UNION {ts[t].objects : t \in Transmitter}) \ {None}

\* The objects after a step, values being what it stored in them; those that are
\* not in use any more are collected.
Keep(values) ==
    nodes' = [o \in InUse(knownNodes', updatedNodes', handlers', transmitters') |-> values[o]]

-----------------------------------------------------------------------------
(* Handlers *)

\* A handler is about to call updateNodeStatus for object o, and then goes on with
\* the stage after that; or it is at a stage of AddNode.
Updating(o, status, then) ==
    [stage |-> "update", object |-> o, status |-> status, then |-> then]

Adding(o, stage) == [stage |-> stage, object |-> o]

\* Handler g starts with object o.
Start(g, o, handler) ==
    /\ handlers[g].stage = "idle"
    /\ reports < MaxReports
    /\ reports' = reports + 1
    /\ handlers' = [handlers EXCEPT ![g] = handler]
    /\ UNCHANGED <<knownNodes, updatedNodes, transmitters>>
    /\ Keep([p \in {o} \cup DOMAIN nodes |->
                IF p \in DOMAIN nodes THEN nodes[p] ELSE NewNode])

\* A new object for address a.
Unused(a) == {o \in Object : o.address = a} \ DOMAIN nodes

New(a) == {o \in Unused(a) : \A p \in Unused(a) : o.id <= p.id}

\* The object that a message's address is taken for.
Found(a) == IF a \in Known THEN {knownNodes[a]} ELSE New(a)

\* A message says that the member at address a, or the sender itself, has the
\* status: decodeMessage and decodeMembers look for its object in knownNodes.
Decode(g, a, status) ==
    \E o \in Found(a) : Start(g, o, Updating(o, status, "contains"))

\* A probe is sent to a known node; pendingAcks keeps its object, which is reported
\* dead when the probe times out.
AwaitAck(g, a) ==
    a \in Known /\ Start(g, knownNodes[a], Updating(knownNodes[a], "DEAD", "idle"))

\* Begin, for an initial host, and the application call AddNode with an object that
\* CreateNodeByAddress made.
Create(g, a) == \E o \in New(a) : Start(g, o, Adding(o, "contains"))

\* Handler g goes on with the given stage, having changed neither its object nor a
\* map.
GoOn(g, stage) ==
    /\ handlers' = [handlers EXCEPT ![g] =
          CASE stage = "idle" -> IdleHandler
            [] stage \in {"contains", "enter"} -> Adding(@.object, stage)
            [] OTHER -> [@ EXCEPT !.stage = stage]]
    /\ UNCHANGED transmitters

\* The report is old, or the ack came in time; a sender is added all the same.
Drop(g) ==
    /\ handlers[g].stage = "update" /\ handlers[g].then # "enter"
    /\ \E stage \in {"idle", handlers[g].then} : GoOn(g, stage)
    /\ UNCHANGED <<knownNodes, updatedNodes, reports>>
    /\ Keep(nodes)

\* Mutant of Listing: only the news that are listed are told to the listeners.
ListingOnly(h) == IF updatedNodes[h.object.address] = None THEN "list" ELSE h.then

\* "If this isn't in the recently updated list, add it", looked up by address.
Listing(h) == IF updatedNodes[h.object.address] = None THEN "list" ELSE "notify"

\* updateNodeStatus assigns the new status and the emit counter, and looks for the
\* address in updatedNodes.
Update(g) ==
    LET h == handlers[g]
        o == h.object
    IN  /\ h.stage = "update"
        /\ UNCHANGED <<knownNodes, updatedNodes, reports>>
        /\ IF nodes[o].status = h.status
           THEN GoOn(g, h.then) /\ Keep(nodes)
           ELSE /\ GoOn(g, Listing(h))
                /\ Keep([nodes EXCEPT ![o] =
                      [status |-> h.status, emitCounter |-> emitCount, due |-> emitCount,
                       heard |-> FALSE]])

\* updatedNodes.add
List(g) ==
    LET o == handlers[g].object
    IN  /\ handlers[g].stage = "list"
        /\ updatedNodes' = [updatedNodes EXCEPT ![o.address] = o]
        /\ GoOn(g, "notify")
        /\ UNCHANGED <<knownNodes, reports>>
        /\ Keep(nodes)

\* doStatusUpdate
Notify(g) ==
    LET h == handlers[g]
        o == h.object
    IN  /\ h.stage = "notify"
        /\ GoOn(g, h.then)
        /\ UNCHANGED <<knownNodes, updatedNodes, reports>>
        /\ Keep([nodes EXCEPT ![o].heard = @ \/ nodes[o].status = h.status])

\* Mutant of HasStatus: AddNode does not look at the status.
HasStatusAlways(o) == TRUE

HasStatus(o) == nodes[o].status # "UNKNOWN"

\* AddNode looks for the address in knownNodes.  An object without a status gets one
\* before it is added.
Contains(g) ==
    LET h == handlers[g]
        o == h.object
    IN  /\ h.stage = "contains"
        /\ \/ o.address \in Known /\ GoOn(g, "idle")
           \/ o.address \notin Known /\ HasStatus(o) /\ GoOn(g, "enter")
           \/ /\ o.address \notin Known /\ ~HasStatus(o)
              /\ handlers' = [handlers EXCEPT ![g] = Updating(o, "ALIVE", "enter")]
              /\ UNCHANGED transmitters
        /\ UNCHANGED <<knownNodes, updatedNodes, reports>>
        /\ Keep(nodes)

\* knownNodes.add
Enter(g) ==
    LET o == handlers[g].object
    IN  /\ handlers[g].stage = "enter"
        /\ knownNodes' = [knownNodes EXCEPT ![o.address] = o]
        /\ GoOn(g, "idle")
        /\ UNCHANGED <<updatedNodes, reports>>
        /\ Keep(nodes)

\* RemoveNode, called by the loop of Begin for a dead node or by the application.
RemoveNode(a) ==
    /\ a \in Known
    /\ reports < MaxReports
    /\ reports' = reports + 1
    /\ knownNodes' = [knownNodes EXCEPT ![a] = None]
    /\ UNCHANGED <<updatedNodes, handlers, transmitters>>
    /\ Keep(nodes)

-----------------------------------------------------------------------------
(* Transmitters: transmitVerbGenericUDP *)

\* The first n of the objects in set S by their emit counters.
Top(n, S) ==
    {T \in SUBSET S :
        /\ Cardinality(T) = IF n < Cardinality(S) THEN n ELSE Cardinality(S)
        /\ \A o \in T, p \in S \ T : nodes[o].emitCounter >= nodes[p].emitCounter}

\* nodeMap.getRandomNodes: any n of set S; n = 0 means all of them.
RandomNodes(n, S) ==
    {T \in SUBSET S :
        Cardinality(T) = IF n = 0 \/ n > Cardinality(S) THEN Cardinality(S) ELSE n}

UsedUp(o) == nodes[o].emitCounter <= 0

\* Goroutine t is to send a message to address a, with object f as the node to be
\* pinged by a if it is not None.  getRandomUpdatedNodes collects the objects with
\* news and tests their counters.
Test(t, a, f) ==
    LET values == {updatedNodes[b] : b \in Peer} \ {None}
        fresh == {o \in values : ~UsedUp(o)}
    IN  /\ transmitters[t].stage = "idle"
        /\ a \in Known
        /\ f \in {None} \cup {knownNodes[b] : b \in Known \ {a}}
        /\ transmitters' = [transmitters EXCEPT ![t] =
              [stage |-> "tested", to |-> a, forward |-> f, fresh |-> fresh,
               old |-> {o.address : o \in values \ fresh},
               objects |-> fresh \cup ({f} \ {None})]]
        /\ UNCHANGED <<knownNodes, updatedNodes, handlers, reports>>
        /\ Keep(nodes)

\* Mutant of Pruned: nodes without emissions are not copied, but stay in the map.
PrunedNever(old) == updatedNodes

Pruned(old) == [a \in Peer |-> IF a \in old THEN None ELSE updatedNodes[a]]

\* It deletes the addresses of those whose counter was used up, whatever object they
\* stand for by now, and returns the newest of the others, but not the receiver's.
\* If there is none, some known nodes are mentioned.  The first decrement of their
\* counters begins.  A message that mentions nobody leaves no counters to decrement.
Mention(t) ==
    LET g == transmitters[t]
        news == {o \in g.fresh : o.address # g.to}
        others == {knownNodes[b] : b \in Known \ {g.to}}
    IN  /\ g.stage = "tested"
        /\ updatedNodes' = Pruned(g.old)
        /\ \E members \in IF \E T \in Top(emitCount, news) : T # {}
                          THEN Top(emitCount, news) ELSE RandomNodes(emitCount, others) :
              /\ transmitters' = [transmitters EXCEPT ![t] =
                    IF members = {} /\ g.forward = None
                    THEN IdleTransmitter
                    ELSE [stage |-> "mentioned", forward |-> g.forward, members |-> members,
                          status |-> [o \in members |-> nodes[o].status],
                          value |-> [o \in members |-> Less(nodes[o].emitCounter, 1)],
                          objects |-> members \cup ({g.forward} \ {None})]]
              /\ UNCHANGED <<knownNodes, handlers, reports>>
              /\ Keep(nodes)

\* The counters are stored and the message is sent: one emission of the statuses that
\* it mentions.
Send(t) ==
    LET g == transmitters[t]
    IN  /\ g.stage = "mentioned"
        /\ transmitters' = [transmitters EXCEPT ![t] =
              [stage |-> "sent", forward |-> g.forward, members |-> g.members,
               objects |-> g.objects]]
        /\ UNCHANGED <<knownNodes, updatedNodes, handlers, reports>>
        /\ Keep([o \in DOMAIN nodes |->
              IF o \in g.members
              THEN [nodes[o] EXCEPT !.emitCounter = g.value[o],
                                    !.due = IF g.status[o] = nodes[o].status
                                            THEN Less(@, 1) ELSE @]
              ELSE nodes[o]])

\* The counters are stored, and an error of the socket ends the call.
FailToSend(t) ==
    LET g == transmitters[t]
    IN  /\ g.stage = "mentioned"
        /\ transmitters' = [transmitters EXCEPT ![t] = IdleTransmitter]
        /\ UNCHANGED <<knownNodes, updatedNodes, handlers, reports>>
        /\ Keep([o \in DOMAIN nodes |->
              IF o \in g.members THEN [nodes[o] EXCEPT !.emitCounter = g.value[o]]
              ELSE nodes[o]])

\* "Decrement the update counters on those nodes": again, and the counter of the node
\* to be pinged as well.
Load(t) ==
    LET g == transmitters[t]
    IN  /\ g.stage = "sent"
        /\ transmitters' = [transmitters EXCEPT ![t] =
              [stage |-> "loaded", objects |-> g.objects,
               value |-> [o \in g.objects |->
                  Less(nodes[o].emitCounter,
                       IF o = g.forward /\ o \in g.members THEN 2 ELSE 1)]]]
        /\ UNCHANGED <<knownNodes, updatedNodes, handlers, reports>>
        /\ Keep(nodes)

Store(t) ==
    LET g == transmitters[t]
    IN  /\ g.stage = "loaded"
        /\ transmitters' = [transmitters EXCEPT ![t] = IdleTransmitter]
        /\ UNCHANGED <<knownNodes, updatedNodes, handlers, reports>>
        /\ Keep([o \in DOMAIN nodes |->
              IF o \in g.objects THEN [nodes[o] EXCEPT !.emitCounter = g.value[o]]
              ELSE nodes[o]])

-----------------------------------------------------------------------------
\* Begin has added the initial host; emitCount() was 0 when this host was alone.
RInit ==
    /\ nodes = [o \in {InitialNode} |-> [NewNode EXCEPT !.status = "ALIVE"]]
    /\ knownNodes = [a \in Peer |-> IF a = InitialHost THEN InitialNode ELSE None]
    /\ updatedNodes = knownNodes
    /\ handlers = [g \in Handler |-> IdleHandler]
    /\ transmitters = [t \in Transmitter |-> IdleTransmitter]
    /\ reports = 0

Handle(g) == Drop(g) \/ Update(g) \/ List(g) \/ Notify(g) \/ Contains(g) \/ Enter(g)

Transmit(t) == Mention(t) \/ Send(t) \/ FailToSend(t) \/ Load(t) \/ Store(t)

RNext ==
    \/ \E g \in Handler : \E a \in Peer :
          (\E status \in {"ALIVE", "DEAD"} : Decode(g, a, status)) \/ AwaitAck(g, a) \/ Create(g, a)
    \/ \E g \in Handler : Handle(g)
    \/ \E a \in Peer : RemoveNode(a)
    \/ \E t \in Transmitter : Transmit(t)
    \/ \E t \in Transmitter : \E a \in Peer :
          \E f \in {None} \cup {knownNodes[b] : b \in Known} : Test(t, a, f)

RSpec == RInit /\ [][RNext]_rvars

\* Goroutines go on, and the loop of Begin pings every known node again and again.
FairRSpec ==
    /\ RSpec
    /\ WF_rvars(\E g \in Handler : Handle(g))
    /\ WF_rvars(\E t \in Transmitter : Transmit(t))
    /\ \A a \in Peer : SF_rvars(\E t \in Transmitter : Test(t, a, None))

-----------------------------------------------------------------------------
(* Properties *)

\* Types.  The maps hold objects of the right address, objects exist exactly
\* as long as somebody points to them, and a known node has a status.
RTypeOK ==
    /\ knownNodes \in [Peer -> Object \cup {None}]
    /\ updatedNodes \in [Peer -> Object \cup {None}]
    /\ \A a \in Peer : /\ knownNodes[a] = None \/ knownNodes[a].address = a
                       /\ updatedNodes[a] = None \/ updatedNodes[a].address = a
    /\ DOMAIN nodes = InUse(knownNodes, updatedNodes, handlers, transmitters)
    /\ \A o \in DOMAIN nodes :
          nodes[o] \in [status : Status, emitCounter : Nat, due : Nat, heard : BOOLEAN]
    /\ \A a \in Known : nodes[knownNodes[a]].status # "UNKNOWN"

\* A goroutine is about to list object o, or to tell the listeners of it.
Busy(o) == \E g \in Handler : /\ handlers[g].object = o
                              /\ handlers[g].stage \in {"list", "notify"}

\* The listeners are told of the status that a node object ends up with after it was
\* assigned, whatever other goroutines assign and report meanwhile.
NewsIsHeard == \A o \in DOMAIN nodes : Busy(o) \/ nodes[o].heard

\* News dry up: if the statuses stop changing, an address that was on the list leaves
\* it, also if its object there is not the known one any more, so that a stale object
\* is not gossiped and does not hide the known one for ever; as long as there is
\* anybody else to gossip to.
NewsDryUp ==
    \A a \in Peer : updatedNodes[a] # None ~> updatedNodes[a] = None \/ Known \subseteq {a}

\* updateNodeStatus "assigns a new status for the specified node and adds it to the
\* list of recently updated nodes" (registry.go), and emitCount() is "the number of
\* times any node's new status should be emitted after changes" (membership.go): a
\* known node is on the list until its status has been sent that often.
ChangesAreListed ==
    \A a \in Known :
        LET o == knownNodes[a] IN nodes[o].due > 0 /\ ~Busy(o) => updatedNodes[a] = o

=============================================================================
