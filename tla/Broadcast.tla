------------------------------ MODULE Broadcast ------------------------------
(***************************************************************************)
(* The broadcasts piggybacked on membership messages (broadcast.go and the *)
(* broadcast part of transmitVerbGenericUDP and receiveMessageUDP).        *)
(*                                                                         *)
(* Several goroutines of a host transmit at the same time: the heartbeat   *)
(* loop, the handlers of received messages, the spawned senders.  Each asks *)
(* getBroadcastToEmit for a broadcast, attaches it if its emit counter is  *)
(* positive, and decrements the counter, with no lock held.  The rest of a *)
(* message does not matter here: one is modelled only when it carries a    *)
(* broadcast.                                                              *)
(***************************************************************************)
EXTENDS Integers, Sequences, FiniteSets

CONSTANTS
    Node,              \* the addresses of the members
    Transmitter,       \* goroutines of a host that may transmit at once
    EmitCount,         \* emitCount(): int(2.5 * ln(members) + 0.5)
    Retention,         \* -broadcastRemoveValue: 100
    MaxBroadcasts,     \* bound: calls of BroadcastBytes
    MaxTransmissions,  \* bound: transmissions that handle a broadcast, of all the hosts
    MaxBusy,           \* bound: goroutines that transmit at once, of all the hosts
    MaxInFlight,       \* bound: messages in flight; a send beyond it is lost
    MaxCrashes         \* bound: crashes of all the hosts together

ASSUME CounterAssumption == EmitCount \in 0 .. 127 /\ Retention \in 1 .. 128

ASSUME BroadcastBoundAssumption == /\ MaxBroadcasts \in Nat
                                   /\ MaxTransmissions \in Nat
                                   /\ MaxBusy \in Nat
                                   /\ MaxInFlight \in Nat
                                   /\ MaxCrashes \in Nat

VARIABLES
    indexCounter,   \* the index of the host's next broadcast
    broadcasts,     \* the host's map of broadcasts, as the set of its values
    emitCounter,    \* the emit counter of each of the host's broadcast objects
    transmitters,   \* what each transmitting goroutine of the host is doing
    transmissions,  \* the transmissions of the host that handled a broadcast
    network,        \* broadcasts in flight
    crashes,        \* crashes so far, of all the hosts
    issued,         \* the labels of the broadcasts, in the order of the calls
    gets,           \* <<label, n>>: the host got an object of the label after n transmissions
    delivered       \* how often a host's listeners were given each broadcast

bvars == <<indexCounter, broadcasts, emitCounter, transmitters, transmissions,
           network, crashes, issued, gets, delivered>>

-----------------------------------------------------------------------------
(* Data *)

Payload == 1 .. MaxBroadcasts   \* every call of BroadcastBytes has its own

\* A Broadcast object.  Its map key, the label, is the origin with the index.
\* since is the value of transmissions when the host got the object; it tells
\* apart the objects that a host gets for one label at different times.
Object == [origin : Node, index : Nat, payload : Payload, since : Nat]

Label(b) == <<b.origin, b.index>>

\* A goroutine between two transmissions, or with the objects it has collected, or
\* with the one getBroadcastToEmit returned, or in the middle of emitCounter--,
\* having read value.
Idle == [stage |-> "idle", objects |-> {}]

Collected(bs) == [stage |-> "collected", objects |-> bs]

Picked(b) == [stage |-> "picked", objects |-> {b}, object |-> b]

Loaded(b, value) ==
    [stage |-> "loaded", objects |-> {b}, object |-> b, value |-> value]

\* Mutant of broadcastRemoveValue: a broadcast is forgotten once it is not sent.
RemoveAtZero == 0

\* At this value of its counter a broadcast is forgotten.
broadcastRemoveValue == -Retention

\* Mutant of Int8: the counter has no sign.
Uint8(n) == n % 256

\* int8 arithmetic.
Int8(n) == ((n + 128) % 256) - 128

\* The objects that goroutines still point to.
Held(ts) == UNION {ts[t].objects : t \in Transmitter}

\* The counters of the objects that are still reachable.
Reachable(counters, bs, ts) == [b \in bs \cup Held(ts) |-> counters[b]]

\* The transmissions so far, each as its host and number.
Transmitted == UNION {{h} \X (1 .. transmissions[h]) : h \in Node}

\* The goroutines that are transmitting.
Busy == {g \in Node \X Transmitter : transmitters[g[1]][g[2]].stage # "idle"}

-----------------------------------------------------------------------------
(* Transmitting *)

\* getBroadcastToEmit, under the read lock: collects the objects of the map.
Collect(h, t) ==
    /\ transmitters[h][t].stage = "idle"
    /\ broadcasts[h] # {}
    /\ Cardinality(Transmitted) < MaxTransmissions
    /\ Cardinality(Busy) < MaxBusy
    /\ transmitters' = [transmitters EXCEPT ![h][t] = Collected(broadcasts[h])]
    /\ UNCHANGED <<indexCounter, broadcasts, emitCounter, transmissions, network, crashes,
                   issued, gets, delivered>>

\* getBroadcastToEmit, under the lock: drops the labels of the objects emitted often
\* enough, whatever object they stand for by now, and returns one of the other
\* objects with the highest counter.
Prune(h, t) ==
    LET values == transmitters[h][t].objects
        kept == {b \in values : emitCounter[h][b] > broadcastRemoveValue}
        dropped == {Label(b) : b \in values \ kept}
        bs == {b \in broadcasts[h] : Label(b) \notin dropped}
    IN  /\ transmitters[h][t].stage = "collected"
        /\ \/ /\ kept = {}
              /\ transmitters' = [transmitters EXCEPT ![h][t] = Idle]
           \/ \E b \in kept :
                 /\ \A c \in kept : emitCounter[h][c] <= emitCounter[h][b]
                 /\ transmitters' = [transmitters EXCEPT ![h][t] = Picked(b)]
        /\ broadcasts' = [broadcasts EXCEPT ![h] = bs]
        /\ emitCounter' = [emitCounter EXCEPT ![h] = Reachable(@, bs, transmitters'[h])]
        /\ UNCHANGED <<indexCounter, transmissions, network, crashes, issued, gets,
                       delivered>>

\* The broadcast is added to the message for some other member if its counter is
\* positive, and the counter is read to be decremented.  The message may be lost.
Emit(h, t) ==
    LET b == transmitters[h][t].object
        c == emitCounter[h][b]
        msgs == {[to |-> to, origin |-> b.origin, index |-> b.index,
                  payload |-> b.payload] : to \in Node \ {h}}
    IN  /\ transmitters[h][t].stage = "picked"
        /\ transmitters' = [transmitters EXCEPT ![h][t] = Loaded(b, c)]
        /\ \/ UNCHANGED network
           \/ /\ c > 0
              /\ Cardinality(network) < MaxInFlight
              /\ \E m \in msgs : network' = network \cup {m}
        /\ UNCHANGED <<indexCounter, broadcasts, emitCounter, transmissions, crashes,
                       issued, gets, delivered>>

\* The decremented counter is stored.
Decrement(h, t) ==
    LET g == transmitters[h][t]
    IN  /\ g.stage = "loaded"
        /\ transmitters' = [transmitters EXCEPT ![h][t] = Idle]
        /\ transmissions' = [transmissions EXCEPT ![h] = @ + 1]
        /\ emitCounter' = [emitCounter EXCEPT ![h] =
              Reachable([@ EXCEPT ![g.object] = Int8(g.value - 1)], broadcasts[h],
                        transmitters'[h])]
        /\ UNCHANGED <<indexCounter, broadcasts, network, crashes, issued, gets,
                       delivered>>

-----------------------------------------------------------------------------
(* Getting broadcasts *)

\* The new object b of host h enters the map, under a label that is not in use or
\* whose object it replaces.
Put(h, b) ==
    LET bs == {c \in broadcasts[h] : Label(c) # Label(b)} \cup {b}
    IN  /\ broadcasts' = [broadcasts EXCEPT ![h] = bs]
        /\ emitCounter' = [emitCounter EXCEPT ![h] =
              [c \in bs \cup Held(transmitters[h]) |->
                  IF c = b THEN Int8(EmitCount) ELSE @[c]]]
        /\ gets' = [gets EXCEPT ![h] = @ \cup {<<Label(b), transmissions[h]>>}]

\* Mutant of BroadcastBytes: the index counter is not incremented.
BroadcastBytesSameIndex(h) ==
    /\ Len(issued) < MaxBroadcasts
    /\ issued' = Append(issued, <<h, indexCounter[h]>>)
    /\ Put(h, [origin |-> h, index |-> indexCounter[h], payload |-> Len(issued) + 1,
               since |-> transmissions[h]])
    /\ UNCHANGED <<indexCounter, transmitters, transmissions, network, crashes, delivered>>

\* A call that is not refused because its payload is too long.
BroadcastBytes(h) ==
    /\ Len(issued) < MaxBroadcasts
    /\ issued' = Append(issued, <<h, indexCounter[h]>>)
    /\ Put(h, [origin |-> h, index |-> indexCounter[h], payload |-> Len(issued) + 1,
               since |-> transmissions[h]])
    /\ indexCounter' = [indexCounter EXCEPT ![h] = @ + 1]
    /\ UNCHANGED <<transmitters, transmissions, network, crashes, delivered>>

\* Mutant of ReceiveBroadcast: the label is not looked up.
ReceiveBroadcastAlways(h, m) ==
    /\ m.to = h
    /\ network' \in {network, network \ {m}}
    /\ Put(h, [origin |-> m.origin, index |-> m.index, payload |-> m.payload,
               since |-> transmissions[h]])
    /\ delivered' = [delivered EXCEPT ![h][m.payload] = @ + 1]
    /\ UNCHANGED <<indexCounter, transmitters, transmissions, crashes, issued>>

\* receiveBroadcast: a label that is not in the map is added to it and given to
\* the listeners.  The message may be delivered again.
ReceiveBroadcast(h, m) ==
    /\ m.to = h
    /\ network' \in {network, network \ {m}}
    /\ IF \E b \in broadcasts[h] : Label(b) = Label(m)
       THEN UNCHANGED <<broadcasts, emitCounter, gets, delivered>>
       ELSE /\ Put(h, [origin |-> m.origin, index |-> m.index, payload |-> m.payload,
                       since |-> transmissions[h]])
            /\ delivered' = [delivered EXCEPT ![h][m.payload] = @ + 1]
    /\ UNCHANGED <<indexCounter, transmitters, transmissions, crashes, issued>>

\* The process dies and is started again: all of its memory is fresh.
Restart(h) ==
    /\ crashes < MaxCrashes
    /\ crashes' = crashes + 1
    /\ indexCounter' = [indexCounter EXCEPT ![h] = 1]
    /\ broadcasts' = [broadcasts EXCEPT ![h] = {}]
    /\ emitCounter' = [emitCounter EXCEPT ![h] = <<>>]
    /\ transmitters' = [transmitters EXCEPT ![h] = [t \in Transmitter |-> Idle]]
    /\ gets' = [gets EXCEPT ![h] = {}]
    /\ delivered' = [delivered EXCEPT ![h] = [p \in Payload |-> 0]]
    /\ UNCHANGED <<transmissions, network, issued>>

-----------------------------------------------------------------------------
BInit ==
    /\ indexCounter = [h \in Node |-> 1]
    /\ broadcasts = [h \in Node |-> {}]
    /\ emitCounter = [h \in Node |-> <<>>]
    /\ transmitters = [h \in Node |-> [t \in Transmitter |-> Idle]]
    /\ transmissions = [h \in Node |-> 0]
    /\ network = {}
    /\ crashes = 0
    /\ issued = <<>>
    /\ gets = [h \in Node |-> {}]
    /\ delivered = [h \in Node |-> [p \in Payload |-> 0]]

BNext ==
    \E h \in Node :
        \/ \E t \in Transmitter : Collect(h, t) \/ Prune(h, t) \/ Emit(h, t) \/ Decrement(h, t)
        \/ BroadcastBytes(h)
        \/ \E m \in network : ReceiveBroadcast(h, m)
        \/ Restart(h)

BSpec == BInit /\ [][BNext]_bvars

-----------------------------------------------------------------------------
(* Properties *)

\* Types.  The counters, of type int8, are those of the objects that are in the map or
\* held by a goroutine.
BTypeOK ==
    /\ indexCounter \in [Node -> Nat]
    /\ broadcasts \in [Node -> SUBSET Object]
    /\ DOMAIN emitCounter = Node
    /\ \A h \in Node :
          /\ Held(transmitters[h]) \subseteq Object
          /\ emitCounter[h] \in [broadcasts[h] \cup Held(transmitters[h]) -> -128 .. 127]
    /\ DOMAIN transmitters = Node
    /\ \A h \in Node : DOMAIN transmitters[h] = Transmitter
    /\ \A h \in Node : \A t \in Transmitter :
          \/ transmitters[h][t] = Idle
          \/ transmitters[h][t] = Collected(transmitters[h][t].objects)
          \/ \E b \in Held(transmitters[h]) :
                \/ transmitters[h][t] = Picked(b)
                \/ \E v \in -128 .. 127 : transmitters[h][t] = Loaded(b, v)
    /\ transmissions \in [Node -> Nat]
    /\ network \subseteq [to : Node, origin : Node, index : Nat, payload : Payload]
    /\ crashes \in Nat
    /\ issued \in Seq(Node \X Nat)
    /\ gets \in [Node -> SUBSET ((Node \X Nat) \X Nat)]
    /\ delivered \in [Node -> [Payload -> Nat]]

\* The broadcasts in the maps of the hosts and in flight.
Copies == (UNION {broadcasts[h] : h \in Node}) \cup network

\* "The combination of originIP:originPort:Index is unique" (broadcast.go): a label
\* names one broadcast wherever it is found, so that receiveBroadcast drops
\* nothing but what it has already.
LabelsAgree == \A b, c \in Copies : Label(b) = Label(c) => b.payload = c.payload

\* So it is as long as no host has restarted: indices are not used twice, and
\* relaying keeps a label and its payload together.
LabelsAgreeUntilRestart == crashes = 0 => LabelsAgree

\* If the label of broadcast b leaves the map of a host that does not crash, the
\* host has transmitted EmitCount + Retention times since it got an object of that
\* label, b or an earlier one that a goroutine still holds.
LeavesAfterRetention ==
    \A h \in Node : \A b \in broadcasts[h] :
        (\A c \in broadcasts'[h] : Label(c) # Label(b)) /\ crashes' = crashes =>
            \E c \in broadcasts[h] \cup Held(transmitters[h]) :
                /\ Label(c) = Label(b)
                /\ transmissions[h] - c.since >= EmitCount + Retention

\* A broadcast is "retained long enough to not be received twice": no interleaving
\* of the unsynchronised decrements of the transmitting goroutines makes
\* getBroadcastToEmit forget it earlier than if they had run one by one.  It drops
\* a copy early in one case only: the copy arrived after its predecessor was used
\* up and before the slowest goroutine dropped that.
RetainedLongEnough == [][LeavesAfterRetention]_bvars

\* The abstract specification of BroadcastBytes.
Promise == INSTANCE BroadcastOnce
              WITH Memory <- EmitCount + Retention,
                   remembered <- [h \in Node |-> {Label(b) : b \in broadcasts[h]}]

\* A broadcast is given to the listeners of a host, also of its origin, only if the
\* host does not remember its label, however often its messages are duplicated,
\* delayed and reordered, whichever way it comes; and a host that has not restarted
\* remembers a label until it has transmitted EmitCount + Retention times since it
\* got it.
DeliveredAtMostOnce == Promise!OnceSpec

-----------------------------------------------------------------------------
(* What the documentation says *)

\* Broadcasts "are propagated at most once to all present, healthy members", and a
\* broadcast "will not be received by the originating member" (README.md): no host
\* gives one to its listeners twice, and its origin does not do it at all.
NeverReceivedTwice ==
    \A h \in Node : \A p \in 1 .. Len(issued) :
        delivered[h][p] <= IF issued[p][1] = h THEN 0 ELSE 1

=============================================================================
