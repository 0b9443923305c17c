--------------------------- MODULE BroadcastProofs ---------------------------
(***************************************************************************)
(* Broadcasts, whatever the number of members, of transmitting goroutines, *)
(* of broadcasts and of messages in flight: they are retained long enough, *)
(* their labels name one broadcast each until a host restarts, and         *)
(* Broadcast implements BroadcastOnce.                                     *)
(*                                                                         *)
(* The first because an emit counter never falls faster than the host      *)
(* transmits, though goroutines may overwrite each other's decrements and  *)
(* though the counter is an int8 that could wrap.                          *)
(***************************************************************************)
EXTENDS Broadcast, TLAPS

\* The counter c of object b is large enough after n transmissions of its host.
SlowObject(b, c, n) ==
    /\ b.since \in Nat
    /\ b.since <= n
    /\ c \in -128 .. 127
    /\ c >= EmitCount - (n - b.since)

\* So is the value that goroutine g has read.
SlowTransmitter(g, n) ==
    /\ g.stage \in {"idle", "collected", "picked", "loaded"}
    /\ g.stage = "idle" => g.objects = {}
    /\ g.stage \in {"picked", "loaded"} => g.objects = {g.object}
    /\ g.stage = "loaded" => SlowObject(g.object, g.value, n)

\* What holds of host h's broadcast objects bs, their counters, its goroutines ts
\* and the number n of its transmissions.  Objects that are only held by a
\* goroutine count as well: the goroutine may yet store their counter.
Slow(bs, counters, ts, n) ==
    /\ DOMAIN counters = bs \cup Held(ts)
    /\ \A b \in DOMAIN counters : SlowObject(b, counters[b], n)
    /\ \A t \in Transmitter : SlowTransmitter(ts[t], n)

\* The inductive invariant.
RInv ==
    /\ crashes \in Nat
    /\ transmissions \in [Node -> Nat]
    /\ DOMAIN broadcasts = Node
    /\ DOMAIN emitCounter = Node
    /\ DOMAIN transmitters = Node
    /\ \A h \in Node : DOMAIN transmitters[h] = Transmitter
    /\ \A h \in Node : Slow(broadcasts[h], emitCounter[h], transmitters[h], transmissions[h])

\* An int8 that is decremented gets smaller by one, or wraps and gets larger.
LEMMA Int8Decrement ==
    ASSUME NEW v \in -128 .. 127
    PROVE  Int8(v - 1) \in -128 .. 127 /\ Int8(v - 1) >= v - 1
<1>1. v - 1 + 128 \in Int /\ (v - 1 + 128) % 256 \in 0 .. 255
      OBVIOUS
<1>2. (v - 1 + 128) % 256 >= v - 1 + 128
      OBVIOUS
<1> QED BY <1>1, <1>2 DEF Int8

\* emitCount() fits in an int8.
LEMMA Int8EmitCount == Int8(EmitCount) = EmitCount /\ EmitCount \in 0 .. 127
<1>1. EmitCount \in 0 .. 127
      BY CounterAssumption
<1>2. (EmitCount + 128) % 256 = EmitCount + 128
      BY <1>1
<1> QED BY <1>1, <1>2 DEF Int8

\* The objects that are held when goroutine t is given state g.
LEMMA HeldBy ==
    ASSUME NEW ts, DOMAIN ts = Transmitter, NEW t \in Transmitter, NEW g
    PROVE  /\ Held([ts EXCEPT ![t] = g]) \subseteq Held(ts) \cup g.objects
           /\ ts[t].objects \subseteq Held(ts)
           /\ g.objects = ts[t].objects => Held([ts EXCEPT ![t] = g]) = Held(ts)
BY DEF Held

\* A value that was large enough before a transmission is so after it, and even
\* one less is.
LEMMA Later ==
    ASSUME NEW b, NEW v, NEW n \in Nat, SlowObject(b, v, n),
           NEW w \in -128 .. 127, w >= v - 1
    PROVE  SlowObject(b, w, n + 1)
<1> DEFINE s == b.since
<1>1. s \in Nat /\ s <= n /\ v \in Int /\ v >= EmitCount - (n - s)
      BY DEF SlowObject
<1> HIDE DEF s
<1>2. s <= n + 1 /\ w >= EmitCount - ((n + 1) - s)
      BY <1>1, CounterAssumption
<1> QED BY <1>1, <1>2 DEF SlowObject, s

LEMMA RInit == BInit => RInv
BY DEF BInit, RInv, Slow, SlowTransmitter, Held, Idle

\* A goroutine of host h that neither reads nor stores a counter, with objects that
\* the host has, and objects that are dropped, leave the rest slow.
LEMMA RQuiet ==
    ASSUME RInv, NEW h \in Node, NEW t \in Transmitter, NEW g, NEW bs,
           bs \subseteq broadcasts[h],
           g.stage \in {"idle", "collected", "picked"},
           g.stage = "idle" => g.objects = {},
           g.stage = "picked" => g.objects = {g.object},
           g.objects \subseteq broadcasts[h] \cup Held(transmitters[h]),
           transmitters' = [transmitters EXCEPT ![h][t] = g],
           broadcasts' = [broadcasts EXCEPT ![h] = bs],
           emitCounter' = [emitCounter EXCEPT ![h] = Reachable(@, bs, transmitters'[h])],
           UNCHANGED <<transmissions, crashes>>
    PROVE  RInv'
<1>1. /\ transmitters'[h] = [transmitters[h] EXCEPT ![t] = g]
      /\ DOMAIN transmitters' = Node
      /\ \A k \in Node : DOMAIN transmitters'[k] = Transmitter
      /\ \A k \in Node \ {h} : transmitters'[k] = transmitters[k]
      BY DEF RInv
<1>2. Held(transmitters'[h]) \subseteq broadcasts[h] \cup Held(transmitters[h])
      BY <1>1, HeldBy, Zenon DEF RInv
<1>3. \A u \in Transmitter :
         transmitters'[h][u] = IF u = t THEN g ELSE transmitters[h][u]
      BY <1>1 DEF RInv
<1>4. Slow(bs, emitCounter'[h], transmitters'[h], transmissions[h])
  <2>1. emitCounter'[h] = [b \in bs \cup Held(transmitters'[h]) |-> emitCounter[h][b]]
        BY DEF RInv, Reachable
  <2>2. /\ DOMAIN emitCounter[h] = broadcasts[h] \cup Held(transmitters[h])
        /\ Slow(broadcasts[h], emitCounter[h], transmitters[h], transmissions[h])
        BY DEF RInv, Slow
  <2>3. /\ DOMAIN emitCounter'[h] \subseteq DOMAIN emitCounter[h]
        /\ \A b \in DOMAIN emitCounter'[h] : emitCounter'[h][b] = emitCounter[h][b]
        BY <1>2, <2>1, <2>2, ZenonT(60)
  <2>4. DOMAIN emitCounter'[h] = bs \cup Held(transmitters'[h])
        BY <2>1, Zenon
  <2>5. \A b \in DOMAIN emitCounter'[h] :
           SlowObject(b, emitCounter'[h][b], transmissions[h])
        BY <2>2, <2>3, Zenon DEF Slow
  <2>6. SlowTransmitter(g, transmissions[h])
        BY DEF SlowTransmitter
  <2>7. \A u \in Transmitter : SlowTransmitter(transmitters'[h][u], transmissions[h])
        BY <1>3, <2>2, <2>6 DEF Slow
  <2> QED BY <2>4, <2>5, <2>7, Zenon DEF Slow
<1> QED BY <1>1, <1>4 DEF RInv

LEMMA RCollect ==
    ASSUME RInv, NEW h \in Node, NEW t \in Transmitter, Collect(h, t)
    PROVE  RInv'
<1> DEFINE g == Collected(broadcasts[h])
<1>1. g.stage = "collected" /\ g.objects = broadcasts[h]
      BY DEF Collected
<1>2. /\ transmitters[h][t].stage = "idle"
      /\ transmitters' = [transmitters EXCEPT ![h][t] = g]
      /\ UNCHANGED <<broadcasts, emitCounter, transmissions, crashes>>
      BY DEF Collect
<1> HIDE DEF g
<1>3. /\ transmitters'[h] = [transmitters[h] EXCEPT ![t] = g]
      /\ DOMAIN transmitters' = Node
      /\ \A k \in Node : DOMAIN transmitters'[k] = Transmitter
      /\ \A k \in Node \ {h} : transmitters'[k] = transmitters[k]
      BY <1>2 DEF RInv
<1>4. /\ Slow(broadcasts[h], emitCounter[h], transmitters[h], transmissions[h])
      /\ DOMAIN transmitters[h] = Transmitter
      BY DEF RInv
<1>5. transmitters[h][t].objects = {}
      BY <1>2, <1>4 DEF Slow, SlowTransmitter
<1>6. \A u \in Transmitter :
         transmitters'[h][u] = IF u = t THEN g ELSE transmitters[h][u]
      BY <1>3, <1>4
<1>7. broadcasts[h] \cup Held(transmitters'[h]) = broadcasts[h] \cup Held(transmitters[h])
  <2>1. Held(transmitters'[h]) \subseteq broadcasts[h] \cup Held(transmitters[h])
        BY <1>1, <1>3, <1>4, HeldBy
  <2>2. Held(transmitters[h]) \subseteq Held(transmitters'[h])
        BY <1>5, <1>6 DEF Held
  <2> QED BY <2>1, <2>2
<1>8. SlowTransmitter(g, transmissions[h])
      BY <1>1 DEF SlowTransmitter
<1>9. Slow(broadcasts[h], emitCounter[h], transmitters'[h], transmissions[h])
      BY <1>4, <1>6, <1>7, <1>8 DEF Slow
<1> QED BY <1>2, <1>3, <1>9 DEF RInv

LEMMA RPrune ==
    ASSUME RInv, NEW h \in Node, NEW t \in Transmitter, Prune(h, t)
    PROVE  RInv'
<1> DEFINE values == transmitters[h][t].objects
           kept == {b \in values : emitCounter[h][b] > broadcastRemoveValue}
           dropped == {Label(b) : b \in values \ kept}
           bs == {b \in broadcasts[h] : Label(b) \notin dropped}
<1>1. /\ broadcasts' = [broadcasts EXCEPT ![h] = bs]
      /\ emitCounter' = [emitCounter EXCEPT ![h] = Reachable(@, bs, transmitters'[h])]
      /\ UNCHANGED <<transmissions, crashes>>
      /\ \/ transmitters' = [transmitters EXCEPT ![h][t] = Idle]
         \/ \E b \in kept : transmitters' = [transmitters EXCEPT ![h][t] = Picked(b)]
      BY DEF Prune
<1>2. bs \subseteq broadcasts[h]
      OBVIOUS
<1>3. kept \subseteq Held(transmitters[h])
  <2>1. values \subseteq Held(transmitters[h])
        BY HeldBy, Zenon DEF RInv
  <2> QED BY <2>1
<1> HIDE DEF values, kept, dropped, bs
<1>4. CASE transmitters' = [transmitters EXCEPT ![h][t] = Idle]
  <2>1. Idle.stage = "idle" /\ Idle.objects = {}
        BY DEF Idle
  <2> QED BY <1>1, <1>2, <1>4, <2>1, RQuiet, Zenon
<1>5. ASSUME NEW b \in kept, transmitters' = [transmitters EXCEPT ![h][t] = Picked(b)]
      PROVE  RInv'
  <2> DEFINE g == Picked(b)
  <2>1. g.stage = "picked" /\ g.objects = {g.object} /\ g.objects = {b}
        BY DEF Picked
  <2>2. transmitters' = [transmitters EXCEPT ![h][t] = g]
        BY <1>5
  <2> HIDE DEF g
  <2>3. /\ g.objects \subseteq broadcasts[h] \cup Held(transmitters[h])
        /\ g.stage \in {"idle", "collected", "picked"}
        /\ g.stage # "idle"
        BY <1>3, <2>1
  <2> QED BY <1>1, <1>2, <2>1, <2>2, <2>3, RQuiet, Zenon
<1> QED BY <1>1, <1>4, <1>5

LEMMA REmit ==
    ASSUME RInv, NEW h \in Node, NEW t \in Transmitter, Emit(h, t)
    PROVE  RInv'
<1> DEFINE b == transmitters[h][t].object
           g == Loaded(b, emitCounter[h][b])
<1>1. /\ transmitters[h][t].stage = "picked"
      /\ transmitters' = [transmitters EXCEPT ![h][t] = g]
      /\ broadcasts' = broadcasts /\ emitCounter' = emitCounter
      /\ transmissions' = transmissions
      /\ crashes' = crashes
      BY DEF Emit
<1>2. /\ g.stage = "loaded" /\ g.object = b /\ g.value = emitCounter[h][b]
      /\ g.objects = {b}
      BY DEF Loaded
<1> HIDE DEF g
<1>3. /\ transmitters'[h] = [transmitters[h] EXCEPT ![t] = g]
      /\ DOMAIN transmitters' = Node
      /\ \A k \in Node : DOMAIN transmitters'[k] = Transmitter
      /\ \A k \in Node \ {h} : transmitters'[k] = transmitters[k]
      BY <1>1 DEF RInv
<1>4. Held(transmitters'[h]) = Held(transmitters[h]) /\ b \in Held(transmitters[h])
  <2>1. DOMAIN transmitters[h] = Transmitter
        BY DEF RInv
  <2>2. transmitters[h][t].objects = {b}
        BY <1>1 DEF RInv, Slow, SlowTransmitter
  <2>3. Held([transmitters[h] EXCEPT ![t] = g]) = Held(transmitters[h])
    <3>1. g.objects = transmitters[h][t].objects
          BY <1>2, <2>2
    <3> HIDE DEF b
    <3> QED BY <2>1, <3>1, HeldBy
  <2>4. b \in Held(transmitters[h])
        BY <2>1, <2>2, HeldBy, Zenon
  <2> QED BY <1>3, <2>3, <2>4
<1>5. Slow(broadcasts[h], emitCounter[h], transmitters'[h], transmissions[h])
  <2>1. Slow(broadcasts[h], emitCounter[h], transmitters[h], transmissions[h])
        BY DEF RInv
  <2>2. \A u \in Transmitter : transmitters'[h][u] = IF u = t THEN g ELSE transmitters[h][u]
        BY <1>3 DEF RInv
  <2>3. b \in DOMAIN emitCounter[h]
        BY <1>4, <2>1 DEF Slow
  <2>4. SlowTransmitter(g, transmissions[h])
        BY <1>2, <2>1, <2>3 DEF Slow, SlowTransmitter
  <2>5. \A u \in Transmitter : SlowTransmitter(transmitters'[h][u], transmissions[h])
        BY <2>1, <2>2, <2>4 DEF Slow
  <2> QED BY <1>4, <2>1, <2>5 DEF Slow
<1> QED BY <1>1, <1>3, <1>5 DEF RInv

\* The decrement: the host has transmitted once more, and the counter it stores is
\* one less than a value that was large enough, or has wrapped.
LEMMA RDecrement ==
    ASSUME RInv, NEW h \in Node, NEW t \in Transmitter, Decrement(h, t)
    PROVE  RInv'
<1> DEFINE g == transmitters[h][t]
           n == transmissions[h]
           stored == [emitCounter[h] EXCEPT ![g.object] = Int8(g.value - 1)]
<1>1. /\ g.stage = "loaded"
      /\ transmitters' = [transmitters EXCEPT ![h][t] = Idle]
      /\ transmissions' = [transmissions EXCEPT ![h] = n + 1]
      /\ broadcasts' = broadcasts
      /\ emitCounter' = [emitCounter EXCEPT ![h] =
            Reachable(stored, broadcasts[h], transmitters'[h])]
      /\ crashes' = crashes
      BY DEF Decrement
<1>2. /\ transmitters'[h] = [transmitters[h] EXCEPT ![t] = Idle]
      /\ DOMAIN transmitters' = Node
      /\ \A k \in Node : DOMAIN transmitters'[k] = Transmitter
      /\ \A k \in Node \ {h} : transmitters'[k] = transmitters[k]
      BY <1>1 DEF RInv
<1>3. /\ Idle.stage = "idle"
      /\ Held(transmitters'[h]) \subseteq Held(transmitters[h])
  <2>1. Idle.stage = "idle" /\ Idle.objects = {}
        BY DEF Idle
  <2>2. DOMAIN transmitters[h] = Transmitter
        BY DEF RInv
  <2>3. Held([transmitters[h] EXCEPT ![t] = Idle]) \subseteq Held(transmitters[h])
        BY <2>1, <2>2, HeldBy
  <2> QED BY <1>2, <2>1, <2>3
<1>4. g.object \in Held(transmitters[h])
  <2>1. g.objects = {g.object}
        BY <1>1 DEF RInv, Slow, SlowTransmitter
  <2> QED BY <2>1, HeldBy, Zenon DEF RInv
<1>5. /\ Slow(broadcasts[h], emitCounter[h], transmitters[h], n)
      /\ n \in Nat
      BY DEF RInv
<1>6. \A c \in DOMAIN emitCounter[h] : SlowObject(c, stored[c], n + 1)
  <2> DEFINE new == Int8(g.value - 1)
  <2>1. SlowObject(g.object, g.value, n)
        BY <1>1, <1>5, Zenon DEF Slow, SlowTransmitter
  <2>2. g.value \in -128 .. 127
        BY <2>1 DEF SlowObject
  <2>3. new \in -128 .. 127 /\ new >= g.value - 1
        BY <2>2, Int8Decrement, Zenon
  <2>4. \A c \in DOMAIN emitCounter[h] :
           stored[c] = IF c = g.object THEN new ELSE emitCounter[h][c]
        OBVIOUS
  <2> HIDE DEF new, stored, n, g
  <2>5. SlowObject(g.object, new, n + 1)
        BY <1>5, <2>1, <2>3, Later, ZenonT(60)
  <2> TAKE c \in DOMAIN emitCounter[h]
  <2>6. SlowObject(c, emitCounter[h][c], n)
        BY <1>5 DEF Slow
  <2>7. emitCounter[h][c] \in -128 .. 127 /\ emitCounter[h][c] >= emitCounter[h][c] - 1
        BY <2>6 DEF SlowObject
  <2>8. SlowObject(c, emitCounter[h][c], n + 1)
        BY <1>5, <2>6, <2>7, Later, Zenon
  <2> QED BY <2>4, <2>5, <2>8
<1> HIDE DEF stored
<1>7. Slow(broadcasts[h], emitCounter'[h], transmitters'[h], n + 1)
  <2>1. emitCounter'[h] = [c \in broadcasts[h] \cup Held(transmitters'[h]) |-> stored[c]]
        BY <1>1 DEF RInv, Reachable
  <2>2. DOMAIN emitCounter[h] = broadcasts[h] \cup Held(transmitters[h])
        BY <1>5 DEF Slow
  <2>3. DOMAIN emitCounter'[h] = broadcasts[h] \cup Held(transmitters'[h])
        BY <2>1
  <2>4. \A c \in DOMAIN emitCounter'[h] : SlowObject(c, emitCounter'[h][c], n + 1)
    <3>1. \A c \in DOMAIN emitCounter'[h] : emitCounter'[h][c] = stored[c]
          BY <2>1
    <3> QED BY <1>3, <1>6, <2>2, <2>3, <3>1
  <2>5. \A u \in Transmitter :
           transmitters'[h][u] = IF u = t THEN Idle ELSE transmitters[h][u]
        BY <1>2 DEF RInv
  <2>6. SlowTransmitter(Idle, n + 1)
        BY DEF SlowTransmitter, Idle
  <2>7. ASSUME NEW u \in Transmitter
        PROVE  SlowTransmitter(transmitters[h][u], n + 1)
    <3> DEFINE k == transmitters[h][u]
    <3>1. SlowTransmitter(k, n)
          BY <1>5 DEF Slow
    <3> HIDE DEF k, n
    <3>2. ASSUME k.stage = "loaded"
          PROVE  SlowObject(k.object, k.value, n + 1)
      <4>1. SlowObject(k.object, k.value, n)
            BY <3>1, <3>2 DEF SlowTransmitter
      <4>2. k.value \in -128 .. 127 /\ k.value >= k.value - 1
            BY <4>1 DEF SlowObject
      <4> QED BY <1>5, <4>1, <4>2, Later, ZenonT(60)
    <3>3. SlowTransmitter(k, n + 1)
          BY <3>1, <3>2 DEF SlowTransmitter
    <3> QED BY <3>3 DEF k
  <2>8. \A u \in Transmitter : SlowTransmitter(transmitters'[h][u], n + 1)
        BY <2>5, <2>6, <2>7
  <2> QED BY <2>3, <2>4, <2>8 DEF Slow
<1> QED BY <1>1, <1>2, <1>5, <1>7 DEF RInv

\* A new object starts with the full counter.
LEMMA RPut ==
    ASSUME RInv, NEW h \in Node, NEW b, b.since = transmissions[h], Put(h, b),
           UNCHANGED <<transmitters, transmissions, crashes>>
    PROVE  RInv'
<1> DEFINE bs == {c \in broadcasts[h] : Label(c) # Label(b)} \cup {b}
           all == bs \cup Held(transmitters[h])
<1>1. /\ broadcasts' = [broadcasts EXCEPT ![h] = bs]
      /\ emitCounter' = [emitCounter EXCEPT ![h] =
            [c \in all |-> IF c = b THEN Int8(EmitCount) ELSE emitCounter[h][c]]]
      BY DEF Put
<1>2. bs \subseteq broadcasts[h] \cup {b}
      OBVIOUS
<1> HIDE DEF bs
<1>3. /\ Slow(broadcasts[h], emitCounter[h], transmitters[h], transmissions[h])
      /\ transmissions[h] \in Nat
      BY DEF RInv
<1>4. Slow(bs, emitCounter'[h], transmitters[h], transmissions[h])
  <2>1. emitCounter'[h] = [c \in all |-> IF c = b THEN EmitCount ELSE emitCounter[h][c]]
        BY <1>1, Int8EmitCount DEF RInv
  <2>2. \A c \in all : c = b \/ c \in DOMAIN emitCounter[h]
        BY <1>2, <1>3 DEF Slow
  <2>3. \A c \in all : SlowObject(c, emitCounter'[h][c], transmissions[h])
    <3> TAKE c \in all
    <3>1. CASE c = b
      <4>1. emitCounter'[h][c] = EmitCount /\ c.since = transmissions[h]
            BY <2>1, <3>1
      <4> QED BY <1>3, <4>1, Int8EmitCount DEF SlowObject
    <3>2. CASE c # b
      <4>1. emitCounter'[h][c] = emitCounter[h][c] /\ c \in DOMAIN emitCounter[h]
            BY <2>1, <2>2, <3>2
      <4> QED BY <1>3, <4>1 DEF Slow
    <3> QED BY <3>1, <3>2
  <2>4. DOMAIN emitCounter'[h] = all
        BY <2>1
  <2> QED BY <1>3, <2>3, <2>4 DEF Slow
<1> QED BY <1>1, <1>4 DEF RInv

LEMMA RRestart ==
    ASSUME RInv, NEW h \in Node, Restart(h)
    PROVE  RInv'
<1> DEFINE idle == [t \in Transmitter |-> Idle]
<1>1. Slow({}, <<>>, idle, transmissions[h])
      BY DEF Slow, SlowTransmitter, Held, Idle
<1> QED BY <1>1 DEF RInv, Restart

LEMMA RNext == RInv /\ [BNext]_bvars => RInv'
<1> SUFFICES ASSUME RInv, [BNext]_bvars PROVE RInv'
    OBVIOUS
<1>1. CASE UNCHANGED bvars
      BY <1>1 DEF bvars, RInv
<1>2. ASSUME NEW h \in Node, NEW t \in Transmitter,
             Collect(h, t) \/ Prune(h, t) \/ Emit(h, t) \/ Decrement(h, t)
      PROVE  RInv'
      BY <1>2, RCollect, RPrune, REmit, RDecrement
<1>3. ASSUME NEW h \in Node, BroadcastBytes(h)
      PROVE  RInv'
  <2> DEFINE b == [origin |-> h, index |-> indexCounter[h], payload |-> Len(issued) + 1,
                   since |-> transmissions[h]]
  <2>1. b.since = transmissions[h]
        OBVIOUS
  <2>2. Put(h, b) /\ UNCHANGED <<transmitters, transmissions, crashes>>
        BY <1>3 DEF BroadcastBytes
  <2> HIDE DEF b
  <2> QED BY <2>1, <2>2, RPut
<1>4. ASSUME NEW h \in Node, NEW m \in network, ReceiveBroadcast(h, m)
      PROVE  RInv'
  <2> DEFINE b == [origin |-> m.origin, index |-> m.index, payload |-> m.payload,
                   since |-> transmissions[h]]
  <2>1. b.since = transmissions[h]
        OBVIOUS
  <2>2. /\ UNCHANGED <<broadcasts, emitCounter>> \/ Put(h, b)
        /\ UNCHANGED <<transmitters, transmissions, crashes>>
        BY <1>4 DEF ReceiveBroadcast
  <2> HIDE DEF b
  <2>3. CASE UNCHANGED <<broadcasts, emitCounter>>
        BY <2>2, <2>3 DEF RInv
  <2>4. CASE Put(h, b)
        BY <2>1, <2>2, <2>4, RPut
  <2> QED BY <2>2, <2>3, <2>4
<1>5. ASSUME NEW h \in Node, Restart(h)
      PROVE  RInv'
      BY <1>5, RRestart
<1> QED BY <1>1, <1>2, <1>3, <1>4, <1>5 DEF BNext

\* An object that getBroadcastToEmit finds used up has been there long enough.
LEMMA UsedUp ==
    ASSUME RInv, NEW h \in Node, NEW t \in Transmitter,
           NEW c \in transmitters[h][t].objects,
           ~(emitCounter[h][c] > broadcastRemoveValue)
    PROVE  transmissions[h] - c.since >= EmitCount + Retention
<1>1. c \in Held(transmitters[h])
      BY HeldBy, Zenon DEF RInv
<1>2. /\ c.since \in Nat
      /\ emitCounter[h][c] \in Int
      /\ emitCounter[h][c] >= EmitCount - (transmissions[h] - c.since)
      /\ transmissions[h] \in Nat
  <2>1. Slow(broadcasts[h], emitCounter[h], transmitters[h], transmissions[h])
        BY DEF RInv
  <2>2. c \in DOMAIN emitCounter[h] /\ transmissions[h] \in Nat
        BY <1>1, <2>1 DEF Slow, RInv
  <2>3. SlowObject(c, emitCounter[h][c], transmissions[h])
        BY <2>1, <2>2 DEF Slow
  <2> QED BY <2>2, <2>3 DEF SlowObject
<1>3. emitCounter[h][c] <= -Retention
      BY <1>2, CounterAssumption DEF broadcastRemoveValue
<1> QED BY <1>2, <1>3, CounterAssumption

-----------------------------------------------------------------------------
\* No host forgets a broadcast before it has transmitted EmitCount + Retention
\* times, for any number of goroutines that transmit at once.
THEOREM Retained == BSpec => RetainedLongEnough
<1>1. RInv /\ [BNext]_bvars => [LeavesAfterRetention]_bvars
  <2> SUFFICES ASSUME RInv, BNext, NEW h \in Node, NEW b \in broadcasts[h],
                      \A c \in broadcasts'[h] : Label(c) # Label(b), crashes' = crashes
               PROVE  \E c \in broadcasts[h] \cup Held(transmitters[h]) :
                         /\ Label(c) = Label(b)
                         /\ transmissions[h] - c.since >= EmitCount + Retention
      BY DEF LeavesAfterRetention
  <2>1. b \notin broadcasts'[h]
        OBVIOUS
  <2>2. ASSUME NEW k \in Node, NEW c, Put(k, c)
        PROVE  FALSE
        BY <2>1, <2>2 DEF Put, RInv
  <2>3. ASSUME NEW k \in Node,
               \/ \E t \in Transmitter : Collect(k, t) \/ Emit(k, t) \/ Decrement(k, t)
               \/ BroadcastBytes(k)
               \/ \E m \in network : ReceiveBroadcast(k, m)
        PROVE  FALSE
        BY <2>1, <2>2, <2>3, Zenon
           DEF Collect, Emit, Decrement, BroadcastBytes, ReceiveBroadcast
  <2>4. ASSUME NEW k \in Node, Restart(k)
        PROVE  FALSE
    <3>1. crashes < MaxCrashes /\ crashes' = crashes + 1
          BY <2>4 DEF Restart
    <3> QED BY <3>1 DEF RInv
  <2>5. PICK t \in Transmitter : Prune(h, t)
    <3>1. PICK k \in Node, t \in Transmitter : Prune(k, t)
          BY <2>3, <2>4 DEF BNext
    <3>2. k = h
          BY <2>1, <3>1 DEF Prune, RInv
    <3> QED BY <3>1, <3>2
  <2>6. PICK c \in transmitters[h][t].objects :
               Label(c) = Label(b) /\ ~(emitCounter[h][c] > broadcastRemoveValue)
        BY <2>1, <2>5 DEF Prune, RInv
  <2>7. c \in Held(transmitters[h])
        BY <2>6, HeldBy, Zenon DEF RInv
  <2>8. transmissions[h] - c.since >= EmitCount + Retention
        BY <2>6, UsedUp
  <2> QED BY <2>6, <2>7, <2>8
<1> QED BY <1>1, RInit, RNext, PTL DEF BSpec, RetainedLongEnough

-----------------------------------------------------------------------------
(* Labels, and the implementation of BroadcastOnce.  Both rest on what is the  *)
(* same for every copy of a broadcast: wherever one is found, in a map, in the *)
(* hands of a goroutine or in a message, it has the label that the call that   *)
(* made its payload gave it.                                                   *)

\* Copy b carries the label that the call of its payload gave it.
Genuine(b, s) == b.payload \in 1 .. Len(s) /\ s[b.payload] = Label(b)

\* The labels of calls are different and below the counters of their origins.
Fresh(s, counters) ==
    /\ \A p \in 1 .. Len(s) : s[p][2] < counters[s[p][1]]
    /\ \A p, q \in 1 .. Len(s) : s[p] = s[q] => p = q

GInv ==
    /\ issued \in Seq(Node \X Nat)
    /\ Len(issued) <= MaxBroadcasts
    /\ indexCounter \in [Node -> Nat \ {0}]
    /\ \A h \in Node : indexCounter[h] <= Len(issued) + 1
    /\ \A h \in Node : \A b \in broadcasts[h] : Genuine(b, issued)
    /\ \A h \in Node : \A t \in Transmitter :
          \A b \in transmitters[h][t].objects : Genuine(b, issued)
    /\ \A m \in network : Genuine(m, issued)
    /\ crashes = 0 => Fresh(issued, indexCounter)

LEMMA GInit == BInit => GInv
BY BroadcastBoundAssumption DEF BInit, GInv, Idle, Fresh

\* A further call leaves the labels of the earlier ones.
LEMMA StillGenuine ==
    ASSUME NEW s \in Seq(Node \X Nat), NEW x \in Node \X Nat, NEW b, Genuine(b, s)
    PROVE  Genuine(b, Append(s, x))
BY DEF Genuine

\* The call of member h with index n: its label is new, and its counter moves on.
LEMMA StillFresh ==
    ASSUME NEW s \in Seq(Node \X Nat), NEW c \in [Node -> Nat \ {0}], NEW h \in Node,
           Fresh(s, c)
    PROVE  Fresh(Append(s, <<h, c[h]>>), [c EXCEPT ![h] = @ + 1])
<1> DEFINE r == Append(s, <<h, c[h]>>)
           d == [c EXCEPT ![h] = @ + 1]
<1>1. /\ Len(r) = Len(s) + 1 /\ Len(s) \in Nat
      /\ r[Len(s) + 1] = <<h, c[h]>>
      /\ \A p \in 1 .. Len(s) : r[p] = s[p] /\ s[p] \in Node \X Nat
      BY <<h, c[h]>> \in Node \X Nat
<1>2. \A k \in Node : d[k] = IF k = h THEN c[k] + 1 ELSE c[k]
      OBVIOUS
<1>3. \A k \in Node : c[k] \in Nat
      OBVIOUS
<1> HIDE DEF r, d
<1>4. \A p \in 1 .. Len(r) : p \in 1 .. Len(s) \/ p = Len(s) + 1
      BY <1>1
<1>5. ASSUME NEW p \in 1 .. Len(s)
      PROVE  /\ r[p][2] < d[r[p][1]]
             /\ r[p] # <<h, c[h]>>
  <2>1. /\ r[p] = s[p] /\ s[p][1] \in Node /\ s[p][2] \in Nat
        /\ s[p][2] < c[s[p][1]]
        BY <1>1, <1>5 DEF Fresh
  <2>2. c[s[p][1]] <= d[s[p][1]] /\ d[s[p][1]] \in Nat
        BY <1>2, <1>3, <2>1, SMTT(30)
  <2> QED BY <1>3, <2>1, <2>2
<1>6. r[Len(s) + 1][2] < d[r[Len(s) + 1][1]]
      BY <1>1, <1>2, <1>3
<1>7. \A p \in 1 .. Len(r) : r[p][2] < d[r[p][1]]
      BY <1>4, <1>5, <1>6
<1>8. ASSUME NEW p \in 1 .. Len(r), NEW q \in 1 .. Len(r), r[p] = r[q]
      PROVE  p = q
  <2>1. CASE p \in 1 .. Len(s) /\ q \in 1 .. Len(s)
        BY <1>1, <1>8, <2>1 DEF Fresh
  <2>2. CASE p = Len(s) + 1 \/ q = Len(s) + 1
        BY <1>1, <1>4, <1>5, <1>8, <2>2, Zenon
  <2> QED BY <1>4, <2>1, <2>2
<1>9. Fresh(r, d)
      BY <1>7, <1>8 DEF Fresh
<1> QED BY <1>9 DEF r, d

\* A goroutine of host h that takes objects the host has, and broadcasts dropped,
\* leave the copies genuine.
LEMMA GQuiet ==
    ASSUME GInv, RInv, NEW h \in Node, NEW t \in Transmitter, NEW g,
           \A k \in Node : broadcasts'[k] \subseteq broadcasts[k],
           \A b \in g.objects : Genuine(b, issued),
           transmitters' = [transmitters EXCEPT ![h][t] = g],
           \A m \in network' : Genuine(m, issued),
           UNCHANGED <<issued, indexCounter, crashes>>
    PROVE  GInv'
<1>1. ASSUME NEW k \in Node, NEW u \in Transmitter, NEW b \in transmitters'[k][u].objects
      PROVE  Genuine(b, issued)
  <2>1. transmitters'[k][u] = IF k = h /\ u = t THEN g ELSE transmitters[k][u]
        BY DEF RInv
  <2> QED BY <1>1, <2>1 DEF GInv
<1>2. \A k \in Node : \A b \in broadcasts'[k] : Genuine(b, issued)
      BY DEF GInv
<1> QED BY <1>1, <1>2 DEF GInv

\* A transmission adds nothing to the maps.
LEMMA Shrinks ==
    ASSUME RInv, NEW h \in Node, NEW t \in Transmitter,
           Collect(h, t) \/ Prune(h, t) \/ Emit(h, t) \/ Decrement(h, t)
    PROVE  \A k \in Node : broadcasts'[k] \subseteq broadcasts[k]
<1>1. DOMAIN broadcasts = Node
      BY Zenon DEF RInv
<1>2. CASE Prune(h, t)
  <2> DEFINE values == transmitters[h][t].objects
             kept == {b \in values : emitCounter[h][b] > broadcastRemoveValue}
             bs == {b \in broadcasts[h] : Label(b) \notin {Label(c) : c \in values \ kept}}
  <2>1. broadcasts' = [broadcasts EXCEPT ![h] = bs]
        BY <1>2, Zenon DEF Prune
  <2>2. bs \subseteq broadcasts[h]
        BY Zenon
  <2> HIDE DEF bs
  <2> QED BY <1>1, <2>1, <2>2, SMTT(30)
<1>3. CASE Collect(h, t) \/ Emit(h, t) \/ Decrement(h, t)
      BY <1>3, Zenon DEF Collect, Emit, Decrement
<1> QED BY <1>2, <1>3

\* A goroutine that prunes keeps none but objects that it has.
LEMMA PrunedMove ==
    ASSUME NEW h \in Node, NEW t \in Transmitter, Prune(h, t)
    PROVE  \E g : /\ transmitters' = [transmitters EXCEPT ![h][t] = g]
                  /\ g.objects \subseteq transmitters[h][t].objects
<1>1. \/ transmitters' = [transmitters EXCEPT ![h][t] = Idle]
      \/ \E b \in transmitters[h][t].objects :
            transmitters' = [transmitters EXCEPT ![h][t] = Picked(b)]
      BY Zenon DEF Prune
<1>2. Idle.objects = {} /\ \A b : Picked(b).objects = {b}
      BY DEF Idle, Picked
<1>3. CASE transmitters' = [transmitters EXCEPT ![h][t] = Idle]
  <2>1. Idle.objects \subseteq transmitters[h][t].objects
        BY <1>2, Zenon
  <2> QED BY <1>3, <2>1, Zenon
<1>4. ASSUME NEW b \in transmitters[h][t].objects,
             transmitters' = [transmitters EXCEPT ![h][t] = Picked(b)]
      PROVE  \E g : /\ transmitters' = [transmitters EXCEPT ![h][t] = g]
                    /\ g.objects \subseteq transmitters[h][t].objects
  <2>1. Picked(b).objects \subseteq transmitters[h][t].objects
        BY <1>2, Zenon
  <2> QED BY <1>4, <2>1, Zenon
<1> QED BY <1>1, <1>3, <1>4, Zenon

LEMMA GTransmit ==
    ASSUME GInv, RInv, NEW h \in Node, NEW t \in Transmitter,
           Collect(h, t) \/ Prune(h, t) \/ Emit(h, t) \/ Decrement(h, t)
    PROVE  GInv'
<1>1. \A k \in Node : broadcasts'[k] \subseteq broadcasts[k]
      BY Shrinks
<1>2. CASE Collect(h, t)
  <2> DEFINE g == Collected(broadcasts[h])
  <2>1. \A b \in g.objects : Genuine(b, issued)
        BY DEF GInv, Collected
  <2>2. /\ transmitters' = [transmitters EXCEPT ![h][t] = g]
        /\ UNCHANGED <<broadcasts, network, issued, indexCounter, crashes>>
        BY <1>2 DEF Collect
  <2> HIDE DEF g
  <2>3. \A m \in network' : Genuine(m, issued)
        BY <2>2 DEF GInv
  <2> QED BY <1>1, <2>1, <2>2, <2>3, GQuiet, ZenonT(60)
<1>3. CASE Prune(h, t)
  <2>1. PICK g : /\ transmitters' = [transmitters EXCEPT ![h][t] = g]
                 /\ g.objects \subseteq transmitters[h][t].objects
    <3> QED BY <1>3, PrunedMove, Zenon
  <2>2. \A b \in g.objects : Genuine(b, issued)
        BY <2>1, Zenon DEF GInv
  <2>3. UNCHANGED <<network, issued, indexCounter, crashes>>
        BY <1>3 DEF Prune
  <2>4. \A m \in network' : Genuine(m, issued)
        BY <2>3 DEF GInv
  <2> QED BY <1>1, <2>1, <2>2, <2>3, <2>4, GQuiet, ZenonT(60)
<1>4. CASE Emit(h, t)
  <2> DEFINE b == transmitters[h][t].object
             g == Loaded(b, emitCounter[h][b])
  <2>1. /\ transmitters[h][t].stage = "picked"
        /\ transmitters' = [transmitters EXCEPT ![h][t] = g]
        /\ UNCHANGED <<broadcasts, issued, indexCounter, crashes>>
        BY <1>4 DEF Emit
  <2>2. transmitters[h][t].objects = {b}
        BY <2>1 DEF RInv, Slow, SlowTransmitter
  <2>3. Genuine(b, issued)
        BY <2>2, Zenon DEF GInv
  <2>4. g.objects = {b}
        BY DEF Loaded
  <2>5. ASSUME NEW m \in network'
        PROVE  Genuine(m, issued)
    <3>1. CASE m \in network
          BY <3>1 DEF GInv
    <3>2. CASE m \notin network
      <4>1. PICK to \in Node : m = [to |-> to, origin |-> b.origin, index |-> b.index,
                                    payload |-> b.payload]
            BY <1>4, <2>5, <3>2 DEF Emit
      <4>2. m.payload = b.payload /\ Label(m) = Label(b)
            BY <4>1, Zenon DEF Label
      <4> QED BY <2>3, <4>2, Zenon DEF Genuine
    <3> QED BY <3>1, <3>2
  <2>6. \A c \in g.objects : Genuine(c, issued)
        BY <2>3, <2>4
  <2> HIDE DEF g
  <2> QED BY <1>1, <2>1, <2>5, <2>6, GQuiet, ZenonT(60)
<1>5. CASE Decrement(h, t)
  <2>1. /\ transmitters' = [transmitters EXCEPT ![h][t] = Idle]
        /\ UNCHANGED <<broadcasts, network, issued, indexCounter, crashes>>
        BY <1>5 DEF Decrement
  <2>2. \A b \in Idle.objects : Genuine(b, issued)
        BY DEF Idle
  <2>3. \A m \in network' : Genuine(m, issued)
        BY <2>1 DEF GInv
  <2> QED BY <1>1, <2>1, <2>2, <2>3, GQuiet, Zenon
<1> QED BY <1>2, <1>3, <1>4, <1>5, Zenon

LEMMA GCall ==
    ASSUME GInv, RInv, NEW h \in Node, BroadcastBytes(h)
    PROVE  GInv'
<1> DEFINE x == <<h, indexCounter[h]>>
           b == [origin |-> h, index |-> indexCounter[h], payload |-> Len(issued) + 1,
                 since |-> transmissions[h]]
<1>1. /\ Len(issued) < MaxBroadcasts
      /\ issued' = Append(issued, x)
      /\ Put(h, b)
      /\ indexCounter' = [indexCounter EXCEPT ![h] = @ + 1]
      /\ UNCHANGED <<transmitters, network, crashes>>
      BY DEF BroadcastBytes
<1>2. /\ issued \in Seq(Node \X Nat) /\ x \in Node \X Nat
      /\ indexCounter \in [Node -> Nat \ {0}]
      /\ MaxBroadcasts \in Nat
      BY BroadcastBoundAssumption DEF GInv
<1>3. /\ issued' \in Seq(Node \X Nat)
      /\ Len(issued') = Len(issued) + 1 /\ Len(issued) \in Nat
      /\ Len(issued') <= MaxBroadcasts
      BY <1>1, <1>2
<1>4. \A c : Genuine(c, issued) => Genuine(c, issued')
      BY <1>1, <1>2, StillGenuine, ZenonT(60)
<1>5. Genuine(b, issued')
      BY <1>1, <1>2, <1>3, SMTT(30) DEF Genuine, Label
<1>6. \A k \in Node : \A c \in broadcasts'[k] : c = b \/ c \in broadcasts[k]
      BY <1>1 DEF Put, RInv
<1> HIDE DEF b
<1>7. \A k \in Node : \A c \in broadcasts'[k] : Genuine(c, issued')
      BY <1>4, <1>5, <1>6 DEF GInv
<1>8. /\ indexCounter' \in [Node -> Nat \ {0}]
      /\ \A k \in Node : indexCounter'[k] <= Len(issued') + 1
  <2>1. \A k \in Node : /\ indexCounter[k] \in Nat \ {0}
                        /\ indexCounter[k] <= Len(issued) + 1
        BY <1>2 DEF GInv
  <2> QED BY <1>1, <1>2, <1>3, <2>1
<1>9. crashes' = 0 => Fresh(issued', indexCounter')
      BY <1>1, <1>2, StillFresh, Zenon DEF GInv
<1>10. /\ \A m \in network' : Genuine(m, issued')
       /\ \A k \in Node : \A t \in Transmitter :
             \A c \in transmitters'[k][t].objects : Genuine(c, issued')
       BY <1>1, <1>4, Zenon DEF GInv
<1> QED BY <1>3, <1>7, <1>8, <1>9, <1>10 DEF GInv

LEMMA GReceive ==
    ASSUME GInv, RInv, NEW h \in Node, NEW m \in network, ReceiveBroadcast(h, m)
    PROVE  GInv'
<1> DEFINE b == [origin |-> m.origin, index |-> m.index, payload |-> m.payload,
                 since |-> transmissions[h]]
<1>1. /\ network' \subseteq network
      /\ broadcasts' = broadcasts \/ Put(h, b)
      /\ UNCHANGED <<transmitters, crashes, issued, indexCounter>>
      BY DEF ReceiveBroadcast
<1>2. Genuine(m, issued)
      BY DEF GInv
<1>3. Genuine(b, issued)
      BY <1>2, Zenon DEF Genuine, Label
<1>4. \A k \in Node : \A c \in broadcasts'[k] : c = b \/ c \in broadcasts[k]
  <2> DEFINE bs == {c \in broadcasts[h] : Label(c) # Label(b)} \cup {b}
  <2>1. DOMAIN broadcasts = Node
        BY Zenon DEF RInv
  <2>2. broadcasts' = broadcasts \/ broadcasts' = [broadcasts EXCEPT ![h] = bs]
        BY <1>1, Zenon DEF Put
  <2>3. \A c \in bs : c = b \/ c \in broadcasts[h]
        BY Zenon
  <2> HIDE DEF bs
  <2> QED BY <2>1, <2>2, <2>3
<1> HIDE DEF b
<1>5. \A k \in Node : \A c \in broadcasts'[k] : Genuine(c, issued)
      BY <1>3, <1>4, Zenon DEF GInv
<1> QED BY <1>1, <1>5 DEF GInv

LEMMA GRestart ==
    ASSUME GInv, RInv, NEW h \in Node, Restart(h)
    PROVE  GInv'
<1>1. /\ crashes' # 0
      /\ indexCounter' = [indexCounter EXCEPT ![h] = 1]
      /\ broadcasts' = [broadcasts EXCEPT ![h] = {}]
      /\ transmitters' = [transmitters EXCEPT ![h] = [t \in Transmitter |-> Idle]]
      /\ UNCHANGED <<network, issued>>
      BY DEF Restart, RInv
<1>2. \A k \in Node : broadcasts'[k] \subseteq broadcasts[k]
      BY <1>1 DEF RInv
<1>3. \A k \in Node : \A t \in Transmitter :
         transmitters'[k][t].objects \subseteq transmitters[k][t].objects
      BY <1>1 DEF RInv, Idle
<1>4. /\ indexCounter' \in [Node -> Nat \ {0}]
      /\ \A k \in Node : indexCounter'[k] <= Len(issued) + 1
  <2>1. Len(issued) \in Nat
        BY DEF GInv
  <2> QED BY <1>1, <2>1 DEF GInv
<1> QED BY <1>1, <1>2, <1>3, <1>4 DEF GInv

LEMMA GNext == GInv /\ RInv /\ [BNext]_bvars => GInv'
<1> SUFFICES ASSUME GInv, RInv, [BNext]_bvars
             PROVE  GInv'
    OBVIOUS
<1>1. CASE UNCHANGED bvars
      BY <1>1 DEF GInv, bvars
<1>2. CASE BNext
      BY <1>2, GTransmit, GCall, GReceive, GRestart DEF BNext
<1> QED BY <1>1, <1>2

\* Labels: no two calls of a host that has not restarted use one index, and however
\* a broadcast is relayed it keeps its label, so that receiveBroadcast never takes
\* one broadcast for another.
THEOREM LabelsAreUnique == BSpec => []LabelsAgreeUntilRestart
<1>1. GInv => LabelsAgreeUntilRestart
  <2> SUFFICES ASSUME GInv, crashes = 0, NEW b \in Copies, NEW c \in Copies,
                      Label(b) = Label(c)
               PROVE  b.payload = c.payload
      BY DEF LabelsAgreeUntilRestart, LabelsAgree
  <2>1. ASSUME NEW x, x \in Copies
        PROVE  Genuine(x, issued)
    <3>1. x \in network \/ x \in UNION {broadcasts[h] : h \in Node}
          BY <2>1 DEF Copies
    <3>2. x \in network \/ \E h \in Node : x \in broadcasts[h]
          BY <3>1
    <3> QED BY <3>2 DEF GInv
  <2>2. /\ b.payload \in 1 .. Len(issued) /\ c.payload \in 1 .. Len(issued)
        /\ issued[b.payload] = issued[c.payload]
        BY <2>1 DEF Genuine
  <2> QED BY <2>2, Zenon DEF GInv, Fresh
<1> QED BY <1>1, RInit, RNext, GInit, GNext, PTL DEF BSpec

-----------------------------------------------------------------------------
(* History *)

\* The objects are among those noted in gs, with the time since when they are there.
Noted(objects, gs) == \A c \in objects : <<Label(c), c.since>> \in gs

\* The history variable gets has every object that a host has, also one that only a
\* goroutine still holds.
HInv ==
    /\ gets \in [Node -> SUBSET ((Node \X Nat) \X Nat)]
    /\ \A h \in Node : Noted(broadcasts[h], gets[h])
    /\ \A h \in Node : \A t \in Transmitter : Noted(transmitters[h][t].objects, gets[h])

LEMMA HInit == BInit => HInv
BY DEF BInit, HInv, Noted, Idle

LEMMA HTransmit ==
    ASSUME HInv, RInv, NEW h \in Node, NEW t \in Transmitter,
           Collect(h, t) \/ Prune(h, t) \/ Emit(h, t) \/ Decrement(h, t)
    PROVE  HInv'
<1>1. UNCHANGED gets
      BY Zenon DEF Collect, Prune, Emit, Decrement
<1>2. PICK g : /\ transmitters' = [transmitters EXCEPT ![h][t] = g]
               /\ g.objects \subseteq broadcasts[h] \cup transmitters[h][t].objects
  <2>1. /\ Idle.objects = {} /\ Collected(broadcasts[h]).objects = broadcasts[h]
        /\ \A b : Picked(b).objects = {b}
        /\ \A b, v : Loaded(b, v).objects = {b}
        BY DEF Idle, Collected, Picked, Loaded
  <2>2. CASE Collect(h, t)
        BY <2>1, <2>2, Zenon DEF Collect
  <2>3. CASE Prune(h, t)
        BY <2>3, PrunedMove, Zenon
  <2>4. CASE Emit(h, t)
    <3> DEFINE b == transmitters[h][t].object
               g == Loaded(b, emitCounter[h][b])
    <3>1. /\ transmitters[h][t].stage = "picked"
          /\ transmitters' = [transmitters EXCEPT ![h][t] = g]
          BY <2>4, Zenon DEF Emit
    <3>2. transmitters[h][t].objects = {b}
          BY <3>1 DEF RInv, Slow, SlowTransmitter
    <3>3. g.objects = {b}
          BY <2>1, Zenon
    <3>4. g.objects \subseteq broadcasts[h] \cup transmitters[h][t].objects
          BY <3>2, <3>3, Zenon
    <3> HIDE DEF g
    <3> QED BY <3>1, <3>4, Zenon
  <2>5. CASE Decrement(h, t)
        BY <2>1, <2>5, Zenon DEF Decrement
  <2> QED BY <2>2, <2>3, <2>4, <2>5, Zenon
<1>3. ASSUME NEW k \in Node, NEW u \in Transmitter
      PROVE  Noted(transmitters'[k][u].objects, gets[k])
  <2>1. transmitters'[k][u] = IF k = h /\ u = t THEN g ELSE transmitters[k][u]
        BY <1>2 DEF RInv
  <2> QED BY <1>2, <2>1 DEF HInv, Noted
<1>4. \A k \in Node : Noted(broadcasts'[k], gets[k])
      BY Shrinks DEF HInv, Noted
<1> QED BY <1>1, <1>3, <1>4 DEF HInv

LEMMA HPut ==
    ASSUME HInv, RInv, NEW h \in Node, NEW b, b.since = transmissions[h],
           Label(b) \in Node \X Nat, Put(h, b), UNCHANGED transmitters
    PROVE  HInv'
<1> DEFINE bs == {c \in broadcasts[h] : Label(c) # Label(b)} \cup {b}
           new == <<Label(b), transmissions[h]>>
<1>1. /\ broadcasts' = [broadcasts EXCEPT ![h] = bs]
      /\ gets' = [gets EXCEPT ![h] = gets[h] \cup {new}]
      BY DEF Put
<1>2. bs \subseteq broadcasts[h] \cup {b}
      OBVIOUS
<1>3. new \in (Node \X Nat) \X Nat
  <2>1. transmissions[h] \in Nat
        BY DEF RInv
  <2> QED BY <2>1
<1>4. <<Label(b), b.since>> = new
      OBVIOUS
<1> HIDE DEF bs, new
<1>5. gets' \in [Node -> SUBSET ((Node \X Nat) \X Nat)]
      BY <1>1, <1>3 DEF HInv
<1>6. /\ \A k \in Node : gets[k] \subseteq gets'[k]
      /\ new \in gets'[h]
      BY <1>1 DEF HInv
<1>7. \A k \in Node : broadcasts'[k] \subseteq IF k = h THEN broadcasts[h] \cup {b}
                                                        ELSE broadcasts[k]
      BY <1>1, <1>2 DEF RInv
<1>8. \A k \in Node : Noted(broadcasts'[k], gets'[k])
      BY <1>4, <1>6, <1>7 DEF HInv, Noted
<1>9. \A k \in Node : \A t \in Transmitter : Noted(transmitters'[k][t].objects, gets'[k])
      BY <1>6 DEF HInv, Noted
<1> QED BY <1>5, <1>8, <1>9 DEF HInv

LEMMA HNext == HInv /\ RInv /\ GInv /\ [BNext]_bvars => HInv'
<1> SUFFICES ASSUME HInv, RInv, GInv, [BNext]_bvars PROVE HInv'
    OBVIOUS
<1>1. CASE UNCHANGED bvars
      BY <1>1 DEF bvars, HInv
<1>2. ASSUME NEW h \in Node, BroadcastBytes(h)
      PROVE  HInv'
  <2> DEFINE b == [origin |-> h, index |-> indexCounter[h], payload |-> Len(issued) + 1,
                   since |-> transmissions[h]]
  <2>1. b.since = transmissions[h] /\ Label(b) \in Node \X Nat
        BY DEF Label, GInv
  <2>2. Put(h, b) /\ UNCHANGED transmitters
        BY <1>2 DEF BroadcastBytes
  <2> HIDE DEF b
  <2> QED BY <2>1, <2>2, HPut
<1>3. ASSUME NEW h \in Node, NEW m \in network, ReceiveBroadcast(h, m)
      PROVE  HInv'
  <2> DEFINE b == [origin |-> m.origin, index |-> m.index, payload |-> m.payload,
                   since |-> transmissions[h]]
  <2>1. b.since = transmissions[h] /\ Label(b) = Label(m)
        BY DEF Label
  <2>2. Label(m) \in Node \X Nat
    <3>1. Genuine(m, issued) /\ issued \in Seq(Node \X Nat)
          BY DEF GInv
    <3> QED BY <3>1 DEF Genuine
  <2>3. /\ UNCHANGED <<broadcasts, gets>> \/ Put(h, b)
        /\ UNCHANGED transmitters
        BY <1>3 DEF ReceiveBroadcast
  <2> HIDE DEF b
  <2>4. CASE UNCHANGED <<broadcasts, gets>>
        BY <2>3, <2>4 DEF HInv
  <2>5. CASE Put(h, b)
        BY <2>1, <2>2, <2>3, <2>5, HPut
  <2> QED BY <2>3, <2>4, <2>5
<1>4. ASSUME NEW h \in Node, Restart(h)
      PROVE  HInv'
      BY <1>4, SMTT(30) DEF Restart, HInv, RInv, Noted, Idle
<1> QED BY <1>1, <1>2, <1>3, <1>4, HTransmit DEF BNext

-----------------------------------------------------------------------------
(* Refinement *)

\* The labels that the hosts remember, as the refinement mapping has them.
Remembered == [h \in Node |-> {Label(b) : b \in broadcasts[h]}]

\* The abstract state does not change when the map of broadcasts and the history do
\* not.
LEMMA Stutter ==
    ASSUME UNCHANGED <<broadcasts, issued, transmissions, gets, delivered>>
    PROVE  UNCHANGED Promise!once
BY DEF Promise!once

\* What host h remembers once its broadcasts are bs.
LEMMA RememberedBy ==
    ASSUME RInv, NEW h \in Node, NEW bs, broadcasts' = [broadcasts EXCEPT ![h] = bs]
    PROVE  Remembered' = [Remembered EXCEPT ![h] = {Label(b) : b \in bs}]
<1>1. \A k \in Node : broadcasts'[k] = IF k = h THEN bs ELSE broadcasts[k]
      BY DEF RInv
<1> QED BY <1>1, Zenon DEF Remembered

\* A new object adds its label.
LEMMA RememberedPut ==
    ASSUME RInv, NEW h \in Node, NEW b, Put(h, b)
    PROVE  Remembered' = [Remembered EXCEPT ![h] = @ \cup {Label(b)}]
<1> DEFINE bs == {c \in broadcasts[h] : Label(c) # Label(b)} \cup {b}
<1>1. broadcasts' = [broadcasts EXCEPT ![h] = bs]
      BY DEF Put
<1>2. {Label(c) : c \in bs} = {Label(c) : c \in broadcasts[h]} \cup {Label(b)}
      OBVIOUS
<1> HIDE DEF bs
<1>3. Remembered[h] = {Label(c) : c \in broadcasts[h]}
      BY DEF Remembered
<1>4. Remembered' = [Remembered EXCEPT ![h] = {Label(c) : c \in bs}]
      BY <1>1, RememberedBy, Zenon
<1> QED BY <1>2, <1>3, <1>4, Zenon

LEMMA ImplementsInit == BInit => Promise!OnceInit
BY DEF BInit, Promise!OnceInit, Payload

\* Dropping labels is forgetting, after enough transmissions; the rest of a
\* transmission is a transmission of the host, or cannot be seen.
LEMMA ImplementsTransmit ==
    ASSUME RInv, HInv, NEW h \in Node, NEW t \in Transmitter,
           Collect(h, t) \/ Prune(h, t) \/ Emit(h, t) \/ Decrement(h, t)
    PROVE  Promise!OnceNext \/ UNCHANGED Promise!once
<1>1. CASE Collect(h, t) \/ Emit(h, t)
      BY <1>1, Stutter, Zenon DEF Collect, Emit
<1>2. CASE Decrement(h, t)
  <2>1. /\ transmissions' = [transmissions EXCEPT ![h] = @ + 1]
        /\ UNCHANGED <<broadcasts, issued, gets, delivered>>
        BY <1>2, Zenon DEF Decrement
  <2>2. Promise!Transmission(h)
        BY <2>1, Zenon DEF Promise!Transmission
  <2> QED BY <2>2 DEF Promise!OnceNext
<1>3. CASE Prune(h, t)
  <2> DEFINE values == transmitters[h][t].objects
             kept == {b \in values : emitCounter[h][b] > broadcastRemoveValue}
             dropped == {Label(b) : b \in values \ kept}
             bs == {b \in broadcasts[h] : Label(b) \notin dropped}
  <2>1. /\ broadcasts' = [broadcasts EXCEPT ![h] = bs]
        /\ UNCHANGED <<issued, transmissions, gets, delivered>>
        BY <1>3 DEF Prune
  <2>2. CASE values = kept
    <3>1. bs = broadcasts[h]
          BY <2>2
    <3>2. Remembered' = [Remembered EXCEPT ![h] = {Label(b) : b \in broadcasts[h]}]
          BY <2>1, <3>1, RememberedBy, Zenon
    <3>3. Remembered' = Remembered
          BY <3>2, Zenon DEF Remembered
    <3> QED BY <2>1, <3>3 DEF Promise!once, Remembered
  <2>3. CASE values # kept
    <3> DEFINE labels == {Label(b) : b \in bs}
    <3>1. Remembered' = [Remembered EXCEPT ![h] = labels]
          BY <2>1, RememberedBy, Zenon
    <3>2. labels \in SUBSET Remembered[h]
          BY DEF Remembered
    <3>3. ASSUME NEW label \in Remembered[h] \ labels
          PROVE  Promise!Outlived(h, label)
      <4>1. PICK c \in values : ~(emitCounter[h][c] > broadcastRemoveValue) /\ Label(c) = label
            BY <3>3 DEF Remembered
      <4>2. transmissions[h] - c.since >= EmitCount + Retention
            BY <4>1, UsedUp
      <4>3. <<label, c.since>> \in gets[h]
            BY <4>1 DEF HInv, Noted
      <4> QED BY <4>2, <4>3 DEF Promise!Outlived
    <3> HIDE DEF bs, labels
    <3>4. Promise!Forget(h)
          BY <2>1, <3>1, <3>2, <3>3, Zenon DEF Promise!Forget, Remembered
    <3> QED BY <3>4 DEF Promise!OnceNext
  <2> QED BY <2>2, <2>3, Zenon
<1> QED BY <1>1, <1>2, <1>3, Zenon

LEMMA ImplementsCall ==
    ASSUME RInv, GInv, NEW h \in Node, BroadcastBytes(h)
    PROVE  Promise!OnceNext
<1> DEFINE b == [origin |-> h, index |-> indexCounter[h], payload |-> Len(issued) + 1,
                 since |-> transmissions[h]]
<1>1. /\ Len(issued) < MaxBroadcasts
      /\ issued' = Append(issued, <<h, indexCounter[h]>>)
      /\ Put(h, b)
      /\ UNCHANGED <<transmissions, delivered>>
      BY DEF BroadcastBytes
<1>2. Label(b) = <<h, indexCounter[h]>>
      BY DEF Label
<1> HIDE DEF b
<1>3. Remembered' = [Remembered EXCEPT ![h] = @ \cup {<<h, indexCounter[h]>>}]
      BY <1>1, <1>2, RememberedPut
<1>4. indexCounter[h] \in 1 .. MaxBroadcasts
  <2>1. /\ indexCounter[h] \in Nat \ {0} /\ indexCounter[h] <= Len(issued) + 1
        /\ Len(issued) \in Nat
        BY DEF GInv
  <2> QED BY <1>1, <2>1, BroadcastBoundAssumption
<1>5. Promise!Call(h)
  <2>1. gets' = [gets EXCEPT ![h] = @ \cup {<<<<h, indexCounter[h]>>, transmissions[h]>>}]
        BY <1>1, <1>2 DEF Put
  <2> QED BY <1>1, <1>3, <1>4, <2>1, Zenon DEF Promise!Call, Promise!Remember, Remembered
<1> QED BY <1>5 DEF Promise!OnceNext

LEMMA ImplementsReceive ==
    ASSUME RInv, GInv, NEW h \in Node, NEW m \in network, ReceiveBroadcast(h, m)
    PROVE  Promise!OnceNext \/ UNCHANGED Promise!once
<1> DEFINE b == [origin |-> m.origin, index |-> m.index, payload |-> m.payload,
                 since |-> transmissions[h]]
<1>1. CASE \E c \in broadcasts[h] : Label(c) = Label(m)
      BY <1>1, Stutter DEF ReceiveBroadcast
<1>2. CASE ~ \E c \in broadcasts[h] : Label(c) = Label(m)
  <2>1. /\ Put(h, b)
        /\ delivered' = [delivered EXCEPT ![h][m.payload] = @ + 1]
        /\ UNCHANGED <<issued, transmissions>>
        BY <1>2 DEF ReceiveBroadcast
  <2>2. Label(b) = Label(m)
        BY DEF Label
  <2> HIDE DEF b
  <2>3. /\ m.payload \in 1 .. Len(issued) /\ issued[m.payload] = Label(m)
        /\ m.payload \in 1 .. MaxBroadcasts /\ m.payload <= Len(issued)
    <3>1. Genuine(m, issued) /\ Len(issued) \in Nat /\ Len(issued) <= MaxBroadcasts
          BY DEF GInv
    <3> QED BY <3>1, BroadcastBoundAssumption DEF Genuine
  <2>4. Remembered' = [Remembered EXCEPT ![h] = @ \cup {issued[m.payload]}]
        BY <2>1, <2>2, <2>3, RememberedPut
  <2>5. issued[m.payload] \notin Remembered[h]
        BY <1>2, <2>3 DEF Remembered
  <2>6. gets' = [gets EXCEPT ![h] = @ \cup {<<issued[m.payload], transmissions[h]>>}]
        BY <2>1, <2>2, <2>3 DEF Put
  <2>7. Promise!Deliver(h, m.payload)
        BY <2>1, <2>3, <2>4, <2>5, <2>6
        DEF Promise!Deliver, Promise!Remember, Remembered
  <2> QED BY <2>3, <2>7 DEF Promise!OnceNext
<1> QED BY <1>1, <1>2

LEMMA ImplementsRestart ==
    ASSUME RInv, NEW h \in Node, Restart(h)
    PROVE  Promise!OnceNext
<1>1. /\ broadcasts' = [broadcasts EXCEPT ![h] = {}]
      /\ gets' = [gets EXCEPT ![h] = {}]
      /\ delivered' = [delivered EXCEPT ![h] = [p \in Payload |-> 0]]
      /\ UNCHANGED <<issued, transmissions>>
      BY DEF Restart
<1>2. Remembered' = [Remembered EXCEPT ![h] = {}]
  <2>1. Remembered' = [Remembered EXCEPT ![h] = {Label(b) : b \in {}}]
        BY <1>1, RememberedBy, Zenon
  <2> QED BY <2>1, Zenon
<1>3. Promise!Reset(h)
      BY <1>1, <1>2 DEF Promise!Reset, Remembered, Payload
<1> QED BY <1>3 DEF Promise!OnceNext

\* Broadcast implements BroadcastOnce: the calls, receptions, concurrent
\* transmissions and restarts of broadcast.go deliver a broadcast only to a host that
\* does not remember its label, and forget a label only once the host has transmitted
\* EmitCount + Retention times since it got it, or in a restart.
THEOREM Implements == BSpec => DeliveredAtMostOnce
<1>1. RInv /\ GInv /\ HInv /\ [BNext]_bvars => [Promise!OnceNext]_(Promise!once)
  <2> SUFFICES ASSUME RInv, GInv, HInv, [BNext]_bvars
               PROVE  Promise!OnceNext \/ UNCHANGED Promise!once
      OBVIOUS
  <2>1. CASE UNCHANGED bvars
        BY <2>1, Stutter DEF bvars
  <2>2. CASE BNext
        BY <2>2, ImplementsTransmit, ImplementsCall, ImplementsReceive,
           ImplementsRestart DEF BNext
  <2> QED BY <2>1, <2>2
<1>2. BSpec => []RInv
      BY RInit, RNext, PTL DEF BSpec
<1>3. BSpec => []GInv
      BY <1>2, GInit, GNext, PTL DEF BSpec
<1>4. BSpec => []HInv
      BY <1>2, <1>3, HInit, HNext, PTL DEF BSpec
<1> QED BY <1>1, <1>2, <1>3, <1>4, ImplementsInit, PTL
    DEF BSpec, DeliveredAtMostOnce, Promise!OnceSpec

-----------------------------------------------------------------------------
(* Types *)

\* What a goroutine that transmits may be doing.
TypedTransmitter(g) ==
    \/ g = Idle
    \/ g = Collected(g.objects) /\ g.objects \subseteq Object
    \/ \E b \in Object : g = Picked(b) \/ \E v \in -128 .. 127 : g = Loaded(b, v)

TypedMessage == [to : Node, origin : Node, index : Nat, payload : Payload]

\* The types that RInv, GInv and HInv do not state.
TInv ==
    /\ broadcasts \in [Node -> SUBSET Object]
    /\ \A h \in Node : emitCounter[h] = [b \in DOMAIN emitCounter[h] |-> emitCounter[h][b]]
    /\ \A h \in Node : \A t \in Transmitter : TypedTransmitter(transmitters[h][t])
    /\ network \subseteq TypedMessage
    /\ delivered \in [Node -> [Payload -> Nat]]

\* The counters that are kept form a function.
LEMMA ReachableIsFunction ==
    ASSUME NEW counters, NEW bs, NEW ts
    PROVE  Reachable(counters, bs, ts) =
              [b \in DOMAIN Reachable(counters, bs, ts) |-> Reachable(counters, bs, ts)[b]]
BY DEF Reachable

\* A goroutine that has picked an object holds it and no other.
LEMMA HoldsOne ==
    ASSUME NEW b
    PROVE  Picked(b).objects = {b} /\ \A v : Loaded(b, v).objects = {b}
BY DEF Picked, Loaded

\* A goroutine holds objects.
LEMMA TypedObjects == ASSUME NEW g, TypedTransmitter(g) PROVE g.objects \subseteq Object
<1>1. CASE g = Idle
      BY <1>1 DEF Idle
<1>2. CASE g.objects \subseteq Object
      BY <1>2
<1>3. ASSUME NEW b \in Object, g = Picked(b) \/ \E v \in -128 .. 127 : g = Loaded(b, v)
      PROVE  g.objects = {b}
      BY <1>3, HoldsOne, Zenon
<1> QED BY <1>1, <1>2, <1>3, SMTT(30) DEF TypedTransmitter

\* The goroutines when goroutine t of host h is given state g.
LEMMA TypedMove ==
    ASSUME TInv, RInv, NEW h \in Node, NEW t \in Transmitter, NEW g, TypedTransmitter(g),
           transmitters' = [transmitters EXCEPT ![h][t] = g]
    PROVE  \A k \in Node : \A u \in Transmitter : TypedTransmitter(transmitters'[k][u])
<1> TAKE k \in Node
<1> TAKE u \in Transmitter
<1>1. transmitters'[k][u] = IF k = h /\ u = t THEN g ELSE transmitters[k][u]
      BY DEF RInv
<1> QED BY <1>1 DEF TInv

\* The counters when those of host h become the function f.
LEMMA TypedCounters ==
    ASSUME TInv, RInv, NEW h \in Node, NEW f, f = [b \in DOMAIN f |-> f[b]],
           emitCounter' = [emitCounter EXCEPT ![h] = f]
    PROVE  \A k \in Node :
              emitCounter'[k] = [b \in DOMAIN emitCounter'[k] |-> emitCounter'[k][b]]
<1> TAKE k \in Node
<1>1. emitCounter'[k] = IF k = h THEN f ELSE emitCounter[k]
      BY DEF RInv
<1> QED BY <1>1, ZenonT(60) DEF TInv

LEMMA TInit == BInit => TInv
<1> SUFFICES ASSUME BInit PROVE TInv
    OBVIOUS
<1>1. \A h \in Node : emitCounter[h] = [b \in DOMAIN emitCounter[h] |-> emitCounter[h][b]]
  <2> TAKE h \in Node
  <2>1. emitCounter[h] = <<>> /\ DOMAIN <<>> = {}
        BY DEF BInit
  <2> QED BY <2>1
<1> QED BY <1>1 DEF BInit, TInv, TypedTransmitter

LEMMA TTransmit ==
    ASSUME TInv, RInv, NEW h \in Node, NEW t \in Transmitter,
           Collect(h, t) \/ Prune(h, t) \/ Emit(h, t) \/ Decrement(h, t)
    PROVE  TInv'
<1>1. /\ TypedTransmitter(transmitters[h][t])
      /\ transmitters[h][t].objects \subseteq Object
      /\ broadcasts[h] \subseteq Object
      BY TypedObjects DEF TInv
<1>2. CASE Collect(h, t)
  <2> DEFINE g == Collected(broadcasts[h])
  <2>1. TypedTransmitter(g)
    <3>1. g.objects = broadcasts[h]
          BY DEF Collected
    <3> QED BY <1>1, <3>1, ZenonT(60) DEF TypedTransmitter
  <2>2. /\ transmitters' = [transmitters EXCEPT ![h][t] = g]
        /\ UNCHANGED <<broadcasts, emitCounter, network, delivered>>
        BY <1>2 DEF Collect
  <2> HIDE DEF g
  <2>3. \A k \in Node : \A u \in Transmitter : TypedTransmitter(transmitters'[k][u])
        BY <2>1, <2>2, TypedMove, Zenon
  <2> QED BY <2>2, <2>3 DEF TInv
<1>3. CASE Prune(h, t)
  <2> DEFINE values == transmitters[h][t].objects
             kept == {b \in values : emitCounter[h][b] > broadcastRemoveValue}
             dropped == {Label(b) : b \in values \ kept}
             bs == {b \in broadcasts[h] : Label(b) \notin dropped}
             f == Reachable(emitCounter[h], bs, transmitters'[h])
  <2>1. /\ broadcasts' = [broadcasts EXCEPT ![h] = bs]
        /\ emitCounter' = [emitCounter EXCEPT ![h] = f]
        /\ \/ transmitters' = [transmitters EXCEPT ![h][t] = Idle]
           \/ \E b \in kept : transmitters' = [transmitters EXCEPT ![h][t] = Picked(b)]
        /\ UNCHANGED <<network, delivered>>
        BY <1>3 DEF Prune
  <2>2. bs \subseteq Object /\ kept \subseteq Object
        BY <1>1
  <2>3. f = [b \in DOMAIN f |-> f[b]]
        BY DEF Reachable
  <2> HIDE DEF values, kept, dropped, bs, f
  <2>4. PICK g : /\ transmitters' = [transmitters EXCEPT ![h][t] = g]
                 /\ TypedTransmitter(g)
        BY <2>1, <2>2, ZenonT(60) DEF TypedTransmitter
  <2>5. \A k \in Node : \A u \in Transmitter : TypedTransmitter(transmitters'[k][u])
        BY <2>4, TypedMove, Zenon
  <2>6. \A k \in Node :
           emitCounter'[k] = [b \in DOMAIN emitCounter'[k] |-> emitCounter'[k][b]]
        BY <2>1, <2>3, TypedCounters, ZenonT(60)
  <2>7. broadcasts' \in [Node -> SUBSET Object]
        BY <2>1, <2>2 DEF TInv
  <2> QED BY <2>1, <2>5, <2>6, <2>7, ZenonT(60) DEF TInv
<1>4. CASE Emit(h, t)
  <2> DEFINE b == transmitters[h][t].object
             g == Loaded(b, emitCounter[h][b])
  <2>1. /\ transmitters[h][t].stage = "picked"
        /\ transmitters' = [transmitters EXCEPT ![h][t] = g]
        /\ UNCHANGED <<broadcasts, emitCounter, delivered>>
        BY <1>4 DEF Emit
  <2>2. transmitters[h][t].objects = {b}
        BY <2>1, Zenon DEF RInv, Slow, SlowTransmitter
  <2>3. b \in Object /\ b \in Held(transmitters[h])
        BY <1>1, <2>2, HeldBy, Zenon DEF RInv
  <2>4. emitCounter[h][b] \in -128 .. 127
    <3>1. Slow(broadcasts[h], emitCounter[h], transmitters[h], transmissions[h])
          BY Zenon DEF RInv
    <3> QED BY <2>3, <3>1, ZenonT(60) DEF Slow, SlowObject
  <2>5. TypedTransmitter(g)
        BY <2>3, <2>4, ZenonT(60) DEF TypedTransmitter
  <2>6. network' \subseteq TypedMessage
    <3> SUFFICES ASSUME NEW m \in network', m \notin network PROVE m \in TypedMessage
        BY Zenon DEF TInv
    <3>1. PICK to \in Node : m = [to |-> to, origin |-> b.origin, index |-> b.index,
                                  payload |-> b.payload]
          BY <1>4 DEF Emit
    <3> QED BY <2>3, <3>1, ZenonT(60) DEF Object, TypedMessage
  <2> HIDE DEF g
  <2>7. \A k \in Node : \A u \in Transmitter : TypedTransmitter(transmitters'[k][u])
        BY <2>1, <2>5, TypedMove, Zenon
  <2> QED BY <2>1, <2>6, <2>7 DEF TInv
<1>5. CASE Decrement(h, t)
  <2> DEFINE g == transmitters[h][t]
             f == Reachable([emitCounter[h] EXCEPT ![g.object] = Int8(g.value - 1)],
                            broadcasts[h], transmitters'[h])
  <2>1. /\ transmitters' = [transmitters EXCEPT ![h][t] = Idle]
        /\ emitCounter' = [emitCounter EXCEPT ![h] = f]
        /\ UNCHANGED <<broadcasts, network, delivered>>
        BY <1>5, Zenon DEF Decrement
  <2>2. f = [b \in DOMAIN f |-> f[b]]
        BY ReachableIsFunction
  <2> HIDE DEF f
  <2>3. \A k \in Node :
           emitCounter'[k] = [b \in DOMAIN emitCounter'[k] |-> emitCounter'[k][b]]
        BY <2>1, <2>2, TypedCounters, Zenon
  <2>4. \A k \in Node : \A u \in Transmitter : TypedTransmitter(transmitters'[k][u])
    <3>1. TypedTransmitter(Idle)
          BY DEF TypedTransmitter
    <3> QED BY <2>1, <3>1, TypedMove, ZenonT(60)
  <2> QED BY <2>1, <2>3, <2>4, ZenonT(60) DEF TInv
<1> QED BY <1>2, <1>3, <1>4, <1>5

\* A new object enters the map of host h.
LEMMA TPut ==
    ASSUME TInv, RInv, NEW h \in Node, NEW b \in Object, Put(h, b), UNCHANGED transmitters,
           network' \subseteq TypedMessage, delivered' \in [Node -> [Payload -> Nat]]
    PROVE  TInv'
<1> DEFINE bs == {c \in broadcasts[h] : Label(c) # Label(b)} \cup {b}
           f == [c \in bs \cup Held(transmitters[h]) |->
                    IF c = b THEN Int8(EmitCount) ELSE emitCounter[h][c]]
<1>1. /\ broadcasts' = [broadcasts EXCEPT ![h] = bs]
      /\ emitCounter' = [emitCounter EXCEPT ![h] = f]
      BY DEF Put
<1>2. f = [c \in DOMAIN f |-> f[c]]
      OBVIOUS
<1>3. bs \subseteq Object
      BY DEF TInv
<1> HIDE DEF bs, f
<1>4. \A k \in Node : emitCounter'[k] = [c \in DOMAIN emitCounter'[k] |-> emitCounter'[k][c]]
      BY <1>1, <1>2, TypedCounters, Zenon
<1>5. broadcasts' \in [Node -> SUBSET Object]
      BY <1>1, <1>3 DEF TInv
<1> QED BY <1>4, <1>5, Zenon DEF TInv

LEMMA TCall ==
    ASSUME TInv, RInv, GInv, NEW h \in Node, BroadcastBytes(h)
    PROVE  TInv'
<1> DEFINE b == [origin |-> h, index |-> indexCounter[h], payload |-> Len(issued) + 1,
                 since |-> transmissions[h]]
<1>1. /\ Put(h, b)
      /\ Len(issued) < MaxBroadcasts
      /\ UNCHANGED <<transmitters, network, delivered>>
      BY DEF BroadcastBytes
<1>2. b \in Object
  <2>1. indexCounter[h] \in Nat /\ transmissions[h] \in Nat /\ Len(issued) \in Nat
    <3>1. /\ indexCounter \in [Node -> Nat \ {0}] /\ issued \in Seq(Node \X Nat)
          /\ transmissions \in [Node -> Nat]
          BY Zenon DEF GInv, RInv
    <3> QED BY <3>1, SMTT(30)
  <2>2. Len(issued) + 1 \in Payload
        BY <1>1, <2>1, BroadcastBoundAssumption DEF Payload
  <2> QED BY <2>1, <2>2, Zenon DEF Object
<1> HIDE DEF b
<1> QED BY <1>1, <1>2, TPut, ZenonT(60) DEF TInv

LEMMA TReceive ==
    ASSUME TInv, RInv, NEW h \in Node, NEW m \in network, ReceiveBroadcast(h, m)
    PROVE  TInv'
<1> DEFINE b == [origin |-> m.origin, index |-> m.index, payload |-> m.payload,
                 since |-> transmissions[h]]
<1>1. /\ network' \subseteq network
      /\ UNCHANGED transmitters
      /\ \/ UNCHANGED <<broadcasts, emitCounter, delivered>>
         \/ Put(h, b) /\ delivered' = [delivered EXCEPT ![h][m.payload] = @ + 1]
      BY Zenon DEF ReceiveBroadcast
<1>2. network' \subseteq TypedMessage /\ m \in TypedMessage
      BY <1>1, Zenon DEF TInv
<1>3. CASE UNCHANGED <<broadcasts, emitCounter, delivered>>
      BY <1>1, <1>2, <1>3 DEF TInv
<1>4. CASE Put(h, b) /\ delivered' = [delivered EXCEPT ![h][m.payload] = @ + 1]
  <2>1. b \in Object
    <3>1. transmissions[h] \in Nat
          BY Zenon DEF RInv
    <3> QED BY <1>2, <3>1 DEF TypedMessage, Object
  <2>2. delivered' \in [Node -> [Payload -> Nat]]
    <3>1. m.payload \in Payload
          BY <1>2 DEF TypedMessage
    <3>2. delivered \in [Node -> [Payload -> Nat]]
          BY Zenon DEF TInv
    <3> QED BY <1>4, <3>1, <3>2, SMTT(30)
  <2> HIDE DEF b
  <2> QED BY <1>1, <1>2, <1>4, <2>1, <2>2, TPut, Zenon
<1> QED BY <1>1, <1>3, <1>4

LEMMA TRestart ==
    ASSUME TInv, RInv, NEW h \in Node, Restart(h)
    PROVE  TInv'
<1>1. /\ broadcasts' = [broadcasts EXCEPT ![h] = {}]
      /\ emitCounter' = [emitCounter EXCEPT ![h] = <<>>]
      /\ transmitters' = [transmitters EXCEPT ![h] = [t \in Transmitter |-> Idle]]
      /\ delivered' = [delivered EXCEPT ![h] = [p \in Payload |-> 0]]
      /\ UNCHANGED network
      BY DEF Restart
<1>2. <<>> = [b \in DOMAIN <<>> |-> <<>>[b]]
      OBVIOUS
<1>3. \A k \in Node : emitCounter'[k] = [b \in DOMAIN emitCounter'[k] |-> emitCounter'[k][b]]
      BY <1>1, <1>2, TypedCounters, Zenon
<1>4. \A k \in Node : \A t \in Transmitter : TypedTransmitter(transmitters'[k][t])
  <2> TAKE k \in Node
  <2> TAKE t \in Transmitter
  <2>1. transmitters'[k][t] = IF k = h THEN Idle ELSE transmitters[k][t]
        BY <1>1 DEF RInv
  <2>2. TypedTransmitter(Idle)
        BY Zenon DEF TypedTransmitter
  <2>3. TypedTransmitter(transmitters[k][t])
        BY Zenon DEF TInv
  <2>4. CASE k = h
        BY <2>1, <2>2, <2>4, Zenon
  <2>5. CASE k # h
        BY <2>1, <2>3, <2>5, Zenon
  <2> QED BY <2>4, <2>5, Zenon
<1>5. broadcasts' \in [Node -> SUBSET Object] /\ delivered' \in [Node -> [Payload -> Nat]]
      BY <1>1 DEF TInv
<1> QED BY <1>1, <1>3, <1>4, <1>5, Zenon DEF TInv

LEMMA TNext == TInv /\ RInv /\ GInv /\ [BNext]_bvars => TInv'
<1> SUFFICES ASSUME TInv, RInv, GInv, [BNext]_bvars PROVE TInv'
    OBVIOUS
<1>1. CASE UNCHANGED bvars
      BY <1>1 DEF TInv, bvars
<1>2. CASE BNext
      BY <1>2, TTransmit, TCall, TReceive, TRestart DEF BNext
<1> QED BY <1>1, <1>2

\* The types of broadcast.go's state: in particular a goroutine only ever holds
\* objects that have a counter, and every counter is an int8.
THEOREM BroadcastTypeCorrect == BSpec => []BTypeOK
<1>1. TInv /\ RInv /\ GInv /\ HInv => BTypeOK
  <2> SUFFICES ASSUME TInv, RInv, GInv, HInv PROVE BTypeOK
      BY Zenon
  <2>1. ASSUME NEW h \in Node
        PROVE  /\ Held(transmitters[h]) \subseteq Object
               /\ emitCounter[h] \in [broadcasts[h] \cup Held(transmitters[h]) -> -128 .. 127]
    <3>1. Slow(broadcasts[h], emitCounter[h], transmitters[h], transmissions[h])
          BY Zenon DEF RInv
    <3>2. /\ DOMAIN emitCounter[h] = broadcasts[h] \cup Held(transmitters[h])
          /\ \A b \in DOMAIN emitCounter[h] : emitCounter[h][b] \in -128 .. 127
          BY <3>1 DEF Slow, SlowObject
    <3>3. \A t \in Transmitter : transmitters[h][t].objects \subseteq Object
          BY TypedObjects DEF TInv
    <3>4. Held(transmitters[h]) \subseteq Object
          BY <3>3 DEF Held
    <3>5. emitCounter[h] = [b \in DOMAIN emitCounter[h] |-> emitCounter[h][b]]
          BY ZenonT(60) DEF TInv
    <3> QED BY <3>2, <3>4, <3>5, Zenon
  <2>2. ASSUME NEW h \in Node, NEW t \in Transmitter
        PROVE  \/ transmitters[h][t] = Idle
               \/ transmitters[h][t] = Collected(transmitters[h][t].objects)
               \/ \E b \in Held(transmitters[h]) :
                     \/ transmitters[h][t] = Picked(b)
                     \/ \E v \in -128 .. 127 : transmitters[h][t] = Loaded(b, v)
    <3> DEFINE g == transmitters[h][t]
    <3>1. TypedTransmitter(g) /\ g.objects \subseteq Held(transmitters[h])
          BY HeldBy, ZenonT(60) DEF TInv, RInv
    <3> HIDE DEF g
    <3>2. ASSUME NEW b \in Object, g = Picked(b) \/ \E v \in -128 .. 127 : g = Loaded(b, v)
          PROVE  b \in Held(transmitters[h])
      <4>1. b \in g.objects
            BY <3>2, HoldsOne
      <4> QED BY <3>1, <4>1, Zenon
    <3>3. \/ g = Idle
          \/ g = Collected(g.objects)
          \/ \E b \in Held(transmitters[h]) :
                g = Picked(b) \/ \E v \in -128 .. 127 : g = Loaded(b, v)
          BY <3>1, <3>2 DEF TypedTransmitter
    <3> QED BY <3>3, Zenon DEF g
  <2>3. /\ indexCounter \in [Node -> Nat]
        /\ issued \in Seq(Node \X Nat)
        BY DEF GInv
  <2>4. /\ DOMAIN emitCounter = Node /\ DOMAIN transmitters = Node
        /\ \A h \in Node : DOMAIN transmitters[h] = Transmitter
        /\ transmissions \in [Node -> Nat]
        /\ crashes \in Nat
        BY DEF RInv
  <2>5. /\ broadcasts \in [Node -> SUBSET Object]
        /\ network \subseteq [to : Node, origin : Node, index : Nat, payload : Payload]
        /\ delivered \in [Node -> [Payload -> Nat]]
        BY DEF TInv, TypedMessage
  <2>6. gets \in [Node -> SUBSET ((Node \X Nat) \X Nat)]
        BY Zenon DEF HInv
  <2> QED BY <2>1, <2>2, <2>3, <2>4, <2>5, <2>6, Zenon DEF BTypeOK
<1>2. BSpec => []RInv
      BY RInit, RNext, PTL DEF BSpec
<1>3. BSpec => []GInv
      BY <1>2, GInit, GNext, PTL DEF BSpec
<1>4. BSpec => []TInv
      BY <1>2, <1>3, TInit, TNext, PTL DEF BSpec
<1>5. BSpec => []HInv
      BY <1>2, <1>3, HInit, HNext, PTL DEF BSpec
<1> QED BY <1>1, <1>2, <1>3, <1>4, <1>5, PTL

=============================================================================
