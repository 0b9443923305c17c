# A TLA+ model of smudge

[smudge](../src/README.md) is a Go library that gives a cluster a shared idea of
who its members are. Every host pings the others over UDP, gossips what it
believes about them on top of those messages (the SWIM protocol), and piggybacks
short application broadcasts on the same traffic. There is no coordinator, no
persistent state and little locking: what makes it correct is how counters,
heartbeats and races play together. That is what is modelled here.

## The system and its parts

| Part | Source | Module | State |
|---|---|---|---|
| Failure detection, status gossip | `membership.go`, `messageVerb.go` | `NodeStatus`, `Membership`, `MembershipHistory`, `Detection` | partly: the application's own `PingNode` calls are left out |
| Heartbeat loop, dead-node backoff | `membership.go` (`Begin`), `registry.go`, `nodeMap.go` | `HeartbeatLoop` | modelled |
| Node registry, node maps | `registry.go`, `nodeMap.go`, `node.go` | `Registry` | modelled |
| Broadcasts | `broadcast.go` | `Broadcast`, `BroadcastOnce` | modelled |
| Event listeners, locks | `events.go` and every critical section | `Locking` | modelled |
| Ping statistics | `pingData.go` | `Locking` | partly: who uses them when |
| Wire format | `message.go`, `broadcast.go`, `bytes.go` | `Bytes`, `WireFormat` | modelled |
| Address parsing, multicast, configuration, logging, command line | `registry.go`, `membership.go`, `properties.go`, `log.go`, `smudge/` | – | not modelled, see the end |

The parts meet in two functions. `transmitVerbGenericUDP` builds every message:
it chooses members to mention, asks `getBroadcastToEmit` for a broadcast, encodes
and writes. `receiveMessageUDP` decodes, synchronises the heartbeat, applies the
gossip, hands the broadcast to `receiveBroadcast` and answers according to the
verb. The heartbeat loop of `Begin`, one goroutine per received packet, the
timeout loop and the goroutines it spawns all call them concurrently.

`PROJECT.json` maps every definition to the lines it models, and lists the
hazards of the code with the properties that would catch them.

## The modules

### NodeStatus, Membership, MembershipHistory

`NodeStatus` holds the rules by which a host revises its record of a member:
`updateNodeStatus`; the tests `IsOld` and `IsRecent` of `updateStatusesFromMessage`
and the stores that follow them, `ApplyGossip` and `ApplySender`; `Escalate` (a
timed-out probe); `IsAhead` and `Advanced`, the test and the store that synchronise
heartbeats. `Membership` and `Detection` are both built on it.

In `Membership` every host was started with all members as initial hosts, so that
a member is its address. Variables are the host's globals (`currentHeartbeat`,
`knownNodes`, `pendingAcks`, and `pingMillis`, a field of `Node`), the step of its
heartbeat loop, the goroutines it has spawned, the messages in flight, and the
`handlers`: the goroutines that handle a received message, with the outcome of the
tests they have made.

| Action | Code |
|---|---|
| `LoadHeartbeat`, `StoreHeartbeat` | `currentHeartbeat++` in `Begin`, as the read and the write that it is |
| `PingNode` | `PingNode` with `transmitVerbPingUDP` |
| `ReceiveMessage` | `receiveMessageUDP` up to its tests, in the goroutine that `listenUDP` starts for every packet |
| `ReceivePing`, `ReceiveAck`, `ReceivePingRequest` | the stores of that goroutine, and the handler of the verb |
| `Timeout` | one expired entry in `startTimeoutCheckLoop`, by pack type |
| `DoForwardOnTimeout`, `TransmitForward` | the goroutine `doForwardOnTimeout`, one transmission at a time |
| `TransmitAck` | the spawned `transmitVerbAckUDP` |
| `Begin` | the end of the process and its next start, with empty memory |

The code compares heartbeats and stores statuses without a lock, and
`updateNodeStatus` does not compare again. The tests and the stores of a handler are
therefore steps of their own, and timeouts, the heartbeat loop and, where
`MaxHandlers` allows it, other handlers come in between.

Messages are lost (a send may reach nobody), duplicated (a receipt may leave the
message in flight), delayed and reordered. A timeout may fire at any time, since
its length, a statistic of past response times, promises nothing. Which members
are mentioned is left open: any choice that `getRandomUpdatedNodes` could make is
among the transitions.

`MembershipHistory` adds history variables, so that beliefs can be compared with
what happened: the headers of all messages ever in flight, the pings that went
unanswered, and the handlers that were past their tests when a verdict was given.

### Detection

`Membership` says what may never be believed; `Detection` says what becomes of the
belief in a member that has crashed. Its last messages are still in flight, and the
survivors ping it, ask each other to ping it, time out, accuse it, gossip, forget
it (`Forget`) and hear of it again. A turn of the lost member is `Backoff`, `Ping`
or `Forget`; the exponential backoff is one retry per ping, `HeartbeatLoop` has its
exact form. What a host waits for is counted, `pinging` for PINGs and `awaiting` for
ping requests and requested pings. It ends in a timeout (`PingTimeout`,
`ProbeTimeout`) or without a verdict (`Settle`): an entry of `pendingAcks` is
consumed by any ACK of the asked host with its code, and overwritten by the next
entry with its key. A message is handled in two steps as in `Membership` (`Receive`,
`Store`); a handler keeps the `Node` it has looked up, also if the loop forgets it
in between, and then stores to an object that is not in the registry.

### Registry

The node objects of one host, told apart from addresses, as in the code, whose
maps are keyed by address and whose goroutines hold pointers. A handler stands for
a goroutine that decodes a message (`Decode`), waits for an ack (`AwaitAck`) or
adds a new node (`Create`, then `Contains`, `Enter` of `AddNode`), and steps
through `updateNodeStatus`: `Update` (assignments and the look into
`updatedNodes`), `List`, `Notify`. A transmitter steps through
`transmitVerbGenericUDP`: `Test` (the counters in `getRandomUpdatedNodes`),
`Mention` (its deletions and its choice), `Send`, and the second decrement as
`Load` and `Store`. `emitCount` is the formula of the code, with its values 0, 2
and 3 for one, two and three known nodes. Each object carries a history: the
emissions of its status that are still due, counted when a message has really been
written (`Send`; `FailToSend` is the error of the socket), and whether the
listeners have been told.

### HeartbeatLoop

The loop of `Begin` on one host, in the steps other goroutines can come between:
taking the shuffled list, testing a node's status, counting down its
`deadNodeCounter`, removing it, pinging, testing `knownNodesModifiedFlag`,
resetting it. Meanwhile statuses of peers change and peers are added at any time;
`updateNodeStatus` assigns the status first and deletes the counter later, so
these are two steps (`Learn`, `ClearCounter`).

### Broadcast, BroadcastOnce

Each host has several transmitting goroutines. `Collect` and `Prune` are the two
critical sections of `getBroadcastToEmit`; `Emit` tests and reads the counter of
the chosen object, `Decrement` stores it, an int8. Objects are told apart from
labels, so that a goroutine may delete a label whose object has been replaced.
`BroadcastOnce` is what `BroadcastBytes` promises: a broadcast is given to the
listeners of a host only if the host does not remember its label, and a host that
has not restarted remembers a label until it has transmitted `EmitCount +
Retention` times since it got it. For this `gets` records when a host got which
label. The refinement mapping takes the labels of a host's map for what it
remembers; `Broadcast` is checked, and proved, to implement it.

### Locking

A site is a critical section: `startTimeoutCheckLoop` with `pendingAcks` locked,
the two halves of `receiveVerbAckUDP`, the storing of a pending ack, `pingData`,
the four functions of `events.go`, and the accesses to maps. `Calls` says which
sites are entered while a site's lock is held, `Reads` which use `RLock`. The locks
are `sync.RWMutex`es (external): a writer first becomes the only writer
(`Announce`), which keeps new readers out, then waits for the readers that are
inside (`Acquire`); on unlocking it admits the waiting readers (`Leave`).

What listeners call is a constant, restricted by `ListenerAssumption`: `OnChange`
uses the maps only (`AllNodes`, `HealthyNodes`, `RemoveNode`, `BroadcastBytes`),
`OnBroadcast` anything but `AddBroadcastListener`. The assumption is needed: status
listeners run with `statusListeners` read-locked and often with `pendingAcks`
write-locked, so an `OnChange` that pings, adds a listener or changes a status
would wait for itself.

### Bytes, WireFormat

A message is built, encoded to bytes, read into a buffer and decoded, with the
integers, offsets, the packed verb and count, and the Adler-32 checksum (of the
Go library, hence external). The Go types of the fields are sets (`Byte`,
`Uint16`, `Uint32`, `NodeAddress`, `Member`, `Message`). Nodes stand for
themselves: looking a decoded address up in the registry is not part of the format.

## What is checked

Passing runs (`tlc -config X.cfg M`):

| Run | Shows |
|---|---|
| `membership` (`MCMembershipHistory.cfg`) | No host believes itself suspected or dead (`SelfAlive`); probes involve distinct hosts (`WellFormedProbes`); no heartbeat exceeds the heartbeats made (`NoHeartbeatInflation`); every belief rests on a message or an unanswered ping (`Grounded`); acks answer probes (`AckAnswersProbe`); ping times belong to members that answered (`MeasuredMeansAnswered`); a stale message revives the dead only if its tests were made before the verdict (`NoStaleRevival`) |
| `detection` (`MCDetection.cfg`) | A verdict at a heartbeat that the member never reached is undone by nothing that is received after it (`VerdictsAreFinal`); each survivor forgets the member, however often it hears of its death (`EventuallyForgotten`) |
| `heartbeat_loop` (`MCHeartbeatLoop.cfg`) | The backoff is exactly exponential (`BackoffIsExponential`); retries counted are those of the last death (`RetriedBeforeForgotten`); live nodes keep being pinged (`LiveNodesArePinged`) and dead ones are forgotten (`DeadNodesAreForgotten`) |
| `registry` (`MCRegistry.cfg`) | Listeners are told of the status an object ends up with (`NewsIsHeard`); the list of news empties, also of objects that are no longer the known ones (`NewsDryUp`) |
| `broadcast` (`MCBroadcast.cfg`) | `Broadcast` implements `BroadcastOnce` (`DeliveredAtMostOnce`), beyond the first forgotten broadcast and a restart; labels identify broadcasts while nobody restarts (`LabelsAgreeUntilRestart`); no race of two goroutines makes a host forget a label early (`RetainedLongEnough`) |
| `locking` (`MCLocking.cfg`) | No goroutines wait for each other for ever (`NoDeadlock`); everybody gets the lock it waits for (`WaitersAreServed`); the ping statistics have one user at a time (`PingDataExclusive`) |
| `wire_format` (`MCWireFormat.cfg`) | Decoding returns what was encoded or an error (`RoundTrip`), the calculated size is exact (`SizeIsExact`), nothing that fits is refused (`Accepted`), the six-bit member count never overflows, up to and beyond the 63rd member (`WTypeOK`) |

Runs that TLC refutes, each where the code differs from what the repository says
(quotations in `PROJECT.json`):

| Run | What the code does |
|---|---|
| `ping_forwarded` (`MCForward.cfg`) | overwrites a pending PING by a ping request of the same key |
| `ping_time` (`MCPingTime.cfg`) | marks the host that asked for an indirect ping as timed out, not the member that did not answer |
| `forgotten` (`MCForgotten.cfg`) | adds a dead node again that it forgot, whenever a host that has not forgotten it mentions it; two hosts can do so in turns for ever |
| `changes_listed` (`MCListed.cfg`) | takes a status that changes between the test and the deletion of `getRandomUpdatedNodes` off the list of news before it was ever emitted |
| `at_most_once` (`MCAtMostOnce.cfg`) | forgets a broadcast after enough transmissions and then takes a late copy for new, also at its origin |

`changes_listed` shows the shortest way to lose an emission, a race. There is
another one without any race: the counter of a mentioned node is decremented when
the message is built (`membership.go:700`) and again when it is written (722), so
that a status is emitted about half of `emitCount()` times.

Some passing properties have an exception, and the code is the reason:

- `AckAnswersProbe` excepts ACKs with code 0: the callback of a PINGREQ pack is
  the suspected member, so the answer of the host that was asked makes
  `receiveVerbAckUDP` send an ACK to a member that never probed, although
  "VerbAck represents a response to a ping request" (`messageVerb.go:27`).
- `NoStaleRevival` and `VerdictsAreFinal` except handlers that had made their tests
  when the verdict was given: what they store afterwards is not compared again.
- `EventuallyForgotten` excepts survivors that are told again and again that the
  member is only suspected, since every suspicion restarts the count of the
  retries. Gossip is applied when its heartbeat equals the record's
  (`membership.go:769`), so hosts that hold SUSPECTED and DEAD of one heartbeat can
  exchange them for ever. It takes two messages that keep crossing each other.
- `LabelsAgreeUntilRestart` excepts restarts: `indexCounter` starts at 1 in every
  process, so labels are not unique beyond (`broadcast.go:67` says they are).
- `BroadcastOnce` lets a host forget; that "at most once" fails then is the run
  `at_most_once`.
- `RetainedLongEnough` excepts a copy that arrives after its predecessor was used
  up and before the slowest goroutine has deleted that: the label is shared, so
  the copy is deleted with it.
- `Accepted` excepts origins whose address begins with a zero byte, such as `::1`,
  which `checkOrigin` takes for unset.
- `RetriedBeforeForgotten` excepts the moment in which a report that the node is
  alive has assigned the status and not yet deleted the counter. If the node is
  reported dead again in that moment, the loop counts the retries of the earlier
  death.

No run states the README's "strong completeness" (`README.md:24`), because the code
does not guarantee it: a probe whose entry is consumed or overwritten (`Settle` in
`Detection`) ends without a verdict, and nothing limits how often that happens.

### Bounds

- `MaxTicks`, `MaxInFlight`, `MaxHandlers`, `MaxFaults` (Membership). Three hosts are
  the least for which a ping is relayed and something is gossiped; two heartbeats
  let one probe overlap the next. One message is in flight or being handled at a
  time, so it is timeouts, spawned goroutines and the heartbeat loop that come
  between the tests and the stores of a handler. One fault is a crash with its
  restart, or a duplicated message that is received when later ones have been
  handled. The proofs cover all of it together, for any number of each.
- `Detection`: two survivors, who relay pings for each other and contradict each
  other; `MaxInFlight` = 1 (a send beyond it is lost, so every loss happens too);
  `MaxPending` = 1 answer of a kind that a host waits for. `LastHeartbeat` = 1, so
  that messages of the member arrive after verdicts at higher heartbeats, and
  `MaxHeartbeat` = 2, where heartbeats stop while everything else goes on.
  `MaxDeadNodeRetries` is 2, and 1 in `forgotten`.
- `Registry`: two addresses, one of them an initial host; two handlers and one
  transmitter (two in `changes_listed`); at most two objects of an address in use at once (`MaxObjects`) and
  two operations (`MaxReports`), enough for two goroutines to add one address at
  the same time, and for a node to be removed and added again.
- `MaxBroadcasts`, `MaxTransmissions`, `MaxBusy`, `MaxInFlight`, `MaxCrashes`
  (Broadcast). `broadcast` has two hosts with two goroutines each, two of the four
  busy at a time, two broadcasts, two messages in flight, so that messages overtake
  each other, three transmissions of all hosts together with `EmitCount` and
  `Retention` 1, so that labels are forgotten and received again, and a restart.
  `at_most_once` has three hosts, one broadcast and six transmissions, with
  `EmitCount` and `Retention` 2. The proofs cover every combination, with the real
  retention of 100.
- `Locking`: the timeout loop and two goroutines that run everything else; two
  nested calls (`MaxCalls`) per outermost critical section. A cycle of waits needs
  two locks, a writer that announces itself between two reads a third goroutine.
- `maxDeadNodeRetries` is 3 instead of 10, enough for the countdown to double
  twice before the node is removed. `MaxUpdates` = 1: one goroutine per peer is
  inside `updateNodeStatus` between its two steps. Visits and retries are bounded
  by the backoff itself.
- The wire format is exercised with few values that have distinct bytes. The
  buffer has 1090 bytes instead of 2048, so that only the longest messages are cut
  off. Integers stay below 2^31, the largest TLC computes with.

Members are symmetric, and `SYMMETRY` is used for safety only. Deadlock is not
checked in `Membership`, `Broadcast` and `Registry`, which stop when their bounds are
used up; it is checked wherever the model never stops
(`Detection`, `Locking`, `HeartbeatLoop`, `WireFormat`).

### Fairness

- `HeartbeatLoop`: the loop is a goroutine that never blocks for good, hence weak
  fairness of `Loop`. Strong fairness of `Visit(p)` stands for the shuffle: if a
  node is in the list again and again it is at its front again and again, with
  probability one, also if every list is abandoned after the first ping. Nothing
  is assumed of the other goroutines.
- `Detection` (`FairSpec`): weak fairness of every host's turn of the lost member
  (the loop of `Begin`), of its look at the answers it waits for
  (`startTimeoutCheckLoop` runs for ever), of messages (received or lost, the network
  keeps none for ever) and of the stores of handlers. No message need ever arrive.
- `Registry` (`FairRSpec`): goroutines that have started go on; a known node is
  pinged again and again by the heartbeat loop, which is strong fairness of `Test`
  per address because the one transmitter is often busy. New reports are not fair.
- `Locking` (`FairGSpec`): strong fairness per goroutine of proceeding while it
  holds or waits for a lock. Critical sections end because their loops are over
  finite maps and listeners return; Go's mutexes do not starve a waiter.

## What is proved

The proofs hold for all sets of members, all bounds and all counts that satisfy
the named assumptions (`NodeAssumption`: nil is not a member; `CountAssumption`,
`BoundAssumption`, `CounterAssumption`: the counts are naturals, the emit count
and the retention fit an int8; `PeerAssumption`, `RetriesAssumption`,
`UpdatesAssumption`; `HostAssumption`: the survivors are finitely many, the lost
member is none of them; `ListenerAssumption`: listeners respect the lock order;
`CallsAssumption`; `InitialHostIsAPeer`, `ObjectsAssumption`,
`EmitCountsAreNatural`: the registry starts with a peer, and its counts are
naturals; `SizesAssumption`,
`DataAssumption`, `NilAssumption`: what is put into a message has the Go type of
its field). Every type invariant and every safety property of the passing runs is
proved, with the one exception named below.

- `MembershipProofs`: `TypeOK`, `SelfAlive`, `WellFormedProbes`,
  `NoHeartbeatInflation`. The inductive invariant `Inv` joins the four and says
  the same of everything a step can pick up: packs, goroutines, messages, handlers.
  They need each other: a host's own record stays ALIVE only because nobody mentions
  the addressee of a message in it; heartbeats stay below the ticks only because
  codes in packs and messages do, also the value that the racy increment has
  loaded. Then `Grounded`, `AckAnswersProbe`, `MeasuredMeansAnswered` from `Inv`
  and `HInv`, which adds that packs and goroutines rest on messages really sent;
  and `NoStaleRevival` from these and an invariant about handlers: what a handler has
  found fresh is no older than the record of a member held dead, unless the verdict
  came after its tests.
- `HeartbeatLoopProofs`: `RetriedBeforeForgotten`. `CInv` says that a counter
  claims no more retries than there were since the death, that the counter of a
  node that is not dead claims none, and that it is gone if the node was revived
  after the loop tested it, each unless a deletion is pending.
  `BackoffIsExponential` and `LTypeOK` need each other (`EInv`): the range of the
  countdown makes the visits of one retry end where those of the next begin. That
  2^(n + 1) is twice 2^n, which the provers do not know, is proved by counting
  subsets (`PowerOfTwo`).
- `BroadcastProofs`: `RetainedLongEnough`. `RInv` says that every counter, and
  every value a goroutine has loaded and not yet stored, is at least the emit
  count less the transmissions since the host got the object. A lost decrement
  only helps, and so would an int8 that wraps around. `LabelsAgreeUntilRestart`
  and the refinement `DeliveredAtMostOnce`: `GInv` says that every object and
  every message carries the label under which its payload was issued (`Genuine`),
  and that, while nobody restarted, no issued label reaches the origin's index
  counter (`Fresh`). Each step of `Broadcast` then maps to a step of
  `BroadcastOnce` or to a stutter. That `Prune` forgets late enough is `RInv`'s work
  with `HInv`, which says that `gets` has noted when the host got each object in its
  map or in the hands of a goroutine. `BTypeOK` follows from `RInv`, `GInv` and the
  types they leave out (`TInv`).
- `DetectionProofs`: `VerdictsAreFinal` and `DTypeOK`. The invariant `DInv` adds to
  the types that whatever calls the lost member alive, in a record, in flight or in
  the hands of a handler, carries a heartbeat it reached, and that a handler which
  could undo a verdict beyond that heartbeat is one that the verdict has overtaken.
- `RegistryProofs`: `NewsIsHeard`, which is not inductive: a handler that is about
  to tell the listeners of an old status would do. `NInv` says that an object whose
  status was not heard of has a handler that will tell of that very status, and
  that maps and goroutines point to objects in use. `RTypeOK` from `NInv` and
  `Types`, which adds that handlers past their assignment hold an object with a
  status: only such objects are entered into the map.
- `LockingProofs`: `NoDeadlock` and `PingDataExclusive`. The invariant adds to the
  types (`GTypeOK`) that a goroutine's locks, and the one it waits for, are in the
  order of `Rank`, and that the writer of a lock excludes everybody else; a cycle of
  waits would have to ascend for ever. The ping statistics are used under the write
  lock of `pendingAcks` only.
- `WireFormatProofs`: `WTypeOK`, `SizeIsExact`, `Accepted`, for addresses of any
  length, any members and any broadcast; and `RoundTrip` for every message that
  arrives whole (`WholeRoundTrip`). `RoundTripCorrect` draws the conclusion for
  clusters whose longest message fits the buffer (`LargestFits`): with IPv4
  addresses and the default limit of 256 bytes per broadcast it has 1350 of 2048
  bytes. With IPv6 addresses it may have 2874, and 63 members do not fit. `WInv`
  is simple: what was sent is the encoding of the message, what was received the
  decoding of its first bytes. The work is in the lemmas: each decoder returns
  what its encoder wrote, at whatever offset it stands (`Uint16Read`,
  `Uint32Read`, `NodeRead`, `MemberRead`, `BroadcastRead`, `MessageRead`). The
  members and the checksum are recursive functions; `Induction`, which is about a
  set of numbers rather than a predicate, and so within the provers' reach, shows
  that they are defined and how long their results are. Of Adler-32 nothing is
  used but that it is the same for the same bytes and fits its four bytes.

## What is only model-checked

- Liveness (`LiveNodesArePinged`, `DeadNodesAreForgotten`, `EventuallyForgotten`,
  `NewsDryUp`, `WaitersAreServed`): outside the prover.
- `RoundTrip` of messages that the buffer cuts off. That they are refused rests on
  their checksum, and other bytes may have the same one: there is no theorem.

## Abstractions

- `Membership`: no member joins or is forgotten; a handler makes all its tests in
  one step and all its stores in another (a message speaks of each member once, so
  that none of its stores matters to another of its tests), and `updateNodeStatus`
  is atomic there (`Registry` and `HeartbeatLoop` take it apart); the public
  `PingNode`, `AddNode`, `RemoveNode` and `UpdateNodeStatus` are not called by the
  application; heartbeats do not reach 2^32.
- `Detection`: one member is lost, the survivors answer each other; any of the other
  survivors may be asked for an indirect ping. Whether an answer that is waited for
  times out or is settled is open, also where the code has only one of the two; so
  `Detection` has more behaviours than the code.
- `HeartbeatLoop`: `StatusSuspected` and `StatusAlive` are one, the loop does not
  tell them apart; a node object and its address are one.
- `Registry`: heartbeats are left out, a report may be dropped as old at any time;
  `StatusSuspected` is one of the statuses that are not `StatusUnknown` and needs
  no value of its own; the members of one message are handled by one handler each;
  the comparison and the assignments of `updateNodeStatus` are one step; counters
  that are not positive are one value, since nothing compares them with each other, and an int8 would
  need 128 more decrements to become positive again;
  the node named in a ping request is a known one; objects that nobody points to
  are collected.
- `Broadcast`: the index does not reach 2^32.
- `Locking`: one lock stands for those of the maps, none of which is held while
  another is taken; `knownNodes.length()`, which reads a map without a lock, waits
  for nobody and is left out.
- `WireFormat`: sender and receiver have the same `GetMaxBroadcastBytes`, and an
  IPv6 cluster has no IPv4-mapped addresses.

## Not modelled

- The value of the timeout (`pingData.go`): a mean and a standard deviation in
  floating point, which TLC does not compute with. The models allow every timing
  instead.
- Address parsing (`parseNodeAddress`, `GetLocalIP`): sequential choices among the
  results of the resolver and the interfaces, without state.
- Multicast: sockets, interfaces and a length-prefixed cluster name. An
  announcement that arrives is handled like a message without members.
- Configuration (`properties.go`), logging (`log.go`), the command line
  (`smudge/`): getters, defaults and output; nothing the protocol's state depends
  on while it runs.
- A node removed by `Begin`'s loop right after another goroutine revived it
  (`membership.go:135`): it is a behaviour of `HeartbeatLoop`, but nothing in the
  repository says it should not happen; its next message adds the node again.
