---------------------------- MODULE HeartbeatLoop ----------------------------
(***************************************************************************)
(* The loop of Begin() on one host: whom it pings and whom it forgets.     *)
(*                                                                         *)
(* The loop goes through a shuffled copy of the known nodes and pings one  *)
(* per heartbeat.  A dead node is pinged at every 2nd, then 4th, 8th ...   *)
(* visit and removed after maxDeadNodeRetries.  Meanwhile the handlers of  *)
(* received messages and the timeout loop change statuses and add nodes,   *)
(* and knownNodesModifiedFlag tells the loop to start afresh.  None of     *)
(* this holds a lock for longer than a map access.                         *)
(***************************************************************************)
EXTENDS Integers

CONSTANTS
    Peer,                 \* the addresses of the other members
    NoPeer,               \* no address
    maxDeadNodeRetries,   \* 10
    MaxUpdates            \* bound: goroutines inside updateNodeStatus for one peer

ASSUME PeerAssumption == NoPeer \notin Peer

ASSUME RetriesAssumption == maxDeadNodeRetries \in Nat \ {0}

ASSUME UpdatesAssumption == MaxUpdates \in Nat

VARIABLES
    knownNodes,              \* the status of each peer in the map, or "absent"
    deadNodeRetries,         \* the deadNodeCounter of each peer, or NoCounter
    knownNodesModifiedFlag,  \* set whenever a node is added or removed
    randomAllNodes,          \* what is left of the list
    node,                    \* the list's current node
    pc,                      \* the next step of the loop
    clearing,                \* goroutines about to delete the peer's counter
    visits,                  \* visits of the peer since its counter was deleted
    retries                  \* pings of the dead peer since its status changed

lvars == <<knownNodes, deadNodeRetries, knownNodesModifiedFlag, randomAllNodes, node,
           pc, clearing, visits, retries>>

\* The loop tells apart dead nodes from the others only.
Status == {"ALIVE", "DEAD"}

NoCounter == [retry |-> 0, retryCountdown |-> 0]

-----------------------------------------------------------------------------
(* The loop *)

\* Mutant of GetRandomNodes: a fresh list is made only when the flag is set.
GetRandomNodesIfModified ==
    /\ pc = "list"
    /\ pc' = "next"
    /\ randomAllNodes' = IF knownNodesModifiedFlag
                         THEN {p \in Peer : knownNodes[p] # "absent"}
                         ELSE randomAllNodes
    /\ UNCHANGED <<clearing, knownNodes, deadNodeRetries, knownNodesModifiedFlag, node,
                   visits, retries>>

\* knownNodes.getRandomNodes(0, thisHost): all of the others.
GetRandomNodes ==
    /\ pc = "list"
    /\ pc' = "next"
    /\ randomAllNodes' = {p \in Peer : knownNodes[p] # "absent"}
    /\ UNCHANGED <<clearing, knownNodes, deadNodeRetries, knownNodesModifiedFlag, node,
                   visits, retries>>

\* Mutant of Visit: dead nodes are skipped.
VisitSkipsDead(p) ==
    /\ pc = "next"
    /\ p \in randomAllNodes
    /\ pc' = IF knownNodes[p] = "DEAD" THEN "next" ELSE "ping"
    /\ node' = p
    /\ randomAllNodes' = randomAllNodes \ {p}
    /\ UNCHANGED <<clearing, knownNodes, deadNodeRetries, knownNodesModifiedFlag, visits,
                   retries>>

\* The list is shuffled: any node left in it may be next.
Visit(p) ==
    /\ pc = "next"
    /\ p \in randomAllNodes
    /\ pc' = IF knownNodes[p] = "DEAD" THEN "dead" ELSE "ping"
    /\ node' = p
    /\ randomAllNodes' = randomAllNodes \ {p}
    /\ UNCHANGED <<clearing, knownNodes, deadNodeRetries, knownNodesModifiedFlag, visits,
                   retries>>

EndOfList ==
    /\ pc = "next"
    /\ randomAllNodes = {}
    /\ pc' = "list"
    /\ UNCHANGED <<clearing, knownNodes, deadNodeRetries, knownNodesModifiedFlag,
                   randomAllNodes, node, visits, retries>>

\* Mutant of CountDown: the visit that makes the counter does not count.
CountDownLate(dnc) ==
    IF dnc = NoCounter
    THEN [retry |-> 1, retryCountdown |-> 2]
    ELSE [dnc EXCEPT !.retryCountdown = @ - 1]

\* The counter of a dead node, made if need be, is counted down.
CountDown(dnc) ==
    IF dnc = NoCounter
    THEN [retry |-> 1, retryCountdown |-> 1]
    ELSE [dnc EXCEPT !.retryCountdown = @ - 1]

\* Mutant of BackOff: the limit is compared with the retry that is over.
BackOffLate ==
    LET dnc == CountDown(deadNodeRetries[node])
        next == dnc.retry + 1
        Put(c) == deadNodeRetries' = [deadNodeRetries EXCEPT ![node] = c]
    IN  /\ pc = "dead"
        /\ visits' = [visits EXCEPT ![node] = @ + 1]
        /\ IF dnc.retryCountdown > 0
           THEN Put(dnc) /\ pc' = "next"
           ELSE IF dnc.retry <= maxDeadNodeRetries
                THEN Put([retry |-> next, retryCountdown |-> 2 ^ next]) /\ pc' = "ping"
                ELSE Put(NoCounter) /\ pc' = "forget"
        /\ UNCHANGED <<clearing, knownNodes, knownNodesModifiedFlag, randomAllNodes, node,
                       retries>>

\* The backoff of a node that was found dead.  Only the loop uses the fields of a
\* counter, so that this is one step; others may delete the counter from the map.
BackOff ==
    LET dnc == CountDown(deadNodeRetries[node])
        next == dnc.retry + 1
        Put(c) == deadNodeRetries' = [deadNodeRetries EXCEPT ![node] = c]
    IN  /\ pc = "dead"
        /\ visits' = [visits EXCEPT ![node] = @ + 1]
        /\ \/ /\ dnc.retryCountdown > 0
              /\ Put(dnc)
              /\ pc' = "next"
           \/ /\ dnc.retryCountdown <= 0
              /\ next <= maxDeadNodeRetries
              /\ Put([retry |-> next, retryCountdown |-> 2 ^ next])
              /\ pc' = "ping"
           \/ /\ dnc.retryCountdown <= 0
              /\ next > maxDeadNodeRetries
              /\ Put(NoCounter)
              /\ pc' = "forget"
        /\ UNCHANGED <<clearing, knownNodes, knownNodesModifiedFlag, randomAllNodes, node,
                       retries>>

\* RemoveNode(node)
RemoveNode ==
    /\ pc = "forget"
    /\ pc' = "next"
    /\ knownNodes' = [knownNodes EXCEPT ![node] = "absent"]
    /\ knownNodesModifiedFlag' = TRUE
    /\ visits' = [visits EXCEPT ![node] = 0]
    /\ retries' = [retries EXCEPT ![node] = 0]
    /\ UNCHANGED <<clearing, deadNodeRetries, randomAllNodes, node>>

\* currentHeartbeat++, PingNode(node) and the sleep.
PingNode ==
    /\ pc = "ping"
    /\ pc' = "check"
    /\ retries' = IF knownNodes[node] = "DEAD" THEN [retries EXCEPT ![node] = @ + 1]
                  ELSE retries
    /\ UNCHANGED <<clearing, knownNodes, deadNodeRetries, knownNodesModifiedFlag,
                   randomAllNodes, node, visits>>

\* The flag is tested and then, in a step of its own, reset.
CheckFlag ==
    /\ pc = "check"
    /\ pc' = IF knownNodesModifiedFlag THEN "reset" ELSE "next"
    /\ UNCHANGED <<clearing, knownNodes, deadNodeRetries, knownNodesModifiedFlag,
                   randomAllNodes, node, visits, retries>>

ResetFlag ==
    /\ pc = "reset"
    /\ pc' = "list"
    /\ knownNodesModifiedFlag' = FALSE
    /\ UNCHANGED <<clearing, knownNodes, deadNodeRetries, randomAllNodes, node, visits,
                   retries>>

Loop ==
    \/ GetRandomNodes
    \/ \E p \in Peer : Visit(p)
    \/ EndOfList
    \/ BackOff
    \/ RemoveNode
    \/ PingNode
    \/ CheckFlag
    \/ ResetFlag

-----------------------------------------------------------------------------
(* The other goroutines *)

\* Mutant of UpdateNodeStatus: the counter of a node that is not dead any more is
\* kept.
UpdateNodeStatusKeepsCounter(p, status) ==
    /\ knownNodes' = [knownNodes EXCEPT ![p] = status]
    /\ retries' = [retries EXCEPT ![p] = 0]
    /\ UNCHANGED clearing

\* updateNodeStatus assigns the status first; then it deletes the counter of a node
\* that is not dead, see ClearCounter.  A node that is not in the map yet has no
\* counter.
UpdateNodeStatus(p, status) ==
    /\ knownNodes' = [knownNodes EXCEPT ![p] = status]
    /\ retries' = [retries EXCEPT ![p] = 0]
    /\ IF status # "DEAD" /\ knownNodes[p] # "absent"
       THEN /\ clearing[p] < MaxUpdates
            /\ clearing' = [clearing EXCEPT ![p] = @ + 1]
       ELSE UNCHANGED clearing

ClearCounter(p) ==
    /\ clearing[p] > 0
    /\ clearing' = [clearing EXCEPT ![p] = @ - 1]
    /\ deadNodeRetries' = [deadNodeRetries EXCEPT ![p] = NoCounter]
    /\ visits' = [visits EXCEPT ![p] = 0]
    /\ UNCHANGED <<knownNodes, knownNodesModifiedFlag, randomAllNodes, node, pc, retries>>

\* AddNode sets the flag if the node was not in the map.
AddNode(p) ==
    knownNodesModifiedFlag' = (knownNodesModifiedFlag \/ knownNodes[p] = "absent")

\* A new status of peer p is learnt, from gossip, from the peer itself or from a
\* timeout.
Learn(p, status) ==
    /\ knownNodes[p] # status
    /\ UpdateNodeStatus(p, status)
    /\ AddNode(p)
    /\ UNCHANGED <<deadNodeRetries, randomAllNodes, node, pc, visits>>

-----------------------------------------------------------------------------
\* Begin has added the initial hosts, any of the peers.
LInit ==
    /\ knownNodes \in [Peer -> {"absent", "ALIVE"}]
    /\ deadNodeRetries = [p \in Peer |-> NoCounter]
    /\ knownNodesModifiedFlag = TRUE
    /\ randomAllNodes = {}
    /\ node = NoPeer
    /\ pc = "list"
    /\ clearing = [p \in Peer |-> 0]
    /\ visits = [p \in Peer |-> 0]
    /\ retries = [p \in Peer |-> 0]

Others == \E p \in Peer : ClearCounter(p) \/ \E status \in Status : Learn(p, status)

LNext == Loop \/ Others

\* The loop's goroutine is scheduled again and again.  The shuffle gives every node
\* the same chance of being next, so none is passed over forever.
LFairness == WF_lvars(Loop) /\ \A p \in Peer : SF_lvars(Visit(p))

LSpec == LInit /\ [][LNext]_lvars /\ LFairness

-----------------------------------------------------------------------------
(* Properties *)

\* Types.  A dead node's counter is at one of its retries, and counts down what that
\* retry allows.
LTypeOK ==
    /\ knownNodes \in [Peer -> Status \cup {"absent"}]
    /\ \A p \in Peer :
          \/ deadNodeRetries[p] = NoCounter
          \/ /\ deadNodeRetries[p].retry \in 1 .. maxDeadNodeRetries
             /\ deadNodeRetries[p].retryCountdown \in 1 .. 2 ^ deadNodeRetries[p].retry
    /\ knownNodesModifiedFlag \in BOOLEAN
    /\ randomAllNodes \subseteq Peer
    /\ node \in Peer \cup {NoPeer}
    /\ pc \in {"list", "next", "dead", "forget", "ping", "check", "reset"}
    /\ pc \in {"dead", "forget", "ping", "check", "reset"} => node \in Peer
    /\ clearing \in [Peer -> 0 .. MaxUpdates]
    /\ visits \in [Peer -> Nat]
    /\ retries \in [Peer -> Nat]

\* Dead nodes are "periodically re-tried (with exponential backoff)": a counter at
\* retry k says that the node was visited 2 + 4 + ... + 2^k times, less what is
\* left of the countdown, whatever was learnt about the node between the test of
\* its status and the use of its counter.
BackoffIsExponential ==
    \A p \in Peer :
        LET dnc == deadNodeRetries[p]
        IN  IF dnc # NoCounter
            THEN visits[p] = (2 ^ (dnc.retry + 1) - 2) - dnc.retryCountdown
            ELSE \/ visits[p] = 0
                 \/ /\ node = p
                    /\ pc = "forget"
                    /\ visits[p] = 2 ^ (maxDeadNodeRetries + 1) - 2

\* The loop decides to forget a node only after it has pinged it in vain
\* maxDeadNodeRetries - 1 times since it last died, unless a goroutine that has
\* just reported the node alive is still about to delete the counter: no other
\* news that come between the test of the status and the use of the counter let
\* the loop count the retries of an earlier death.
RetriedBeforeForgotten ==
    [][pc' = "forget" /\ pc # "forget" =>
          retries[node] >= maxDeadNodeRetries - 1 \/ clearing[node] > 0]_lvars

\* A live node is pinged again and again unless it dies or is removed, however the
\* flag's test, its reset and the changes of the map interleave (the comment of
\* the loop: a change makes it "get a fresh list and start again").
LiveNodesArePinged ==
    \A p \in Peer : knownNodes[p] = "ALIVE" ~>
        (pc = "check" /\ node = p) \/ knownNodes[p] # "ALIVE"

\* "Dead nodes are pinged (far) less often, and are eventually removed"
\* (registry.go), unless news of them come.
DeadNodesAreForgotten ==
    \A p \in Peer : knownNodes[p] = "DEAD" ~> knownNodes[p] # "DEAD"

=============================================================================
