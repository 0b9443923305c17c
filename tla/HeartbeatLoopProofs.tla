------------------------- MODULE HeartbeatLoopProofs -------------------------
(***************************************************************************)
(* Dead nodes are retried with exponential backoff, and none is forgotten  *)
(* before it was retried often enough, for any number of peers and any     *)
(* limit.                                                                  *)
(***************************************************************************)
EXTENDS HeartbeatLoop, FiniteSetTheorems, FunctionTheorems, TLAPS

\* How many retries of peer p the counter says there were.
Claimed(p) == deadNodeRetries[p].retry - 1

\* The inductive invariant.  Unless somebody is about to delete it, the counter of
\* a peer never claims more retries than there were since the peer died, except
\* for the ping that is about to be sent.  It rests on two facts about news that
\* race with the loop: the counter of a peer that is not dead is gone, or was made
\* just now and claims none; and if the peer was revived after the loop found it
\* dead, the counter is gone.
CInv ==
    /\ knownNodes \in [Peer -> {"absent", "ALIVE", "DEAD"}]
    /\ DOMAIN deadNodeRetries = Peer
    /\ \A p \in Peer : /\ "retry" \in DOMAIN deadNodeRetries[p]
                       /\ deadNodeRetries[p].retry \in Nat
    /\ clearing \in [Peer -> Nat]
    /\ retries \in [Peer -> Nat]
    /\ randomAllNodes \subseteq Peer
    /\ pc \in {"list", "next", "dead", "forget", "ping", "check", "reset"}
    /\ pc \in {"dead", "forget", "ping"} => node \in Peer
    /\ \A p \in Peer :
          /\ clearing[p] = 0 =>
                Claimed(p) <= retries[p] + (IF pc = "ping" /\ node = p THEN 1 ELSE 0)
          /\ clearing[p] = 0 /\ knownNodes[p] # "DEAD" => Claimed(p) <= 0
    /\ pc = "dead" /\ clearing[node] = 0 /\ knownNodes[node] # "DEAD" =>
          deadNodeRetries[node] = NoCounter
    /\ pc = "forget" => deadNodeRetries[node] = NoCounter

LEMMA CInit == LInit => CInv
BY DEF LInit, CInv, Claimed, NoCounter

\* Counting down leaves the retry alone, or makes a counter at retry 1.
LEMMA CountDownRetry ==
    ASSUME NEW dnc, "retry" \in DOMAIN dnc, dnc.retry \in Nat
    PROVE  /\ "retry" \in DOMAIN CountDown(dnc)
           /\ CountDown(dnc).retry = IF dnc = NoCounter THEN 1 ELSE dnc.retry
BY DEF CountDown

LEMMA CBackOff ==
    ASSUME CInv, BackOff
    PROVE  /\ CInv'
           /\ pc' = "forget" => retries[node] >= maxDeadNodeRetries - 1 \/ clearing[node] > 0
<1> DEFINE old == deadNodeRetries[node]
           dnc == CountDown(old)
<1>1. /\ pc = "dead" /\ node \in Peer
      /\ UNCHANGED <<clearing, knownNodes, randomAllNodes, node, retries>>
      BY DEF BackOff, CInv
<1>2. /\ "retry" \in DOMAIN old /\ old.retry \in Nat
      /\ retries[node] \in Nat
      /\ clearing[node] \in Nat
      /\ clearing[node] = 0 => old.retry - 1 <= retries[node]
      /\ clearing[node] = 0 /\ knownNodes[node] # "DEAD" => old = NoCounter
      BY <1>1 DEF CInv, Claimed
<1>3. /\ "retry" \in DOMAIN dnc
      /\ dnc.retry = IF old = NoCounter THEN 1 ELSE old.retry
      BY <1>2, CountDownRetry
<1>4. /\ dnc.retry \in Nat
      /\ clearing[node] = 0 => dnc.retry - 1 <= retries[node]
      /\ clearing[node] = 0 /\ knownNodes[node] # "DEAD" => dnc.retry = 1
      BY <1>2, <1>3
<1>5. \/ /\ dnc.retryCountdown > 0
         /\ deadNodeRetries' = [deadNodeRetries EXCEPT ![node] = dnc]
         /\ pc' = "next"
      \/ /\ dnc.retryCountdown <= 0
         /\ dnc.retry + 1 <= maxDeadNodeRetries
         /\ deadNodeRetries' = [deadNodeRetries EXCEPT ![node] =
               [retry |-> dnc.retry + 1, retryCountdown |-> 2 ^ (dnc.retry + 1)]]
         /\ pc' = "ping"
      \/ /\ dnc.retryCountdown <= 0
         /\ dnc.retry + 1 > maxDeadNodeRetries
         /\ deadNodeRetries' = [deadNodeRetries EXCEPT ![node] = NoCounter]
         /\ pc' = "forget"
      BY DEF BackOff
<1>6. clearing[node] = 0 /\ knownNodes[node] # "DEAD" => dnc.retryCountdown = 1
      BY <1>2 DEF CountDown
<1> HIDE DEF dnc, old
<1>7. CASE /\ dnc.retryCountdown > 0
           /\ deadNodeRetries' = [deadNodeRetries EXCEPT ![node] = dnc]
           /\ pc' = "next"
      BY <1>1, <1>3, <1>4, <1>7 DEF CInv, Claimed
<1>8. CASE /\ dnc.retryCountdown <= 0
           /\ deadNodeRetries' = [deadNodeRetries EXCEPT ![node] =
                 [retry |-> dnc.retry + 1, retryCountdown |-> 2 ^ (dnc.retry + 1)]]
           /\ pc' = "ping"
  <2> DEFINE new == [retry |-> dnc.retry + 1, retryCountdown |-> 2 ^ (dnc.retry + 1)]
  <2>1. "retry" \in DOMAIN new /\ new.retry = dnc.retry + 1
        OBVIOUS
  <2> HIDE DEF new
  <2>2. deadNodeRetries' = [deadNodeRetries EXCEPT ![node] = new]
        BY <1>8 DEF new
  <2>3. clearing[node] = 0 => knownNodes[node] = "DEAD"
        BY <1>6, <1>8
  <2> QED BY <1>1, <1>4, <1>8, <2>1, <2>2, <2>3 DEF CInv, Claimed
<1>9. CASE /\ dnc.retry + 1 > maxDeadNodeRetries
           /\ deadNodeRetries' = [deadNodeRetries EXCEPT ![node] = NoCounter]
           /\ pc' = "forget"
  <2>1. retries[node] >= maxDeadNodeRetries - 1 \/ clearing[node] > 0
        BY <1>2, <1>4, <1>9, RetriesAssumption
  <2>2. "retry" \in DOMAIN NoCounter /\ NoCounter.retry = 0
        BY DEF NoCounter
  <2>3. CInv'
        BY <1>1, <1>9, <2>2 DEF CInv, Claimed
  <2> QED BY <2>1, <2>3
<1> QED BY <1>5, <1>7, <1>8, <1>9

LEMMA CLearn ==
    ASSUME CInv, NEW p \in Peer, NEW status \in Status, Learn(p, status)
    PROVE  CInv'
<1>1. /\ UNCHANGED <<deadNodeRetries, randomAllNodes, node, pc>>
      /\ knownNodes[p] # status
      /\ knownNodes' = [knownNodes EXCEPT ![p] = status]
      /\ retries' = [retries EXCEPT ![p] = 0]
      BY DEF Learn, UpdateNodeStatus
<1>2. CASE status = "DEAD" \/ knownNodes[p] = "absent"
  <2>1. clearing' = clearing /\ (clearing[p] = 0 => Claimed(p) <= 0)
        BY <1>1, <1>2 DEF Learn, UpdateNodeStatus, CInv
  <2> QED BY <1>1, <1>2, <2>1 DEF CInv, Claimed, Status
<1>3. CASE status # "DEAD" /\ knownNodes[p] # "absent"
  <2>1. clearing' = [clearing EXCEPT ![p] = @ + 1]
        BY <1>3 DEF Learn, UpdateNodeStatus
  <2> QED BY <1>1, <1>3, <2>1 DEF CInv, Claimed, Status
<1> QED BY <1>2, <1>3

LEMMA CClear ==
    ASSUME CInv, NEW p \in Peer, ClearCounter(p)
    PROVE  CInv'
<1>1. "retry" \in DOMAIN NoCounter /\ NoCounter.retry = 0
      BY DEF NoCounter
<1> QED BY <1>1 DEF CInv, Claimed, ClearCounter

LEMMA CNext == CInv /\ [LNext]_lvars => CInv'
<1> SUFFICES ASSUME CInv, [LNext]_lvars PROVE CInv'
    OBVIOUS
<1>1. CASE UNCHANGED lvars
      BY <1>1 DEF lvars, CInv, Claimed
<1>2. CASE GetRandomNodes
      BY <1>2 DEF GetRandomNodes, CInv, Claimed
<1>3. ASSUME NEW p \in Peer, Visit(p) PROVE CInv'
      BY <1>3 DEF Visit, CInv, Claimed
<1>4. CASE EndOfList
      BY <1>4 DEF EndOfList, CInv, Claimed
<1>5. CASE BackOff
      BY <1>5, CBackOff
<1>6. CASE RemoveNode
      BY <1>6 DEF RemoveNode, CInv, Claimed, NoCounter
<1>7. CASE PingNode
      BY <1>7 DEF PingNode, CInv, Claimed
<1>8. CASE CheckFlag \/ ResetFlag
      BY <1>8 DEF CheckFlag, ResetFlag, CInv, Claimed
<1>9. ASSUME NEW p \in Peer, NEW status \in Status, Learn(p, status)
      PROVE  CInv'
      BY <1>9, CLearn
<1>10. ASSUME NEW p \in Peer, ClearCounter(p) PROVE CInv'
      BY <1>10, CClear
<1> QED BY <1>1, <1>2, <1>3, <1>4, <1>5, <1>6, <1>7, <1>8, <1>9, <1>10
        DEF LNext, Loop, Others

\* The loop decides to forget a node only after maxDeadNodeRetries - 1 pings that
\* it sent since the node died, or while a report that the node is alive is being
\* noted, for any number of peers and any limit.
THEOREM Retried == LSpec => RetriedBeforeForgotten
<1> DEFINE A == pc' = "forget" /\ pc # "forget" =>
                   retries[node] >= maxDeadNodeRetries - 1 \/ clearing[node] > 0
<1>1. CInv /\ [LNext]_lvars => [A]_lvars
  <2> SUFFICES ASSUME CInv, LNext, pc' = "forget", pc # "forget"
               PROVE  retries[node] >= maxDeadNodeRetries - 1 \/ clearing[node] > 0
      OBVIOUS
  <2>1. BackOff
        BY DEF LNext, Loop, Others, GetRandomNodes, Visit, EndOfList, RemoveNode, PingNode,
               CheckFlag, ResetFlag, Learn, ClearCounter
  <2> QED BY <2>1, CBackOff
<1> QED BY <1>1, CInit, CNext, PTL DEF LSpec, RetriedBeforeForgotten

-----------------------------------------------------------------------------
(* Powers of two *)

\* Half of the subsets of 1 .. n + 1 leave n + 1 out.
LEMMA PowerOfTwo ==
    ASSUME NEW n \in Nat
    PROVE  2 ^ n \in Nat /\ 2 ^ (n + 1) = 2 * 2 ^ n
<1> DEFINE S == 1 .. n
           A == SUBSET S
           B == {T \cup {n + 1} : T \in A}
           f == [T \in A |-> T \cup {n + 1}]
<1>1. IsFiniteSet(S) /\ Cardinality(S) = n
      BY FS_Interval
<1>2. IsFiniteSet(A) /\ Cardinality(A) = 2 ^ n
      BY <1>1, FS_SUBSET, Zenon
<1>3. IsFiniteSet(1 .. n + 1) /\ Cardinality(1 .. n + 1) = n + 1
      BY FS_Interval
<1>4. Cardinality(SUBSET (1 .. n + 1)) = 2 ^ (n + 1)
      BY <1>3, FS_SUBSET, Zenon
<1>5. IsFiniteSet(B) /\ Cardinality(B) = Cardinality(A)
  <2>1. f \in [A -> B] /\ \A T \in B : \E R \in A : f[R] = T
        BY Zenon
  <2>2. ASSUME NEW R \in A, NEW T \in A, f[R] = f[T] PROVE R = T
    <3>1. R \cup {n + 1} = T \cup {n + 1} /\ n + 1 \notin R /\ n + 1 \notin T
          BY <2>2
    <3> QED BY <3>1
  <2> HIDE DEF f, A, B
  <2>3. f \in Bijection(A, B)
        BY <2>1, <2>2, Fun_IsBij
  <2> QED BY <1>2, <2>3, Fun_ExistsBij, FS_Bijection
<1>6. A \cap B = {}
      OBVIOUS
<1>7. SUBSET (1 .. n + 1) = A \cup B
  <2>1. ASSUME NEW T \in SUBSET (1 .. n + 1) PROVE T \in A \cup B
    <3>1. CASE n + 1 \in T
      <4>1. T \ {n + 1} \in A /\ T = (T \ {n + 1}) \cup {n + 1}
            BY <3>1
      <4> QED BY <4>1, Zenon
    <3>2. CASE n + 1 \notin T
          BY <3>2
    <3> QED BY <3>1, <3>2
  <2>2. A \cup B \subseteq SUBSET (1 .. n + 1)
    <3>1. \A T \in A : T \subseteq 1 .. n + 1 /\ T \cup {n + 1} \subseteq 1 .. n + 1
          OBVIOUS
    <3> QED BY <3>1, ZenonT(60)
  <2> QED BY <2>1, <2>2, Zenon
<1> HIDE DEF A, B
<1>8. Cardinality(A) \in Nat
      BY <1>2, FS_CardinalityType
<1>9. Cardinality(A \cup B) = Cardinality(A) + Cardinality(B)
      BY <1>2, <1>5, <1>6, <1>8, FS_Union, FS_EmptySet
<1> DEFINE a == Cardinality(A)
<1>10. a \in Nat /\ 2 ^ n = a
       BY <1>2, <1>8
<1>11. 2 ^ (n + 1) = a + a
       BY <1>4, <1>5, <1>7, <1>9, Zenon
<1> HIDE DEF a
<1>12. a + a = 2 * a
       BY <1>10
<1>13. 2 ^ n \in Nat
       BY <1>10
<1>14. 2 ^ (n + 1) = 2 * 2 ^ n
       BY <1>10, <1>11, <1>12
<1> QED BY <1>13, <1>14

LEMMA PowerOfZero == 2 ^ 0 = 1
<1>1. IsFiniteSet({}) /\ Cardinality({}) = 0
      BY FS_EmptySet
<1>2. Cardinality(SUBSET {}) = 2 ^ 0
      BY <1>1, FS_SUBSET, Zenon
<1>3. SUBSET {} = {{}}
      OBVIOUS
<1> QED BY <1>2, <1>3, FS_Singleton

-----------------------------------------------------------------------------
(* Exponential backoff *)

\* The inductive invariant: counters are records, a node that is about to be
\* forgotten has none, and the two invariants.  The number of visits fixes where
\* the countdown is, so that the limit of retry k and the start of retry k + 1
\* meet: 2 + 4 + ... + 2^k = 2^(k + 1) - 2.
EInv ==
    /\ deadNodeRetries \in [Peer -> [retry : Nat, retryCountdown : Nat]]
    /\ pc = "forget" => deadNodeRetries[node] = NoCounter
    /\ LTypeOK
    /\ BackoffIsExponential

\* The counter of a peer and the visits it stands for.
Counts(dnc, v) ==
    /\ dnc.retry \in 1 .. maxDeadNodeRetries
    /\ dnc.retryCountdown \in 1 .. 2 ^ dnc.retry
    /\ v = (2 ^ (dnc.retry + 1) - 2) - dnc.retryCountdown

\* A fresh counter has been counted down once; others once more than before.
LEMMA CountedDown ==
    ASSUME NEW old \in [retry : Nat, retryCountdown : Nat], NEW v \in Nat,
           IF old = NoCounter THEN v = 0 ELSE Counts(old, v)
    PROVE  LET dnc == CountDown(old)
           IN  /\ dnc \in [retry : Nat, retryCountdown : Int]
               /\ dnc.retry \in 1 .. maxDeadNodeRetries
               /\ dnc.retryCountdown \in 0 .. 2 ^ dnc.retry
               /\ v + 1 = (2 ^ (dnc.retry + 1) - 2) - dnc.retryCountdown
<1>1. CASE old = NoCounter
  <2>1. CountDown(old) = [retry |-> 1, retryCountdown |-> 1]
        BY <1>1 DEF CountDown
  <2>2. 2 ^ 1 = 2 * 2 ^ 0 /\ 2 ^ (1 + 1) = 2 * 2 ^ 1
        BY PowerOfTwo
  <2>3. 2 ^ 1 = 2 /\ 2 ^ (1 + 1) = 4
        BY <2>2, PowerOfZero
  <2> QED BY <1>1, <2>1, <2>3, RetriesAssumption
<1>2. CASE old # NoCounter
  <2> DEFINE dnc == CountDown(old)
  <2>1. dnc = [old EXCEPT !.retryCountdown = @ - 1]
        BY <1>2 DEF CountDown
  <2>2. dnc.retry = old.retry /\ dnc.retryCountdown = old.retryCountdown - 1
        BY <2>1
  <2>3. dnc \in [retry : Nat, retryCountdown : Int]
        BY <2>1
  <2>4. 2 ^ old.retry \in Nat /\ 2 ^ (old.retry + 1) \in Nat
        BY PowerOfTwo
  <2> HIDE DEF dnc
  <2>5. dnc.retry \in 1 .. maxDeadNodeRetries
        BY <1>2, <2>2 DEF Counts
  <2>6. dnc.retryCountdown \in 0 .. 2 ^ dnc.retry
        BY <1>2, <2>2, <2>4, RetriesAssumption DEF Counts
  <2>7. v + 1 = (2 ^ (dnc.retry + 1) - 2) - dnc.retryCountdown
        BY <1>2, <2>2, <2>4 DEF Counts
  <2> QED BY <2>3, <2>5, <2>6, <2>7 DEF dnc
<1> QED BY <1>1, <1>2

\* What the invariant says of peer p, and of the rest.
Consistent(p) ==
    IF deadNodeRetries[p] # NoCounter
    THEN Counts(deadNodeRetries[p], visits[p])
    ELSE \/ visits[p] = 0
         \/ node = p /\ pc = "forget" /\ visits[p] = 2 ^ (maxDeadNodeRetries + 1) - 2

Typed ==
    /\ deadNodeRetries \in [Peer -> [retry : Nat, retryCountdown : Nat]]
    /\ pc = "forget" => deadNodeRetries[node] = NoCounter
    /\ knownNodes \in [Peer -> Status \cup {"absent"}]
    /\ knownNodesModifiedFlag \in BOOLEAN
    /\ randomAllNodes \subseteq Peer
    /\ node \in Peer \cup {NoPeer}
    /\ pc \in {"list", "next", "dead", "forget", "ping", "check", "reset"}
    /\ pc \in {"dead", "forget", "ping", "check", "reset"} => node \in Peer
    /\ clearing \in [Peer -> 0 .. MaxUpdates]
    /\ visits \in [Peer -> Nat]
    /\ retries \in [Peer -> Nat]

LEMMA EParts == EInv <=> Typed /\ \A p \in Peer : Consistent(p)
BY DEF EInv, LTypeOK, BackoffIsExponential, Typed, Consistent, Counts

LEMMA EBackOff ==
    ASSUME EInv, BackOff
    PROVE  EInv'
<1> DEFINE old == deadNodeRetries[node]
           dnc == CountDown(old)
           v == visits[node]
<1>1. Typed /\ \A p \in Peer : Consistent(p)
      BY EParts
<1>2. /\ pc = "dead" /\ node \in Peer
      /\ visits' = [visits EXCEPT ![node] = @ + 1]
      /\ UNCHANGED <<clearing, knownNodes, knownNodesModifiedFlag, randomAllNodes, node,
                     retries>>
      BY <1>1 DEF BackOff, Typed
<1>3. /\ old \in [retry : Nat, retryCountdown : Nat] /\ v \in Nat
      /\ IF old = NoCounter THEN v = 0 ELSE Counts(old, v)
      BY <1>1, <1>2 DEF Typed, Consistent
<1>4. /\ dnc \in [retry : Nat, retryCountdown : Int]
      /\ dnc.retry \in 1 .. maxDeadNodeRetries
      /\ dnc.retryCountdown \in 0 .. 2 ^ dnc.retry
      /\ v + 1 = (2 ^ (dnc.retry + 1) - 2) - dnc.retryCountdown
      BY <1>3, CountedDown
<1>5. \/ /\ dnc.retryCountdown > 0
         /\ deadNodeRetries' = [deadNodeRetries EXCEPT ![node] = dnc]
         /\ pc' = "next"
      \/ /\ dnc.retryCountdown <= 0
         /\ dnc.retry + 1 <= maxDeadNodeRetries
         /\ deadNodeRetries' = [deadNodeRetries EXCEPT ![node] =
               [retry |-> dnc.retry + 1, retryCountdown |-> 2 ^ (dnc.retry + 1)]]
         /\ pc' = "ping"
      \/ /\ dnc.retryCountdown <= 0
         /\ dnc.retry + 1 > maxDeadNodeRetries
         /\ deadNodeRetries' = [deadNodeRetries EXCEPT ![node] = NoCounter]
         /\ pc' = "forget"
      BY DEF BackOff
<1> HIDE DEF dnc, old, v
<1>6. /\ 2 ^ dnc.retry \in Nat
      /\ 2 ^ (dnc.retry + 1) \in Nat
      /\ 2 ^ (dnc.retry + 1 + 1) = 2 * 2 ^ (dnc.retry + 1)
      BY <1>4, PowerOfTwo
<1>7. \E c \in [retry : Nat, retryCountdown : Nat] :
         /\ deadNodeRetries' = [deadNodeRetries EXCEPT ![node] = c]
         /\ \/ c # NoCounter /\ pc' # "forget" /\ Counts(c, v + 1)
            \/ /\ c = NoCounter /\ pc' = "forget"
               /\ v + 1 = 2 ^ (maxDeadNodeRetries + 1) - 2
  <2>1. CASE /\ dnc.retryCountdown > 0
             /\ deadNodeRetries' = [deadNodeRetries EXCEPT ![node] = dnc]
             /\ pc' = "next"
    <3>1. dnc \in [retry : Nat, retryCountdown : Nat] /\ dnc # NoCounter
          BY <1>4, <2>1 DEF NoCounter
    <3>2. Counts(dnc, v + 1)
          BY <1>4, <1>6, <2>1 DEF Counts
    <3> QED BY <2>1, <3>1, <3>2, Zenon
  <2>2. CASE /\ dnc.retryCountdown <= 0
             /\ dnc.retry + 1 <= maxDeadNodeRetries
             /\ deadNodeRetries' = [deadNodeRetries EXCEPT ![node] =
                   [retry |-> dnc.retry + 1, retryCountdown |-> 2 ^ (dnc.retry + 1)]]
             /\ pc' = "ping"
    <3> DEFINE c == [retry |-> dnc.retry + 1, retryCountdown |-> 2 ^ (dnc.retry + 1)]
    <3>1. /\ c \in [retry : Nat, retryCountdown : Nat]
          /\ c.retry = dnc.retry + 1 /\ c.retryCountdown = 2 ^ (dnc.retry + 1)
          BY <1>4, <1>6
    <3>2. deadNodeRetries' = [deadNodeRetries EXCEPT ![node] = c]
          BY <2>2
    <3> HIDE DEF c
    <3>3. c # NoCounter
          BY <1>4, <3>1 DEF NoCounter
    <3>4. dnc.retryCountdown = 0 /\ v + 1 = 2 ^ (dnc.retry + 1) - 2
          BY <1>4, <1>6, <2>2
    <3>5. 2 ^ (dnc.retry + 1) >= 1
      <4>1. v + 1 >= 0
            BY <1>3 DEF v
      <4> QED BY <1>6, <3>4, <4>1
    <3>6. Counts(c, v + 1)
          BY <1>4, <1>6, <2>2, <3>1, <3>4, <3>5, RetriesAssumption DEF Counts
    <3> QED BY <2>2, <3>1, <3>2, <3>3, <3>6, Zenon
  <2>3. CASE /\ dnc.retryCountdown <= 0
             /\ dnc.retry + 1 > maxDeadNodeRetries
             /\ deadNodeRetries' = [deadNodeRetries EXCEPT ![node] = NoCounter]
             /\ pc' = "forget"
    <3>1. dnc.retry = maxDeadNodeRetries
          BY <1>4, <2>3, RetriesAssumption
    <3>2. dnc.retryCountdown = 0
          BY <1>4, <1>6, <2>3
    <3>3. v + 1 = 2 ^ (maxDeadNodeRetries + 1) - 2
          BY <1>4, <1>6, <3>1, <3>2
    <3>4. NoCounter \in [retry : Nat, retryCountdown : Nat]
          BY DEF NoCounter
    <3> QED BY <2>3, <3>3, <3>4, Zenon
  <2> QED BY <1>5, <2>1, <2>2, <2>3
<1>8. PICK c \in [retry : Nat, retryCountdown : Nat] : <1>7!(c)
      BY <1>7, Zenon
<1>9. pc' \in {"next", "ping", "forget"}
      BY <1>5
<1>10. Typed'
      BY <1>1, <1>2, <1>8, <1>9 DEF Typed
<1>11. ASSUME NEW p \in Peer PROVE Consistent(p)'
  <2>1. CASE p = node
        BY <1>1, <1>2, <1>8, <2>1 DEF Typed, Consistent, v
  <2>2. CASE p # node
        BY <1>1, <1>2, <1>8, <2>2 DEF Typed, Consistent
  <2> QED BY <2>1, <2>2
<1>12. (Typed /\ \A p \in Peer : Consistent(p))' => EInv'
      BY EParts, PTL
<1> QED BY <1>10, <1>11, <1>12

LEMMA ENext == EInv /\ [LNext]_lvars => EInv'
<1> SUFFICES ASSUME EInv, [LNext]_lvars PROVE EInv'
    OBVIOUS
<1>1. Typed /\ \A p \in Peer : Consistent(p)
      BY EParts
<1>2. CASE BackOff
      BY <1>2, EBackOff
<1>3. ASSUME Typed', \A p \in Peer : Consistent(p)' PROVE EInv'
  <2>1. (Typed /\ \A p \in Peer : Consistent(p))' => EInv'
        BY EParts, PTL
  <2> QED BY <1>3, <2>1
<1>4. ASSUME pc # "forget", UNCHANGED <<deadNodeRetries, visits>>
      PROVE  \A p \in Peer : Consistent(p)'
      BY <1>1, <1>4 DEF Consistent
<1>5. CASE UNCHANGED lvars
      BY <1>1, <1>3, <1>5 DEF lvars, Typed, Consistent
<1>6. CASE GetRandomNodes
      BY <1>1, <1>3, <1>4, <1>6 DEF GetRandomNodes, Typed
<1>7. ASSUME NEW p \in Peer, Visit(p) PROVE EInv'
      BY <1>1, <1>3, <1>4, <1>7 DEF Visit, Typed
<1>8. CASE EndOfList
      BY <1>1, <1>3, <1>4, <1>8 DEF EndOfList, Typed
<1>9. CASE RemoveNode
  <2>1. Typed'
        BY <1>1, <1>9 DEF RemoveNode, Typed, Status
  <2>2. ASSUME NEW p \in Peer PROVE Consistent(p)'
        BY <1>1, <1>9 DEF RemoveNode, Typed, Consistent, Counts
  <2> QED BY <1>3, <2>1, <2>2
<1>10. CASE PingNode
      BY <1>1, <1>3, <1>4, <1>10 DEF PingNode, Typed
<1>11. CASE CheckFlag \/ ResetFlag
      BY <1>1, <1>3, <1>4, <1>11, Zenon DEF CheckFlag, ResetFlag, Typed
<1>12. ASSUME NEW p \in Peer, NEW status \in Status, Learn(p, status)
       PROVE  EInv'
  <2>1. UNCHANGED <<deadNodeRetries, randomAllNodes, node, pc, visits>>
        BY <1>12 DEF Learn
  <2>2. Typed'
        BY <1>1, <1>12, UpdatesAssumption DEF Learn, UpdateNodeStatus, AddNode, Typed
  <2>3. \A q \in Peer : Consistent(q)'
        BY <1>1, <2>1 DEF Consistent
  <2> QED BY <1>3, <2>2, <2>3
<1>13. ASSUME NEW p \in Peer, ClearCounter(p) PROVE EInv'
  <2>1. NoCounter \in [retry : Nat, retryCountdown : Nat]
        BY DEF NoCounter
  <2>2. Typed'
        BY <1>1, <1>13, <2>1, UpdatesAssumption DEF ClearCounter, Typed
  <2>3. \A q \in Peer : Consistent(q)'
        BY <1>1, <1>13 DEF ClearCounter, Typed, Consistent
  <2> QED BY <1>3, <2>2, <2>3
<1> QED BY <1>2, <1>5, <1>6, <1>7, <1>8, <1>9, <1>10, <1>11, <1>12, <1>13
        DEF LNext, Loop, Others

LEMMA EInit == LInit => EInv
<1>1. LInit => Typed
      BY PeerAssumption, UpdatesAssumption DEF LInit, Typed, Status, NoCounter
<1>2. LInit => \A p \in Peer : Consistent(p)
      BY Zenon DEF LInit, Consistent
<1> QED BY <1>1, <1>2, EParts

\* The variables of the loop have their types: no counter exceeds the limit of
\* retries, and a countdown never runs below one or above 2^retry.
THEOREM LoopTypeCorrect == LSpec => []LTypeOK
<1>1. EInv => LTypeOK
      BY DEF EInv
<1> QED BY <1>1, EInit, ENext, PTL DEF LSpec

\* The waits between the pings of a dead node double from one to the next (the
\* deadNodeCounter of Begin's loop), for any number of peers, any limit of retries
\* and whatever news of the node come in between.
THEOREM BackoffDoubles == LSpec => []BackoffIsExponential
<1>1. EInv => BackoffIsExponential
      BY DEF EInv
<1> QED BY <1>1, EInit, ENext, PTL DEF LSpec

=============================================================================
