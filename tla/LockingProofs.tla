---------------------------- MODULE LockingProofs ----------------------------
(***************************************************************************)
(* No deadlock, and no concurrent use of the ping statistics, whatever the *)
(* number of goroutines and whatever the listeners call in the order of    *)
(* the locks.                                                              *)
(***************************************************************************)
EXTENDS Locking, SequenceTheorems, TLAPS

\* The locks on a stack were taken in their order.
Ordered(q) == \A i, j \in 1 .. Len(q) : i < j => Follows(q[i], q[j])

\* The lock of site s comes after all the locks on a stack.
Above(q, s) == \A t \in Range(q) : Follows(t, s)

\* Locks are taken in their order, and only writers announce themselves.
InOrder ==
    \A g \in Goroutine :
        /\ Ordered(stack[g])
        /\ Waits(g) => waiting[g].site \in Site /\ Above(stack[g], waiting[g].site)
        /\ waiting[g].announced => ~Reads(waiting[g].site)

\* A lock has one writer, and a writer that holds it has no readers beside it.
Exclusion ==
    \A g, k \in Goroutine : \A s \in Site :
        /\ Writer(g, Lock(s)) /\ Writer(k, Lock(s)) => g = k
        /\ ~(HoldsToWrite(g, Lock(s)) /\ HoldsToRead(k, Lock(s)))

GInv == GTypeOK /\ InOrder /\ Exclusion

-----------------------------------------------------------------------------
(* Sites and stacks *)

LEMMA Ranks == \A s \in Site : Rank(Lock(s)) \in 0 .. 3
BY DEF Site, Lock, Rank

LEMMA FollowsIsTransitive ==
    ASSUME NEW s \in Site, NEW t \in Site, NEW u \in Site, Follows(s, t), Follows(t, u)
    PROVE  Follows(s, u)
BY Ranks DEF Follows

LEMMA FollowsIsStrict == ASSUME NEW s \in Site, NEW t \in Site, Follows(s, t)
                         PROVE  Lock(s) # Lock(t)
BY Ranks DEF Follows

\* What is called while a lock is held takes a lock that comes after it.
LEMMA CallsFollow == ASSUME NEW s \in Site, NEW t \in Calls(s)
                     PROVE  t \in Site /\ Follows(s, t)
  <1>1. CASE s = "startTimeoutCheckLoop"
    BY <1>1 DEF Calls, Site, Follows, Lock, Rank
  <1>2. CASE s = "receiveAck"
    BY <1>2 DEF Calls, Site, Follows, Lock, Rank
  <1>3. CASE s = "doStatusUpdate"
    BY <1>3, ListenerAssumption DEF Calls, Site, Exported
  <1>4. CASE s = "doBroadcastUpdate"
    BY <1>4, ListenerAssumption DEF Calls, Site, Exported
  <1>5. CASE s \notin {"startTimeoutCheckLoop", "receiveAck", "doStatusUpdate",
                       "doBroadcastUpdate"}
    BY <1>5 DEF Calls
  <1> QED
    BY <1>1, <1>2, <1>3, <1>4, <1>5

LEMMA RootsAreSites == ASSUME NEW g, NEW s \in Roots(g) PROVE s \in Site
BY DEF Roots, Site

LEMMA Push ==
    ASSUME NEW q \in Seq(Site), NEW s \in Site
    PROVE  /\ Append(q, s) \in Seq(Site)
           /\ Range(Append(q, s)) = Range(q) \cup {s}
           /\ Ordered(q) /\ Above(q, s) => Ordered(Append(q, s))
  <1>1. /\ Append(q, s) \in Seq(Site)
        /\ Len(q) \in Nat
        /\ Len(Append(q, s)) = Len(q) + 1
        /\ \A i \in 1 .. Len(q) : Append(q, s)[i] = q[i]
        /\ Append(q, s)[Len(q) + 1] = s
    OBVIOUS
  <1>2. DOMAIN q = 1 .. Len(q) /\ DOMAIN Append(q, s) = 1 .. (Len(q) + 1)
    OBVIOUS
  <1>3. Range(Append(q, s)) = Range(q) \cup {s}
    BY <1>1, <1>2 DEF Range
  <1>4. ASSUME Ordered(q), Above(q, s) PROVE Ordered(Append(q, s))
    <2> SUFFICES ASSUME NEW i \in 1 .. (Len(q) + 1), NEW j \in 1 .. (Len(q) + 1), i < j
                 PROVE  Follows(Append(q, s)[i], Append(q, s)[j])
      BY <1>1 DEF Ordered
    <2>1. i \in 1 .. Len(q) /\ Append(q, s)[i] = q[i]
      BY <1>1
    <2>2. CASE j = Len(q) + 1
      BY <1>1, <1>2, <1>4, <2>1, <2>2 DEF Above, Range
    <2>3. CASE j # Len(q) + 1
      BY <1>1, <1>4, <2>1, <2>3 DEF Ordered
    <2> QED
      BY <2>2, <2>3
  <1> QED
    BY <1>1, <1>3, <1>4

LEMMA Pop ==
    ASSUME NEW q \in Seq(Site), q # <<>>
    PROVE  LET p == SubSeq(q, 1, Len(q) - 1)
               s == q[Len(q)]
           IN  /\ s \in Site
               /\ s \in Range(q)
               /\ p \in Seq(Site)
               /\ Range(q) = Range(p) \cup {s}
               /\ Ordered(q) => Ordered(p) /\ Above(p, s)
  <1> DEFINE p == SubSeq(q, 1, Len(q) - 1)
  <1>1. Len(q) \in Nat \ {0} /\ DOMAIN q = 1 .. Len(q) /\ q[Len(q)] \in Site
    OBVIOUS
  <1>2. /\ p \in Seq(Site)
        /\ Len(p) = Len(q) - 1
        /\ \A i \in 1 .. (Len(q) - 1) : p[i] = q[i]
    BY <1>1
  <1>3. DOMAIN p = 1 .. (Len(q) - 1)
    BY <1>2
  <1> HIDE DEF p
  <1>4. Range(q) = Range(p) \cup {q[Len(q)]} /\ q[Len(q)] \in Range(q)
    BY <1>1, <1>2, <1>3 DEF Range
  <1>5. ASSUME Ordered(q) PROVE Ordered(p) /\ Above(p, q[Len(q)])
    BY <1>1, <1>2, <1>3, <1>5 DEF Ordered, Above, Range
  <1> QED
    BY <1>1, <1>2, <1>4, <1>5 DEF p

\* A site called at the top of an ordered stack is above the stack.
LEMMA CallIsAbove ==
    ASSUME NEW q \in Seq(Site), q # <<>>, Ordered(q), NEW s \in Calls(q[Len(q)])
    PROVE  s \in Site /\ Above(q, s)
  <1> DEFINE p == SubSeq(q, 1, Len(q) - 1)
  <1> DEFINE top == q[Len(q)]
  <1>1. top \in Site /\ Range(q) = Range(p) \cup {top} /\ Above(p, top) /\ p \in Seq(Site)
    BY Pop
  <1> HIDE DEF p, top
  <1>2. s \in Site /\ Follows(top, s)
    BY <1>1, CallsFollow DEF top
  <1>3. \A t \in Range(p) : t \in Site
    BY <1>1 DEF Range
  <1> QED
    BY <1>1, <1>2, <1>3, FollowsIsTransitive DEF Above

-----------------------------------------------------------------------------
(* The invariant *)

\* Whoever waits does so at a site; Running is not announced.
LEMMA WaitingSite ==
    ASSUME GTypeOK, NEW g \in Goroutine
    PROVE  /\ Waits(g) => waiting[g].site \in Site
           /\ waiting[g].announced => Waits(g)
           /\ ~Waits(g) => ~waiting[g].announced
BY DEF GTypeOK, Waits, Running

LEMMA EnterStep ==
    ASSUME GInv, NEW g \in Goroutine, NEW s \in Site, Enter(g, s)
    PROVE  GInv'
  <1> USE DEF GInv
  <1>1. /\ stack \in [Goroutine -> Seq(Site)]
        /\ waiting \in [Goroutine -> [site : Site \cup {"none"}, announced : BOOLEAN]]
        /\ ~waiting[g].announced
    BY WaitingSite DEF GTypeOK, Enter
  <1>2. Above(stack[g], s)
    <2>1. CASE stack[g] = <<>>
      BY <2>1 DEF Above, Range
    <2>2. CASE stack[g] # <<>>
      <3>1. s \in Calls(stack[g][Len(stack[g])])
        BY <2>2 DEF Enter
      <3> QED
        BY <1>1, <2>2, <3>1, CallIsAbove DEF InOrder
    <2> QED
      BY <2>1, <2>2
  <1>3. calls' \in [Goroutine -> 0 .. MaxCalls]
    <2>1. CASE stack[g] = <<>>
      <3>1. calls' = [calls EXCEPT ![g] = 0]
        BY <2>1 DEF Enter
      <3> QED
        BY <3>1, CallsAssumption DEF GTypeOK
    <2>2. CASE stack[g] # <<>>
      <3>1. calls[g] < MaxCalls /\ calls' = [calls EXCEPT ![g] = @ + 1]
        BY <2>2 DEF Enter
      <3> QED
        BY <3>1, CallsAssumption DEF GTypeOK
    <2> QED
      BY <2>1, <2>2
  <1>4. CASE /\ Reads(s) /\ \A k \in Goroutine : ~Writer(k, Lock(s))
             /\ stack' = [stack EXCEPT ![g] = Append(@, s)] /\ UNCHANGED waiting
    <2>1. /\ Append(stack[g], s) \in Seq(Site)
          /\ Range(stack'[g]) = Range(stack[g]) \cup {s}
          /\ Ordered(stack'[g])
      BY <1>1, <1>2, <1>4, Push DEF InOrder
    <2>2. \A k \in Goroutine : k # g => stack'[k] = stack[k]
      BY <1>1, <1>4
    <2>3. GTypeOK'
      BY <1>1, <1>3, <1>4, <2>1 DEF GTypeOK
    <2>4. InOrder'
      BY <1>4, <2>1, <2>2 DEF InOrder, Waits, Enter
    <2>5. Exclusion'
      <3>1. \A k \in Goroutine : \A l :
               /\ HoldsToWrite(k, l)' <=> HoldsToWrite(k, l)
               /\ HoldsToRead(k, l)' <=> HoldsToRead(k, l) \/ (k = g /\ l = Lock(s))
        BY <1>4, <2>1, <2>2 DEF HoldsToWrite, HoldsToRead
      <3>2. \A k \in Goroutine : \A l : Writer(k, l)' <=> Writer(k, l)
        BY <1>4, <3>1 DEF Writer
      <3>3. \A k \in Goroutine : ~HoldsToWrite(k, Lock(s))
        BY <1>4 DEF Writer
      <3> QED
        BY <3>1, <3>2, <3>3 DEF Exclusion
    <2> QED
      BY <2>3, <2>4, <2>5
  <1>5. CASE waiting' = [waiting EXCEPT ![g] = Queued(s)] /\ UNCHANGED stack
    <2>1. /\ waiting'[g] = Queued(s)
          /\ \A k \in Goroutine : k # g => waiting'[k] = waiting[k]
      BY <1>1, <1>5
    <2>2. GTypeOK'
      <3>1. Queued(s) \in [site : Site \cup {"none"}, announced : BOOLEAN]
        BY DEF Queued
      <3>2. waiting' \in [Goroutine -> [site : Site \cup {"none"}, announced : BOOLEAN]]
        BY <1>1, <1>5, <3>1
      <3> QED
        BY <1>1, <1>3, <1>5, <2>1, <3>2 DEF GTypeOK, Queued
    <2>3. InOrder'
      <3>1. waiting'[g].site = s /\ waiting'[g].announced = FALSE
        BY <2>1 DEF Queued
      <3> QED
        BY <1>2, <1>5, <2>1, <3>1 DEF InOrder, Waits
    <2>4. Exclusion'
      <3>1. \A k \in Goroutine : \A l :
               /\ HoldsToWrite(k, l)' <=> HoldsToWrite(k, l)
               /\ HoldsToRead(k, l)' <=> HoldsToRead(k, l)
        BY <1>5 DEF HoldsToWrite, HoldsToRead
      <3>2. \A k \in Goroutine : \A l : Writer(k, l)' <=> Writer(k, l)
        BY <1>1, <2>1, <3>1 DEF Writer, Queued
      <3> QED
        BY <3>1, <3>2 DEF Exclusion
    <2> QED
      BY <2>2, <2>3, <2>4
  <1> QED
    BY <1>4, <1>5 DEF Enter

LEMMA AnnounceStep ==
    ASSUME GInv, NEW g \in Goroutine, Announce(g)
    PROVE  GInv'
  <1> USE DEF GInv
  <1> DEFINE s == waiting[g].site
  <1>1. /\ s \in Site
        /\ ~Reads(s)
        /\ ~waiting[g].announced
        /\ Above(stack[g], s)
    BY WaitingSite DEF Announce, InOrder
  <1>2. /\ waiting'[g] = Announced(s)
        /\ \A k \in Goroutine : k # g => waiting'[k] = waiting[k]
        /\ UNCHANGED <<stack, calls>>
    BY DEF Announce, GTypeOK
  <1>3. \A k \in Goroutine : ~Writer(k, Lock(s))
    BY <1>1 DEF Announce, Blocks
  <1>4. waiting' \in [Goroutine -> [site : Site \cup {"none"}, announced : BOOLEAN]]
    <2>1. Announced(s) \in [site : Site \cup {"none"}, announced : BOOLEAN]
      BY <1>1 DEF Announced
    <2> QED
      BY <2>1 DEF Announce, GTypeOK
  <1>5. waiting'[g].site = s /\ waiting'[g].announced = TRUE /\ s # "none"
    BY <1>1, <1>2 DEF Announced, Site
  <1> HIDE DEF s
  <1>6. GTypeOK'
    BY <1>2, <1>4, <1>5 DEF GTypeOK
  <1>7. InOrder'
    BY <1>1, <1>2, <1>5 DEF InOrder, Waits
  <1>8. Exclusion'
    <2>1. \A k \in Goroutine : \A l :
             /\ HoldsToWrite(k, l)' <=> HoldsToWrite(k, l)
             /\ HoldsToRead(k, l)' <=> HoldsToRead(k, l)
      BY <1>2 DEF HoldsToWrite, HoldsToRead
    <2>2. \A k \in Goroutine : \A l :
             Writer(k, l)' => Writer(k, l) \/ (k = g /\ l = Lock(s))
      BY <1>2, <1>5, <2>1 DEF Writer
    <2> QED
      BY <1>3, <2>1, <2>2 DEF Exclusion
  <1> QED
    BY <1>6, <1>7, <1>8

LEMMA AcquireStep ==
    ASSUME GInv, NEW g \in Goroutine, Acquire(g)
    PROVE  GInv'
  <1> USE DEF GInv
  <1> DEFINE s == waiting[g].site
  <1>1. /\ Waits(g)
        /\ s \in Site
        /\ ~Reads(s)
        /\ waiting[g].announced
        /\ Above(stack[g], s)
    BY WaitingSite DEF Acquire, InOrder
  <1>2. /\ waiting'[g] = Running
        /\ \A k \in Goroutine : k # g => waiting'[k] = waiting[k] /\ stack'[k] = stack[k]
        /\ stack'[g] = Append(stack[g], s)
    BY DEF Acquire, GTypeOK
  <1>3. \A k \in Goroutine : ~HoldsToRead(k, Lock(s))
    BY <1>1 DEF Acquire, Blocks
  <1>4. waiting'[g].site = "none" /\ waiting'[g].announced = FALSE
    BY <1>2 DEF Running
  <1>5. /\ stack'[g] \in Seq(Site)
        /\ Range(stack'[g]) = Range(stack[g]) \cup {s}
        /\ Ordered(stack'[g])
    BY <1>1, <1>2, Push DEF InOrder, GTypeOK
  <1>6. GTypeOK'
    <2>1. Running \in [site : Site \cup {"none"}, announced : BOOLEAN]
      BY DEF Running
    <2>2. waiting' \in [Goroutine -> [site : Site \cup {"none"}, announced : BOOLEAN]]
      BY <2>1 DEF Acquire, GTypeOK
    <2>3. stack' \in [Goroutine -> Seq(Site)]
      BY <1>2, <1>5 DEF Acquire, GTypeOK
    <2> QED
      BY <1>2, <1>4, <2>2, <2>3 DEF Acquire, GTypeOK
  <1>7. InOrder'
    BY <1>2, <1>4, <1>5, Zenon DEF InOrder, Waits
  <1>8. Exclusion'
    <2> HIDE DEF s
    <2>1. \A k \in Goroutine : \A l :
             /\ HoldsToWrite(k, l)' <=> HoldsToWrite(k, l) \/ (k = g /\ l = Lock(s))
             /\ HoldsToRead(k, l)' <=> HoldsToRead(k, l)
      BY <1>1, <1>2, <1>5, Zenon DEF HoldsToWrite, HoldsToRead
    <2>2. Writer(g, Lock(s))
      BY <1>1 DEF Writer, s
    <2>3. \A k \in Goroutine : \A l : Writer(k, l)' => Writer(k, l)
      BY <1>2, <1>4, <2>1, <2>2 DEF Writer
    <2> QED
      BY <1>3, <2>1, <2>3 DEF Exclusion
  <1> QED
    BY <1>6, <1>7, <1>8

LEMMA LeaveStep ==
    ASSUME GInv, NEW g \in Goroutine, Leave(g)
    PROVE  GInv'
  <1> USE DEF GInv
  <1> DEFINE q == stack[g]
             s == q[Len(q)]
             p == SubSeq(q, 1, Len(q) - 1)
             admitted == IF Reads(s) THEN {} ELSE Admitted(Lock(s))
  <1>1. /\ s \in Site /\ s \in Range(q)
        /\ p \in Seq(Site)
        /\ Range(q) = Range(p) \cup {s}
        /\ Ordered(p) /\ Above(p, s)
    <2>1. q \in Seq(Site) /\ q # <<>> /\ Ordered(q)
      BY DEF Leave, GTypeOK, InOrder
    <2> QED
      BY <2>1, Pop
  <1>2. \A k \in admitted : /\ k \in Goroutine
                           /\ k # g
                           /\ ~Reads(s)
                           /\ Reads(waiting[k].site)
                           /\ waiting[k].site \in Site
                           /\ Lock(waiting[k].site) = Lock(s)
                           /\ Above(stack[k], waiting[k].site)
    BY DEF Admitted, Leave, InOrder
  <1>3. /\ stack' = [k \in Goroutine |->
              IF k = g THEN p
              ELSE IF k \in admitted THEN Append(stack[k], waiting[k].site)
              ELSE stack[k]]
        /\ waiting' = [k \in Goroutine |-> IF k \in admitted THEN Running ELSE waiting[k]]
        /\ calls' = [calls EXCEPT ![g] = IF Len(stack[g]) = 1 THEN 0 ELSE @]
    BY DEF Leave
  <1> HIDE DEF q, s, p, admitted
  <1>4. /\ stack'[g] = p
        /\ stack[g] = q
        /\ waiting'[g] = waiting[g]
        /\ \A k \in admitted : /\ stack'[k] = Append(stack[k], waiting[k].site)
                              /\ waiting'[k] = Running
        /\ \A k \in Goroutine : k # g /\ k \notin admitted =>
              stack'[k] = stack[k] /\ waiting'[k] = waiting[k]
    BY <1>2, <1>3 DEF q
  <1>5. \A k \in admitted :
           /\ stack'[k] \in Seq(Site)
           /\ Range(stack'[k]) = Range(stack[k]) \cup {waiting[k].site}
           /\ Ordered(stack'[k])
    <2> SUFFICES ASSUME NEW k \in admitted
                 PROVE  /\ stack'[k] \in Seq(Site)
                        /\ Range(stack'[k]) = Range(stack[k]) \cup {waiting[k].site}
                        /\ Ordered(stack'[k])
      BY Zenon
    <2>1. stack[k] \in Seq(Site) /\ Ordered(stack[k])
      BY <1>2 DEF InOrder, GTypeOK
    <2> QED
      BY <1>2, <1>4, <2>1, Push, ZenonT(60)
  <1>6. Running.site = "none" /\ Running.announced = FALSE
        /\ Running \in [site : Site \cup {"none"}, announced : BOOLEAN]
    BY DEF Running
  <1>7. GTypeOK'
    <2>1. waiting' \in [Goroutine -> [site : Site \cup {"none"}, announced : BOOLEAN]]
      BY <1>3, <1>6 DEF GTypeOK
    <2>2. \A k \in Goroutine : stack'[k] \in Seq(Site)
      BY <1>1, <1>4, <1>5, Zenon DEF GTypeOK
    <2>3. stack' \in [Goroutine -> Seq(Site)]
      BY <1>3, <2>2
    <2>4. calls' \in [Goroutine -> 0 .. MaxCalls]
      BY <1>3, CallsAssumption DEF GTypeOK
    <2>5. \A k \in Goroutine : waiting'[k].site = "none" => ~waiting'[k].announced
      BY <1>4, <1>6, Zenon DEF GTypeOK
    <2> QED
      BY <2>1, <2>3, <2>4, <2>5 DEF GTypeOK
  <1>8. InOrder'
    <2> SUFFICES ASSUME NEW k \in Goroutine
                 PROVE  /\ Ordered(stack'[k])
                        /\ waiting'[k] # Running =>
                              /\ waiting'[k].site \in Site
                              /\ Above(stack'[k], waiting'[k].site)
                        /\ waiting'[k].announced => ~Reads(waiting'[k].site)
      BY DEF InOrder, Waits
    <2>1. CASE k \in admitted
      BY <1>4, <1>5, <1>6, <2>1
    <2>2. CASE k = g
      BY <1>1, <1>4, <2>2 DEF InOrder, Above, Waits
    <2>3. CASE k # g /\ k \notin admitted
      BY <1>4, <2>3 DEF InOrder, Waits
    <2> QED
      BY <2>1, <2>2, <2>3
  <1>9. Exclusion'
    <2>1. \A k \in Goroutine : \A l : HoldsToWrite(k, l)' => HoldsToWrite(k, l)
      <3> SUFFICES ASSUME NEW k \in Goroutine, NEW l, NEW t \in Range(stack'[k]),
                          Lock(t) = l, ~Reads(t)
                   PROVE  t \in Range(stack[k])
        BY DEF HoldsToWrite
      <3>1. CASE k = g
        BY <1>1, <1>4, <3>1
      <3>2. CASE k \in admitted
        BY <1>2, <1>5, <3>2
      <3>3. CASE k # g /\ k \notin admitted
        BY <1>4, <3>3
      <3> QED
        BY <3>1, <3>2, <3>3
    <2>2. \A k \in Goroutine : \A l :
             HoldsToRead(k, l)' =>
                HoldsToRead(k, l) \/ (k \in admitted /\ l = Lock(s))
      BY <1>1, <1>2, <1>4, <1>5, ZenonT(60) DEF HoldsToRead
    <2>3. \A k \in Goroutine : \A l : Writer(k, l)' => Writer(k, l)
      BY <1>4, <1>6, <2>1 DEF Writer
    <2>4. \A l : l = Lock(s) => ~HoldsToWrite(g, l)'
      <3>1. \A t \in Range(p) : t \in Site /\ Lock(t) # Lock(s)
        BY <1>1, FollowsIsStrict DEF Above, Range
      <3> QED
        BY <1>4, <3>1 DEF HoldsToWrite
    <2>5. admitted # {} => HoldsToWrite(g, Lock(s))
      BY <1>1, <1>2, <1>4 DEF HoldsToWrite
    <2>6. ASSUME NEW a \in Goroutine, NEW b \in Goroutine, NEW t \in Site,
                 HoldsToWrite(a, Lock(t))', HoldsToRead(b, Lock(t))'
          PROVE  FALSE
      <3>1. HoldsToWrite(a, Lock(t))
        BY <2>1, <2>6
      <3>2. b \in admitted /\ Lock(t) = Lock(s)
        BY <2>2, <2>6, <3>1 DEF Exclusion
      <3>3. Writer(a, Lock(s)) /\ Writer(g, Lock(s))
        BY <2>5, <3>1, <3>2 DEF Writer
      <3>4. a = g
        BY <1>1, <3>3 DEF Exclusion
      <3> QED
        BY <2>4, <2>6, <3>2, <3>4
    <2>7. \A a, b \in Goroutine : \A t \in Site :
             Writer(a, Lock(t))' /\ Writer(b, Lock(t))' => a = b
      BY <2>3 DEF Exclusion
    <2> QED
      BY <2>6, <2>7 DEF Exclusion
  <1> QED
    BY <1>7, <1>8, <1>9

LEMMA LockStep == ASSUME GInv, [GNext]_gvars PROVE GInv'
  <1>1. CASE UNCHANGED gvars
    BY <1>1 DEF gvars, GInv, GTypeOK, InOrder, Exclusion, Waits, Writer, HoldsToRead,
                HoldsToWrite
  <1>2. CASE GNext
    BY <1>2, EnterStep, AnnounceStep, AcquireStep, LeaveStep DEF GNext
  <1> QED
    BY <1>1, <1>2

LEMMA LockInit == GInit => GInv
  <1> SUFFICES ASSUME GInit PROVE GInv
    OBVIOUS
  <1>1. <<>> \in Seq(Site) /\ Len(<<>>) = 0 /\ Range(<<>>) = {}
    BY DEF Range
  <1>2. GTypeOK
    BY <1>1, CallsAssumption DEF GInit, GTypeOK, Running
  <1>3. InOrder
    BY <1>1 DEF GInit, InOrder, Waits, Running, Ordered
  <1>4. Exclusion
    BY <1>1 DEF GInit, Exclusion, Writer, HoldsToRead, HoldsToWrite, Running
  <1> QED
    BY <1>2, <1>3, <1>4 DEF GInv

-----------------------------------------------------------------------------
(* Consequences of the invariant *)

\* A goroutine that waits does not hold a lock of a rank as high as that of the
\* lock it waits for.
LEMMA HoldersWaitHigher ==
    ASSUME GInv, NEW k \in Goroutine, Waits(k), NEW l,
           HoldsToRead(k, l) \/ HoldsToWrite(k, l)
    PROVE  Rank(l) < Rank(Lock(waiting[k].site))
BY DEF GInv, InOrder, Above, Follows, HoldsToRead, HoldsToWrite

\* In a set of goroutines that all wait for each other nobody waits for a lock of
\* the highest rank: whoever is in its way waits for a higher one.
LEMMA NobodyAtTheTop ==
    ASSUME GInv, NEW D \in SUBSET Goroutine,
           \A g \in D : \E k \in D : Blocks(k, g),
           NEW r \in Nat,
           \A g \in D : Rank(Lock(waiting[g].site)) <= r
    PROVE  \A g \in D : Rank(Lock(waiting[g].site)) # r
  <1> SUFFICES ASSUME NEW g \in D, Rank(Lock(waiting[g].site)) = r
               PROVE  FALSE
    OBVIOUS
  <1>w. \A k \in D : /\ Waits(k)
                    /\ Rank(Lock(waiting[k].site)) \in 0 .. 3
    BY Ranks, WaitingSite DEF Blocks, GInv
  <1> DEFINE l == Lock(waiting[g].site)
  <1>h. ASSUME NEW k \in D, HoldsToRead(k, l) \/ HoldsToWrite(k, l) PROVE FALSE
    <2>1. Rank(l) < Rank(Lock(waiting[k].site))
      BY <1>h, <1>w, HoldersWaitHigher
    <2> QED
      BY <1>w, <2>1
  <1>1. PICK k \in D : Blocks(k, g)
    OBVIOUS
  <1>2. CASE HoldsToRead(k, l) \/ HoldsToWrite(k, l)
    BY <1>2, <1>h
  <1>3. CASE waiting[k].announced /\ Lock(waiting[k].site) = l
    <2>1. PICK j \in D : Blocks(j, k)
      OBVIOUS
    <2>2. HoldsToRead(j, l)
      BY <1>3, <2>1 DEF Blocks
    <2> QED
      BY <2>2, <1>h
  <1> QED
    BY <1>1, <1>2, <1>3 DEF Blocks, Writer

LEMMA OrderPreventsDeadlock == ASSUME GInv PROVE NoDeadlock
  <1> SUFFICES ASSUME NEW D \in SUBSET Goroutine, D # {},
                      \A g \in D : \E k \in D : Blocks(k, g)
               PROVE  FALSE
    BY DEF NoDeadlock
  <1> DEFINE R(g) == Rank(Lock(waiting[g].site))
  <1>1. \A g \in D : R(g) \in 0 .. 3
    BY Ranks, WaitingSite DEF Blocks, GInv
  <1>2. \A r \in Nat : (\A g \in D : R(g) <= r) => \A g \in D : R(g) # r
    BY NobodyAtTheTop
  <1> HIDE DEF R
  <1>3. \A g \in D : R(g) <= 2
    BY <1>1, <1>2
  <1>4. \A g \in D : R(g) <= 1
    BY <1>1, <1>2, <1>3
  <1>5. \A g \in D : R(g) <= 0
    BY <1>1, <1>2, <1>4
  <1> QED
    BY <1>1, <1>2, <1>5

LEMMA PingDataUsersWrite ==
    ASSUME GInv, NEW g \in Goroutine, UsesPingData(g)
    PROVE  HoldsToWrite(g, Lock("receiveAck"))
  <1>1. PICK s \in Range(stack[g]) : "pingData" \in Calls(s)
    BY DEF UsesPingData
  <1>2. s \in {"startTimeoutCheckLoop", "receiveAck"}
    BY <1>1, ListenerAssumption DEF Calls, Exported
  <1> QED
    BY <1>1, <1>2 DEF HoldsToWrite, Lock, Reads

LEMMA WritersExclude == ASSUME GInv PROVE PingDataExclusive
  <1> SUFFICES ASSUME NEW g \in Goroutine, NEW k \in Goroutine,
                      UsesPingData(g), UsesPingData(k)
               PROVE  g = k
    BY DEF PingDataExclusive
  <1>1. Writer(g, Lock("receiveAck")) /\ Writer(k, Lock("receiveAck"))
    BY PingDataUsersWrite DEF Writer
  <1> QED
    BY <1>1 DEF GInv, Exclusion, Site

-----------------------------------------------------------------------------
(* The theorems *)

\* However many goroutines receive, ping, time out, broadcast and add listeners,
\* they never wait for each other for ever, if the listeners respect the order of
\* the locks.
THEOREM DeadlockFree == GSpec => []NoDeadlock
  <1>1. GInv /\ [GNext]_gvars => GInv'
    BY LockStep
  <1> QED
    BY <1>1, LockInit, OrderPreventsDeadlock, PTL DEF GSpec

\* The unsynchronised reads of pingData.data are made by one goroutine at a time.
THEOREM StatisticsAreSafe == GSpec => []PingDataExclusive
  <1>1. GInv /\ [GNext]_gvars => GInv'
    BY LockStep
  <1> QED
    BY <1>1, LockInit, WritersExclude, PTL DEF GSpec

=============================================================================
