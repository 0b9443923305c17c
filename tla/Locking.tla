------------------------------- MODULE Locking -------------------------------
(***************************************************************************)
(* The locks of a host, and the calls that are made while they are held    *)
(* (events.go, membership.go, pingData.go, nodeMap.go, registry.go,        *)
(* broadcast.go).                                                          *)
(*                                                                         *)
(* A site is a critical section of the code: it takes one lock, makes some *)
(* calls, any number of times and in any order, and releases the lock.     *)
(* Listeners are called with the lock of their list held for reading, the  *)
(* status listeners often with pendingAcks held as well; what a listener   *)
(* calls is the application's business, and a constant.                    *)
(***************************************************************************)
EXTENDS Naturals, Sequences, Functions

CONSTANTS
    Goroutine,        \* the goroutines of the host
    TimeoutLoop,      \* the one that runs startTimeoutCheckLoop
    OnChangeCalls,    \* the sites that OnChange of a status listener leads to
    OnBroadcastCalls, \* the sites that OnBroadcast of a broadcast listener leads to
    MaxCalls          \* bound: sites entered while a goroutine holds a lock

VARIABLES
    stack,            \* the sites whose lock the goroutine holds, oldest first
    waiting,          \* the site at which the goroutine waits for a lock
    calls             \* the sites it has entered since it last held no lock

gvars == <<stack, waiting, calls>>

-----------------------------------------------------------------------------
(* The critical sections *)

Site == {"startTimeoutCheckLoop",  \* the checks of all the pending acks
         "receiveAck",             \* an ack that was waited for is taken
         "findAck",                \* is the ack waited for?
         "expectAck",              \* a pending ack is stored before a probe is sent
         "pingData",               \* pingData.add and pingData.data
         "doStatusUpdate", "AddStatusListener",
         "doBroadcastUpdate", "AddBroadcastListener",
         "readMap", "writeMap"}    \* of nodes, retries or broadcasts

\* The lock of a site.  The maps have a lock each; no site holds two of them, and
\* one stands for all.
Lock(s) ==
    CASE s \in {"startTimeoutCheckLoop", "receiveAck", "findAck", "expectAck"} -> "pendingAcks"
      [] s = "pingData" -> "pingdata"
      [] s \in {"doStatusUpdate", "AddStatusListener"} -> "statusListeners"
      [] s \in {"doBroadcastUpdate", "AddBroadcastListener"} -> "broadcastListeners"
      [] s \in {"readMap", "writeMap"} -> "maps"

\* Mutant of Reads: an ack is taken under the read lock that found it.
ReadsAck(s) ==
    s \in {"receiveAck", "findAck", "doStatusUpdate", "doBroadcastUpdate", "readMap"}

\* The sites that use RLock.
Reads(s) == s \in {"findAck", "doStatusUpdate", "doBroadcastUpdate", "readMap"}

\* Mutant of Calls: doForwardOnTimeout is not started as a goroutine of its own.
CallsForward(s) ==
    CASE s = "startTimeoutCheckLoop" ->
            {"expectAck", "pingData", "readMap", "writeMap", "doStatusUpdate"}
      [] s = "receiveAck" -> {"pingData"}
      [] s = "doStatusUpdate" -> OnChangeCalls
      [] s = "doBroadcastUpdate" -> OnBroadcastCalls
      [] OTHER -> {}

\* Mutant of Calls: receiveBroadcast notifies before it unlocks the broadcasts.
CallsNotify(s) ==
    CASE s = "startTimeoutCheckLoop" -> {"pingData", "readMap", "writeMap", "doStatusUpdate"}
      [] s = "receiveAck" -> {"pingData"}
      [] s = "doStatusUpdate" -> OnChangeCalls
      [] s = "doBroadcastUpdate" -> OnBroadcastCalls
      [] s = "writeMap" -> {"doBroadcastUpdate"}
      [] OTHER -> {}

\* The sites that may be entered while the lock of site s is held.
Calls(s) ==
    CASE s = "startTimeoutCheckLoop" -> {"pingData", "readMap", "writeMap", "doStatusUpdate"}
      [] s = "receiveAck" -> {"pingData"}
      [] s = "doStatusUpdate" -> OnChangeCalls
      [] s = "doBroadcastUpdate" -> OnBroadcastCalls
      [] OTHER -> {}

\* The sites that goroutine g enters with no lock held: the timeout loop its own,
\* the heartbeat loop, the handlers of messages and the callers of the exported
\* functions all the others.
Roots(g) ==
    IF g = TimeoutLoop THEN {"startTimeoutCheckLoop"}
    ELSE Site \ {"startTimeoutCheckLoop", "pingData"}

\* The position of a lock in the order in which locks are nested.
Rank(l) == CASE l = "broadcastListeners" -> 0
             [] l = "pendingAcks" -> 1
             [] l = "statusListeners" -> 2
             [] l \in {"maps", "pingdata"} -> 3

Follows(outer, inner) == Rank(Lock(outer)) < Rank(Lock(inner))

\* The sites that exported functions lead to: PingNode, UpdateNodeStatus and AddNode,
\* the two that add listeners, and those that use the maps only (AllNodes,
\* HealthyNodes, RemoveNode, BroadcastBytes).
Exported == {"expectAck", "doStatusUpdate", "AddStatusListener", "AddBroadcastListener",
             "readMap", "writeMap"}

\* The listeners respect the order of the locks: OnChange uses the maps only, and
\* OnBroadcast does not add a broadcast listener.
ASSUME ListenerAssumption ==
    /\ OnChangeCalls \subseteq {s \in Exported : Follows("doStatusUpdate", s)}
    /\ OnBroadcastCalls \subseteq {s \in Exported : Follows("doBroadcastUpdate", s)}

-----------------------------------------------------------------------------
(* The state of a lock *)

Running == [site |-> "none", announced |-> FALSE]

Queued(s) == [site |-> s, announced |-> FALSE]

Announced(s) == [site |-> s, announced |-> TRUE]

Waits(g) == waiting[g] # Running

HoldsToRead(g, l) == \E s \in Range(stack[g]) : Lock(s) = l /\ Reads(s)

HoldsToWrite(g, l) == \E s \in Range(stack[g]) : Lock(s) = l /\ ~Reads(s)

\* Goroutine g is the writer of lock l: it holds it, or waits for its readers.
Writer(g, l) ==
    \/ HoldsToWrite(g, l)
    \/ waiting[g].announced /\ Lock(waiting[g].site) = l

\* Goroutine k keeps goroutine g, which waits, from getting its lock.
Blocks(k, g) ==
    LET l == Lock(waiting[g].site)
    IN  /\ Waits(g)
        /\ IF waiting[g].announced THEN HoldsToRead(k, l) ELSE Writer(k, l)

-----------------------------------------------------------------------------
(* sync.RWMutex *)

\* Goroutine g enters site s.  RLock succeeds if there is no writer.
Enter(g, s) ==
    /\ ~Waits(g)
    /\ IF stack[g] = <<>>
       THEN s \in Roots(g) /\ calls' = [calls EXCEPT ![g] = 0]
       ELSE /\ s \in Calls(stack[g][Len(stack[g])])
            /\ calls[g] < MaxCalls
            /\ calls' = [calls EXCEPT ![g] = @ + 1]
    /\ IF Reads(s) /\ \A k \in Goroutine : ~Writer(k, Lock(s))
       THEN stack' = [stack EXCEPT ![g] = Append(@, s)] /\ UNCHANGED waiting
       ELSE waiting' = [waiting EXCEPT ![g] = Queued(s)] /\ UNCHANGED stack

\* Lock makes g the writer; from now on readers wait.
Announce(g) ==
    LET s == waiting[g].site
    IN  /\ Waits(g) /\ ~waiting[g].announced /\ ~Reads(s)
        /\ \A k \in Goroutine : ~Blocks(k, g)
        /\ waiting' = [waiting EXCEPT ![g] = Announced(s)]
        /\ UNCHANGED <<stack, calls>>

\* The readers that held the lock are gone.
Acquire(g) ==
    /\ waiting[g].announced
    /\ \A k \in Goroutine : ~Blocks(k, g)
    /\ stack' = [stack EXCEPT ![g] = Append(@, waiting[g].site)]
    /\ waiting' = [waiting EXCEPT ![g] = Running]
    /\ UNCHANGED calls

\* The readers that a writer of lock l admits when it unlocks it.
Admitted(l) == {k \in Goroutine : /\ Waits(k)
                                  /\ Reads(waiting[k].site)
                                  /\ Lock(waiting[k].site) = l}

\* Unlock and RUnlock.
Leave(g) ==
    LET s == stack[g][Len(stack[g])]
        admitted == IF Reads(s) THEN {} ELSE Admitted(Lock(s))
    IN  /\ ~Waits(g)
        /\ stack[g] # <<>>
        /\ stack' = [k \in Goroutine |->
              IF k = g THEN SubSeq(stack[g], 1, Len(stack[g]) - 1)
              ELSE IF k \in admitted THEN Append(stack[k], waiting[k].site)
              ELSE stack[k]]
        /\ waiting' = [k \in Goroutine |-> IF k \in admitted THEN Running ELSE waiting[k]]
        /\ calls' = [calls EXCEPT ![g] = IF Len(stack[g]) = 1 THEN 0 ELSE @]

-----------------------------------------------------------------------------
ASSUME CallsAssumption == MaxCalls \in Nat

GInit ==
    /\ stack = [g \in Goroutine |-> <<>>]
    /\ waiting = [g \in Goroutine |-> Running]
    /\ calls = [g \in Goroutine |-> 0]

GNext ==
    \E g \in Goroutine :
        \/ \E s \in Site : Enter(g, s)
        \/ Announce(g)
        \/ Acquire(g)
        \/ Leave(g)

GSpec == GInit /\ [][GNext]_gvars

\* A goroutine that holds a lock or waits for one.
Proceed(g) ==
    \/ stack[g] # <<>> /\ \E s \in Site : Enter(g, s)
    \/ Announce(g)
    \/ Acquire(g)
    \/ Leave(g)

\* A critical section ends: what the code loops over while it holds a lock is
\* finite, and listeners return.  A mutex starves nobody.
FairGSpec == GSpec /\ \A g \in Goroutine : SF_gvars(Proceed(g))

-----------------------------------------------------------------------------
(* Properties *)

\* Types.  A goroutine announces no write that it does not wait for.
GTypeOK ==
    /\ stack \in [Goroutine -> Seq(Site)]
    /\ waiting \in [Goroutine -> [site : Site \cup {"none"}, announced : BOOLEAN]]
    /\ \A g \in Goroutine : waiting[g].site = "none" => ~waiting[g].announced
    /\ calls \in [Goroutine -> 0 .. MaxCalls]

\* There is no set of goroutines that wait for each other for ever: not when a
\* status listener called by startTimeoutCheckLoop, with pendingAcks locked, uses
\* the registry or broadcasts, and not when listeners are added meanwhile, so that
\* a waiting writer keeps new readers out.
NoDeadlock ==
    ~\E D \in SUBSET Goroutine :
        D # {} /\ \A g \in D : \E k \in D : Blocks(k, g)

\* Goroutine g is where it may use the ping statistics.
UsesPingData(g) == \E s \in Range(stack[g]) : "pingData" \in Calls(s)

\* The ping statistics are used by one goroutine at a time, though pingData.data
\* reads its flag and its results without its lock: whoever uses them has locked
\* pendingAcks to write (startTimeoutCheckLoop, notePingResponseTime).
PingDataExclusive ==
    \A g, k \in Goroutine : UsesPingData(g) /\ UsesPingData(k) => g = k

\* Whoever waits for a lock gets it: a reader is not kept out by a stream of
\* writers, nor a writer by readers.
WaitersAreServed == \A g \in Goroutine : Waits(g) ~> ~Waits(g)

=============================================================================
