---------------------------- MODULE BroadcastOnce ----------------------------
(***************************************************************************)
(* What BroadcastBytes promises: a broadcast "will be transmitted at most  *)
(* once to all other healthy current members", as long as it is "retained  *)
(* long enough to not be received twice".  A host remembers labels, each   *)
(* for a number of its transmissions since it got it, unless it restarts.  *)
(* Nothing is promised about delivery: a broadcast may reach anybody or    *)
(* nobody.                                                                 *)
(***************************************************************************)
EXTENDS Integers, Sequences

CONSTANTS
    Node,           \* the addresses of the members
    MaxBroadcasts,  \* bound: calls of BroadcastBytes
    Memory          \* the transmissions for which a host remembers a label

VARIABLES
    issued,         \* the labels of the broadcasts, in the order of the calls
    remembered,     \* the labels that a host remembers
    transmissions,  \* the transmissions of the host that handled a broadcast
    gets,           \* <<label, n>>: the host got the label after n transmissions
    delivered       \* how often a host's listeners were given each broadcast

once == <<issued, remembered, transmissions, gets, delivered>>

OnceInit ==
    /\ issued = <<>>
    /\ remembered = [h \in Node |-> {}]
    /\ transmissions = [h \in Node |-> 0]
    /\ gets = [h \in Node |-> {}]
    /\ delivered = [h \in Node |-> [p \in 1 .. MaxBroadcasts |-> 0]]

\* Host h comes to remember a label.
Remember(h, label) ==
    /\ remembered' = [remembered EXCEPT ![h] = @ \cup {label}]
    /\ gets' = [gets EXCEPT ![h] = @ \cup {<<label, transmissions[h]>>}]

\* Member h calls BroadcastBytes.
Call(h) ==
    /\ Len(issued) < MaxBroadcasts
    /\ \E index \in 1 .. MaxBroadcasts :
          /\ issued' = Append(issued, <<h, index>>)
          /\ Remember(h, <<h, index>>)
    /\ UNCHANGED <<transmissions, delivered>>

\* The listeners of host h are given broadcast p, whose label it does not remember.
Deliver(h, p) ==
    /\ p <= Len(issued)
    /\ issued[p] \notin remembered[h]
    /\ Remember(h, issued[p])
    /\ delivered' = [delivered EXCEPT ![h][p] = @ + 1]
    /\ UNCHANGED <<issued, transmissions>>

Transmission(h) ==
    /\ transmissions' = [transmissions EXCEPT ![h] = @ + 1]
    /\ UNCHANGED <<issued, remembered, gets, delivered>>

\* Some time that host h got the label is Memory transmissions ago.
Outlived(h, label) ==
    \E g \in gets[h] : g[1] = label /\ transmissions[h] - g[2] >= Memory

\* Host h forgets labels that it has had for long enough.
Forget(h) ==
    /\ \E labels \in SUBSET remembered[h] :
          /\ \A label \in remembered[h] \ labels : Outlived(h, label)
          /\ remembered' = [remembered EXCEPT ![h] = labels]
    /\ UNCHANGED <<issued, transmissions, gets, delivered>>

\* A host that is started again remembers nothing, nor what it was given.
Reset(h) ==
    /\ remembered' = [remembered EXCEPT ![h] = {}]
    /\ gets' = [gets EXCEPT ![h] = {}]
    /\ delivered' = [delivered EXCEPT ![h] = [p \in 1 .. MaxBroadcasts |-> 0]]
    /\ UNCHANGED <<issued, transmissions>>

OnceNext ==
    \E h \in Node :
        \/ Call(h)
        \/ \E p \in 1 .. MaxBroadcasts : Deliver(h, p)
        \/ Transmission(h)
        \/ Forget(h)
        \/ Reset(h)

OnceSpec == OnceInit /\ [][OnceNext]_once

=============================================================================
