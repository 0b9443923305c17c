----------------------------- MODULE NodeStatus -----------------------------
(***************************************************************************)
(* How a host revises what it holds about a member, and its own heartbeat, *)
(* when a message arrives or a probe times out (registry.go, membership.go). *)
(* A record holds the status, the heartbeat at which it was stated, and the *)
(* host that stated it first.                                              *)
(***************************************************************************)
EXTENDS Naturals

\* updateNodeStatus: a record changes only when the status does.
updateNodeStatus(r, status, heartbeat, source) ==
    IF r.status # status
    THEN [status |-> status, heartbeat |-> heartbeat, source |-> source]
    ELSE r

\* Mutant of IsOld: old gossip is believed.
IsOldNever(r, g) == FALSE

\* The gossip g about a member is older than the record r: "Message is old".
IsOld(r, g) == g.heartbeat < r.heartbeat

\* Mutant of ApplyGossip: the host names itself as the source of what it was told.
ApplyGossipOwn(h, n, r, g) ==
    IF g.status = "DEAD" /\ n = h
    THEN r
    ELSE updateNodeStatus(r, g.status, g.heartbeat, h)

\* Host h, holding record r of member n, stores the gossip g about n, but not the
\* news of its own death.
ApplyGossip(h, n, r, g) ==
    IF g.status = "DEAD" /\ n = h
    THEN r
    ELSE updateNodeStatus(r, g.status, g.heartbeat, g.source)

\* Mutant of IsRecent: an old message revives its sender.
IsRecentAlways(r, code) == TRUE

\* A message with this code is newer than the record r of its sender.
IsRecent(r, code) == code > r.heartbeat

\* Host h, holding record r of the sender, stores that it is alive.
ApplySender(h, r, code) == updateNodeStatus(r, "ALIVE", code, h)

\* A probe for r's member timed out at host h, whose heartbeat is given.
Escalate(h, r, heartbeat) ==
    IF r.status = "DEAD"
    THEN r
    ELSE updateNodeStatus(r, IF r.status = "SUSPECTED" THEN "DEAD" ELSE "SUSPECTED",
                          heartbeat, h)

\* "Synchronize heartbeats": a message with this code makes the host advance.
IsAhead(heartbeat, code) == code > 0 /\ code - 1 > heartbeat

\* Mutant of Advanced: the host moves past the code it reads, like a logical clock.
AdvancedPast(code) == code + 1

\* The heartbeat it then stores.
Advanced(code) == code - 1

=============================================================================
