-------------------------- MODULE MembershipHistory --------------------------
(***************************************************************************)
(* Membership with a record of what really happened in the cluster, against *)
(* which the hosts' beliefs are judged.                                    *)
(***************************************************************************)
EXTENDS Membership

VARIABLES
    sent,      \* the header of every message that was ever in flight
    expired,   \* <<h, n>>: at host h a PING or NFPING of member n went unanswered
    overtaken  \* <<n, g>>: handler g was past its tests when its host declared n dead

hvars == <<vars, sent, expired, overtaken>>

Header(m) == [from |-> m.from, to |-> m.to, verb |-> m.verb, code |-> m.code]

Probe == {"PING", "PINGREQ", "NFPING"}

HInit == Init /\ sent = {} /\ expired = {} /\ overtaken = {}

NoteSent == sent' = sent \cup {Header(m) : m \in network'}

\* In this step, host h comes to hold member n dead.
Condemned(h, n) == /\ knownNodes[h][n].status # "DEAD"
                   /\ knownNodes'[h][n].status = "DEAD"

NoteVerdicts ==
    overtaken' = {x \in Node \X handlers' :
                     \/ x \in overtaken
                     \/ x[2] \in handlers /\ Condemned(x[2].message.to, x[1])}

HOther == Other /\ NoteSent /\ NoteVerdicts /\ UNCHANGED expired

HTimeout(h, p) ==
    /\ Timeout(h, p)
    /\ UNCHANGED sent
    /\ NoteVerdicts
    /\ expired' = IF p.packType = "PINGREQ" THEN expired
                  ELSE expired \cup {<<h, p.node>>}

HNext == HOther \/ \E h \in Node : \E p \in pendingAcks[h] : HTimeout(h, p)

HSpec == HInit /\ [][HNext]_hvars

-----------------------------------------------------------------------------
(* Properties *)

\* The record r of member n rests on something that happened: ALIVE on a message
\* that n itself wrote with that very heartbeat, SUSPECTED and DEAD on a ping of
\* n that went unanswered at the host that r names as its source.
Justified(n, r, written, unanswered) ==
    IF r.status = "ALIVE"
    THEN r.heartbeat = 0 \/ \E s \in written : s.from = n /\ s.code = r.heartbeat
    ELSE <<r.source, n>> \in unanswered

\* Beliefs are grounded, however many hosts relayed them, whatever was lost,
\* duplicated or reordered on the way and whoever crashed since: so are the
\* records of every host and the gossip of every message on its way
\* (updateStatusesFromMessage keeps the heartbeat and the source it was told;
\* startTimeoutCheckLoop and doForwardOnTimeout are the only accusers).
Grounded ==
    /\ \A h, n \in Node : Justified(n, knownNodes[h][n], sent, expired)
    /\ \A m \in Underway : \A n \in DOMAIN m.members :
          Justified(n, m.members[n], sent, expired)

\* Some probe with this code was written by one host to another.
Probed(from, to, code, written) ==
    \E s \in written : /\ s.verb \in Probe
                       /\ s.from = from
                       /\ s.to = to
                       /\ s.code = code

\* An ACK with a code answers a probe with that code, which the ACK's addressee
\* sent to the ACK's sender: receiveVerbPingUDP echoes the code, and a relay
\* reports to its requester with the code of the ping request.
AckAnswersProbe ==
    \A m \in Underway : m.verb = "ACK" /\ m.code # 0 =>
        Probed(m.to, m.from, m.code, sent)

\* A ping time is recorded for members that have answered this host with an ACK
\* only; an answer that vouches for somebody else does not count
\* (receiveVerbAckUDP, notePingResponseTime).
MeasuredMeansAnswered ==
    \A h, n \in Node : pingMillis[h][n] = "Measured" =>
        \E s \in sent : s.verb = "ACK" /\ s.from = n /\ s.to = h

\* If some host stops holding member n dead and holds it alive, then n has written
\* a message that is no older than the verdict, or the handler that does it had made
\* its tests when the verdict was given.
RevivedByRecentMessage ==
    \A h, n \in Node :
        LET r == knownNodes[h][n]
        IN  r.status = "DEAD" /\ knownNodes'[h][n].status = "ALIVE" =>
                \/ Begin(h)
                \/ r.heartbeat = 0
                \/ \E s \in sent' : s.from = n /\ s.code >= r.heartbeat
                \/ \E g \in handlers \ handlers' : /\ g.message.to = h
                                                   /\ <<n, g>> \in overtaken

\* A verdict of death given at heartbeat k > 0 is overturned by older news only in a
\* race: by a handler that had compared heartbeats before the verdict was stored and
\* stores its news after it, because updateNodeStatus does not compare again.  Other
\* than that, the member itself must have written a message with code k or later:
\* older messages, and gossip based on them, revive nobody, though UDP may deliver
\* them late and every host may have relayed them (the "Message is old" tests of
\* updateStatusesFromMessage).
NoStaleRevival == [][RevivedByRecentMessage]_hvars

-----------------------------------------------------------------------------
(* What the comments of the code say *)

\* "If this ping is not responded to with an ack within a timeout period, the
\* pinging host will attempt to ping indirectly": a host stops waiting for the
\* answer to a PING only when the ACK has come or when doForwardOnTimeout is
\* started for it (messageVerb.go).
UnansweredPingIsForwarded ==
    [][\A h \in Node : \A p \in pendingAcks[h] :
          p.packType = "PING" /\ p \notin pendingAcks'[h] =>
              \/ Begin(h)
              \/ \E m \in Underway : /\ m.verb = "ACK"
                                     /\ m.to = h
                                     /\ m.from = p.node
                                     /\ m.code = p.code
              \/ \E g \in goroutines'[h] : g.pack = p]_hvars

\* "PingTimedOut ... indicate[s] that a node's last PING timed out": a host marks a
\* member so only if a ping that it sent to that member went unanswered (node.go).
TimedOutMeansUnanswered ==
    \A h, n \in Node : pingMillis[h][n] = "TimedOut" => <<h, n>> \in expired

=============================================================================
