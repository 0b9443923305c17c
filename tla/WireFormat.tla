----------------------------- MODULE WireFormat -----------------------------
(***************************************************************************)
(* A message on its way: built by transmitVerbGenericUDP, encoded, read    *)
(* into the receiver's buffer and decoded (message.go, broadcast.go).      *)
(*                                                                         *)
(* Nodes stand for themselves: looking up or creating the node of an       *)
(* address is left out.  The nodes of an IPv6 cluster have no IPv4-mapped  *)
(* addresses, which encode could not write in 16 bytes.                    *)
(***************************************************************************)
EXTENDS Bytes

CONSTANTS
    ipLen,              \* bytes of an IP address: 4 or 16
    Address,            \* the nodes, each [ip |-> ipLen bytes, port |-> uint16]
    Heartbeat,          \* heartbeats and broadcast indexes, each a uint32
    Payload,            \* contents of broadcasts, each a sequence of bytes
    Gossip(_),          \* the members that may come i-th in a message
    NoNode,             \* the nil *Node
    NoBroadcast,        \* the nil *Broadcast
    NoMessage,          \* no message is being built, written or decoded
    MaxBroadcastBytes,  \* GetMaxBroadcastBytes(), the same at both ends
    BufferSize          \* bytes of listenUDP's buffer: 2048

ASSUME SizesAssumption ==
    /\ ipLen \in Nat \ {0}
    /\ MaxBroadcastBytes \in Uint16
    /\ BufferSize \in Nat

\* The IP address and the port of a node.
NodeAddress == {n \in [ip : Seq(Byte), port : Uint16] : Len(n.ip) = ipLen}

\* A messageMember: its node's status and heartbeat, and who said so.
Member == [status : Byte, node : NodeAddress, heartbeat : Uint32,
           source : NodeAddress \cup {NoNode}]

\* A node listens on a port that is not 0, and members are what encode can write.
ASSUME DataAssumption ==
    /\ \A n \in Address : n \in NodeAddress /\ n.port # 0
    /\ Heartbeat \subseteq Uint32
    /\ Payload \subseteq Seq(Byte)
    /\ \A i \in 1 .. 63 : Gossip(i) \subseteq Member

VARIABLES
    msg,       \* the message that is built
    sent,      \* its bytes, once they are written
    received   \* what decodeMessage returned for them

wvars == <<msg, sent, received>>

Verb == 0 .. 3

StatusForwardTo == 4

\* A message, as transmitVerbGenericUDP builds it.
Message == [verb : Verb, port : Uint16, heartbeat : Uint32, members : Seq(Member),
            broadcast : {NoBroadcast} \cup
                           [origin : Address, index : Heartbeat, bytes : Payload]]

ASSUME NilAssumption == NoMessage \notin Message

-----------------------------------------------------------------------------
(* encode *)

encodeNode(n) == n.ip \o encodeUint16(n.port)

\* Mutant: the source is written from the member's node.
encodeMemberSelf(m) ==
    <<m.status>> \o encodeNode(m.node) \o encodeUint32(m.heartbeat) \o
        (IF m.source = NoNode THEN [i \in 1 .. ipLen + 2 |-> 0] ELSE encodeNode(m.node))

\* A nil source leaves its bytes zero.
encodeMember(m) ==
    <<m.status>> \o encodeNode(m.node) \o encodeUint32(m.heartbeat) \o
        (IF m.source = NoNode THEN [i \in 1 .. ipLen + 2 |-> 0] ELSE encodeNode(m.source))

\* The members one after the other: upTo[i] are the bytes of the first i.
encodeMembers(members) ==
    LET upTo[i \in 0 .. Len(members)] ==
            IF i = 0 THEN <<>> ELSE upTo[i - 1] \o encodeMember(members[i])
    IN  upTo[Len(members)]

encodeBroadcast(b) ==
    encodeNode(b.origin) \o encodeUint32(b.index) \o encodeUint16(Len(b.bytes)) \o b.bytes

\* s[1] + ... + s[Len(s)], by halves: total[<<i, j>>] is s[i] + ... + s[j].
Total(s) ==
    LET total[r \in (1 .. Len(s)) \X (1 .. Len(s))] ==
            LET mid == (r[1] + r[2]) \div 2
            IN  IF r[1] >= r[2] THEN s[r[1]]
                ELSE total[<<r[1], mid>>] + total[<<mid + 1, r[2]>>]
    IN  IF s = <<>> THEN 0 ELSE total[<<1, Len(s)>>]

\* adler32.Checksum: the sum of the bytes, and the sum of those sums.
Checksum(bytes) ==
    LET n == Len(bytes)
        low == (1 + Total(bytes)) % 65521
        high == (n + Total([i \in 1 .. n |-> ((n + 1) - i) * bytes[i]])) % 65521
    IN  encodeUint16(low) \o encodeUint16(high)

\* Mutant: the length of the broadcast is not counted.
SizeShort(m) ==
    11 + Len(m.members) * (9 + ipLen + ipLen) +
        (IF m.broadcast = NoBroadcast THEN 0 ELSE 6 + ipLen + Len(m.broadcast.bytes))

\* The size that encode calculates beforehand.
Size(m) ==
    11 + Len(m.members) * (9 + ipLen + ipLen) +
        (IF m.broadcast = NoBroadcast THEN 0 ELSE 8 + ipLen + Len(m.broadcast.bytes))

\* byte(len(m.members)) << 2 | byte(m.verb)
VerbByte(m) == ToByte(Len(m.members) * 4) + m.verb

encode(m) ==
    LET body == <<VerbByte(m)>> \o encodeUint16(m.port) \o encodeUint32(m.heartbeat) \o
                encodeMembers(m.members) \o
                (IF m.broadcast = NoBroadcast THEN <<>> ELSE encodeBroadcast(m.broadcast))
    IN  Checksum(body) \o body

-----------------------------------------------------------------------------
(* decodeMessage *)

\* bytes[from:to]
Slice(bytes, from, to) == SubSeq(bytes, from + 1, to)

decodeNode(bytes, p) ==
    [ip |-> Slice(bytes, p, p + ipLen), port |-> decodeUint16(bytes, p + ipLen)]

decodeMembers(bytes) ==
    LET width == 9 + ipLen + ipLen
    IN  [i \in 1 .. Len(bytes) \div width |->
            LET p == (i - 1) * width
            IN  [status |-> decodeByte(bytes, p),
                 node |-> decodeNode(bytes, p + 1),
                 heartbeat |-> decodeUint32(bytes, p + 3 + ipLen),
                 source |-> decodeNode(bytes, p + 7 + ipLen)]]

decodeBroadcast(bytes) ==
    LET length == decodeUint16(bytes, ipLen + 6)
    IN  [origin |-> decodeNode(bytes, 0),
         index |-> decodeUint32(bytes, ipLen + 2),
         bytes |-> Slice(bytes, ipLen + 8, ipLen + 8 + length)]

\* Mutant: the longest payload is refused.
RefusedAtLimit(b) ==
    \/ b.origin.ip[1] = 0
    \/ b.origin.port = 0
    \/ Len(b.bytes) >= MaxBroadcastBytes

\* checkOrigin, and the limit on the length.
Refused(b) ==
    \/ b.origin.ip[1] = 0
    \/ b.origin.port = 0
    \/ Len(b.bytes) > MaxBroadcastBytes

decodeMessage(bytes) ==
    LET v == decodeByte(bytes, 4)
        last == 11 + (v \div 4) * (9 + ipLen + ipLen)
        broadcast == IF Len(bytes) > last THEN decodeBroadcast(Slice(bytes, last, Len(bytes)))
                     ELSE NoBroadcast
    IN  IF Slice(bytes, 0, 4) # Checksum(Slice(bytes, 4, Len(bytes)))
        THEN [error |-> "checksum failure"]
        ELSE IF broadcast # NoBroadcast /\ Refused(broadcast)
        THEN [error |-> "broadcast"]
        ELSE [error |-> "none",
              message |-> [verb |-> v % 4,
                           port |-> decodeUint16(bytes, 5),
                           heartbeat |-> decodeUint32(bytes, 7),
                           members |-> IF Len(bytes) > 11
                                       THEN decodeMembers(Slice(bytes, 11, last))
                                       ELSE <<>>,
                           broadcast |-> broadcast]]

-----------------------------------------------------------------------------
(* transmitVerbGenericUDP, listenUDP *)

\* newMessage, and the member that says where to forward to.
NewMessage ==
    /\ msg = NoMessage
    /\ \E verb \in Verb, sender \in Address, code \in Heartbeat,
          forward \in {<<>>} \cup {<<m>> : m \in Gossip(1)} :
          msg' = [verb |-> verb, port |-> sender.port, heartbeat |-> code,
                  members |-> [i \in DOMAIN forward |->
                                  [forward[i] EXCEPT !.status = StatusForwardTo,
                                                     !.heartbeat = code]],
                  broadcast |-> NoBroadcast]
    /\ UNCHANGED <<sent, received>>

\* Mutant: one member more than the count can tell.
AddMember64 ==
    /\ msg # NoMessage /\ sent = NoMessage
    /\ IF Len(msg.members) > 63
       THEN msg' = NoMessage
       ELSE \E m \in Gossip(Len(msg.members) + 1) :
               msg' = [msg EXCEPT !.members = Append(@, m)]
    /\ UNCHANGED <<sent, received>>

\* addMember; its error ends the transmission.
AddMember ==
    /\ msg # NoMessage /\ sent = NoMessage
    /\ IF Len(msg.members) >= 63
       THEN msg' = NoMessage
       ELSE \E m \in Gossip(Len(msg.members) + 1) :
               msg' = [msg EXCEPT !.members = Append(@, m)]
    /\ UNCHANGED <<sent, received>>

\* addBroadcast, if there is one to emit, and the write.  BroadcastBytes has
\* refused the payloads that are too long.
Write ==
    /\ msg # NoMessage /\ sent = NoMessage
    /\ \E b \in {NoBroadcast} \cup [origin : Address, index : Heartbeat, bytes : Payload] :
          /\ b # NoBroadcast => Len(b.bytes) <= MaxBroadcastBytes
          /\ msg' = [msg EXCEPT !.broadcast = b]
    /\ sent' = encode(msg')
    /\ UNCHANGED received

\* ReadFromUDP drops what does not fit the buffer.
Receive ==
    /\ sent # NoMessage /\ received = NoMessage
    /\ received' = decodeMessage(IF Len(sent) <= BufferSize THEN sent
                                 ELSE Slice(sent, 0, BufferSize))
    /\ UNCHANGED <<msg, sent>>

\* The datagram was handled; the next one is built.
Done ==
    /\ received # NoMessage
    /\ msg' = NoMessage /\ sent' = NoMessage /\ received' = NoMessage

WInit == msg = NoMessage /\ sent = NoMessage /\ received = NoMessage

WNext == NewMessage \/ AddMember \/ Write \/ Receive \/ Done

WSpec == WInit /\ [][WNext]_wvars

-----------------------------------------------------------------------------
(* Properties *)

\* Types: a message never has more members than its six-bit count can tell, and
\* what is written are bytes.
WTypeOK ==
    /\ msg # NoMessage => msg \in Message /\ Len(msg.members) <= 63
    /\ sent # NoMessage => sent \in Seq(Byte)

\* encode writes exactly the bytes it allocated: it neither runs out of the
\* slice nor leaves zeros behind that decodeMessage would read as a broadcast.
SizeIsExact == sent # NoMessage => Len(sent) = Size(msg)

\* What a message says once it has travelled: a nil source has become the node
\* 0.0.0.0:0.
Delivered(m) ==
    [m EXCEPT !.members = [i \in DOMAIN @ |->
        IF @[i].source = NoNode
        THEN [@[i] EXCEPT !.source = [ip |-> [j \in 1 .. ipLen |-> 0], port |-> 0]]
        ELSE @[i]]]

\* decodeMessage never misreads: the message it returns without an error is the
\* one that was encoded, member by member, whatever the number of members, with
\* or without a broadcast, and however many bytes the buffer cut off.
RoundTrip ==
    received # NoMessage /\ received.error = "none" => received.message = Delivered(msg)

\* decodeMessage takes every message that transmitVerbGenericUDP can write, that
\* fits the buffer and whose broadcast has an origin outside the addresses that
\* begin with a zero byte: sender and receiver agree on which broadcasts are too
\* long.
Accepted ==
    received # NoMessage /\ Len(sent) <= BufferSize
        /\ (msg.broadcast # NoBroadcast => msg.broadcast.origin.ip[1] # 0)
    => received.error = "none"

=============================================================================
