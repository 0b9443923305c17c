---------------------------- MODULE MCWireFormat ----------------------------
(***************************************************************************)
(* Instances of WireFormat for TLC.                                        *)
(***************************************************************************)
EXTENDS WireFormat

\* Two IPv4 nodes send and broadcast; a port with and one without a high byte.
ipv4(i) == [ip |-> <<10, 0, 0, i>>, port |-> 9998 + i]

MCAddress == {ipv4(1), [ip |-> <<127, 0, 0, 1>>, port |-> 80]}
MCHeartbeat == {66051}
MCPayload == {<<>>, <<7, 255>>, <<1, 2, 3>>}

\* Any number of members, the i-th about node i: the first may have no source.
MCGossip(i) ==
    {[status |-> 3, node |-> ipv4(i), heartbeat |-> 16909060 + i, source |-> ipv4(i + 1)]}
        \cup {[status |-> 1, node |-> ipv4(i), heartbeat |-> 0, source |-> NoNode] :
                 j \in {i} \cap {1}}

=============================================================================
