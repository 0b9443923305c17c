SPECIFICATION WSpec
CONSTANTS
    ipLen = 4
    Address <- MCAddress
    Heartbeat <- MCHeartbeat
    Payload <- MCPayload
    Gossip <- MCGossip
    NoNode = NoNode
    NoBroadcast = NoBroadcast
    NoMessage = NoMessage
    MaxBroadcastBytes = 2
    BufferSize = 1090
INVARIANTS
    WTypeOK
    SizeIsExact
    RoundTrip
    Accepted
