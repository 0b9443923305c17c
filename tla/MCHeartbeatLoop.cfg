SPECIFICATION LSpec
CONSTANTS
    Peer = {p, q}
    NoPeer = NoPeer
    maxDeadNodeRetries = 3
    MaxUpdates = 1
INVARIANTS
    LTypeOK
    BackoffIsExponential
PROPERTIES
    RetriedBeforeForgotten
    LiveNodesArePinged
    DeadNodesAreForgotten
