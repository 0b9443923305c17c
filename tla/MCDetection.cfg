SPECIFICATION FairSpec
CONSTANTS
    Host = {a, b}
    Lost = d
    LastHeartbeat = 1
    MaxHeartbeat = 2
    MaxDeadNodeRetries = 2
    MaxPending = 1
    MaxInFlight = 1
INVARIANTS DTypeOK
PROPERTIES VerdictsAreFinal EventuallyForgotten
