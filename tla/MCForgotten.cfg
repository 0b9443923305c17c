SPECIFICATION FairSpec
CONSTANTS
    Host = {a, b}
    Lost = d
    LastHeartbeat = 1
    MaxHeartbeat = 2
    MaxDeadNodeRetries = 1
    MaxPending = 1
    MaxInFlight = 1
PROPERTIES EventuallyRemoved
