SPECIFICATION BSpec
CONSTANTS
    Node = {a, b, c}
    Transmitter = {t}
    EmitCount = 2
    Retention = 2
    MaxBroadcasts = 1
    MaxTransmissions = 6
    MaxBusy = 1
    MaxInFlight = 2
    MaxCrashes = 0
INVARIANT NeverReceivedTwice
CHECK_DEADLOCK FALSE
