SPECIFICATION HSpec
CONSTANTS
    Node = {a, b, c}
    NoNode = NoNode
    PingRequestCount = 3
    MaxTicks = 2
    MaxInFlight = 1
    MaxHandlers = 1
    MaxFaults = 1
SYMMETRY Symmetry
INVARIANTS
    TypeOK
    SelfAlive
    WellFormedProbes
    NoHeartbeatInflation
    Grounded
    AckAnswersProbe
    MeasuredMeansAnswered
PROPERTIES
    NoStaleRevival
CHECK_DEADLOCK FALSE
