SPECIFICATION BSpec
CONSTANTS
    Node = {a, b}
    Transmitter = {t, u}
    EmitCount = 1
    Retention = 1
    MaxBroadcasts = 2
    MaxTransmissions = 3
    MaxBusy = 2
    MaxInFlight = 2
    MaxCrashes = 1
SYMMETRY Symmetry
INVARIANTS BTypeOK LabelsAgreeUntilRestart
PROPERTIES RetainedLongEnough DeliveredAtMostOnce
CHECK_DEADLOCK FALSE
