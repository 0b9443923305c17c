SPECIFICATION FairRSpec
CONSTANTS
    Peer = {a, b}
    InitialHost = a
    Handler = {g, k}
    Transmitter = {t}
    EmitCounts <- MCEmitCounts
    MaxObjects = 2
    MaxReports = 2
INVARIANTS RTypeOK NewsIsHeard
PROPERTY NewsDryUp
CHECK_DEADLOCK FALSE
