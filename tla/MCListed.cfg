SPECIFICATION RSpec
CONSTANTS
    Peer = {a, b}
    InitialHost = a
    Handler = {g, k}
    Transmitter = {t, u}
    EmitCounts <- MCEmitCounts
    MaxObjects = 2
    MaxReports = 2
INVARIANTS ChangesAreListed
CHECK_DEADLOCK FALSE
