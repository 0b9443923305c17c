SPECIFICATION FairGSpec
CONSTANTS
    Goroutine = {t, g, k}
    TimeoutLoop = t
    OnChangeCalls <- MCOnChangeCalls
    OnBroadcastCalls <- MCOnBroadcastCalls
    MaxCalls = 2
INVARIANTS NoDeadlock PingDataExclusive
PROPERTY WaitersAreServed
