SPECIFICATION FairSpec
CONSTANTS
    MaxCalls = 1
    MaxLosses = 1
    MaxLate = 0
    MaxSignals = 0
PROPERTIES
    StartReturnsOnceCharging
CHECK_DEADLOCK FALSE
