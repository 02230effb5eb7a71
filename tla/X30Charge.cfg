SPECIFICATION FairSpec
CONSTANTS
    MaxCalls = 3
    MaxLosses = 1
    MaxLate = 1
    MaxSignals = 1
INVARIANTS
    ExchangesDoNotOverlap
    StopHolds
PROPERTIES
    CommandEnds
    
CHECK_DEADLOCK FALSE
