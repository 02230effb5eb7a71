SPECIFICATION FairSpec
CONSTANTS
    MaxCalls = 2
    MaxMoves = 1
    MaxLosses = 1
    MaxDisturbed = 1
    MaxTries = 2
INVARIANTS
    ToggleNotUndone
    SuccessIsReal
    
CHECK_DEADLOCK FALSE
PROPERTIES
    CallsReturn
    SilenceStops
