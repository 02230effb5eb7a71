SPECIFICATION FairSpec
CONSTANT MaxEvents = 2
INVARIANTS
    ContractMatches
    SuccessIsReal
PROPERTIES
    RestsBeforePosture
    OwnershipHeals
    SilenceStops
CHECK_DEADLOCK FALSE
