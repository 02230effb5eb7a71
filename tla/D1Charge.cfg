SPECIFICATION FairSpec
CONSTANTS
    MaxCalls = 2
    MaxForeign = 1
INVARIANTS SessionDemandsUndock  D1Inv
PROPERTIES ExitHasItsSuccess SkipNeedsNoSession CommandsReturn
