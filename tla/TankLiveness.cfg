SPECIFICATION FairSpec
CONSTANTS
    Clients = {c1}
    EnableMotion = TRUE
    StartupAcquire = TRUE
    MoveFailureLimit = 2
    StateFailureLimit = 2
    MaxCalls = 1
    MaxFaults = 1
    MaxExternal = 0
PROPERTIES CallReturns SilenceStops Reconnects ShutdownCompletes
