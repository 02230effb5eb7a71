SPECIFICATION Spec
CONSTANTS
    Clients = {c1, c2}
    EnableMotion = TRUE
    StartupAcquire = TRUE
    MoveFailureLimit = 2
    StateFailureLimit = 2
    MaxCalls = 2
    MaxFaults = 0
    MaxExternal = 0
INVARIANT ReadySticks
