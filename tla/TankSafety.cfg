SPECIFICATION Spec
CONSTANTS
    Clients = {c1, c2}
    EnableMotion = TRUE
    StartupAcquire = TRUE
    MoveFailureLimit = 1
    StateFailureLimit = 2
    MaxCalls = 2
    MaxFaults = 1
    MaxExternal = 1
SYMMETRY ClientSymmetry
INVARIANTS
    TankInv
    PermitSound
    StopWithdrawsControl
    ConfirmedStopIsFinal
    ShutdownLeavesStill
    VelocityFresh
    FailureBudgetHonoured
    ConfirmedBrakeHolds
PROPERTY KeepsPromise
