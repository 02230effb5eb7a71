SPECIFICATION Spec
CONSTANTS
    Clients = {c1, c2}
    MaxCalls = 2
    MaxMoves = 1
    MaxFaults = 2
SYMMETRY ClientSymmetry
INVARIANTS CyvetInv StopHoldsReady StoppedStays
PROPERTIES KeepsPromise
