SPECIFICATION Spec
CONSTANTS
    Clients = {c1}
    MaxCalls = 2
    MaxMoves = 2
    MaxFaults = 2
INVARIANT FallbackRequested
