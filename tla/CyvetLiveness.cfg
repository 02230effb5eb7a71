SPECIFICATION FairSpec
CONSTANTS
    Clients = {c1}
    MaxCalls = 2
    MaxMoves = 1
    MaxFaults = 1
PROPERTIES CallsReturn HaltResolves SilenceStops
