SPECIFICATION RemoteSpec
CONSTANTS
    LastHost = 2
    Clusters = {0}
    Lease = 3
    Moves = TRUE
    MinHosts = 1
    Hasty = FALSE
    MaxEpoch = 3
    MaxFaults = 2
    MaxTakeovers = 1
    MaxRespawns = 1
    MaxEvents = 2
INVARIANTS RemoteInv OneHost
PROPERTIES FencingEnds
CHECK_DEADLOCK FALSE
