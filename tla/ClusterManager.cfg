SPECIFICATION Spec
CONSTANTS
    LastCluster = 1
    Shards = {0, 1}
    Plan <- MCPlan
    HasLeader = TRUE
    WaitForReady = TRUE
    Reassigns = TRUE
    Coordinated = FALSE
    MaxRestarts = 1
    Races = {}
    Asks = {a1}
    MaxProcs = 5
    MaxFaults = 2
    MaxCommands = 3
    MaxEvents = 3
INVARIANTS Inv OneProcess
PROPERTIES StopsForGood  StopEnds
CHECK_DEADLOCK FALSE
