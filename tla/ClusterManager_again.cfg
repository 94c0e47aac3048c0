SPECIFICATION Spec
CONSTANTS
    LastCluster = 1
    Shards = {0, 1}
    Plan <- MCPlan
    HasLeader = TRUE
    WaitForReady = TRUE
    Reassigns = TRUE
    Coordinated = FALSE
    MaxRestarts = 0
    Races = {"again"}
    Asks = {a1}
    MaxProcs = 5
    MaxFaults = 2
    MaxCommands = 3
    MaxEvents = 3
CHECK_DEADLOCK FALSE
INVARIANT OneProcess
