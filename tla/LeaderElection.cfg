SPECIFICATION Spec
CONSTANTS
    Coordinators = {k1, k2}
    Nobody = Nobody
    Quarter = 1
    SpawnsOver = FALSE
    MaxCalls = 2
    MaxCommands = 3
INVARIANTS Inv OnlyHolderLeads
CHECK_DEADLOCK FALSE
