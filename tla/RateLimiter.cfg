SPECIFICATION Spec
CONSTANTS
    w1 = w1
    w2 = w2
    w3 = w3
    r1 = r1
    r2 = r2
    Workers = {w1, w2, w3}
    Routes = {r1, r2}
    RouteOf <- MCRouteOf
    Hash = hash
    Limit = 2
    Window = 4
    GlobalLimit = 3
    GLOBAL_WINDOW = 4
    GlobalWait = 2
    Timeout = 2
    BUCKET_LINGER = 2
    PRUNE_INTERVAL = 4
    MaxRetries = 1
    SharedWithdraw = FALSE
    MaxRequests = 4
    MaxFaults = 1
    Horizon = 6
SYMMETRY Symmetry
INVARIANTS Inv NoUnitTwice RefusedOnlyIfLate
PROPERTIES GlobalPaced 
CHECK_DEADLOCK FALSE
