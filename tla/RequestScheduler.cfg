SPECIFICATION FairSpec
CONSTANTS
    Requests = {"r1", "r2", "r3", "r4"}
    Routes = {"a", "b"}
    RouteOf <- MCRouteOf
    Buckets = {"h"}
    BucketOf <- MCBucketOf
    MaxQueued = 2
    MaxPerBucket = 2
    MAX_REMAPS = 2
    TailAborts = FALSE
INVARIANTS Inv 
PROPERTIES
    
    Served
CHECK_DEADLOCK FALSE
