SPECIFICATION FairSpec
CONSTANTS
    Shards = {0, 1, 2}
    Nobody = Nobody
    MaxConcurrency = 2
    Owners = {"A", "B"}
    OwnerOf <- MCOwnerOf
    Interval = 2
    HoldTimeout = 2
    HandshakeTimeout = 1
    ReadyTimeout = 1
    Total = 1
    Period = 3
    Startups = {TRUE, FALSE}
    MaxHandshake = 1
    MaxFaults = 1
INVARIANTS Inv IdentifiesArePaced NoGhosts
PROPERTIES
    EveryoneIsServed
CHECK_DEADLOCK FALSE
