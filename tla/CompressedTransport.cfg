SPECIFICATION TransportSpec
CONSTANTS
    MaxDials = 2
    MaxMessages = 4
    Kinds = {"whole", "part", "corrupt", "large"}
    Late = FALSE
INVARIANTS TransportInv
PROPERTIES
    FailureIsFinal
CHECK_DEADLOCK FALSE
