SPECIFICATION FairSpec
CONSTANTS
    MaxSockets = 3
    MaxSeq = 2
    MaxInbox = 1
    MaxAttempts = 2
    Reconnects = {TRUE, FALSE}
    Gated = TRUE
    DialMayFail = TRUE
    CloseKinds = {"transient", "sessionLost", "fatal"}
    OnClose = {"nothing", "connect", "close"}
    OnState = {"nothing"}
    RedialsUnarmed = FALSE
    DialsWhileClosing = FALSE
INVARIANTS Inv OneConnection ClosedIsQuiet
PROPERTIES
    SessionContinuity
    ConnectSettles
CHECK_DEADLOCK FALSE
