SPECIFICATION FairSpec
CONSTANTS
    MaxResources = 2
    MaxFrames = 1
    Live = {2}
    NoSubscriber = {"pause", "play", "stop"}
    MaxMissed = 2
    Padding = 2
    Hears = {"idle", "buffering", "playing", "paused", "autopaused", "finish", "error"}
    OnCall = {"play", "pause", "unpause", "stop", "halt"}
    OnQuiet = {"nothing"}
    OnTick = {"halt"}
INVARIANTS Inv 
PROPERTIES
    Quiesces
    BufferingEnds
CHECK_DEADLOCK FALSE
