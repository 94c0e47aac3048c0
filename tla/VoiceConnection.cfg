SPECIFICATION VoiceSpec
CONSTANTS
    Channels = {c1, c2}
    NoChannel = NoChannel
    Attempts = 1
    Listeners <- SafeListeners
    Unsent = TRUE
    LateFrames = FALSE
    MaxNets = 2
    MaxAnswers = 2
    MaxCalls = 3
    MaxEvents = 4
    MaxFaults = 3
INVARIANTS VoiceInv NothingLeftBehind
PROPERTIES AttemptsEnd
CHECK_DEADLOCK FALSE
