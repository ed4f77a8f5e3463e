SPECIFICATION Spec
CONSTANTS
    Delivered = {"video"}
    MaxSessions = 3
    MaxFrames = 3
    MayStraddle = FALSE
INVARIANTS HandOff
PROPERTIES ImplementsChannel
CHECK_DEADLOCK FALSE
