SPECIFICATION FairSpec
CONSTANTS
    Delivered = {"video", "audio"}
    MaxSessions = 2
    MaxFrames = 2
    MayStraddle = TRUE
INVARIANTS NoLostWakeup NothingHeldWhenClosed
PROPERTIES SlotServed ControlReturns
CHECK_DEADLOCK FALSE
