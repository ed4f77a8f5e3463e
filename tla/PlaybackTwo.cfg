CONSTANTS
    Phones = {p, q}
    None = None
    MaxSessions = 2
    MaxPosts = 1
    PauseAfterStop = FALSE
SPECIFICATION Spec
INVARIANTS
    ListNamesSessions
    PauseHolds
PROPERTIES
    KilledEnds
    GoneEnds
CHECK_DEADLOCK FALSE
