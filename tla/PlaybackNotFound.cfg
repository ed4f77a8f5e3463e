CONSTANTS
    Phones = {p, q}
    None = None
    MaxSessions = 2
    MaxPosts = 1
    PauseAfterStop = TRUE
SPECIFICATION Spec
PROPERTIES
    NotFindMeansAbsent
CHECK_DEADLOCK FALSE
