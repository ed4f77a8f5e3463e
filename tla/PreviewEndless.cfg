CONSTANTS
    Phones = {p, q}
    None = None
    MaxSessions = 2
    MaxPictures = 1
    Advancing = FALSE
SPECIFICATION Spec
PROPERTIES
    AppReturns
CHECK_DEADLOCK FALSE
