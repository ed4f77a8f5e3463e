CONSTANTS
    Phones = {p, q}
    None = None
    MaxSessions = 2
    MaxPictures = 2
    Advancing = TRUE
SPECIFICATION Spec
PROPERTIES
    AppReturns
    SessionsEnd
CHECK_DEADLOCK FALSE
