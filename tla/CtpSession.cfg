CONSTANTS
    Clients = {a, b, c}
    CtpClients = {a, b}
    None = None
    AccessNum = 1
    MaxNum = 3
SPECIFICATION Spec
INVARIANTS
    DepartureTaken
    CountsPhones
    EveryLeaverFreed
PROPERTIES
    OthersKeepStream
    StreamEnds
CHECK_DEADLOCK FALSE
