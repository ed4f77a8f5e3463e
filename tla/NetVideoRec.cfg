SPECIFICATION Spec
CONSTANT
    Faults = {"recStop", "ownStart", "ownStop", "other"}
INVARIANTS
    RunsOnlyIfWanted
    
    SharesWhileRecording
    OneChannel
    NoFileLost
    NoServerLost
    HandleKept
