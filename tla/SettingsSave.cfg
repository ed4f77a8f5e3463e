SPECIFICATION Spec
CONSTANTS
    Numbers = {0, 1}
    Fails = {}
    None = None
INVARIANTS
    SaveKeepsStart
