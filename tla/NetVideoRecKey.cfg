SPECIFICATION Spec
CONSTANT
    Faults = {}
PROPERTIES
    StreamClosedFirst
