SPECIFICATION Spec
CONSTANTS
    Faults = {"write", "sync"}
    MaxAppends = 4
    MaxStops = 2
PROPERTIES
    AcknowledgedOnAChain
CHECK_DEADLOCK FALSE
