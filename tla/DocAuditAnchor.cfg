SPECIFICATION Spec
CONSTANTS
    Faults = {"anchor", "crash"}
    MaxAppends = 4
    MaxStops = 2
PROPERTIES
    UnanchoredIsRefused
CHECK_DEADLOCK FALSE
