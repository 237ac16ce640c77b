SPECIFICATION Spec
CONSTANTS
    Faults = {"open", "write", "sync", "anchor", "dir", "dirsync", "crash", "power", "lose", "corrupt"}
    MaxAppends = 4
    MaxStops = 3
INVARIANTS
    TypeOK
    NoFalseAlarm
    AheadIsUnacknowledged
    WriterIsAtTheHead
    LogIInv
PROPERTIES
    NothingTrustedIsMissing
    ImplementsTrail
CHECK_DEADLOCK FALSE
