SPECIFICATION FleetSpec
CONSTANTS
    Workloads <- MixedWorkloads
    Bounds <- TightAndLoose
    MaxMatched = 3
    MaxOthers = 4
INVARIANTS
    JudgementsAgree
    ShareIsCovered
PROPERTIES
    GrowthNeverWidens
    RatchetNeverSoftens
