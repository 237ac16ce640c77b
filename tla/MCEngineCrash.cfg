SPECIFICATION Spec
CONSTANTS
    c1 = c1
    c2 = c2
    Names <- MCNames
    Trimmed <- MCTrimmed
    GroupNames = {}
    Calls = {c1, c2}
    Requests <- TwoBounds
    Principals <- MCPrincipals
    Canon <- MCCanon
    Humans <- MCHumans
    Approvers = {"", "ann", "bob", "bot"}
    Topologies <- Still
    Modes <- MCModes
    TTL = 0
    SinkMayFail = FALSE
    MayPanic = FALSE
    MaxNow = 1
    MaxCalls = 4
    MaxCrashes = 1
SYMMETRY Symmetry
INVARIANTS
    RanWhatWasApproved
    TokensSeparateDuties
    MutationsAccountedFor
    IInv
PROPERTIES
    ImplementsGate
    PlansNeverReplaced
CHECK_DEADLOCK FALSE
