SPECIFICATION Spec
CONSTANTS
    c1 = c1
    c2 = c2
    Names <- MCNames
    Trimmed <- MCTrimmed
    GroupNames = {}
    Calls = {c1, c2}
    Requests <- OneRestart
    Principals <- MCPrincipals
    Canon <- MCCanon
    Humans <- MCHumans
    Approvers = {"ann"}
    Topologies <- Steady
    Modes <- MCModes
    TTL = 1
    SinkMayFail = FALSE
    MayPanic = FALSE
    MaxNow = 0
    MaxCalls = 4
    MaxCrashes = 0
SYMMETRY Symmetry
INVARIANTS
    RanAtTheReachApproved
