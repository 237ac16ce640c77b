SPECIFICATION Spec
CONSTANTS
    c1 = c1
    Names <- MCNames
    Trimmed <- MCTrimmed
    GroupNames = {}
    Calls = {c1}
    Requests <- OneRestart
    Principals <- MCPrincipals
    Canon <- MCCanon
    Humans <- MCHumans
    Approvers = {"ann"}
    Topologies <- Spreading
    Modes <- MCModes
    TTL = 1
    SinkMayFail = FALSE
    MayPanic = FALSE
    MaxNow = 0
    MaxCalls = 3
    MaxCrashes = 0
PROPERTIES
    WarnProceeds
