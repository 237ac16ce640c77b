SPECIFICATION FairApiSpec
CONSTANTS
    c1 = c1
    c2 = c2
    KeyEntries <- MCKeyEntries
    Messages <- MCMessages
    Names <- MCNames
    Trimmed <- MCTrimmed
    GroupNames = {}
    Calls = {c1, c2}
    Requests <- MCRequests
    Principals <- MCPrincipals
    Canon <- MCCanon
    Humans <- MCHumans
    Approvers = {"ann"}
    Topologies <- Vanishing
    Modes <- MCModes
    TTL = 1
    SinkMayFail = TRUE
    MayPanic = TRUE
    MaxNow = 0
    MaxCalls = 3
    MaxCrashes = 1
INVARIANTS
    AnswersAreTrue
    NotFoundOnlyAfterRestart
    OnlyOperatorsExecute
    ApiIInv
PROPERTIES
    CallsReturn
