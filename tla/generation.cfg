SPECIFICATION GenerationSpec
CONSTANTS
    a1 = a1
    a2 = a2
    Jobs = {1, 2}
    Surfaces <- MCSurfaces
    HasCron = {2}
    MaxLosses = 1
    MaxFaults = 1
    MaxReports = 1
    MaxCalls = 1
    Instances = {a1, a2}
    NoInstance = NoInstance
    PollAttempts = 2
    MaxReconnects = 1
    ProductAttempts = 2
    DesignTurns = 2
    ReviewTurns = 2
    CodingTurns = 2
    MaxDoneAttempts = 2
    MaxToolCalls = 2
    MaxSessions = 3
    MaxAgentFaults = 1
INVARIANTS
    ArchetypeIsServed
    NoFalseSuccess
    PlanRevisedOnce
    CleanBuilds
PROPERTIES
    ImplementsLedger
CHECK_DEADLOCK FALSE
