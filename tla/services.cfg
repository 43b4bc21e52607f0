SPECIFICATION ServicesSpec
CONSTANTS
    i1 = i1
    i2 = i2
    d1 = d1
    d2 = d2
    d3 = d3
    k1 = k1
    Rows = {1, 2}
    NoRow = NoRow
    Instances = {i1, i2}
    Drains = {d1, d3}
    Host <- MCHost
    NoKey = NoKey
    DedupKey <- MCDedupKey
    UnknownJobs = {}
    MaxAttempts = 2
    BatchSize = 2
    LeaseOverrun = "any"
    MaxDisruptions = 1
    MaxDbErrors = 1
    WorkRows = {r1, r2}
    Attempts = {e1, e2, e3}
    MaxWorkflowFaults = 1
    Operations = {o1, o2}
    Exporters = {o1}
    RetryAttempts = 2
    RetryBudget = 1
    ThrottleRetries = 2
    ThrottleBudget = 1
    MaxTokens = 2
    MaxBulk = 2
    MaxTroubles = 1
    t1 = t1
    v1 = v1
    v2 = v2
    v3 = v3
    Ops = {1, 2, 3}
    Topics = {t1}
    Versions = {v1, v2, v3}
    Recorded = {v1, v2}
    Bundle <- MCBundle
    MaxRunning = 2
    MaxOpFaults = 1
    Shops = {"a--b", "a-b"}
    Slug <- MCSlug
    Callbacks = {c1, c2}
    MaxAuthorizations = 2
    MaxInstallFaults = 1
    j1 = j1
    j2 = j2
    Injections = {j1, j2}
    Removals = {d1}
    Sections = {"main", "side", "other"}
    TemplateOf <- MCTemplateOf
    Targets <- MCTargets
    StableTries = 2
    VerifyReads = 2
    MaxSyncWrites = 2
INVARIANTS
    DedupUnique
    ExclusiveDispatch
    ClaimsBounded
    OverlapWasSwept
    UnauthorizedIsReal
    RowsAreOwn
    DeployedAsAsked
    FailureKeepsRouting
    ReactivationRestores
    DeletionLeavesNothing
    TokenIsOwn
    RecordedShowsBlocks
PROPERTIES
    DoneIsFinal
    ImplementsQueue
CHECK_DEADLOCK FALSE
