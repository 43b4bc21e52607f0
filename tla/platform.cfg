SPECIFICATION PlatformSpec
CONSTANTS
    i1 = i1
    i2 = i2
    r1 = r1
    r2 = r2
    c1 = c1
    c2 = c2
    s1 = s1
    s2 = s2
    Files = {i1, i2, r1}
    Inline = {i1, i2}
    NoFile = NoFile
    Calls = {c1, c2}
    Sweeps = {s1, s2}
    NoSweep = NoSweep
    Want <- MCWant
    Limit = 3
    NoObject = NoObject
    MaxFaults = 2
    HandlerApps = {x1, x2}
    ServiceCalls = {q1, q2}
    Replicas = {p1}
    NoCaller = NoCaller
    CacheTTL = 1
    MaxInstant = 2
    MaxAccounts = 1
    MaxChanges = 2
    PanelApps = {x1, x2}
    NoPanel = NoPanel
INVARIANTS
    InlineWithinQuota
    InlineCompensated
    AckedIsStored
    SweptLeavesNothing
    ServedAsBound
    ShowsLatest
SYMMETRY Interchangeable
CHECK_DEADLOCK FALSE
