SPECIFICATION Spec
CONSTANTS
    i1 = i1
    i2 = i2
    d1 = d1
    d2 = d2
    d3 = d3
    k1 = k1
    Rows = {2, 3}
    NoRow = NoRow
    Instances = {i1, i2}
    Drains = {d1, d3}
    Host <- MCHost
    NoKey = NoKey
    DedupKey <- MCDedupKey
    UnknownJobs = {}
    MaxAttempts = 2
    BatchSize = 2
    LeaseOverrun = "queued"
    MaxDisruptions = 1
    MaxDbErrors = 0
INVARIANTS
    NoDoubleDispatch
CHECK_DEADLOCK FALSE
