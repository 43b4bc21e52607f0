SPECIFICATION FairSpec
CONSTANTS
    i1 = i1
    i2 = i2
    d1 = d1
    d2 = d2
    d3 = d3
    k1 = k1
    Rows = {2, 3}
    NoRow = NoRow
    Instances = {i1}
    Drains = {d1, d2}
    Host <- MCHost
    NoKey = NoKey
    DedupKey <- MCDedupKey
    UnknownJobs = {2}
    MaxAttempts = 2
    BatchSize = 1
    LeaseOverrun = "any"
    MaxDisruptions = 0
    MaxDbErrors = 1
PROPERTIES
    PendingIsClaimed
CHECK_DEADLOCK FALSE
