SPECIFICATION QuotasSpec
CONSTANTS
    e1 = e1
    e2 = e2
    e3 = e3
    q1 = q1
    q2 = q2
    w1 = w1
    w2 = w2
    c1 = c1
    c2 = c2
    c3 = c3
    h1 = h1
    h2 = h2
    Events = {e1, e2, e3}
    NoEvent = NoEvent
    UnknownTopics = {e3}
    Requests = {q1, q2}
    Workers = {w1}
    NoWorker = NoWorker
    Calls = {c1}
    Containers = {h1}
    HostOf <- MCHostOf
    Limit = 1
    MaxAttempts = 1
    MaxStalls = 1
    MaxFaults = 1
    MaxPeriods = 1
    Apps = {"a", "b", "c"}
    Patches = {"p", "q"}
    Limits = {1, 2}
    Recipients = {"a"}
    Mails = {1, 2, 3}
    Senders = {"s1", "s2"}
    EmailLimit = 1
    Fates = {{"bounced"}}
    MaxEmailFaults = 1
    Plans = {"pro"}
    SubIds = {1, 2}
    BillingCalls = {"b1"}
    MaxBillingFaults = 1
    Anchors = {1, 2, 15, 28, 31}
    LastDay = 400
INVARIANTS
    QuotaOvershoot
    OverrunBounded
    BounceSuppresses
    StoppedLosesPlan
    CountedInItsCycle
    SeatsOvershoot
SYMMETRY Interchangeable
CHECK_DEADLOCK FALSE
