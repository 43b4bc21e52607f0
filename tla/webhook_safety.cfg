SPECIFICATION Spec
CONSTANTS
    e1 = e1
    e2 = e2
    e3 = e3
    q1 = q1
    q2 = q2
    w1 = w1
    w2 = w2
    c1 = c1
    c2 = c2
    c3 = c3
    h1 = h1
    h2 = h2
    Events = {e1, e2}
    NoEvent = NoEvent
    UnknownTopics = {}
    Requests = {q1, q2}
    Workers = {w1, w2}
    NoWorker = NoWorker
    Calls = {c1, c2}
    Containers = {h1}
    HostOf <- MCHostOf
    Limit = 1
    MaxAttempts = 2
    MaxStalls = 1
    MaxFaults = 1
    MaxPeriods = 1
INVARIANTS
    AtMostOnce
    RunsAreCounted
    CompletedIsLogged
    SuccessIsProcessed
PROPERTY
    ImplementsDelivery
SYMMETRY Interchangeable
CHECK_DEADLOCK FALSE
