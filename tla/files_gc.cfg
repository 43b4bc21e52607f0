SPECIFICATION FairSpec
CONSTANTS
    i1 = i1
    i2 = i2
    r1 = r1
    r2 = r2
    c1 = c1
    c2 = c2
    s1 = s1
    s2 = s2
    Files = {r1}
    Inline = {}
    NoFile = NoFile
    Calls = {c1}
    Sweeps = {s1}
    NoSweep = NoSweep
    Want <- MCWant
    Limit = 3
    NoObject = NoObject
    MaxFaults = 0
PROPERTY StaleReservationsFreed
CHECK_DEADLOCK FALSE
