SPECIFICATION LifecycleSpec
CONSTANTS
    t1 = t1
    v1 = v1
    v2 = v2
    v3 = v3
    Ops = {1, 2}
    Topics = {t1}
    Versions = {v1, v2, v3}
    Recorded = {v1, v2}
    Bundle <- MCBundle
    MaxRunning = 1
    MaxOpFaults = 0
INVARIANTS
    HealthyDeploySucceeds
CHECK_DEADLOCK FALSE
