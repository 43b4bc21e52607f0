SPECIFICATION BillingSpec
CONSTANTS
    Plans = {"pro"}
    SubIds = {1, 2}
    BillingCalls = {"b1"}
    MaxBillingFaults = 0
INVARIANTS
    PayerIsInSync
CHECK_DEADLOCK FALSE
