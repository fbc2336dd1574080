SPECIFICATION Spec
CONSTANTS
    Amounts = {2}
    Charges = {1, 3}
    Allocation = 3
    MaxConcurrency = 2
    MaxRequests = 2
    FaultCap = 1
INVARIANT UnprovenKeepsAllocation
CHECK_DEADLOCK FALSE
