SPECIFICATION Spec
CONSTANTS
    Amounts = {2}
    Charges = {1, 3}
    Allocation = 3
    MaxConcurrency = 2
    MaxRequests = 2
    FaultCap = 1
INVARIANTS TypeOK LedgerCovers FileCovers AccountCovers
PROPERTIES DrainIsFinal BrokerEnds
CHECK_DEADLOCK FALSE
