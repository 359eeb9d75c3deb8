SPECIFICATION Spec
CONSTANTS
    Requests = {r1}
    Sweepers = {s1}
    LastReport = 3
    Generations = 1
    MaxRecovery = 1
    HoldMicros = 1
    Funds = {4}
    HasProvider = FALSE
    Lulls = {0}
    Stalls = FALSE
    MaxCrashes = 0
    None = None
PROPERTIES
    EndedCallsFailClosed
CHECK_DEADLOCK FALSE
