SPECIFICATION Spec
CONSTANTS
    Requests = {r1, r2}
    Sweepers = {}
    LastReport = 3
    Generations = 1
    MaxRecovery = 0
    HoldMicros = 1
    Funds = {1}
    HasProvider = TRUE
    Lulls = {0}
    Stalls = TRUE
    MaxCrashes = 0
    None = None
SYMMETRY Interchangeable
INVARIANTS
    UsageChargedOnce
CHECK_DEADLOCK FALSE
