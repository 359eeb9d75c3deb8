SPECIFICATION Spec
CONSTANTS
    Requests = {r1, r2}
    Sweepers = {s1, s2}
    LastReport = 2
    Generations = 1
    MaxRecovery = 1
    HoldMicros = 1
    Funds = {0, 1, 2, 3}
    HasProvider = TRUE
    Lulls = {0, 2}
    Stalls = FALSE
    MaxCrashes = 1
    None = None
SYMMETRY Interchangeable
INVARIANTS
    TypeOK
    UsageChargedOnce
    SessionReflectsLedger
    ActiveCallIsBacked
CHECK_DEADLOCK FALSE
