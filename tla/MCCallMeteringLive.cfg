SPECIFICATION FairSpec
CONSTANTS
    Requests = {r1}
    Sweepers = {s1}
    LastReport = 2
    Generations = 2
    MaxRecovery = 0
    HoldMicros = 1
    Funds = {2}
    HasProvider = TRUE
    Lulls = {0}
    Stalls = TRUE
    MaxCrashes = 1
    None = None
PROPERTIES
    EveryHoldCloses
    SilentCallsEndOnSchedule
CHECK_DEADLOCK FALSE
