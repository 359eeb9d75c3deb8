SPECIFICATION FairSpec
CONSTANTS
    Requests = {r1}
    Sweepers = {s1}
    LastReport = 1
    Generations = 1
    MaxRecovery = 1
    HoldMicros = 1
    Funds = {2}
    HasProvider = TRUE
    Lulls = {0}
    Stalls = TRUE
    MaxCrashes = 1
    None = None
PROPERTIES
    SilentCallsEnd
CHECK_DEADLOCK FALSE
