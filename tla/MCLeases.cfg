SPECIFICATION LeasesSpec
CONSTANTS
    Calls = {c1, c2}
    Workers = {p1, p2}
    Owner = {"links", "deletes"}
    HoldMicros = 1
    Charges = {0, 2}
    Promo = 1
    Deposits = {1}
    MaxDeposited = 2
    MaxCrashes = 1
    NoCall = NoCall
    Quotes = {q1, q2}
    Funds = {0, 1}
    MaxPeriods = 2
    MaxHolds = 3
    MaxDeposits = 2
    MaxFaults = 1
    None = None
    Dead = Dead
    LastReport = 3
SYMMETRY Symmetry
INVARIANTS
    TypesOK
    CallsChargedOnce
    OnlyRetiredPurchasesLeak
    RentPaidOnce
    OnlyAuthorizedReleases
PROPERTIES
    KeepsEscrow
    NoReturn
CHECK_DEADLOCK FALSE
