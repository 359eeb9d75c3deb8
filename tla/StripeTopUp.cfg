SPECIFICATION FairSpec
CONSTANTS
    Workers = {w1, w2}
    Kinds = {"MANUAL","AUTOMATIC"}
    Amount = 2
    Tax = 1
    RefundCents = {2, 3}
    DisputeCents = 3
    MaxAttempts = 2
    Stalls = FALSE
    MaxFaults = 1
    MaxMoves = 2
    None = None
    Dead = Dead
INVARIANTS
    TypeOK
    ColumnsFollowLedger
PROPERTIES
    KeepsPromise
    WalletFollowsStripe
CHECK_DEADLOCK FALSE
