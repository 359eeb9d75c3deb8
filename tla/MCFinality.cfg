SPECIFICATION FinalitySpec
CONSTANTS
    Calls = {c1, c2}
    Reconcilers = {q1}
    HoldMicros = 1
    Charges = {0, 2}
    Promo = 2
    Deposits = {1}
    MaxDeposited = 1
    MaxCrashes = 1
    NoCall = NoCall
    Workers = {w1, w2}
    Quotes = {quote}
    Funds = {0, 1}
    Owner = {"deletes"}
    MaxPeriods = 1
    MaxHolds = 2
    MaxDeposits = 1
    MaxFaults = 1
    None = None
    Dead = Dead
INVARIANTS
    WalletPaysSessionTotals
    RefundsKeepBuckets
PROPERTIES
    EveryCallIsFinalized
    DebtMarksClear
    EveryPurchaseEnds
    HoldsClose
    UnpaidEnds
CHECK_DEADLOCK FALSE
