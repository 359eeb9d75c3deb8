SPECIFICATION Spec

CONSTANTS
    Calls = {c1, c2}
    Reconcilers = {q1}
    HoldMicros = 1
    Charges = {0, 1, 2}
    Promo = 2
    Deposits = {1}
    MaxDeposited = 1
    MaxCrashes = 0
    NoCall = NoCall
    c1 = c1
    c2 = c2
    q1 = q1

SYMMETRY Symmetry

INVARIANTS
    PaidCreditWasPaid

CHECK_DEADLOCK FALSE
