CONSTANTS
    Keys = {k1, k2}
    Amounts = {1, 2}
    NoRef = NoRef
    MaxRows = 4
SPECIFICATION Spec
SYMMETRY Symmetry
CHECK_DEADLOCK FALSE
INVARIANTS
    TypeOK
    LedgerReplays
    OneOutcomePerHold
    NumbersNeverSpendPromo
    DebtIsLastResort
    HoldsBackReservedColumns
PROPERTIES
    ImplementsEscrow
