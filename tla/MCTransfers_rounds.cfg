SPECIFICATION Spec
CONSTANTS
    Accounts = {a}
    Managers = {p, q}
    MaxTx = 5
    MaxDirect = 2
    MaxBlock = 3
    MaxRestarts = 1
SYMMETRY MCSymmetry
INVARIANTS
    TypeOK
    StopsOnlyOnKnownCauses
    RecordedInSession
    EveryTransferAccounted
    NewestBalances
    CollateralMatchesRows
CHECK_DEADLOCK FALSE
