SPECIFICATION Spec
CONSTANTS
    Borrowers = {b1, b2}
    Inners <- MCInners
    ClosingInners <- MCClosingInners
    MaxCalls = 3
    MaxBlock = 2
    MaxDebt = 2
    DiscoveredAt = 1
INVARIANTS
    TypeOK
    StopsOnlyOnKnownShapes
    EveryEventSavedOnce
    
    NothingPendingWhenSaved
    StatsMatchChain
    RepaidMatchesChain
    SessionsMatchChain
SYMMETRY MCBorrowers
CHECK_DEADLOCK FALSE
