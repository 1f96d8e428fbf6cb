SPECIFICATION Spec
CONSTANTS
    Tokens = {"t"}
    OraclesOf <- MCOraclesOf
    FirstOf <- MCFirstOf
    Kind <- MCKind
    Parts <- MCParts
    Deps <- MCDeps
    PriceOracles = 2
    Interval = 2
    MaxBlock = 3
    MaxEvents = 4
    MaxRestarts = 1
    MaxAgg <- MCMaxAgg
    Prices = {1, 2}
INVARIANTS
    TypeOK StopsOnlyOnKnownCauses CurrentFeedMatchesChain  CurrentPriceMatchesChain AnswersRecorded QueryPriceFromStart
CHECK_DEADLOCK FALSE
