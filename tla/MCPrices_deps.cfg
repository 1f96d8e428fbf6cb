SPECIFICATION Spec
CONSTANTS
    Tokens = {"c", "q"}
    OraclesOf <- MCDepsOraclesOf
    FirstOf <- MCDepsOraclesOf
    Kind <- MCKind
    Parts <- MCParts
    Deps <- MCDepsDeps
    MaxAgg <- MCMaxAgg
    Prices = {1, 2}
    PriceOracles = 1
    Interval = 2
    MaxBlock = 4
    MaxEvents = 3
    MaxRestarts = 0
INVARIANTS
    DependentPricesFetched
CHECK_DEADLOCK FALSE
