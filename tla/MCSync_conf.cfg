SPECIFICATION Spec
CONSTANTS
    Adapter <- ConfAdapter
    Wrapper <- ConfWrapper
    NoWrapper = "none"
    WrapperOf <- ConfWrapperOf
    LevelOf <- ConfLevelOf
    MaxLevel = 2
    Root = "ap"
    Seed = {"ap"}
    PriceOracles = {}
    FirstLogAt <- ConfFirstLogAt
    AddedBy <- ConfAddedBy
    AddedAt <- ConfAddedAt
    Supersedes <- ConfSupersedes
    ViaHook = {}
    OracleOf <- ConfOracleOf
    MaxBlock = 5
    BatchSize = 2
    UsingThreads = TRUE
    MaxCrashes = 0
    Resyncable = {}
    MaxResyncs = 0

INVARIANT StopsAtDisableBlock
