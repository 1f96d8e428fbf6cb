SPECIFICATION Spec
CONSTANTS
    Adapter <- FeedAdapter
    Wrapper <- FeedWrapper
    NoWrapper = "none"
    WrapperOf <- FeedWrapperOf
    LevelOf <- FeedLevelOf
    MaxLevel = 3
    Root = "ap"
    Seed = {"ap"}
    PriceOracles = {"po"}
    FirstLogAt <- FeedFirstLogAt
    AddedBy <- FeedAddedBy
    AddedAt <- FeedAddedAt
    Supersedes <- FeedSupersedes
    ViaHook = {"f2"}
    OracleOf <- FeedOracleOf
    MaxBlock = 4
    BatchSize = 2
    UsingThreads = TRUE
    MaxCrashes = 0
    Resyncable = {}
    MaxResyncs = 0

INVARIANT DebtOnFullData
