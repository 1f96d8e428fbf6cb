SPECIFICATION FairSpec
CONSTANTS
    Adapter <- CoreAdapter
    Wrapper <- CoreWrapper
    NoWrapper = "none"
    WrapperOf <- CoreWrapperOf
    LevelOf <- CoreLevelOf
    MaxLevel = 2
    Root = "ap"
    Seed = {"ap"}
    PriceOracles = {"po1", "po2"}
    FirstLogAt <- CoreFirstLogAt
    AddedBy <- CoreAddedBy
    AddedAt <- CoreAddedAt
    Supersedes <- CoreSupersedes
    ViaHook = {}
    OracleOf <- CoreOracleOf
    MaxBlock = 5
    BatchSize = 2
    UsingThreads = TRUE
    MaxCrashes = 1
    Resyncable = {"po2"}
    MaxResyncs = 1

INVARIANT TypeOK
INVARIANT ExactlyOnce
INVARIANT NothingForgotten
INVARIANT LevelOrder
INVARIANT StopsAtDisableBlock
INVARIANT DebtOnFullData
INVARIANT ReportedIsCommitted
PROPERTY ImplementsIndexer
PROPERTY CatchesUp
