SPECIFICATION FairSpec
CONSTANTS
    Session = {"s1"}
    MaxBlock = 4
    BatchSize = 2
    Throttling = TRUE
    ThrottleBy = 3
    NotifyAfter = 2
    MayDisable = TRUE
    MaxCrashes = 1

INVARIANT TypeOK
INVARIANT NothingMissing
INVARIANT NoDebtTwice
INVARIANT SnapshotsRecorded
INVARIANT SideChangeRecorded
INVARIANT NoticeSentWithinRun
INVARIANT ClosedHaveFinalDebtWithinRun
PROPERTY CurrentDebtsCatchUp
