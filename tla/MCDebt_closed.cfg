SPECIFICATION Spec
CONSTANTS
    Session = {"s1"}
    MaxBlock = 4
    BatchSize = 2
    Throttling = TRUE
    ThrottleBy = 3
    NotifyAfter = 2
    MayDisable = FALSE
    MaxCrashes = 1

INVARIANT ClosedHaveFinalDebt
