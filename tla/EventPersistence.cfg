SPECIFICATION FairSpec
CONSTANTS
    None = None
    child = child
    approval = approval
    Last = 2
    Starts = {1}
    Browser = {1}
    Sides = {child}
    Parent <- MCParent
    MaxBatch = 2
    MaxTroubles = 2
    MaxSweeps = 1
INVARIANTS TypeOK CursorBehindRows DistinctOrdinals ChildAfterParent CompletedIsWhole HistoryIsReplayable
PROPERTY RunnerReturns
CHECK_DEADLOCK FALSE
