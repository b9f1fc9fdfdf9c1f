SPECIFICATION FairSpec
CONSTANTS
    None = None
    child = child
    approval = approval
    Last = 2
    Starts = {1}
    Browser = {1}
    Sides = {approval}
    Parent <- MCParent
    MaxBatch = 2
    MaxTroubles = 1
    MaxSweeps = 0
PROPERTY FailurePropagates
CHECK_DEADLOCK FALSE
