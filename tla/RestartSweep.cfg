CONSTANTS
    r1 = r1
    r2 = r2
    None = None
    Requests <- OneRequest
    Suspending = {}
    Token <- OwnToken
    Cancels = {}
    Sweeps = {s1}
    MaxGen = 0
    MaxLosses = 0
    MaxFaults = 0
    MaxCrashes = 1
SPECIFICATION FairSpec
CHECK_DEADLOCK FALSE
PROPERTY ClaimIsReleased
