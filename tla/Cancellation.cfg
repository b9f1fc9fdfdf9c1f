CONSTANTS
    r1 = r1
    r2 = r2
    None = None
    Requests <- TwoRequests
    Suspending = {r1}
    Token <- OwnToken
    Cancels = {c1}
    Sweeps = {}
    MaxGen = 1
    MaxLosses = 0
    MaxFaults = 0
    MaxCrashes = 1
SPECIFICATION Spec
CHECK_DEADLOCK FALSE
INVARIANT IInv
PROPERTIES CancelEndsClaim ImplementsTurnClaim
