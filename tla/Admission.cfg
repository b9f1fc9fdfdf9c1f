CONSTANTS
    r1 = r1
    r2 = r2
    None = None
    Requests <- TwoRequests
    Suspending = {r1}
    Token <- OwnToken
    Cancels = {}
    Sweeps = {s1}
    MaxGen = 1
    MaxLosses = 0
    MaxFaults = 1
    MaxCrashes = 0
SPECIFICATION Spec
CHECK_DEADLOCK FALSE
INVARIANTS TypeOK CompletedIsProjected StreamVisible
PROPERTIES RunOutlivesClaim ImplementsTurnClaim
