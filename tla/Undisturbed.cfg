CONSTANTS
    r1 = r1
    r2 = r2
    None = None
    Requests <- TwoRequests
    Suspending = {r1}
    Token <- SameToken
    Cancels = {}
    Sweeps = {}
    MaxGen = 1
    MaxLosses = 1
    MaxFaults = 0
    MaxCrashes = 1
SPECIFICATION Spec
CHECK_DEADLOCK FALSE
INVARIANTS CompletedIsDurable EventsStayWithTheirTurn 
