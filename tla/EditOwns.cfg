CONSTANTS
    w1 = w1
    w2 = w2
    m1 = m1
    None = None
    Workers <- TwoWorkers
    Manuals = {}
    Plans <- RacingPlans
    NowPlans <- OnceOnly
    FixedSession = TRUE
    Outcomes = {"completed"}
    Horizon = 1
    MaxCalls = 1
    MaxTroubles = 0
SPECIFICATION Spec
SYMMETRY SymmetricWorkers
CHECK_DEADLOCK FALSE
INVARIANT EditOwnsSchedule

