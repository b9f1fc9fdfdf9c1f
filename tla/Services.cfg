CONSTANTS
    Nobody = "nobody"
    MaxTroubles = 1
    Messages = {"m1"}
    Resumes = {"r1", "r2"}
    ToolCalls = {"t1", "t2"}
    MaxSuspensions = 2
    Jobs = {"j1", "j2", "j3"}
    Capacity = 1
    Limits = {1, 2}
    MaxFaults = 1
    Calls = {"c1", "c2", "c3"}
    Finals = {"f1"}
    Slots = 2
    Keys = {"k1"}
    Creates = {n1, n2}
    Disposals = {d1}
    Sweeps = {s1}
    Uses = {u1}
    Prepares = {"p1"}
    Polls = {"q1"}
    Scripts = {"s1"}
    MaxBuilds = 2
    DayLength = 4
    Zones <- MCZones
    Anchors <- MCAnchors
    Afters <- MCAfters
    WeekdaySets = {{}, {1}, {0, 4}}
    Asked = Asked
    None = None
    Workers = {"w1", "w2"}
    Manuals = {}
    Plans = {{0, 1}}
    NowPlans = {}
    FixedSession = TRUE
    Outcomes = {"completed"}
    Horizon = 1
    MaxCalls = 0
    Uploads = {"u1", "u2"}
    Relearns = {"r1"}
    Deletions = {"x1"}
    Handlers = {"h1", "h2"}
    MaxRequests = 1
    MaxJobs = 4
    MaxRetries = 1
SPECIFICATION Spec
CHECK_DEADLOCK FALSE
INVARIANTS
    TypesOK  SlotsAgree NothingIsLeaked AnsweredIsUsable 
    NextTimesAreRight ResumedByOneTurn ResumingIsOwned
PROPERTIES EveryWaitEnds DueRunsAreServed
