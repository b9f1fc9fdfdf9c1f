CONSTANTS
    u1 = u1
    u2 = u2
    r1 = r1
    x1 = x1
    h1 = h1
    h2 = h2
    Nobody = Nobody
    Uploads <- TwoUploads
    Relearns = {r1}
    Deletions = {x1}
    Handlers = {h1, h2}
    MaxRequests = 2
    MaxJobs = 4
    MaxRetries = 1
    MaxTroubles = 1
SPECIFICATION KnowledgeSpec
SYMMETRY SymmetricUploads
CHECK_DEADLOCK FALSE
INVARIANTS ActiveIsAvailable SupersededIsRemoved
PROPERTY NeverBack
