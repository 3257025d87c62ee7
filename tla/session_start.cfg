SPECIFICATION FairSpec
CONSTANTS
    Requests = {r1, r2}
    MaxSessions = 2
    i1 = i1
    s1 = s1
    Items = {i1}
    Sets = {s1}
    All = All
    Content <- ContentOf
    Library = {s1}
    Owned = {s1}
    Limits <- LimitsOf
    Events = {"force", "deleteSet", "redisError", "commitError", "crash", "evict"}
    MaxFaults = 2
    None = None
INVARIANTS OneOpenPerContext 
PROPERTIES StartAgain
CHECK_DEADLOCK FALSE
