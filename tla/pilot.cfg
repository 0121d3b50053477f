SPECIFICATION MCSpec
CONSTANTS
    s1 = s1
    s2 = s2
    c1 = c1
    c2 = c2
    Scenes = {"share", "rotate", "update", "mixed", "register", "dispatch"}
    MaxSession = 3
    MaxLoss = 2
    MaxEdit = 2
    MaxErr = 1
    TaskPool = 2
    PathAtStart = TRUE
    MaxChanges = 2
    MaxLosses = 1
INVARIANTS HealthyPoolUsable ListSound RegisteredAndWatched DispatchExact
PROPERTIES RegisteredAgain CallsReturn
CHECK_DEADLOCK FALSE
