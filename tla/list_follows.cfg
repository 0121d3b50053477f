SPECIFICATION MCSpec
CONSTANTS
    s1 = s1
    s2 = s2
    c1 = c1
    c2 = c2
    Scenes = {"update"}
    MaxSession = 3
    MaxLoss = 2
    MaxEdit = 2
    MaxErr = 1
    TaskPool = 5
    PathAtStart = FALSE
    MaxChanges = 2
    MaxLosses = 0
INVARIANT ListSettles
CHECK_DEADLOCK FALSE
