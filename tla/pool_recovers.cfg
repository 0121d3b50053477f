SPECIFICATION SpecShare
CONSTANTS
    s1 = s1
    s2 = s2
    c1 = c1
    c2 = c2
    Scenes = {"share"}
    MaxSession = 3
    MaxLoss = 2
    MaxEdit = 2
    MaxErr = 1
    TaskPool = 5
    PathAtStart = TRUE
    MaxChanges = 0
    MaxLosses = 0
PROPERTY PoolRecovers
CHECK_DEADLOCK FALSE
