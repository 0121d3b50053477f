SPECIFICATION MCSpec
CONSTANTS
    c1 = c1
    c2 = c2
    c3 = c3
    o1 = o1
    o2 = o2
    o3 = o3
    NoConn = NoConn
    NoObj = NoObj
    Batches <- Singles
    ReadMax = 6
    NotifyCap = 6
    MaxQueue = 6
INVARIANTS NoLostWakeup FramesCut RatesHeld SocketsPlaced
PROPERTIES QueuedArrives AllDelivered
CHECK_DEADLOCK FALSE
