SPECIFICATION MCSpec
CONSTANTS
    a1 = a1
    a2 = a2
    p1 = p1
    p2 = p2
    w1 = w1
    w2 = w2
    Conn <- MCConn
    User <- MCUser
    Polite <- MCPolite
    Frame <- Every
    AuthWorker <- MCAuthWorker
    AppWorker <- MCAppWorker
    Gap = 30
    MaxFrames = 3
    Thread <- MCAuthWorker
    Instance <- MCInstance
    NoInstance = 0
    MaxLogins = 2
    MaxFaults = 2
INVARIANTS PoliteNeverKicked OneAnswer AnsweredIsRouted EachTargetOnce PacksAsMeant KickedSucceeds HeardIsStored
PROPERTIES WorkEnds
CHECK_DEADLOCK FALSE
