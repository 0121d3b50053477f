SPECIFICATION Spec
CONSTANTS
    c1 = c1
    c2 = c2
    o1 = o1
    o2 = o2
    m1 = m1
    m2 = m2
    m3 = m3
    Conns <- TwoConns
    Objs <- TwoObjs
    NoConn = NoConn
    NoObj = NoObj
    NoMsg = NoMsg
    Msgs <- ThreeMsgs
    To <- Targets
    Switching <- SwitchFirst
    Leftover = FALSE
    Closing <- CloseLast
    FrameLen = 2
    MaxLoop = 2
INVARIANTS RecycledClean StreamIntact NotSentAndCollected OneOwner
PROPERTIES ImplementsLifecycle NoReuseInIteration PushListDrains
CHECK_DEADLOCK FALSE
