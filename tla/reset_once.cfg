SPECIFICATION ConnSpec
CONSTANTS
    c1 = c1
    c2 = c2
    c3 = c3
    o1 = o1
    o2 = o2
    o3 = o3
    NoConn = NoConn
    NoObj = NoObj
    Conns <- ThreeConns
    Objs <- ThreeObjs
    Leftover = TRUE
    MaxLoop = 1
INVARIANTS OneOwner
CHECK_DEADLOCK FALSE
