SPECIFICATION MCSpec
CONSTANTS
    u1 = u1
    u2 = u2
    i1 = i1
    i2 = i2
    a1 = a1
    a2 = a2
    b1 = b1
    m1 = m1
    NoMsg = NoMsg
    BadIo = BadIo
    Users <- MCUsers
    Conns <- MCConns
    Ios <- MCIos
    IoOf <- MCIoOf
    Msgs <- MCMsgs
    For <- MCFor
    Answers <- MCAnswers
    Claims <- MCClaims
    Scenes = {"moves"}
INVARIANTS AssertIo
CHECK_DEADLOCK FALSE
