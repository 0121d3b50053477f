SPECIFICATION MCSpec
CONSTANTS
    m1 = m1
    m2 = m2
    m3 = m3
    m4 = m4
    k1 = k1
    k2 = k2
    k3 = k3
    Null = Null
    Msgs <- Four
    Consumers <- ThreeConsumers
    Uses <- TwoUses
    Scenes = {"strings"}
INVARIANT SwapsCounted
CHECK_DEADLOCK FALSE
