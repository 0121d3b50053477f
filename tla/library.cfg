SPECIFICATION MCSpec
CONSTANTS
    m1 = m1
    m2 = m2
    m3 = m3
    m4 = m4
    k1 = k1
    k2 = k2
    k3 = k3
    Null = Null
    Msgs <- Four
    Consumers <- ThreeConsumers
    Uses <- TwoUses
    Scenes = {"blocking", "priority", "util", "strings", "ini", "packs"}
INVARIANTS QueueSound NobodySleepsOver ListsWhole StringsAsDefined FileAnswers PacksAgree
PROPERTIES EveryMessageTaken Fifo ServedInSequence
CHECK_DEADLOCK FALSE
