SPECIFICATION FairSpec
CONSTANTS
    Thread = {t1, t2}
    Slot = {s1, s2}
    WSlot = {w1}
    Addr = {a1, a2, a3}
    Null = Null
    LeakCheck = TRUE
    NShards = 2
    ShardOf <- TwoShards
    CountMax = 1
    Word = 8
    MaxRefcount = 3
PROPERTIES
    InitFinishes
    ShardReleased
    DoomedFreed
    LeakReported
