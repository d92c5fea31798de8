SPECIFICATION RetainSpec
CONSTANTS
    Thread = {t1, t2}
    Slot = {s1}
    WSlot = {w1}
    Addr = {a1, a2}
    LeakCheck = FALSE
    CountMax = 1
    MaxRefcount = 3
    Null = Null
    NShards = 1
    ShardOf <- OneShard
    Word = 8
INVARIANT NoOtherReference
