\* The process ends when main returns.
SPECIFICATION MainSpec
CHECK_DEADLOCK FALSE
CONSTANTS
    Main = main
    Thread = {main}
    Slot = {s1, s2}
    WSlot = {w1}
    Addr = {a1, a2, a3}
    LeakCheck = TRUE
    CountMax = 1
    MaxRefcount = 3
    Null = Null
    NShards = 1
    ShardOf <- OneShard
    Word = 8
INVARIANTS
    ShutdownReported
    InitialisedFirst
