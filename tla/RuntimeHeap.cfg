\* Every thread can end up in the overflow panic, which only abort() ends.
SPECIFICATION Spec
CHECK_DEADLOCK FALSE
CONSTANTS
    Thread = {t1, t2, t3}
    Slot = {s1, s2, s3}
    WSlot = {w1, w2}
    Addr = {a1, a2, a3}
    Null = Null
    Dead = Dead
    LeakCheck = TRUE
    NShards = 1
    ShardOf <- OneShard
    CountMax = 1
    Word = 8
    MaxRefcount = 2
SYMMETRY Symmetric
INVARIANTS
    TypeOK
    StrongSlotsLive
    RefCountExact
    DeallocExclusive
    HeadroomKept
    NoUnderflow
    EntriesLive
    WeakCountExact
    OneEntryFreer
    AliveTargetAllocated
    TableMatchesHeap
    TrackerExact
    BodiesExclusive
    IInv
PROPERTIES
    LifecycleOneWay
    ImplementsPromise
