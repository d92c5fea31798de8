-------------------------- MODULE SkevRuntimeProofs -------------------------
(***************************************************************************)
(* IInv is an inductive invariant of SkevRuntime, and what follows from    *)
(* it: the safety properties, for any number of threads, slots, addresses  *)
(* and shards, and any thresholds that satisfy the assumptions.  Every     *)
(* conjunct of IInv that is not about a count has a lemma here, with the   *)
(* conjuncts it needs as hypotheses; the counts are in RuntimeCounts.      *)
(***************************************************************************)
EXTENDS RuntimeCounts

(* Types, for the actions of init.rs ...                                   *)
LEMMA TypedLifecycle ==
    ASSUME Typed, NEW t \in Thread, LifecycleStep(t)
    PROVE  Typed'
<1> USE DEF Typed, TypeOK, ThreadsTypeOK, HeapTypeOK, LifecycleTypeOK,
            LeakTypeOK,
            WeakTypeOK, LocalsOK, heapVars, entryVars, leakVars, lifecycleVars,
            PcValue, AllocPc, BorrowPc, DeallocPc, PanicPc, ObjPc, EntPc,
            LifecycleState, Idle, Call, Return, Goto
<1>1. CASE skev_init(t) /\ UNCHANGED <<heapVars, table, leakVars>>
  BY <1>1 DEF skev_init, InitCas
<1>2. CASE StoreReady(t) /\ UNCHANGED <<heapVars, table, leakVars>>
  BY <1>2 DEF StoreReady
<1>3. CASE skev_shutdown(t) /\ UNCHANGED <<heapVars, table, leakVars>>
  BY <1>3 DEF skev_shutdown
<1>4. CASE ShutdownCas(t) /\ UNCHANGED <<heapVars, table, leakVars>>
  BY <1>4 DEF ShutdownCas
<1>q. QED BY <1>1, <1>2, <1>3, <1>4 DEF LifecycleStep

(* ... of leak.rs ...                                                      *)
LEMMA TypedLeak ==
    ASSUME Typed, NEW t \in Thread, LeakStep(t)
    PROVE  Typed'
<1> USE DEF Typed, TypeOK, ThreadsTypeOK, HeapTypeOK, LifecycleTypeOK,
            LeakTypeOK,
            WeakTypeOK, LocalsOK, heapVars, entryVars, leakVars, lifecycleVars,
            PcValue, AllocPc, BorrowPc, DeallocPc, PanicPc, ObjPc, EntPc,
            LifecycleState, Idle, Call, Return, Goto
<1>1. CASE track_alloc(t) /\ UNCHANGED <<heapVars, table>>
  BY <1>1 DEF track_alloc
<1>2. CASE track_dealloc(t) /\ UNCHANGED <<heapVars, table>>
  BY <1>2 DEF track_dealloc
<1>3. CASE report_leaks(t) /\ UNCHANGED <<heapVars, table>>
  <2>1. leaks' \in 0..CountMax
    <3> DEFINE S == {a \in tracker : ShardOf[a] = walk + 1}
    <3>1. S \in SUBSET Addr OBVIOUS
    <3>2. saturating_add(leaks, Cardinality(S)) \in 0..CountMax BY <3>1,
          TallyTyped
    <3> QED BY <1>3, <3>2 DEF report_leaks
  <2>2. walk' \in 0..NShards
    BY <1>3, LeakAssumption DEF report_leaks, LastShard
  <2> QED BY <1>3, <2>1, <2>2 DEF report_leaks, callVars
<1>4. CASE StoreExitCode(t) /\ UNCHANGED <<heapVars, table>>
  BY <1>4 DEF StoreExitCode
<1>q. QED BY <1>1, <1>2, <1>3, <1>4 DEF LeakStep

(* ... of weak.rs ...                                                      *)
LEMMA TypedWeak ==
    ASSUME Typed, NEW t \in Thread, WeakStep(t)
    PROVE  Typed'
<1> USE DEF Typed, TypeOK, ThreadsTypeOK, HeapTypeOK, LifecycleTypeOK,
            LeakTypeOK,
            WeakTypeOK, LocalsOK, heapVars, entryVars, leakVars, lifecycleVars,
            PcValue, AllocPc, BorrowPc, DeallocPc, PanicPc, ObjPc, EntPc,
            LifecycleState, Idle, Call, Return, Goto
<1>1. ASSUME NEW s \in Slot, NEW w \in WSlot, skev_weak_alloc(t, s,
             w) /\ UNCHANGED <<leakVars, lifecycleVars>>
      PROVE  Typed'
  BY <1>1, ThreadsAssumption DEF skev_weak_alloc, Reserved
<1>2. CASE WeakLookup(t) /\ UNCHANGED <<leakVars, lifecycleVars>>
  BY <1>2, ThreadsAssumption DEF WeakLookup
<1>3. CASE WeakHit(t) /\ UNCHANGED <<leakVars, lifecycleVars>>
  BY <1>3, WordOps DEF WeakHit
<1>4. ASSUME NEW e \in Addr, WeakMiss(t, e) /\ UNCHANGED <<leakVars,
             lifecycleVars>>
      PROVE  Typed'
  BY <1>4 DEF WeakMiss, alloc_entry, NewWeakCount
<1>5. CASE WeakOutOfMemory(t) /\ UNCHANGED <<leakVars, lifecycleVars>>
  BY <1>5 DEF WeakOutOfMemory
<1>6. ASSUME NEW w \in WSlot, skev_weak_upgrade(t, w) /\ UNCHANGED <<leakVars,
             lifecycleVars>>
      PROVE  Typed'
  BY <1>6, ThreadsAssumption DEF skev_weak_upgrade
<1>7. CASE DropUpgraded(t) /\ UNCHANGED <<leakVars, lifecycleVars>>
  BY <1>7 DEF DropUpgraded
<1>8. ASSUME NEW w \in WSlot, skev_weak_release(t, w) /\ UNCHANGED <<leakVars,
             lifecycleVars>>
      PROVE  Typed'
  BY <1>8, WordOps DEF skev_weak_release, callVars
<1>9. CASE OnDeallocRemove(t) /\ UNCHANGED <<leakVars, lifecycleVars>>
  BY <1>9, ThreadsAssumption DEF OnDeallocRemove
<1>10. CASE OnDeallocMark(t) /\ UNCHANGED <<leakVars, lifecycleVars>>
  BY <1>10 DEF OnDeallocMark
<1>11. CASE OnDeallocUnslot(t) /\ UNCHANGED <<leakVars, lifecycleVars>>
  BY <1>11, WordOps DEF OnDeallocUnslot
<1>12. CASE free_entry(t) /\ UNCHANGED <<leakVars, lifecycleVars>>
  BY <1>12 DEF free_entry, skev_free_raw
<1>q. QED BY <1>1, <1>2, <1>3, <1>4, <1>5, <1>6, <1>7, <1>8, <1>9, <1>10,
             <1>11, <1>12 DEF WeakStep

(* ... and of arc.rs.                                                      *)
LEMMA TypedArc ==
    ASSUME Typed, NEW t \in Thread, ArcStep(t)
    PROVE  Typed'
<1> USE DEF Typed, TypeOK, ThreadsTypeOK, HeapTypeOK, LifecycleTypeOK,
            LeakTypeOK,
            WeakTypeOK, LocalsOK, heapVars, entryVars, leakVars, lifecycleVars,
            PcValue, AllocPc, BorrowPc, DeallocPc, PanicPc, ObjPc, EntPc,
            LifecycleState, Idle, Call, Return, Goto
<1>1. ASSUME NEW s \in Slot, skev_alloc(t, s)
      PROVE  Typed'
  BY <1>1, ThreadsAssumption DEF skev_alloc, InitCas
<1>2. ASSUME NEW a \in Addr, AllocRaw(t, a)
      PROVE  Typed'
  BY <1>2, ThreadsAssumption DEF AllocRaw, AllocObject
<1>3. CASE AllocOutOfMemory(t)
  BY <1>3 DEF AllocOutOfMemory
<1>4. ASSUME NEW src \in Slot, NEW dst \in Slot, skev_retain(t, src, dst)
      PROVE  Typed'
  BY <1>4, WordOps, ThreadsAssumption DEF skev_retain, callVars
<1>5. ASSUME NEW s \in Slot, skev_release(t, s)
      PROVE  Typed'
  BY <1>5, WordOps, ThreadsAssumption DEF skev_release, DeallocEntry, callVars
<1>6. ASSUME NEW s \in Slot, skev_dealloc(t, s)
      PROVE  Typed'
  BY <1>6, ThreadsAssumption DEF skev_dealloc, DeallocEntry
<1>7. CASE FreeObject(t)
  BY <1>7 DEF FreeObject, skev_free_raw
<1>q. QED BY <1>1, <1>2, <1>3, <1>4, <1>5, <1>6, <1>7 DEF ArcStep

(* No step fills or clears a slot that another call has reserved.          *)
LEMMA SlotsStep ==
    ASSUME Typed, SlotsOK, NEW t \in Thread, Step(t)
    PROVE  SlotsOK'
<1> USE ThreadsAssumption
    DEF Typed, TypeOK, ThreadsTypeOK, HeapTypeOK, LocalsOK, PcValue, AllocPc,
        BorrowPc, DeallocPc, PanicPc, ObjPc, EntPc, heapVars, entryVars,
        leakVars, lifecycleVars, callVars, Idle, Call, Return, Goto, SlotsOK
<1>1. CASE LifecycleStep(t)
  BY <1>1
  DEF LifecycleStep, skev_init, InitCas, StoreReady, skev_shutdown,
      ShutdownCas, ShutdownCasWins
<1>2. CASE LeakStep(t)
  BY <1>2
  DEF LeakStep, track_alloc, track_dealloc, report_leaks, LastShard,
      StoreExitCode
<1>3. ASSUME NEW s \in Slot, NEW w \in WSlot, skev_weak_alloc(t, s, w),
             UNCHANGED <<leakVars, lifecycleVars>>
      PROVE  SlotsOK'
  BY <1>3 DEF skev_weak_alloc, Reserved, BusyWeak
<1>4. ASSUME WeakLookup(t), UNCHANGED <<leakVars, lifecycleVars>>
      PROVE  SlotsOK'
  BY <1>4 DEF WeakLookup, ShardUnlocked
<1>5. ASSUME WeakHit(t), UNCHANGED <<leakVars, lifecycleVars>>
      PROVE  SlotsOK'
  BY <1>5 DEF WeakHit
<1>6. ASSUME NEW e \in Addr, WeakMiss(t, e), UNCHANGED <<leakVars,
             lifecycleVars>>
      PROVE  SlotsOK'
  BY <1>6 DEF WeakMiss, alloc_entry, NewWeakCount
<1>7. ASSUME WeakOutOfMemory(t), UNCHANGED <<leakVars, lifecycleVars>>
      PROVE  SlotsOK'
  BY <1>7 DEF WeakOutOfMemory
<1>8. ASSUME NEW w \in WSlot, skev_weak_upgrade(t, w), UNCHANGED <<leakVars,
             lifecycleVars>>
      PROVE  SlotsOK'
  BY <1>8 DEF skev_weak_upgrade
<1>9. ASSUME DropUpgraded(t), UNCHANGED <<leakVars, lifecycleVars>>
      PROVE  SlotsOK'
  BY <1>9 DEF DropUpgraded
<1>10. ASSUME NEW w \in WSlot, skev_weak_release(t, w), UNCHANGED <<leakVars,
              lifecycleVars>>
      PROVE  SlotsOK'
  BY <1>10 DEF skev_weak_release, LastClaim
<1>11. ASSUME OnDeallocRemove(t), UNCHANGED <<leakVars, lifecycleVars>>
      PROVE  SlotsOK'
  BY <1>11 DEF OnDeallocRemove, ShardUnlocked
<1>12. ASSUME OnDeallocMark(t), UNCHANGED <<leakVars, lifecycleVars>>
      PROVE  SlotsOK'
  BY <1>12 DEF OnDeallocMark
<1>13. ASSUME OnDeallocUnslot(t), UNCHANGED <<leakVars, lifecycleVars>>
      PROVE  SlotsOK'
  BY <1>13 DEF OnDeallocUnslot, LastClaim
<1>14. ASSUME free_entry(t), UNCHANGED <<leakVars, lifecycleVars>>
      PROVE  SlotsOK'
  BY <1>14, SMTT(20) DEF free_entry, skev_free_raw
<1>15. ASSUME NEW s \in Slot, skev_alloc(t, s)
      PROVE  SlotsOK'
  BY <1>15 DEF skev_alloc, InitCas, Reserved
<1>16. ASSUME NEW a \in Addr, AllocRaw(t, a)
      PROVE  SlotsOK'
  BY <1>16, SMTT(20) DEF AllocRaw, AllocObject
<1>17. CASE AllocOutOfMemory(t)
  BY <1>17 DEF AllocOutOfMemory
<1>18. ASSUME NEW src \in Slot, NEW dst \in Slot, skev_retain(t, src, dst)
      PROVE  SlotsOK'
  BY <1>18 DEF skev_retain, Reserved, Overflows
<1>19. ASSUME NEW s \in Slot, skev_release(t, s)
      PROVE  SlotsOK'
  BY <1>19 DEF skev_release, DeallocEntry, Busy
<1>20. ASSUME NEW s \in Slot, skev_dealloc(t, s)
      PROVE  SlotsOK'
  BY <1>20 DEF skev_dealloc, DeallocEntry, Busy
<1>21. CASE FreeObject(t)
  BY <1>21 DEF FreeObject, skev_free_raw
<1> QED
  BY <1>1, <1>2, <1>3, <1>4, <1>5, <1>6, <1>7, <1>8, <1>9, <1>10, <1>11,
     <1>12, <1>13, <1>14,
     <1>15, <1>16, <1>17, <1>18, <1>19, <1>20, <1>21
  DEF Step, LifecycleStep, LeakStep, WeakStep, ArcStep

(* No step copies a new object before its skev_alloc has returned.         *)
LEMMA NewbornStep ==
    ASSUME Typed, SlotsOK, StrongSlotsLive, NewbornOK, NEW t \in Thread, Step(t)
    PROVE  NewbornOK'
<1> USE ThreadsAssumption
    DEF Typed, TypeOK, ThreadsTypeOK, HeapTypeOK, LocalsOK, WeakTypeOK,
        PcValue, AllocPc, BorrowPc, DeallocPc, PanicPc, ObjPc, EntPc,
        heapVars, entryVars, leakVars, lifecycleVars, callVars, Idle, Call,
        Return, Goto, SlotsOK, StrongSlotsLive, NewbornOK, Doomed, Deallocating
<1>1. CASE LifecycleStep(t)
  BY <1>1
  DEF LifecycleStep, skev_init, InitCas, StoreReady, skev_shutdown,
      ShutdownCas, ShutdownCasWins
<1>2. CASE LeakStep(t)
  BY <1>2
  DEF LeakStep, track_alloc, track_dealloc, report_leaks, LastShard,
      StoreExitCode
<1>3. ASSUME NEW s \in Slot, NEW w \in WSlot, skev_weak_alloc(t, s, w),
             UNCHANGED <<leakVars, lifecycleVars>>
      PROVE  NewbornOK'
  BY <1>3 DEF skev_weak_alloc, Reserved, BusyWeak
<1>4. ASSUME WeakLookup(t), UNCHANGED <<leakVars, lifecycleVars>>
      PROVE  NewbornOK'
  BY <1>4 DEF WeakLookup, ShardUnlocked
<1>5. ASSUME WeakHit(t), UNCHANGED <<leakVars, lifecycleVars>>
      PROVE  NewbornOK'
  BY <1>5 DEF WeakHit
<1>6. ASSUME NEW e \in Addr, WeakMiss(t, e), UNCHANGED <<leakVars,
             lifecycleVars>>
      PROVE  NewbornOK'
  BY <1>6 DEF WeakMiss, alloc_entry, NewWeakCount
<1>7. ASSUME WeakOutOfMemory(t), UNCHANGED <<leakVars, lifecycleVars>>
      PROVE  NewbornOK'
  BY <1>7 DEF WeakOutOfMemory
<1>8. ASSUME NEW w \in WSlot, skev_weak_upgrade(t, w), UNCHANGED <<leakVars,
             lifecycleVars>>
      PROVE  NewbornOK'
  BY <1>8 DEF skev_weak_upgrade
<1>9. ASSUME DropUpgraded(t), UNCHANGED <<leakVars, lifecycleVars>>
      PROVE  NewbornOK'
  BY <1>9 DEF DropUpgraded
<1>10. ASSUME NEW w \in WSlot, skev_weak_release(t, w), UNCHANGED <<leakVars,
              lifecycleVars>>
      PROVE  NewbornOK'
  BY <1>10 DEF skev_weak_release, LastClaim
<1>11. ASSUME OnDeallocRemove(t), UNCHANGED <<leakVars, lifecycleVars>>
      PROVE  NewbornOK'
  BY <1>11 DEF OnDeallocRemove, ShardUnlocked
<1>12. ASSUME OnDeallocMark(t), UNCHANGED <<leakVars, lifecycleVars>>
      PROVE  NewbornOK'
  BY <1>12 DEF OnDeallocMark
<1>13. ASSUME OnDeallocUnslot(t), UNCHANGED <<leakVars, lifecycleVars>>
      PROVE  NewbornOK'
  BY <1>13 DEF OnDeallocUnslot, LastClaim
<1>14. ASSUME free_entry(t), UNCHANGED <<leakVars, lifecycleVars>>
      PROVE  NewbornOK'
  BY <1>14 DEF free_entry, skev_free_raw
<1>15. ASSUME NEW s \in Slot, skev_alloc(t, s)
      PROVE  NewbornOK'
  BY <1>15 DEF skev_alloc, InitCas, Reserved
<1>16. ASSUME NEW a \in Addr, AllocRaw(t, a)
      PROVE  NewbornOK'
  BY <1>16 DEF AllocRaw, AllocObject
<1>17. CASE AllocOutOfMemory(t)
  BY <1>17 DEF AllocOutOfMemory
<1>18. ASSUME NEW src \in Slot, NEW dst \in Slot, skev_retain(t, src, dst)
      PROVE  NewbornOK'
  BY <1>18 DEF skev_retain, Reserved, Overflows
<1>19. ASSUME NEW s \in Slot, skev_release(t, s)
      PROVE  NewbornOK'
  BY <1>19 DEF skev_release, DeallocEntry, Busy
<1>20. ASSUME NEW s \in Slot, skev_dealloc(t, s)
      PROVE  NewbornOK'
  BY <1>20 DEF skev_dealloc, DeallocEntry, Busy
<1>21. CASE FreeObject(t)
  BY <1>21 DEF FreeObject, skev_free_raw
<1> QED
  BY <1>1, <1>2, <1>3, <1>4, <1>5, <1>6, <1>7, <1>8, <1>9, <1>10, <1>11,
     <1>12, <1>13, <1>14,
     <1>15, <1>16, <1>17, <1>18, <1>19, <1>20, <1>21
  DEF Step, LifecycleStep, LeakStep, WeakStep, ArcStep

(* The compare_exchange admits one thread to a body of init.rs.            *)
LEMMA BodiesStep ==
    ASSUME Typed, BodiesExclusive, ShutdownOK, NEW t \in Thread, Step(t)
    PROVE  BodiesExclusive' /\ ShutdownOK'
<1> USE DEF Typed, TypeOK, ThreadsTypeOK, HeapTypeOK, LocalsOK, PcValue,
            AllocPc, BorrowPc, DeallocPc, PanicPc, ObjPc, EntPc, heapVars,
            entryVars, leakVars, lifecycleVars, callVars, Idle, Call, Return,
            Goto, BodiesExclusive, ShutdownOK, InitPc, LifecycleTypeOK
<1>1. CASE LifecycleStep(t)
  BY <1>1
  DEF LifecycleStep, skev_init, InitCas, InitCasWins, StoreReady,
      skev_shutdown, ShutdownCas, ShutdownCasWins
<1>2. CASE LeakStep(t)
  BY <1>2
  DEF LeakStep, track_alloc, track_dealloc, report_leaks, LastShard,
      StoreExitCode
<1>3. ASSUME NEW s \in Slot, NEW w \in WSlot, skev_weak_alloc(t, s, w),
             UNCHANGED <<leakVars, lifecycleVars>>
      PROVE  BodiesExclusive' /\ ShutdownOK'
  BY <1>3 DEF skev_weak_alloc, Reserved, BusyWeak
<1>4. ASSUME WeakLookup(t), UNCHANGED <<leakVars, lifecycleVars>>
      PROVE  BodiesExclusive' /\ ShutdownOK'
  BY <1>4 DEF WeakLookup, ShardUnlocked
<1>5. ASSUME WeakHit(t), UNCHANGED <<leakVars, lifecycleVars>>
      PROVE  BodiesExclusive' /\ ShutdownOK'
  BY <1>5 DEF WeakHit
<1>6. ASSUME NEW e \in Addr, WeakMiss(t, e), UNCHANGED <<leakVars,
             lifecycleVars>>
      PROVE  BodiesExclusive' /\ ShutdownOK'
  BY <1>6 DEF WeakMiss, alloc_entry, NewWeakCount
<1>7. ASSUME WeakOutOfMemory(t), UNCHANGED <<leakVars, lifecycleVars>>
      PROVE  BodiesExclusive' /\ ShutdownOK'
  BY <1>7 DEF WeakOutOfMemory
<1>8. ASSUME NEW w \in WSlot, skev_weak_upgrade(t, w), UNCHANGED <<leakVars,
             lifecycleVars>>
      PROVE  BodiesExclusive' /\ ShutdownOK'
  BY <1>8 DEF skev_weak_upgrade
<1>9. ASSUME DropUpgraded(t), UNCHANGED <<leakVars, lifecycleVars>>
      PROVE  BodiesExclusive' /\ ShutdownOK'
  BY <1>9 DEF DropUpgraded
<1>10. ASSUME NEW w \in WSlot, skev_weak_release(t, w), UNCHANGED <<leakVars,
              lifecycleVars>>
      PROVE  BodiesExclusive' /\ ShutdownOK'
  BY <1>10 DEF skev_weak_release, LastClaim
<1>11. ASSUME OnDeallocRemove(t), UNCHANGED <<leakVars, lifecycleVars>>
      PROVE  BodiesExclusive' /\ ShutdownOK'
  BY <1>11 DEF OnDeallocRemove, ShardUnlocked
<1>12. ASSUME OnDeallocMark(t), UNCHANGED <<leakVars, lifecycleVars>>
      PROVE  BodiesExclusive' /\ ShutdownOK'
  BY <1>12 DEF OnDeallocMark
<1>13. ASSUME OnDeallocUnslot(t), UNCHANGED <<leakVars, lifecycleVars>>
      PROVE  BodiesExclusive' /\ ShutdownOK'
  BY <1>13 DEF OnDeallocUnslot, LastClaim
<1>14. ASSUME free_entry(t), UNCHANGED <<leakVars, lifecycleVars>>
      PROVE  BodiesExclusive' /\ ShutdownOK'
  BY <1>14 DEF free_entry, skev_free_raw
<1>15. ASSUME NEW s \in Slot, skev_alloc(t, s)
      PROVE  BodiesExclusive' /\ ShutdownOK'
  BY <1>15 DEF skev_alloc, InitCas, Reserved, InitCasWins
<1>16. ASSUME NEW a \in Addr, AllocRaw(t, a)
      PROVE  BodiesExclusive' /\ ShutdownOK'
  BY <1>16 DEF AllocRaw, AllocObject
<1>17. CASE AllocOutOfMemory(t)
  BY <1>17 DEF AllocOutOfMemory
<1>18. ASSUME NEW src \in Slot, NEW dst \in Slot, skev_retain(t, src, dst)
      PROVE  BodiesExclusive' /\ ShutdownOK'
  BY <1>18 DEF skev_retain, Reserved, Overflows
<1>19. ASSUME NEW s \in Slot, skev_release(t, s)
      PROVE  BodiesExclusive' /\ ShutdownOK'
  BY <1>19 DEF skev_release, DeallocEntry, Busy
<1>20. ASSUME NEW s \in Slot, skev_dealloc(t, s)
      PROVE  BodiesExclusive' /\ ShutdownOK'
  BY <1>20 DEF skev_dealloc, DeallocEntry, Busy
<1>21. CASE FreeObject(t)
  BY <1>21 DEF FreeObject, skev_free_raw
<1> QED
  BY <1>1, <1>2, <1>3, <1>4, <1>5, <1>6, <1>7, <1>8, <1>9, <1>10, <1>11,
     <1>12, <1>13, <1>14,
     <1>15, <1>16, <1>17, <1>18, <1>19, <1>20, <1>21
  DEF Step, LifecycleStep, LeakStep, WeakStep, ArcStep

(* The Mutex excludes, and what was read under it stays true: only the     *)
(* deallocation of the object, which its owner's count keeps away, changes *)
(* its table slot.                                                         *)
LEMMA LocksStep ==
    ASSUME Typed, SlotsOK, TableMatchesHeap, StrongSlotsLive, LocksOK,
           NEW t \in Thread, Step(t)
    PROVE  LocksOK'
<1> USE ThreadsAssumption
    DEF Typed, TypeOK, ThreadsTypeOK, HeapTypeOK, LocalsOK, WeakTypeOK,
        PcValue, AllocPc, BorrowPc, DeallocPc, PanicPc, ObjPc, EntPc,
        heapVars, entryVars, leakVars, lifecycleVars, callVars, Idle, Call,
        Return, Goto, SlotsOK, TableMatchesHeap, StrongSlotsLive, LocksOK,
        Doomed, Deallocating, LockPc
<1>1. CASE LifecycleStep(t)
  BY <1>1
  DEF LifecycleStep, skev_init, InitCas, StoreReady, skev_shutdown,
      ShutdownCas, ShutdownCasWins
<1>2. CASE LeakStep(t)
  BY <1>2
  DEF LeakStep, track_alloc, track_dealloc, report_leaks, LastShard,
      StoreExitCode
<1>3. ASSUME NEW s \in Slot, NEW w \in WSlot, skev_weak_alloc(t, s, w),
             UNCHANGED <<leakVars, lifecycleVars>>
      PROVE  LocksOK'
  BY <1>3 DEF skev_weak_alloc, Reserved, BusyWeak
<1>4. ASSUME WeakLookup(t), UNCHANGED <<leakVars, lifecycleVars>>
      PROVE  LocksOK'
  BY <1>4 DEF WeakLookup, ShardUnlocked
<1>5. ASSUME WeakHit(t), UNCHANGED <<leakVars, lifecycleVars>>
      PROVE  LocksOK'
  BY <1>5 DEF WeakHit
<1>6. ASSUME NEW e \in Addr, WeakMiss(t, e), UNCHANGED <<leakVars,
             lifecycleVars>>
      PROVE  LocksOK'
  BY <1>6, SMTT(20) DEF WeakMiss, alloc_entry, NewWeakCount
<1>7. ASSUME WeakOutOfMemory(t), UNCHANGED <<leakVars, lifecycleVars>>
      PROVE  LocksOK'
  BY <1>7 DEF WeakOutOfMemory
<1>8. ASSUME NEW w \in WSlot, skev_weak_upgrade(t, w), UNCHANGED <<leakVars,
             lifecycleVars>>
      PROVE  LocksOK'
  BY <1>8 DEF skev_weak_upgrade
<1>9. ASSUME DropUpgraded(t), UNCHANGED <<leakVars, lifecycleVars>>
      PROVE  LocksOK'
  BY <1>9 DEF DropUpgraded
<1>10. ASSUME NEW w \in WSlot, skev_weak_release(t, w), UNCHANGED <<leakVars,
              lifecycleVars>>
      PROVE  LocksOK'
  BY <1>10, SMTT(20) DEF skev_weak_release, LastClaim
<1>11. ASSUME OnDeallocRemove(t), UNCHANGED <<leakVars, lifecycleVars>>
      PROVE  LocksOK'
  BY <1>11 DEF OnDeallocRemove, ShardUnlocked
<1>12. ASSUME OnDeallocMark(t), UNCHANGED <<leakVars, lifecycleVars>>
      PROVE  LocksOK'
  BY <1>12 DEF OnDeallocMark
<1>13. ASSUME OnDeallocUnslot(t), UNCHANGED <<leakVars, lifecycleVars>>
      PROVE  LocksOK'
  BY <1>13 DEF OnDeallocUnslot, LastClaim
<1>14. ASSUME free_entry(t), UNCHANGED <<leakVars, lifecycleVars>>
      PROVE  LocksOK'
  BY <1>14, SMTT(20) DEF free_entry, skev_free_raw
<1>15. ASSUME NEW s \in Slot, skev_alloc(t, s)
      PROVE  LocksOK'
  <2>1. /\ table' = table /\ pc'[t] \notin LockPc
        /\ \A u \in Thread \ {t} : pc'[u] = pc[u] /\ obj'[u] = obj[u] /\ ent'[u] = ent[u]
    BY <1>15 DEF skev_alloc, InitCas, Reserved
  <2> QED BY <2>1
<1>16. ASSUME NEW a \in Addr, AllocRaw(t, a)
      PROVE  LocksOK'
  <2>1. CASE LeakCheck
    BY <1>16, <2>1, SMTT(20) DEF AllocRaw, AllocObject
  <2>2. CASE ~LeakCheck
    BY <1>16, <2>2 DEF AllocRaw, AllocObject
  <2> QED BY <2>1, <2>2
<1>17. CASE AllocOutOfMemory(t)
  BY <1>17 DEF AllocOutOfMemory
<1>18. ASSUME NEW src \in Slot, NEW dst \in Slot, skev_retain(t, src, dst)
      PROVE  LocksOK'
  BY <1>18, SMTT(20) DEF skev_retain, Reserved, Overflows
<1>19. ASSUME NEW s \in Slot, skev_release(t, s)
      PROVE  LocksOK'
  BY <1>19, SMTT(20) DEF skev_release, DeallocEntry, Busy
<1>20. ASSUME NEW s \in Slot, skev_dealloc(t, s)
      PROVE  LocksOK'
  BY <1>20 DEF skev_dealloc, DeallocEntry, Busy
<1>21. CASE FreeObject(t)
  BY <1>21 DEF FreeObject, skev_free_raw
<1> QED
  BY <1>1, <1>2, <1>3, <1>4, <1>5, <1>6, <1>7, <1>8, <1>9, <1>10, <1>11,
     <1>12, <1>13, <1>14,
     <1>15, <1>16, <1>17, <1>18, <1>19, <1>20, <1>21
  DEF Step, LifecycleStep, LeakStep, WeakStep, ArcStep

(* A count that drops to zero leaves no holder, so its deallocation is the *)
(* only one and nobody can start another.                                  *)
LEMMA DeallocStep ==
    ASSUME Typed, SlotsOK, StrongSlotsLive, RefCountExact, DeallocExclusive,
           EntriesLive, PanicsOK, NEW t \in Thread, Step(t)
    PROVE  DeallocExclusive'
<1> USE ThreadsAssumption
    DEF Typed, TypeOK, ThreadsTypeOK, HeapTypeOK, LocalsOK, WeakTypeOK,
        PcValue, AllocPc, BorrowPc, DeallocPc, PanicPc, ObjPc, EntPc,
        heapVars, entryVars, leakVars, lifecycleVars, callVars, Idle, Call,
        Return, Goto, SlotsOK, StrongSlotsLive, RefCountExact,
        DeallocExclusive, EntriesLive, PanicsOK, Doomed, Deallocating, Holders
<1>1. CASE LifecycleStep(t)
  BY <1>1
  DEF LifecycleStep, skev_init, InitCas, StoreReady, skev_shutdown,
      ShutdownCas, ShutdownCasWins
<1>2. CASE LeakStep(t)
  BY <1>2
  DEF LeakStep, track_alloc, track_dealloc, report_leaks, LastShard,
      StoreExitCode
<1>3. ASSUME NEW s \in Slot, NEW w \in WSlot, skev_weak_alloc(t, s, w),
             UNCHANGED <<leakVars, lifecycleVars>>
      PROVE  DeallocExclusive'
  BY <1>3 DEF skev_weak_alloc, Reserved, BusyWeak
<1>4. ASSUME WeakLookup(t), UNCHANGED <<leakVars, lifecycleVars>>
      PROVE  DeallocExclusive'
  BY <1>4 DEF WeakLookup, ShardUnlocked
<1>5. ASSUME WeakHit(t), UNCHANGED <<leakVars, lifecycleVars>>
      PROVE  DeallocExclusive'
  BY <1>5 DEF WeakHit
<1>6. ASSUME NEW e \in Addr, WeakMiss(t, e), UNCHANGED <<leakVars,
             lifecycleVars>>
      PROVE  DeallocExclusive'
  BY <1>6 DEF WeakMiss, alloc_entry, NewWeakCount
<1>7. ASSUME WeakOutOfMemory(t), UNCHANGED <<leakVars, lifecycleVars>>
      PROVE  DeallocExclusive'
  BY <1>7 DEF WeakOutOfMemory
<1>8. ASSUME NEW w \in WSlot, skev_weak_upgrade(t, w), UNCHANGED <<leakVars,
             lifecycleVars>>
      PROVE  DeallocExclusive'
  BY <1>8 DEF skev_weak_upgrade
<1>9. ASSUME DropUpgraded(t), UNCHANGED <<leakVars, lifecycleVars>>
      PROVE  DeallocExclusive'
  BY <1>9 DEF DropUpgraded
<1>10. ASSUME NEW w \in WSlot, skev_weak_release(t, w), UNCHANGED <<leakVars,
              lifecycleVars>>
      PROVE  DeallocExclusive'
  BY <1>10, SMTT(20) DEF skev_weak_release, LastClaim
<1>11. ASSUME OnDeallocRemove(t), UNCHANGED <<leakVars, lifecycleVars>>
      PROVE  DeallocExclusive'
  BY <1>11 DEF OnDeallocRemove, ShardUnlocked
<1>12. ASSUME OnDeallocMark(t), UNCHANGED <<leakVars, lifecycleVars>>
      PROVE  DeallocExclusive'
  BY <1>12 DEF OnDeallocMark
<1>13. ASSUME OnDeallocUnslot(t), UNCHANGED <<leakVars, lifecycleVars>>
      PROVE  DeallocExclusive'
  BY <1>13 DEF OnDeallocUnslot, LastClaim
<1>14. ASSUME free_entry(t), UNCHANGED <<leakVars, lifecycleVars>>
      PROVE  DeallocExclusive'
  BY <1>14, SMTT(20) DEF free_entry, skev_free_raw
<1>15. ASSUME NEW s \in Slot, skev_alloc(t, s)
      PROVE  DeallocExclusive'
  BY <1>15 DEF skev_alloc, InitCas, Reserved
<1>16. ASSUME NEW a \in Addr, AllocRaw(t, a)
      PROVE  DeallocExclusive'
  BY <1>16 DEF AllocRaw, AllocObject
<1>17. CASE AllocOutOfMemory(t)
  BY <1>17 DEF AllocOutOfMemory
<1>18. ASSUME NEW src \in Slot, NEW dst \in Slot, skev_retain(t, src, dst)
      PROVE  DeallocExclusive'
  BY <1>18 DEF skev_retain, Reserved, Overflows
<1>19. ASSUME NEW s \in Slot, skev_release(t, s)
      PROVE  DeallocExclusive'
  <2>1. CASE rc[strong[s]] = 1
    <3>1. Holders(strong[s]) = {s}
      BY <1>19, <2>1, SoleHolder DEF skev_release
    <3> QED BY <1>19, <2>1, <3>1 DEF skev_release, LastCount, DeallocEntry, Busy
  <2>2. CASE rc[strong[s]] # 1
    BY <1>19, <2>2, SMTT(20) DEF skev_release, LastCount, Busy
  <2> QED BY <2>1, <2>2
<1>20. ASSUME NEW s \in Slot, skev_dealloc(t, s)
      PROVE  DeallocExclusive'
  <2>1. Holders(strong[s]) = {s}
    BY <1>20, SoleHolder DEF skev_dealloc
  <2> QED BY <1>20, <2>1 DEF skev_dealloc, DeallocEntry, Busy
<1>21. CASE FreeObject(t)
  BY <1>21 DEF FreeObject, skev_free_raw
<1> QED
  BY <1>1, <1>2, <1>3, <1>4, <1>5, <1>6, <1>7, <1>8, <1>9, <1>10, <1>11,
     <1>12, <1>13, <1>14,
     <1>15, <1>16, <1>17, <1>18, <1>19, <1>20, <1>21
  DEF Step, LifecycleStep, LeakStep, WeakStep, ArcStep

(* A slot is filled from a live slot or with a new object, and an object   *)
(* is freed when it has no slot.                                           *)
LEMMA StrongStep ==
    ASSUME Typed, SlotsOK, StrongSlotsLive, RefCountExact, DeallocExclusive,
           EntriesLive, NEW t \in Thread, Step(t)
    PROVE  StrongSlotsLive'
<1> USE ThreadsAssumption
    DEF Typed, TypeOK, ThreadsTypeOK, HeapTypeOK, LocalsOK, WeakTypeOK,
        PcValue, AllocPc, BorrowPc, DeallocPc, PanicPc, ObjPc, EntPc,
        heapVars, entryVars, leakVars, lifecycleVars, callVars, Idle, Call,
        Return, Goto, SlotsOK, StrongSlotsLive, RefCountExact,
        DeallocExclusive, EntriesLive, Doomed, Deallocating, Holders
<1>1. CASE LifecycleStep(t)
  BY <1>1
  DEF LifecycleStep, skev_init, InitCas, StoreReady, skev_shutdown,
      ShutdownCas, ShutdownCasWins
<1>2. CASE LeakStep(t)
  BY <1>2
  DEF LeakStep, track_alloc, track_dealloc, report_leaks, LastShard,
      StoreExitCode
<1>3. ASSUME NEW s \in Slot, NEW w \in WSlot, skev_weak_alloc(t, s, w),
             UNCHANGED <<leakVars, lifecycleVars>>
      PROVE  StrongSlotsLive'
  BY <1>3 DEF skev_weak_alloc, Reserved, BusyWeak
<1>4. ASSUME WeakLookup(t), UNCHANGED <<leakVars, lifecycleVars>>
      PROVE  StrongSlotsLive'
  BY <1>4 DEF WeakLookup, ShardUnlocked
<1>5. ASSUME WeakHit(t), UNCHANGED <<leakVars, lifecycleVars>>
      PROVE  StrongSlotsLive'
  BY <1>5 DEF WeakHit
<1>6. ASSUME NEW e \in Addr, WeakMiss(t, e), UNCHANGED <<leakVars,
             lifecycleVars>>
      PROVE  StrongSlotsLive'
  BY <1>6 DEF WeakMiss, alloc_entry, NewWeakCount
<1>7. ASSUME WeakOutOfMemory(t), UNCHANGED <<leakVars, lifecycleVars>>
      PROVE  StrongSlotsLive'
  BY <1>7 DEF WeakOutOfMemory
<1>8. ASSUME NEW w \in WSlot, skev_weak_upgrade(t, w), UNCHANGED <<leakVars,
             lifecycleVars>>
      PROVE  StrongSlotsLive'
  BY <1>8 DEF skev_weak_upgrade
<1>9. ASSUME DropUpgraded(t), UNCHANGED <<leakVars, lifecycleVars>>
      PROVE  StrongSlotsLive'
  BY <1>9 DEF DropUpgraded
<1>10. ASSUME NEW w \in WSlot, skev_weak_release(t, w), UNCHANGED <<leakVars,
              lifecycleVars>>
      PROVE  StrongSlotsLive'
  BY <1>10 DEF skev_weak_release, LastClaim
<1>11. ASSUME OnDeallocRemove(t), UNCHANGED <<leakVars, lifecycleVars>>
      PROVE  StrongSlotsLive'
  BY <1>11 DEF OnDeallocRemove, ShardUnlocked
<1>12. ASSUME OnDeallocMark(t), UNCHANGED <<leakVars, lifecycleVars>>
      PROVE  StrongSlotsLive'
  BY <1>12 DEF OnDeallocMark
<1>13. ASSUME OnDeallocUnslot(t), UNCHANGED <<leakVars, lifecycleVars>>
      PROVE  StrongSlotsLive'
  BY <1>13 DEF OnDeallocUnslot, LastClaim
<1>14. ASSUME free_entry(t), UNCHANGED <<leakVars, lifecycleVars>>
      PROVE  StrongSlotsLive'
  BY <1>14 DEF free_entry, skev_free_raw
<1>15. ASSUME NEW s \in Slot, skev_alloc(t, s)
      PROVE  StrongSlotsLive'
  BY <1>15 DEF skev_alloc, InitCas, Reserved
<1>16. ASSUME NEW a \in Addr, AllocRaw(t, a)
      PROVE  StrongSlotsLive'
  BY <1>16 DEF AllocRaw, AllocObject
<1>17. CASE AllocOutOfMemory(t)
  BY <1>17 DEF AllocOutOfMemory
<1>18. ASSUME NEW src \in Slot, NEW dst \in Slot, skev_retain(t, src, dst)
      PROVE  StrongSlotsLive'
  BY <1>18 DEF skev_retain, Reserved, Overflows
<1>19. ASSUME NEW s \in Slot, skev_release(t, s)
      PROVE  StrongSlotsLive'
  <2>1. CASE rc[strong[s]] = 1
    <3>1. Holders(strong[s]) = {s}
      BY <1>19, <2>1, SoleHolder DEF skev_release
    <3> QED BY <1>19, <2>1, <3>1 DEF skev_release, LastCount, DeallocEntry, Busy
  <2>2. CASE rc[strong[s]] # 1
    BY <1>19, <2>2 DEF skev_release, LastCount, Busy
  <2> QED BY <2>1, <2>2
<1>20. ASSUME NEW s \in Slot, skev_dealloc(t, s)
      PROVE  StrongSlotsLive'
  <2>1. Holders(strong[s]) = {s}
    BY <1>20, SoleHolder DEF skev_dealloc
  <2> QED BY <1>20, <2>1 DEF skev_dealloc, DeallocEntry, Busy
<1>21. CASE FreeObject(t)
  BY <1>21 DEF FreeObject, skev_free_raw
<1> QED
  BY <1>1, <1>2, <1>3, <1>4, <1>5, <1>6, <1>7, <1>8, <1>9, <1>10, <1>11,
     <1>12, <1>13, <1>14,
     <1>15, <1>16, <1>17, <1>18, <1>19, <1>20, <1>21
  DEF Step, LifecycleStep, LeakStep, WeakStep, ArcStep

(* An entry is freed when nobody has a claim on it.                        *)
LEMMA EntriesStep ==
    ASSUME Typed, SlotsOK, DeallocExclusive, EntriesLive, WeakCountExact,
           OneEntryFreer, OrphansOK, LocksOK, TableMatchesHeap, AliveOK,
           NEW t \in Thread, Step(t)
    PROVE  EntriesLive'
<1> USE ThreadsAssumption
    DEF Typed, TypeOK, ThreadsTypeOK, HeapTypeOK, LocalsOK, WeakTypeOK,
        PcValue, AllocPc, BorrowPc, DeallocPc, PanicPc, ObjPc, EntPc,
        heapVars, entryVars, leakVars, lifecycleVars, callVars, Idle, Call,
        Return, Goto, SlotsOK, DeallocExclusive, EntriesLive, WeakCountExact,
        OneEntryFreer, OrphansOK, LocksOK, TableMatchesHeap, AliveOK,
        Deallocating, StrongSide
<1>1. CASE LifecycleStep(t)
  BY <1>1
  DEF LifecycleStep, skev_init, InitCas, StoreReady, skev_shutdown,
      ShutdownCas, ShutdownCasWins
<1>2. CASE LeakStep(t)
  BY <1>2
  DEF LeakStep, track_alloc, track_dealloc, report_leaks, LastShard,
      StoreExitCode
<1>3. ASSUME NEW s \in Slot, NEW w \in WSlot, skev_weak_alloc(t, s, w),
             UNCHANGED <<leakVars, lifecycleVars>>
      PROVE  EntriesLive'
  BY <1>3 DEF skev_weak_alloc, Reserved, BusyWeak
<1>4. ASSUME WeakLookup(t), UNCHANGED <<leakVars, lifecycleVars>>
      PROVE  EntriesLive'
  BY <1>4 DEF WeakLookup, ShardUnlocked
<1>5. ASSUME WeakHit(t), UNCHANGED <<leakVars, lifecycleVars>>
      PROVE  EntriesLive'
  BY <1>5 DEF WeakHit
<1>6. ASSUME NEW e \in Addr, WeakMiss(t, e), UNCHANGED <<leakVars,
             lifecycleVars>>
      PROVE  EntriesLive'
  BY <1>6 DEF WeakMiss, alloc_entry, NewWeakCount
<1>7. ASSUME WeakOutOfMemory(t), UNCHANGED <<leakVars, lifecycleVars>>
      PROVE  EntriesLive'
  BY <1>7 DEF WeakOutOfMemory
<1>8. ASSUME NEW w \in WSlot, skev_weak_upgrade(t, w), UNCHANGED <<leakVars,
             lifecycleVars>>
      PROVE  EntriesLive'
  BY <1>8 DEF skev_weak_upgrade
<1>9. ASSUME DropUpgraded(t), UNCHANGED <<leakVars, lifecycleVars>>
      PROVE  EntriesLive'
  BY <1>9 DEF DropUpgraded
<1>10. ASSUME NEW w \in WSlot, skev_weak_release(t, w), UNCHANGED <<leakVars,
              lifecycleVars>>
      PROVE  EntriesLive'
  BY <1>10 DEF skev_weak_release, LastClaim
<1>11. ASSUME OnDeallocRemove(t), UNCHANGED <<leakVars, lifecycleVars>>
      PROVE  EntriesLive'
  BY <1>11, SMTT(20) DEF OnDeallocRemove, ShardUnlocked
<1>12. ASSUME OnDeallocMark(t), UNCHANGED <<leakVars, lifecycleVars>>
      PROVE  EntriesLive'
  BY <1>12 DEF OnDeallocMark
<1>13. ASSUME OnDeallocUnslot(t), UNCHANGED <<leakVars, lifecycleVars>>
      PROVE  EntriesLive'
  BY <1>13 DEF OnDeallocUnslot, LastClaim
<1>14. ASSUME free_entry(t), UNCHANGED <<leakVars, lifecycleVars>>
      PROVE  EntriesLive'
  BY <1>14, UnclaimedEntry, SMTT(20) DEF free_entry, skev_free_raw
<1>15. ASSUME NEW s \in Slot, skev_alloc(t, s)
      PROVE  EntriesLive'
  BY <1>15 DEF skev_alloc, InitCas, Reserved
<1>16. ASSUME NEW a \in Addr, AllocRaw(t, a)
      PROVE  EntriesLive'
  BY <1>16 DEF AllocRaw, AllocObject
<1>17. CASE AllocOutOfMemory(t)
  BY <1>17 DEF AllocOutOfMemory
<1>18. ASSUME NEW src \in Slot, NEW dst \in Slot, skev_retain(t, src, dst)
      PROVE  EntriesLive'
  BY <1>18 DEF skev_retain, Reserved, Overflows
<1>19. ASSUME NEW s \in Slot, skev_release(t, s)
      PROVE  EntriesLive'
  BY <1>19 DEF skev_release, DeallocEntry, Busy
<1>20. ASSUME NEW s \in Slot, skev_dealloc(t, s)
      PROVE  EntriesLive'
  BY <1>20 DEF skev_dealloc, DeallocEntry, Busy
<1>21. CASE FreeObject(t)
  BY <1>21 DEF FreeObject, skev_free_raw
<1> QED
  BY <1>1, <1>2, <1>3, <1>4, <1>5, <1>6, <1>7, <1>8, <1>9, <1>10, <1>11,
     <1>12, <1>13, <1>14,
     <1>15, <1>16, <1>17, <1>18, <1>19, <1>20, <1>21
  DEF Step, LifecycleStep, LeakStep, WeakStep, ArcStep

(* Two releases never both take the last claim.                            *)
LEMMA FreerStep ==
    ASSUME Typed, EntriesLive, WeakCountExact, OneEntryFreer, OrphansOK,
           AliveOK, NEW t \in Thread, Step(t)
    PROVE  OneEntryFreer'
<1> USE ThreadsAssumption
    DEF Typed, TypeOK, ThreadsTypeOK, HeapTypeOK, LocalsOK, WeakTypeOK,
        PcValue, AllocPc, BorrowPc, DeallocPc, PanicPc, ObjPc, EntPc,
        heapVars, entryVars, leakVars, lifecycleVars, callVars, Idle, Call,
        Return, Goto, EntriesLive, WeakCountExact, OneEntryFreer, OrphansOK,
        AliveOK, StrongSide
<1>1. CASE LifecycleStep(t)
  BY <1>1
  DEF LifecycleStep, skev_init, InitCas, StoreReady, skev_shutdown,
      ShutdownCas, ShutdownCasWins
<1>2. CASE LeakStep(t)
  BY <1>2
  DEF LeakStep, track_alloc, track_dealloc, report_leaks, LastShard,
      StoreExitCode
<1>3. ASSUME NEW s \in Slot, NEW w \in WSlot, skev_weak_alloc(t, s, w),
             UNCHANGED <<leakVars, lifecycleVars>>
      PROVE  OneEntryFreer'
  BY <1>3 DEF skev_weak_alloc, Reserved, BusyWeak
<1>4. ASSUME WeakLookup(t), UNCHANGED <<leakVars, lifecycleVars>>
      PROVE  OneEntryFreer'
  BY <1>4 DEF WeakLookup, ShardUnlocked
<1>5. ASSUME WeakHit(t), UNCHANGED <<leakVars, lifecycleVars>>
      PROVE  OneEntryFreer'
  BY <1>5 DEF WeakHit
<1>6. ASSUME NEW e \in Addr, WeakMiss(t, e), UNCHANGED <<leakVars,
             lifecycleVars>>
      PROVE  OneEntryFreer'
  BY <1>6 DEF WeakMiss, alloc_entry, NewWeakCount
<1>7. ASSUME WeakOutOfMemory(t), UNCHANGED <<leakVars, lifecycleVars>>
      PROVE  OneEntryFreer'
  BY <1>7 DEF WeakOutOfMemory
<1>8. ASSUME NEW w \in WSlot, skev_weak_upgrade(t, w), UNCHANGED <<leakVars,
             lifecycleVars>>
      PROVE  OneEntryFreer'
  BY <1>8 DEF skev_weak_upgrade
<1>9. ASSUME DropUpgraded(t), UNCHANGED <<leakVars, lifecycleVars>>
      PROVE  OneEntryFreer'
  BY <1>9 DEF DropUpgraded
<1>10. ASSUME NEW w \in WSlot, skev_weak_release(t, w), UNCHANGED <<leakVars,
              lifecycleVars>>
      PROVE  OneEntryFreer'
  BY <1>10 DEF skev_weak_release, LastClaim
<1>11. ASSUME OnDeallocRemove(t), UNCHANGED <<leakVars, lifecycleVars>>
      PROVE  OneEntryFreer'
  BY <1>11 DEF OnDeallocRemove, ShardUnlocked
<1>12. ASSUME OnDeallocMark(t), UNCHANGED <<leakVars, lifecycleVars>>
      PROVE  OneEntryFreer'
  BY <1>12 DEF OnDeallocMark
<1>13. ASSUME OnDeallocUnslot(t), UNCHANGED <<leakVars, lifecycleVars>>
      PROVE  OneEntryFreer'
  BY <1>13 DEF OnDeallocUnslot, LastClaim
<1>14. ASSUME free_entry(t), UNCHANGED <<leakVars, lifecycleVars>>
      PROVE  OneEntryFreer'
  BY <1>14 DEF free_entry, skev_free_raw
<1>15. ASSUME NEW s \in Slot, skev_alloc(t, s)
      PROVE  OneEntryFreer'
  BY <1>15 DEF skev_alloc, InitCas, Reserved
<1>16. ASSUME NEW a \in Addr, AllocRaw(t, a)
      PROVE  OneEntryFreer'
  BY <1>16 DEF AllocRaw, AllocObject
<1>17. CASE AllocOutOfMemory(t)
  BY <1>17 DEF AllocOutOfMemory
<1>18. ASSUME NEW src \in Slot, NEW dst \in Slot, skev_retain(t, src, dst)
      PROVE  OneEntryFreer'
  BY <1>18 DEF skev_retain, Reserved, Overflows
<1>19. ASSUME NEW s \in Slot, skev_release(t, s)
      PROVE  OneEntryFreer'
  BY <1>19 DEF skev_release, DeallocEntry, Busy
<1>20. ASSUME NEW s \in Slot, skev_dealloc(t, s)
      PROVE  OneEntryFreer'
  BY <1>20 DEF skev_dealloc, DeallocEntry, Busy
<1>21. CASE FreeObject(t)
  BY <1>21 DEF FreeObject, skev_free_raw
<1> QED
  BY <1>1, <1>2, <1>3, <1>4, <1>5, <1>6, <1>7, <1>8, <1>9, <1>10, <1>11,
     <1>12, <1>13, <1>14,
     <1>15, <1>16, <1>17, <1>18, <1>19, <1>20, <1>21
  DEF Step, LifecycleStep, LeakStep, WeakStep, ArcStep

(* An object's entry leaves the table before the object's memory does.     *)
LEMMA TableStep ==
    ASSUME Typed, SlotsOK, StrongSlotsLive, DeallocExclusive, LocksOK,
           EntriesLive, OrphansOK, AliveOK, TableMatchesHeap,
           NEW t \in Thread, Step(t)
    PROVE  TableMatchesHeap'
<1> USE ThreadsAssumption
    DEF Typed, TypeOK, ThreadsTypeOK, HeapTypeOK, LocalsOK, WeakTypeOK,
        PcValue, AllocPc, BorrowPc, DeallocPc, PanicPc, ObjPc, EntPc,
        heapVars, entryVars, leakVars, lifecycleVars, callVars, Idle, Call,
        Return, Goto, SlotsOK, StrongSlotsLive, DeallocExclusive, LocksOK,
        EntriesLive, OrphansOK, AliveOK, TableMatchesHeap, Deallocating,
        Doomed, StrongSide
<1>1. CASE LifecycleStep(t)
  BY <1>1
  DEF LifecycleStep, skev_init, InitCas, StoreReady, skev_shutdown,
      ShutdownCas, ShutdownCasWins
<1>2. CASE LeakStep(t)
  BY <1>2
  DEF LeakStep, track_alloc, track_dealloc, report_leaks, LastShard,
      StoreExitCode
<1>3. ASSUME NEW s \in Slot, NEW w \in WSlot, skev_weak_alloc(t, s, w),
             UNCHANGED <<leakVars, lifecycleVars>>
      PROVE  TableMatchesHeap'
  BY <1>3 DEF skev_weak_alloc, Reserved, BusyWeak
<1>4. ASSUME WeakLookup(t), UNCHANGED <<leakVars, lifecycleVars>>
      PROVE  TableMatchesHeap'
  BY <1>4 DEF WeakLookup, ShardUnlocked
<1>5. ASSUME WeakHit(t), UNCHANGED <<leakVars, lifecycleVars>>
      PROVE  TableMatchesHeap'
  BY <1>5 DEF WeakHit
<1>6. ASSUME NEW e \in Addr, WeakMiss(t, e), UNCHANGED <<leakVars,
             lifecycleVars>>
      PROVE  TableMatchesHeap'
  BY <1>6 DEF WeakMiss, alloc_entry, NewWeakCount
<1>7. ASSUME WeakOutOfMemory(t), UNCHANGED <<leakVars, lifecycleVars>>
      PROVE  TableMatchesHeap'
  BY <1>7 DEF WeakOutOfMemory
<1>8. ASSUME NEW w \in WSlot, skev_weak_upgrade(t, w), UNCHANGED <<leakVars,
             lifecycleVars>>
      PROVE  TableMatchesHeap'
  BY <1>8 DEF skev_weak_upgrade
<1>9. ASSUME DropUpgraded(t), UNCHANGED <<leakVars, lifecycleVars>>
      PROVE  TableMatchesHeap'
  BY <1>9 DEF DropUpgraded
<1>10. ASSUME NEW w \in WSlot, skev_weak_release(t, w), UNCHANGED <<leakVars,
              lifecycleVars>>
      PROVE  TableMatchesHeap'
  BY <1>10 DEF skev_weak_release, LastClaim
<1>11. ASSUME OnDeallocRemove(t), UNCHANGED <<leakVars, lifecycleVars>>
      PROVE  TableMatchesHeap'
  BY <1>11 DEF OnDeallocRemove, ShardUnlocked
<1>12. ASSUME OnDeallocMark(t), UNCHANGED <<leakVars, lifecycleVars>>
      PROVE  TableMatchesHeap'
  BY <1>12 DEF OnDeallocMark
<1>13. ASSUME OnDeallocUnslot(t), UNCHANGED <<leakVars, lifecycleVars>>
      PROVE  TableMatchesHeap'
  BY <1>13 DEF OnDeallocUnslot, LastClaim
<1>14. ASSUME free_entry(t), UNCHANGED <<leakVars, lifecycleVars>>
      PROVE  TableMatchesHeap'
  BY <1>14, SMTT(20) DEF free_entry, skev_free_raw
<1>15. ASSUME NEW s \in Slot, skev_alloc(t, s)
      PROVE  TableMatchesHeap'
  BY <1>15 DEF skev_alloc, InitCas, Reserved
<1>16. ASSUME NEW a \in Addr, AllocRaw(t, a)
      PROVE  TableMatchesHeap'
  BY <1>16 DEF AllocRaw, AllocObject
<1>17. CASE AllocOutOfMemory(t)
  BY <1>17 DEF AllocOutOfMemory
<1>18. ASSUME NEW src \in Slot, NEW dst \in Slot, skev_retain(t, src, dst)
      PROVE  TableMatchesHeap'
  BY <1>18 DEF skev_retain, Reserved, Overflows
<1>19. ASSUME NEW s \in Slot, skev_release(t, s)
      PROVE  TableMatchesHeap'
  BY <1>19 DEF skev_release, DeallocEntry, Busy
<1>20. ASSUME NEW s \in Slot, skev_dealloc(t, s)
      PROVE  TableMatchesHeap'
  BY <1>20 DEF skev_dealloc, DeallocEntry, Busy
<1>21. CASE FreeObject(t)
  BY <1>21 DEF FreeObject, skev_free_raw
<1> QED
  BY <1>1, <1>2, <1>3, <1>4, <1>5, <1>6, <1>7, <1>8, <1>9, <1>10, <1>11,
     <1>12, <1>13, <1>14,
     <1>15, <1>16, <1>17, <1>18, <1>19, <1>20, <1>21
  DEF Step, LifecycleStep, LeakStep, WeakStep, ArcStep

(* An entry that leaves the table is marked by the thread that took it.    *)
LEMMA AliveStep ==
    ASSUME Typed, SlotsOK, DeallocExclusive, LocksOK, EntriesLive, OrphansOK,
           TableMatchesHeap, AliveOK, NEW t \in Thread, Step(t)
    PROVE  AliveOK'
<1> USE ThreadsAssumption
    DEF Typed, TypeOK, ThreadsTypeOK, HeapTypeOK, LocalsOK, WeakTypeOK,
        PcValue, AllocPc, BorrowPc, DeallocPc, PanicPc, ObjPc, EntPc,
        heapVars, entryVars, leakVars, lifecycleVars, callVars, Idle, Call,
        Return, Goto, SlotsOK, DeallocExclusive, LocksOK, EntriesLive,
        OrphansOK, TableMatchesHeap, AliveOK, Deallocating, StrongSide
<1>1. CASE LifecycleStep(t)
  BY <1>1
  DEF LifecycleStep, skev_init, InitCas, StoreReady, skev_shutdown,
      ShutdownCas, ShutdownCasWins
<1>2. CASE LeakStep(t)
  BY <1>2
  DEF LeakStep, track_alloc, track_dealloc, report_leaks, LastShard,
      StoreExitCode
<1>3. ASSUME NEW s \in Slot, NEW w \in WSlot, skev_weak_alloc(t, s, w),
             UNCHANGED <<leakVars, lifecycleVars>>
      PROVE  AliveOK'
  BY <1>3 DEF skev_weak_alloc, Reserved, BusyWeak
<1>4. ASSUME WeakLookup(t), UNCHANGED <<leakVars, lifecycleVars>>
      PROVE  AliveOK'
  BY <1>4 DEF WeakLookup, ShardUnlocked
<1>5. ASSUME WeakHit(t), UNCHANGED <<leakVars, lifecycleVars>>
      PROVE  AliveOK'
  BY <1>5 DEF WeakHit
<1>6. ASSUME NEW e \in Addr, WeakMiss(t, e), UNCHANGED <<leakVars,
             lifecycleVars>>
      PROVE  AliveOK'
  BY <1>6 DEF WeakMiss, alloc_entry, NewWeakCount
<1>7. ASSUME WeakOutOfMemory(t), UNCHANGED <<leakVars, lifecycleVars>>
      PROVE  AliveOK'
  BY <1>7 DEF WeakOutOfMemory
<1>8. ASSUME NEW w \in WSlot, skev_weak_upgrade(t, w), UNCHANGED <<leakVars,
             lifecycleVars>>
      PROVE  AliveOK'
  BY <1>8 DEF skev_weak_upgrade
<1>9. ASSUME DropUpgraded(t), UNCHANGED <<leakVars, lifecycleVars>>
      PROVE  AliveOK'
  BY <1>9 DEF DropUpgraded
<1>10. ASSUME NEW w \in WSlot, skev_weak_release(t, w), UNCHANGED <<leakVars,
              lifecycleVars>>
      PROVE  AliveOK'
  BY <1>10 DEF skev_weak_release, LastClaim
<1>11. ASSUME OnDeallocRemove(t), UNCHANGED <<leakVars, lifecycleVars>>
      PROVE  AliveOK'
  BY <1>11 DEF OnDeallocRemove, ShardUnlocked
<1>12. ASSUME OnDeallocMark(t), UNCHANGED <<leakVars, lifecycleVars>>
      PROVE  AliveOK'
  BY <1>12 DEF OnDeallocMark
<1>13. ASSUME OnDeallocUnslot(t), UNCHANGED <<leakVars, lifecycleVars>>
      PROVE  AliveOK'
  BY <1>13 DEF OnDeallocUnslot, LastClaim
<1>14. ASSUME free_entry(t), UNCHANGED <<leakVars, lifecycleVars>>
      PROVE  AliveOK'
  BY <1>14 DEF free_entry, skev_free_raw
<1>15. ASSUME NEW s \in Slot, skev_alloc(t, s)
      PROVE  AliveOK'
  BY <1>15 DEF skev_alloc, InitCas, Reserved
<1>16. ASSUME NEW a \in Addr, AllocRaw(t, a)
      PROVE  AliveOK'
  BY <1>16, SMTT(20) DEF AllocRaw, AllocObject
<1>17. CASE AllocOutOfMemory(t)
  BY <1>17 DEF AllocOutOfMemory
<1>18. ASSUME NEW src \in Slot, NEW dst \in Slot, skev_retain(t, src, dst)
      PROVE  AliveOK'
  BY <1>18 DEF skev_retain, Reserved, Overflows
<1>19. ASSUME NEW s \in Slot, skev_release(t, s)
      PROVE  AliveOK'
  BY <1>19 DEF skev_release, DeallocEntry, Busy
<1>20. ASSUME NEW s \in Slot, skev_dealloc(t, s)
      PROVE  AliveOK'
  BY <1>20 DEF skev_dealloc, DeallocEntry, Busy
<1>21. CASE FreeObject(t)
  BY <1>21 DEF FreeObject, skev_free_raw
<1> QED
  BY <1>1, <1>2, <1>3, <1>4, <1>5, <1>6, <1>7, <1>8, <1>9, <1>10, <1>11,
     <1>12, <1>13, <1>14,
     <1>15, <1>16, <1>17, <1>18, <1>19, <1>20, <1>21
  DEF Step, LifecycleStep, LeakStep, WeakStep, ArcStep

(* The entry a deallocation holds stays its own until it gives up the      *)
(* virtual slot.                                                           *)
LEMMA OrphansStep ==
    ASSUME Typed, SlotsOK, DeallocExclusive, LocksOK, EntriesLive,
           WeakCountExact, OneEntryFreer, TableMatchesHeap, AliveOK,
           OrphansOK, NEW t \in Thread, Step(t)
    PROVE  OrphansOK'
<1> USE ThreadsAssumption
    DEF Typed, TypeOK, ThreadsTypeOK, HeapTypeOK, LocalsOK, WeakTypeOK,
        PcValue, AllocPc, BorrowPc, DeallocPc, PanicPc, ObjPc, EntPc,
        heapVars, entryVars, leakVars, lifecycleVars, callVars, Idle, Call,
        Return, Goto, SlotsOK, DeallocExclusive, LocksOK, EntriesLive,
        WeakCountExact, OneEntryFreer, TableMatchesHeap, AliveOK, OrphansOK,
        Deallocating, StrongSide
<1>1. CASE LifecycleStep(t)
  BY <1>1
  DEF LifecycleStep, skev_init, InitCas, StoreReady, skev_shutdown,
      ShutdownCas, ShutdownCasWins
<1>2. CASE LeakStep(t)
  BY <1>2
  DEF LeakStep, track_alloc, track_dealloc, report_leaks, LastShard,
      StoreExitCode
<1>3. ASSUME NEW s \in Slot, NEW w \in WSlot, skev_weak_alloc(t, s, w),
             UNCHANGED <<leakVars, lifecycleVars>>
      PROVE  OrphansOK'
  BY <1>3 DEF skev_weak_alloc, Reserved, BusyWeak
<1>4. ASSUME WeakLookup(t), UNCHANGED <<leakVars, lifecycleVars>>
      PROVE  OrphansOK'
  BY <1>4, SMTT(20) DEF WeakLookup, ShardUnlocked
<1>5. ASSUME WeakHit(t), UNCHANGED <<leakVars, lifecycleVars>>
      PROVE  OrphansOK'
  BY <1>5 DEF WeakHit
<1>6. ASSUME NEW e \in Addr, WeakMiss(t, e), UNCHANGED <<leakVars,
             lifecycleVars>>
      PROVE  OrphansOK'
  BY <1>6 DEF WeakMiss, alloc_entry, NewWeakCount
<1>7. ASSUME WeakOutOfMemory(t), UNCHANGED <<leakVars, lifecycleVars>>
      PROVE  OrphansOK'
  BY <1>7 DEF WeakOutOfMemory
<1>8. ASSUME NEW w \in WSlot, skev_weak_upgrade(t, w), UNCHANGED <<leakVars,
             lifecycleVars>>
      PROVE  OrphansOK'
  BY <1>8 DEF skev_weak_upgrade
<1>9. ASSUME DropUpgraded(t), UNCHANGED <<leakVars, lifecycleVars>>
      PROVE  OrphansOK'
  BY <1>9 DEF DropUpgraded
<1>10. ASSUME NEW w \in WSlot, skev_weak_release(t, w), UNCHANGED <<leakVars,
              lifecycleVars>>
      PROVE  OrphansOK'
  <2>1. \A u \in Thread : pc[u] = "free_entry" => ent[u] # weak[w]
    BY <1>10, UnclaimedEntry
  <2>2. CASE weak_count[weak[w]] = 1
    <3>1. ~StrongSide(weak[w]) /\ ~strong_alive[weak[w]]
      BY <1>10, <2>2, SoleClaim, SMTT(20) DEF skev_weak_release
    <3>2. Dec(1) = 0
      BY WordSteps, WordNat
    <3>3a. Dec(weak_count[weak[w]]) = 0
      BY <2>2, <3>2
    <3>3. weak_count' = [weak_count EXCEPT ![weak[w]] = 0]
      BY <1>10, <3>3a DEF skev_weak_release
    <3>4. \A u \in Thread : pc[u] \in {"mark", "unslot"} => ent[u] # weak[w]
      BY <3>1
    <3>5. \A e \in Addr : StrongSide(e)' => StrongSide(e)
      BY <1>10, <2>2 DEF skev_weak_release, LastClaim
    <3> QED BY <1>10, <2>1, <2>2, <3>1, <3>3, <3>4, <3>5, SMTT(20)
            DEF skev_weak_release, LastClaim
  <2>3. CASE weak_count[weak[w]] # 1
    BY <1>10, <2>1, <2>3 DEF skev_weak_release, LastClaim
  <2> QED BY <2>2, <2>3
<1>11. ASSUME OnDeallocRemove(t), UNCHANGED <<leakVars, lifecycleVars>>
      PROVE  OrphansOK'
  BY <1>11, SMTT(20) DEF OnDeallocRemove, ShardUnlocked
<1>12. ASSUME OnDeallocMark(t), UNCHANGED <<leakVars, lifecycleVars>>
      PROVE  OrphansOK'
  BY <1>12 DEF OnDeallocMark
<1>13. ASSUME OnDeallocUnslot(t), UNCHANGED <<leakVars, lifecycleVars>>
      PROVE  OrphansOK'
  BY <1>13, UnclaimedEntry, WordSteps, WordNat, SMTT(20)
      DEF OnDeallocUnslot, LastClaim
<1>14. ASSUME free_entry(t), UNCHANGED <<leakVars, lifecycleVars>>
      PROVE  OrphansOK'
  <2>1. \A u \in Thread : pc[u] \in {"mark", "unslot",
        "free_entry"} /\ u # t => ent[u] # ent[t]
    BY <1>14 DEF free_entry
  <2>2. \A u \in Thread : pc'[u] \in {"mark", "unslot", "free_entry"} =>
            u # t /\ pc'[u] = pc[u] /\ ent'[u] = ent[u] /\ obj'[u] = obj[u]
    BY <1>14 DEF free_entry
  <2>3. \A u \in Thread : pc'[u] \in {"mark", "unslot", "free_entry"} =>
            /\ target'[ent[u]] = target[ent[u]]
            /\ strong_alive'[ent[u]] = strong_alive[ent[u]]
            /\ weak_count'[ent[u]] = weak_count[ent[u]]
    <3> SUFFICES ASSUME NEW u \in Thread, pc'[u] \in {"mark", "unslot",
        "free_entry"}
                 PROVE  /\ target'[ent[u]] = target[ent[u]]
                        /\ strong_alive'[ent[u]] = strong_alive[ent[u]]
                        /\ weak_count'[ent[u]] = weak_count[ent[u]]
      OBVIOUS
    <3>1. u # t /\ ent[u] # ent[t]
      BY <2>1, <2>2
    <3> QED BY <1>14, <3>1 DEF free_entry, skev_free_raw
  <2>4. \A e \in Addr : StrongSide(e)' => StrongSide(e)
    BY <1>14, <2>2 DEF free_entry
  <2> QED BY <2>2, <2>3, <2>4
<1>15. ASSUME NEW s \in Slot, skev_alloc(t, s)
      PROVE  OrphansOK'
  BY <1>15, SMTT(20) DEF skev_alloc, InitCas, Reserved
<1>16. ASSUME NEW a \in Addr, AllocRaw(t, a)
      PROVE  OrphansOK'
  BY <1>16 DEF AllocRaw, AllocObject
<1>17. CASE AllocOutOfMemory(t)
  BY <1>17 DEF AllocOutOfMemory
<1>18. ASSUME NEW src \in Slot, NEW dst \in Slot, skev_retain(t, src, dst)
      PROVE  OrphansOK'
  BY <1>18 DEF skev_retain, Reserved, Overflows
<1>19. ASSUME NEW s \in Slot, skev_release(t, s)
      PROVE  OrphansOK'
  BY <1>19 DEF skev_release, DeallocEntry, Busy
<1>20. ASSUME NEW s \in Slot, skev_dealloc(t, s)
      PROVE  OrphansOK'
  BY <1>20 DEF skev_dealloc, DeallocEntry, Busy
<1>21. CASE FreeObject(t)
  BY <1>21 DEF FreeObject, skev_free_raw
<1> QED
  BY <1>1, <1>2, <1>3, <1>4, <1>5, <1>6, <1>7, <1>8, <1>9, <1>10, <1>11,
     <1>12, <1>13, <1>14,
     <1>15, <1>16, <1>17, <1>18, <1>19, <1>20, <1>21
  DEF Step, LifecycleStep, LeakStep, WeakStep, ArcStep

(* An entry says strong_alive only while its object is there.              *)
LEMMA TargetStep ==
    ASSUME Typed, SlotsOK, StrongSlotsLive, DeallocExclusive, LocksOK,
           EntriesLive, OrphansOK, TableMatchesHeap, AliveOK,
           AliveTargetAllocated, NEW t \in Thread, Step(t)
    PROVE  AliveTargetAllocated'
<1> USE ThreadsAssumption
    DEF Typed, TypeOK, ThreadsTypeOK, HeapTypeOK, LocalsOK, WeakTypeOK,
        PcValue, AllocPc, BorrowPc, DeallocPc, PanicPc, ObjPc, EntPc,
        heapVars, entryVars, leakVars, lifecycleVars, callVars, Idle, Call,
        Return, Goto, SlotsOK, StrongSlotsLive, DeallocExclusive, LocksOK,
        EntriesLive, OrphansOK, TableMatchesHeap, AliveOK,
        AliveTargetAllocated, Deallocating, Doomed, StrongSide
<1>1. CASE LifecycleStep(t)
  BY <1>1
  DEF LifecycleStep, skev_init, InitCas, StoreReady, skev_shutdown,
      ShutdownCas, ShutdownCasWins
<1>2. CASE LeakStep(t)
  BY <1>2
  DEF LeakStep, track_alloc, track_dealloc, report_leaks, LastShard,
      StoreExitCode
<1>3. ASSUME NEW s \in Slot, NEW w \in WSlot, skev_weak_alloc(t, s, w),
             UNCHANGED <<leakVars, lifecycleVars>>
      PROVE  AliveTargetAllocated'
  BY <1>3 DEF skev_weak_alloc, Reserved, BusyWeak
<1>4. ASSUME WeakLookup(t), UNCHANGED <<leakVars, lifecycleVars>>
      PROVE  AliveTargetAllocated'
  BY <1>4 DEF WeakLookup, ShardUnlocked
<1>5. ASSUME WeakHit(t), UNCHANGED <<leakVars, lifecycleVars>>
      PROVE  AliveTargetAllocated'
  BY <1>5 DEF WeakHit
<1>6. ASSUME NEW e \in Addr, WeakMiss(t, e), UNCHANGED <<leakVars,
             lifecycleVars>>
      PROVE  AliveTargetAllocated'
  BY <1>6 DEF WeakMiss, alloc_entry, NewWeakCount
<1>7. ASSUME WeakOutOfMemory(t), UNCHANGED <<leakVars, lifecycleVars>>
      PROVE  AliveTargetAllocated'
  BY <1>7 DEF WeakOutOfMemory
<1>8. ASSUME NEW w \in WSlot, skev_weak_upgrade(t, w), UNCHANGED <<leakVars,
             lifecycleVars>>
      PROVE  AliveTargetAllocated'
  BY <1>8 DEF skev_weak_upgrade
<1>9. ASSUME DropUpgraded(t), UNCHANGED <<leakVars, lifecycleVars>>
      PROVE  AliveTargetAllocated'
  BY <1>9 DEF DropUpgraded
<1>10. ASSUME NEW w \in WSlot, skev_weak_release(t, w), UNCHANGED <<leakVars,
              lifecycleVars>>
      PROVE  AliveTargetAllocated'
  BY <1>10 DEF skev_weak_release, LastClaim
<1>11. ASSUME OnDeallocRemove(t), UNCHANGED <<leakVars, lifecycleVars>>
      PROVE  AliveTargetAllocated'
  BY <1>11 DEF OnDeallocRemove, ShardUnlocked
<1>12. ASSUME OnDeallocMark(t), UNCHANGED <<leakVars, lifecycleVars>>
      PROVE  AliveTargetAllocated'
  BY <1>12 DEF OnDeallocMark
<1>13. ASSUME OnDeallocUnslot(t), UNCHANGED <<leakVars, lifecycleVars>>
      PROVE  AliveTargetAllocated'
  BY <1>13 DEF OnDeallocUnslot, LastClaim
<1>14. ASSUME free_entry(t), UNCHANGED <<leakVars, lifecycleVars>>
      PROVE  AliveTargetAllocated'
  BY <1>14 DEF free_entry, skev_free_raw
<1>15. ASSUME NEW s \in Slot, skev_alloc(t, s)
      PROVE  AliveTargetAllocated'
  BY <1>15 DEF skev_alloc, InitCas, Reserved
<1>16. ASSUME NEW a \in Addr, AllocRaw(t, a)
      PROVE  AliveTargetAllocated'
  BY <1>16 DEF AllocRaw, AllocObject
<1>17. CASE AllocOutOfMemory(t)
  BY <1>17 DEF AllocOutOfMemory
<1>18. ASSUME NEW src \in Slot, NEW dst \in Slot, skev_retain(t, src, dst)
      PROVE  AliveTargetAllocated'
  BY <1>18 DEF skev_retain, Reserved, Overflows
<1>19. ASSUME NEW s \in Slot, skev_release(t, s)
      PROVE  AliveTargetAllocated'
  BY <1>19 DEF skev_release, DeallocEntry, Busy
<1>20. ASSUME NEW s \in Slot, skev_dealloc(t, s)
      PROVE  AliveTargetAllocated'
  BY <1>20 DEF skev_dealloc, DeallocEntry, Busy
<1>21. CASE FreeObject(t)
  BY <1>21 DEF FreeObject, skev_free_raw
<1> QED
  BY <1>1, <1>2, <1>3, <1>4, <1>5, <1>6, <1>7, <1>8, <1>9, <1>10, <1>11,
     <1>12, <1>13, <1>14,
     <1>15, <1>16, <1>17, <1>18, <1>19, <1>20, <1>21
  DEF Step, LifecycleStep, LeakStep, WeakStep, ArcStep

(* A thread that panics over an object leaves its increment behind, so the *)
(* object is never deallocated under it; and no release underflows.        *)
LEMMA PanicsStep ==
    ASSUME Typed, StrongSlotsLive, RefCountExact, DeallocExclusive,
           EntriesLive, PanicsOK, NEW t \in Thread, Step(t)
    PROVE  PanicsOK'
<1> USE ThreadsAssumption
    DEF Typed, TypeOK, ThreadsTypeOK, HeapTypeOK, LocalsOK, WeakTypeOK,
        PcValue, AllocPc, BorrowPc, DeallocPc, PanicPc, ObjPc, EntPc,
        heapVars, entryVars, leakVars, lifecycleVars, callVars, Idle, Call,
        Return, Goto, StrongSlotsLive, RefCountExact, DeallocExclusive,
        EntriesLive, PanicsOK, NoUnderflow, Deallocating, Doomed
<1>1. CASE LifecycleStep(t)
  BY <1>1
  DEF LifecycleStep, skev_init, InitCas, StoreReady, skev_shutdown,
      ShutdownCas, ShutdownCasWins
<1>2. CASE LeakStep(t)
  BY <1>2
  DEF LeakStep, track_alloc, track_dealloc, report_leaks, LastShard,
      StoreExitCode
<1>3. ASSUME NEW s \in Slot, NEW w \in WSlot, skev_weak_alloc(t, s, w),
             UNCHANGED <<leakVars, lifecycleVars>>
      PROVE  PanicsOK'
  BY <1>3 DEF skev_weak_alloc, Reserved, BusyWeak
<1>4. ASSUME WeakLookup(t), UNCHANGED <<leakVars, lifecycleVars>>
      PROVE  PanicsOK'
  BY <1>4 DEF WeakLookup, ShardUnlocked
<1>5. ASSUME WeakHit(t), UNCHANGED <<leakVars, lifecycleVars>>
      PROVE  PanicsOK'
  BY <1>5 DEF WeakHit
<1>6. ASSUME NEW e \in Addr, WeakMiss(t, e), UNCHANGED <<leakVars,
             lifecycleVars>>
      PROVE  PanicsOK'
  BY <1>6 DEF WeakMiss, alloc_entry, NewWeakCount
<1>7. ASSUME WeakOutOfMemory(t), UNCHANGED <<leakVars, lifecycleVars>>
      PROVE  PanicsOK'
  BY <1>7 DEF WeakOutOfMemory
<1>8. ASSUME NEW w \in WSlot, skev_weak_upgrade(t, w), UNCHANGED <<leakVars,
             lifecycleVars>>
      PROVE  PanicsOK'
  BY <1>8 DEF skev_weak_upgrade
<1>9. ASSUME DropUpgraded(t), UNCHANGED <<leakVars, lifecycleVars>>
      PROVE  PanicsOK'
  BY <1>9 DEF DropUpgraded
<1>10. ASSUME NEW w \in WSlot, skev_weak_release(t, w), UNCHANGED <<leakVars,
              lifecycleVars>>
      PROVE  PanicsOK'
  BY <1>10 DEF skev_weak_release, LastClaim
<1>11. ASSUME OnDeallocRemove(t), UNCHANGED <<leakVars, lifecycleVars>>
      PROVE  PanicsOK'
  BY <1>11 DEF OnDeallocRemove, ShardUnlocked
<1>12. ASSUME OnDeallocMark(t), UNCHANGED <<leakVars, lifecycleVars>>
      PROVE  PanicsOK'
  BY <1>12 DEF OnDeallocMark
<1>13. ASSUME OnDeallocUnslot(t), UNCHANGED <<leakVars, lifecycleVars>>
      PROVE  PanicsOK'
  BY <1>13 DEF OnDeallocUnslot, LastClaim
<1>14. ASSUME free_entry(t), UNCHANGED <<leakVars, lifecycleVars>>
      PROVE  PanicsOK'
  BY <1>14 DEF free_entry, skev_free_raw
<1>15. ASSUME NEW s \in Slot, skev_alloc(t, s)
      PROVE  PanicsOK'
  BY <1>15 DEF skev_alloc, InitCas, Reserved
<1>16. ASSUME NEW a \in Addr, AllocRaw(t, a)
      PROVE  PanicsOK'
  BY <1>16 DEF AllocRaw, AllocObject
<1>17. CASE AllocOutOfMemory(t)
  BY <1>17 DEF AllocOutOfMemory
<1>18. ASSUME NEW src \in Slot, NEW dst \in Slot, skev_retain(t, src, dst)
      PROVE  PanicsOK'
  BY <1>18 DEF skev_retain, Reserved, Overflows
<1>19. ASSUME NEW s \in Slot, skev_release(t, s)
      PROVE  PanicsOK'
  <2>1. rc[strong[s]] # 0
    BY <1>19 DEF skev_release, RefCountExact
  <2>2. rc[strong[s]] = 1 => Panicking(strong[s]) = {}
    BY <1>19, SoleHolder DEF skev_release
  <2> QED BY <1>19, <2>1, <2>2
          DEF skev_release, LastCount, DeallocEntry, Panicking
<1>20. ASSUME NEW s \in Slot, skev_dealloc(t, s)
      PROVE  PanicsOK'
  <2>1. Panicking(strong[s]) = {}
    BY <1>20, SoleHolder DEF skev_dealloc
  <2> QED BY <1>20, <2>1 DEF skev_dealloc, DeallocEntry, Panicking
<1>21. CASE FreeObject(t)
  BY <1>21 DEF FreeObject, skev_free_raw
<1> QED
  BY <1>1, <1>2, <1>3, <1>4, <1>5, <1>6, <1>7, <1>8, <1>9, <1>10, <1>11,
     <1>12, <1>13, <1>14,
     <1>15, <1>16, <1>17, <1>18, <1>19, <1>20, <1>21
  DEF Step, LifecycleStep, LeakStep, WeakStep, ArcStep

(* An object enters the tracker as its skev_alloc returns and leaves it as *)
(* its skev_dealloc begins.                                                *)
LEMMA TrackedStep ==
    ASSUME Typed, SlotsOK, NewbornOK, StrongSlotsLive, DeallocExclusive,
           EntriesLive,
           LeakCheck, NEW x \in Addr, x \in tracker <=> Tracked(x),
           NEW t \in Thread, Step(t)
    PROVE  (x \in tracker <=> Tracked(x))'
<1> USE ThreadsAssumption
    DEF Typed, TypeOK, ThreadsTypeOK, HeapTypeOK, LocalsOK, LeakTypeOK,
        PcValue, AllocPc, BorrowPc, DeallocPc, PanicPc, ObjPc, EntPc,
        heapVars, entryVars, leakVars, lifecycleVars, callVars, Idle, Call,
        Return, Goto, SlotsOK, NewbornOK, StrongSlotsLive, DeallocExclusive,
        EntriesLive, Deallocating, Doomed, Tracked
<1>1. CASE LifecycleStep(t)
  BY <1>1
  DEF LifecycleStep, skev_init, InitCas, StoreReady, skev_shutdown,
      ShutdownCas, ShutdownCasWins
<1>2. ASSUME track_alloc(t), UNCHANGED <<heapVars, table>>
      PROVE  (x \in tracker <=> Tracked(x))'
  BY <1>2 DEF track_alloc
<1>3. ASSUME track_dealloc(t), UNCHANGED <<heapVars, table>>
      PROVE  (x \in tracker <=> Tracked(x))'
  BY <1>3 DEF track_dealloc
<1>4. ASSUME report_leaks(t), UNCHANGED <<heapVars, table>>
      PROVE  (x \in tracker <=> Tracked(x))'
  BY <1>4 DEF report_leaks, LastShard
<1>5. ASSUME StoreExitCode(t), UNCHANGED <<heapVars, table>>
      PROVE  (x \in tracker <=> Tracked(x))'
  BY <1>5 DEF StoreExitCode
<1>6. ASSUME NEW s \in Slot, NEW w \in WSlot, skev_weak_alloc(t, s, w),
             UNCHANGED <<leakVars, lifecycleVars>>
      PROVE  (x \in tracker <=> Tracked(x))'
  BY <1>6, SMTT(20) DEF skev_weak_alloc, Reserved, BusyWeak
<1>7. ASSUME WeakLookup(t), UNCHANGED <<leakVars, lifecycleVars>>
      PROVE  (x \in tracker <=> Tracked(x))'
  BY <1>7 DEF WeakLookup, ShardUnlocked
<1>8. ASSUME WeakHit(t), UNCHANGED <<leakVars, lifecycleVars>>
      PROVE  (x \in tracker <=> Tracked(x))'
  BY <1>8 DEF WeakHit
<1>9. ASSUME NEW e \in Addr, WeakMiss(t, e), UNCHANGED <<leakVars,
             lifecycleVars>>
      PROVE  (x \in tracker <=> Tracked(x))'
  <2>1. /\ tracker' = tracker /\ (kind'[x] = "obj" <=> kind[x] = "obj")
        /\ \A u \in Thread \ {t} : pc'[u] = pc[u] /\ obj'[u] = obj[u]
    BY <1>9 DEF WeakMiss, alloc_entry
  <2>2. pc[t] = "weak_missing" /\ pc'[t] = "idle"
    BY <1>9 DEF WeakMiss
  <2> QED BY <2>1, <2>2
<1>10. ASSUME WeakOutOfMemory(t), UNCHANGED <<leakVars, lifecycleVars>>
      PROVE  (x \in tracker <=> Tracked(x))'
  BY <1>10 DEF WeakOutOfMemory
<1>11. ASSUME NEW w \in WSlot, skev_weak_upgrade(t, w), UNCHANGED <<leakVars,
              lifecycleVars>>
      PROVE  (x \in tracker <=> Tracked(x))'
  BY <1>11 DEF skev_weak_upgrade
<1>12. ASSUME DropUpgraded(t), UNCHANGED <<leakVars, lifecycleVars>>
      PROVE  (x \in tracker <=> Tracked(x))'
  BY <1>12 DEF DropUpgraded
<1>13. ASSUME NEW w \in WSlot, skev_weak_release(t, w), UNCHANGED <<leakVars,
              lifecycleVars>>
      PROVE  (x \in tracker <=> Tracked(x))'
  <2>1. /\ tracker' = tracker /\ (kind'[x] = "obj" <=> kind[x] = "obj")
        /\ \A u \in Thread \ {t} : pc'[u] = pc[u] /\ obj'[u] = obj[u]
    BY <1>13 DEF skev_weak_release
  <2>2. pc[t] = "idle" /\ (pc'[t] = "idle" \/ obj'[t] = Null)
    BY <1>13 DEF skev_weak_release
  <2> QED BY <2>1, <2>2, SMTT(20)
<1>14. ASSUME OnDeallocRemove(t), UNCHANGED <<leakVars, lifecycleVars>>
      PROVE  (x \in tracker <=> Tracked(x))'
  BY <1>14, SMTT(20) DEF OnDeallocRemove, ShardUnlocked
<1>15. ASSUME OnDeallocMark(t), UNCHANGED <<leakVars, lifecycleVars>>
      PROVE  (x \in tracker <=> Tracked(x))'
  BY <1>15 DEF OnDeallocMark
<1>16. ASSUME OnDeallocUnslot(t), UNCHANGED <<leakVars, lifecycleVars>>
      PROVE  (x \in tracker <=> Tracked(x))'
  BY <1>16, SMTT(20) DEF OnDeallocUnslot, LastClaim
<1>17. ASSUME free_entry(t), UNCHANGED <<leakVars, lifecycleVars>>
      PROVE  (x \in tracker <=> Tracked(x))'
  <2>1. /\ tracker' = tracker /\ (kind'[x] = "obj" <=> kind[x] = "obj")
        /\ \A u \in Thread \ {t} : pc'[u] = pc[u] /\ obj'[u] = obj[u]
    BY <1>17 DEF free_entry, skev_free_raw
  <2>2. /\ pc[t] = "free_entry"
        /\ \/ pc'[t] = "idle" /\ obj[t] = Null
           \/ obj'[t] = obj[t] /\ pc'[t] = "free_obj"
    BY <1>17 DEF free_entry
  <2> QED BY <2>1, <2>2, SMTT(20)
<1>18. ASSUME NEW s \in Slot, skev_alloc(t, s)
      PROVE  (x \in tracker <=> Tracked(x))'
  <2>1. /\ kind' = kind /\ tracker' = tracker /\ pc[t] = "idle"
        /\ pc'[t] \in {"idle", "overflow", "underflow", "untrack",
           "init_alloc", "alloc_raw"}
        /\ \A u \in Thread \ {t} : pc'[u] = pc[u] /\ obj'[u] = obj[u]
    BY <1>18 DEF skev_alloc, InitCas
  <2> QED BY <2>1
<1>19. ASSUME NEW a \in Addr, AllocRaw(t, a)
      PROVE  (x \in tracker <=> Tracked(x))'
  <2>1. /\ tracker' = tracker /\ kind[a] = "free" /\ pc[t] = "alloc_raw"
        /\ pc'[t] = "track_alloc" /\ obj'[t] = a
        /\ x # a => kind'[x] = kind[x]
        /\ \A u \in Thread \ {t} : pc'[u] = pc[u] /\ obj'[u] = obj[u]
    BY <1>19 DEF AllocRaw, AllocObject
  <2>2. CASE x = a
    BY <2>1, <2>2
  <2>3. CASE x # a
    BY <2>1, <2>3, SMTT(20)
  <2> QED BY <2>2, <2>3
<1>20. CASE AllocOutOfMemory(t)
  BY <1>20 DEF AllocOutOfMemory
<1>21. ASSUME NEW src \in Slot, NEW dst \in Slot, skev_retain(t, src, dst)
      PROVE  (x \in tracker <=> Tracked(x))'
  <2>1. /\ kind' = kind /\ tracker' = tracker /\ pc[t] = "idle"
        /\ pc'[t] \in {"idle", "overflow"}
        /\ \A u \in Thread \ {t} : pc'[u] = pc[u] /\ obj'[u] = obj[u]
    BY <1>21 DEF skev_retain, Overflows
  <2> QED BY <2>1
<1>22. ASSUME NEW s \in Slot, skev_release(t, s)
      PROVE  (x \in tracker <=> Tracked(x))'
  <2>1. /\ kind' = kind /\ tracker' = tracker /\ pc[t] = "idle"
        /\ pc'[t] \in {"idle", "overflow", "underflow", "untrack",
           "init_alloc", "alloc_raw"}
        /\ \A u \in Thread \ {t} : pc'[u] = pc[u] /\ obj'[u] = obj[u]
    BY <1>22 DEF skev_release, DeallocEntry
  <2> QED BY <2>1
<1>23. ASSUME NEW s \in Slot, skev_dealloc(t, s)
      PROVE  (x \in tracker <=> Tracked(x))'
  BY <1>23 DEF skev_dealloc, DeallocEntry, Busy
<1>24. CASE FreeObject(t)
  BY <1>24 DEF FreeObject, skev_free_raw
<1> QED
  BY <1>1, <1>2, <1>3, <1>4, <1>5, <1>6, <1>7, <1>8, <1>9, <1>10, <1>11,
     <1>12, <1>13, <1>14,
     <1>15, <1>16, <1>17, <1>18, <1>19, <1>20, <1>21, <1>22, <1>23, <1>24
  DEF Step, LifecycleStep, LeakStep, WeakStep, ArcStep

-----------------------------------------------------------------------------
(* The two counts in the form of RuntimeCounts.                            *)
LEMMA CountsOf ==
    /\ RefCountExact /\ HeadroomKept <=> \A x \in Addr : Counted(x)
    /\ WeakCountExact <=> \A x \in Addr : Claimed(x)
BY
DEF RefCountExact, HeadroomKept, Counted, WeakCountExact, Claimed, Claims, Freed

(* And after the step.                                                     *)
LEMMA CountsOfNext ==
    /\ (RefCountExact /\ HeadroomKept)' <=> \A x \in Addr : Counted(x)'
    /\ WeakCountExact' <=> \A x \in Addr : Claimed(x)'
BY
DEF RefCountExact, HeadroomKept, Counted, WeakCountExact, Claimed, Claims, Freed

(* Before the first call nothing is allocated, and every count is zero.    *)
LEMMA InitIInv == Init => IInv
<1> SUFFICES ASSUME Init PROVE IInv
  OBVIOUS
<1> USE ThreadsAssumption, LeakAssumption, ArcAssumption
    DEF Init, ThreadsInit, HeapInit, LifecycleInit, LeakInit, WeakInit
<1>1. TypeOK /\ LocalsOK
  BY
  DEF TypeOK, ThreadsTypeOK, HeapTypeOK, LifecycleTypeOK, LeakTypeOK,
      WeakTypeOK,
         LifecycleState, PcValue, LocalsOK, ObjPc, EntPc, AllocPc, BorrowPc,
         DeallocPc, PanicPc
<1>2. SlotsOK /\ NewbornOK /\ StrongSlotsLive /\ DeallocExclusive
  BY
  DEF SlotsOK, NewbornOK, StrongSlotsLive, DeallocExclusive, Deallocating,
      Doomed,
         AllocPc, BorrowPc, DeallocPc
<1>3. RefCountExact /\ HeadroomKept
  <2>1. \A a \in Addr : Holders(a) = {} /\ Panicking(a) = {}
    BY DEF Holders, Panicking
  <2>2. Cardinality({}) = 0
    BY FS_EmptySet
  <2>3. \A a \in Addr : Cardinality(Holders(a)) = 0 /\ Cardinality(Panicking(a)) = 0
    BY <2>1, <2>2
  <2>4. \A a \in Addr : kind[a] = "free" /\ rc[a] = 0
    OBVIOUS
  <2> QED BY <2>3, <2>4, ArcAssumption DEF RefCountExact, HeadroomKept
<1>4. PanicsOK /\ LocksOK /\ OrphansOK
  BY DEF PanicsOK, NoUnderflow, LocksOK, LockPc, OrphansOK
<1>5. EntriesLive /\ WeakCountExact /\ OneEntryFreer
  <2>1. \A t \in Thread : ent[t] = Null
    OBVIOUS
  <2> QED BY <2>1 DEF EntriesLive, WeakCountExact, OneEntryFreer
<1>6. TableMatchesHeap /\ AliveOK /\ AliveTargetAllocated
  BY DEF TableMatchesHeap, AliveOK, AliveTargetAllocated
<1>7. TrackerExact /\ BodiesExclusive /\ ShutdownOK
  BY DEF TrackerExact, Tracked, BodiesExclusive, ShutdownOK
<1> QED BY <1>1, <1>2, <1>3, <1>4, <1>5, <1>6, <1>7 DEF IInv

(* A step of a thread: the lemmas above and those of RuntimeCounts         *)
(* together.                                                               *)
LEMMA StepIInv ==
    ASSUME IInv, NEW t \in Thread, Step(t)
    PROVE  IInv'
<1> USE DEF IInv
<1>0. Typed
  BY DEF Typed
<1>1. Typed'
  BY <1>0, TypedLifecycle, TypedLeak, TypedWeak, TypedArc DEF Step
<1>2. SlotsOK' /\ NewbornOK' /\ LocksOK'
  BY <1>0, SlotsStep, NewbornStep, LocksStep
<1>3. StrongSlotsLive' /\ DeallocExclusive' /\ PanicsOK'
  BY <1>0, StrongStep, DeallocStep, PanicsStep
<1>4. (RefCountExact /\ HeadroomKept)'
  <2>1. ASSUME NEW x \in Addr PROVE Counted(x)'
    BY <1>0, CountsOf, CountedStep
  <2> QED BY <2>1, CountsOfNext
<1>5. EntriesLive' /\ OneEntryFreer' /\ OrphansOK'
  BY <1>0, EntriesStep, FreerStep, OrphansStep
<1>6. WeakCountExact'
  <2>1. ASSUME NEW x \in Addr PROVE Claimed(x)'
    BY <1>0, CountsOf, ClaimedStep
  <2> QED BY <2>1, CountsOfNext
<1>7. TableMatchesHeap' /\ AliveOK' /\ AliveTargetAllocated'
  BY <1>0, TableStep, AliveStep, TargetStep
<1>8. TrackerExact'
  <2>1. CASE ~LeakCheck
    BY <2>1 DEF TrackerExact
  <2>2. ASSUME LeakCheck, NEW x \in Addr PROVE (x \in tracker <=> Tracked(x))'
    <3>1. x \in tracker <=> Tracked(x)
      BY <2>2 DEF TrackerExact
    <3> QED BY <1>0, <2>2, <3>1, TrackedStep
  <2> QED BY <2>1, <2>2 DEF TrackerExact
<1>9. BodiesExclusive' /\ ShutdownOK'
  BY <1>0, BodiesStep
<1> QED BY <1>1, <1>2, <1>3, <1>4, <1>5, <1>6, <1>7, <1>8, <1>9 DEF Typed

(* A step of the world outside the runtime.                                *)
LEMMA StutterIInv ==
    ASSUME IInv, UNCHANGED vars
    PROVE  IInv'
<1> USE DEF IInv, vars, callVars, heapVars, entryVars, leakVars, lifecycleVars
<1>1. TypeOK' /\ LocalsOK'
  BY
  DEF TypeOK, ThreadsTypeOK, HeapTypeOK, LifecycleTypeOK, LeakTypeOK,
      WeakTypeOK,
         LocalsOK
<1>2. SlotsOK' /\ NewbornOK' /\ LocksOK' /\ OrphansOK'
  BY DEF SlotsOK, NewbornOK, LocksOK, OrphansOK, StrongSide
<1>3. StrongSlotsLive' /\ DeallocExclusive' /\ PanicsOK'
  BY DEF StrongSlotsLive, DeallocExclusive, PanicsOK, NoUnderflow, Doomed,
         Deallocating, Holders
<1>4. (RefCountExact /\ HeadroomKept)'
  <2>1. ASSUME NEW x PROVE Holders(x)' = Holders(x) /\ Panicking(x)' = Panicking(x)
                           /\ (Doomed(x)' <=> Doomed(x))
    BY DEF Holders, Panicking, Doomed, Deallocating
  <2> QED BY <2>1 DEF RefCountExact, HeadroomKept
<1>5. EntriesLive' /\ OneEntryFreer'
  BY DEF EntriesLive, OneEntryFreer
<1>6. WeakCountExact'
  <2>1. ASSUME NEW x PROVE WeakHolders(x)' = WeakHolders(x)
                           /\ (StrongSide(x)' <=> StrongSide(x))
    BY DEF WeakHolders, StrongSide
  <2> QED BY <2>1 DEF WeakCountExact
<1>7. TableMatchesHeap' /\ AliveOK' /\ AliveTargetAllocated'
  BY DEF TableMatchesHeap, AliveOK, AliveTargetAllocated, Deallocating
<1>8. TrackerExact' /\ BodiesExclusive' /\ ShutdownOK'
  BY DEF TrackerExact, Tracked, Deallocating, BodiesExclusive, ShutdownOK
<1> QED BY <1>1, <1>2, <1>3, <1>4, <1>5, <1>6, <1>7, <1>8

(* Whatever the threads call and however their calls interleave, IInv      *)
(* holds: all the safety properties of SkevRuntime together with what each *)
(* call knows of the memory it is about to touch.                          *)
THEOREM RuntimeSafe == Spec => []IInv
<1>1. IInv /\ [Next]_vars => IInv'
  BY StepIInv, StutterIInv DEF Next
<1> QED BY <1>1, InitIInv, PTL DEF Spec

(* Every variable of the runtime keeps its type; the counts stay in their  *)
(* words.                                                                  *)
THEOREM TypeCorrect == Spec => []TypeOK
<1>1. IInv => TypeOK
  BY DEF IInv
<1> QED BY <1>1, RuntimeSafe, PTL

(* The SAFETY comments of skev_retain and skev_release: an owned reference *)
(* points at an object that is neither freed, nor reused, nor being        *)
(* deallocated.                                                            *)
THEOREM NoUseAfterFree == Spec => []StrongSlotsLive
<1>1. IInv => StrongSlotsLive
  BY DEF IInv
<1> QED BY <1>1, RuntimeSafe, PTL

(* arc.rs: ref_count is the number of references owned.                    *)
THEOREM RefCountIsExact == Spec => []RefCountExact
<1>1. IInv => RefCountExact
  BY DEF IInv
<1> QED BY <1>1, RuntimeSafe, PTL

(* arc.rs:100, "no other reference exists": an object is deallocated by    *)
(* one thread and has no owner then.                                       *)
THEOREM DeallocatedOnce == Spec => []DeallocExclusive
<1>1. IInv => DeallocExclusive
  BY DEF IInv
<1> QED BY <1>1, RuntimeSafe, PTL

(* arc.rs:28, MAX_REFCOUNT leaves room for the racing retains: ref_count   *)
(* does not wrap.                                                          *)
THEOREM NeverOverflows == Spec => []HeadroomKept
<1>1. IInv => HeadroomKept
  BY DEF IInv
<1> QED BY <1>1, RuntimeSafe, PTL

(* arc.rs:96, the underflow panic is out of the reach of callers that      *)
(* release what they own.                                                  *)
THEOREM NeverUnderflows == Spec => []NoUnderflow
<1>1. IInv => NoUnderflow
  BY DEF IInv, PanicsOK
<1> QED BY <1>1, RuntimeSafe, PTL

(* weak.rs: the entry a weak reference holds, or a call is about to        *)
(* access, is allocated.                                                   *)
THEOREM NoWeakUseAfterFree == Spec => []EntriesLive
<1>1. IInv => EntriesLive
  BY DEF IInv
<1> QED BY <1>1, RuntimeSafe, PTL

(* weak.rs:33, weak_count is the virtual slot and the active holders.      *)
THEOREM WeakCountIsExact == Spec => []WeakCountExact
<1>1. IInv => WeakCountExact
  BY DEF IInv
<1> QED BY <1>1, RuntimeSafe, PTL

(* weak.rs:17, exactly one party frees an entry.                           *)
THEOREM EntryFreedOnce == Spec => []OneEntryFreer
<1>1. IInv => OneEntryFreer
  BY DEF IInv
<1> QED BY <1>1, RuntimeSafe, PTL

(* weak.rs:127, an upgrade that finds strong_alive returns an object that  *)
(* is still allocated.                                                     *)
THEOREM UpgradeSeesAllocated == Spec => []AliveTargetAllocated
<1>1. IInv => AliveTargetAllocated
  BY DEF IInv
<1> QED BY <1>1, RuntimeSafe, PTL

(* weak.rs:161, the side table never maps an address to the entry of an    *)
(* object that lived there before.                                         *)
THEOREM NoStaleEntry == Spec => []TableMatchesHeap
<1>1. IInv => TableMatchesHeap
  BY DEF IInv
<1> QED BY <1>1, RuntimeSafe, PTL

(* leak.rs: the tracker holds the objects that were allocated and not yet  *)
(* deallocated.                                                            *)
THEOREM TrackerIsExact == Spec => []TrackerExact
<1>1. IInv => TrackerExact
  BY DEF IInv
<1> QED BY <1>1, RuntimeSafe, PTL

(* init.rs:5, only the winner of the compare_exchange runs a body.         *)
THEOREM OneBody == Spec => []BodiesExclusive
<1>1. IInv => BodiesExclusive
  BY DEF IInv
<1> QED BY <1>1, RuntimeSafe, PTL

(* init.rs:54: the lifecycle is one-way. The body of skev_init can only be *)
(* left from INITING, because nothing else happens to the state meanwhile  *)
(* (BodiesExclusive).                                                      *)
THEOREM OneWay == Spec => LifecycleOneWay
<1> DEFINE Onward == \/ lifecycle = "UNINIT" /\ lifecycle' = "INITING"
                     \/ lifecycle = "INITING" /\ lifecycle' = "READY"
                     \/ lifecycle = "READY" /\ lifecycle' = "SHUTDOWN"
<1>1. ASSUME IInv, [Next]_vars PROVE [Onward]_lifecycle
  <2>1. CASE UNCHANGED vars
    BY <2>1 DEF vars, lifecycleVars
  <2>2. ASSUME NEW t \in Thread, Step(t) PROVE [Onward]_lifecycle
    <3> USE DEF lifecycleVars
    <3>1. CASE LifecycleStep(t)
      BY <1>1, <3>1
      DEF IInv, BodiesExclusive, LifecycleStep, skev_init, InitCas, InitCasWins,
          StoreReady, skev_shutdown, ShutdownCas, ShutdownCasWins
    <3>2. CASE LeakStep(t)
      BY <3>2
      DEF LeakStep, track_alloc, track_dealloc, report_leaks, StoreExitCode
    <3>3. CASE WeakStep(t)
      BY <3>3 DEF WeakStep
    <3>4. CASE ArcStep(t)
      BY <3>4
      DEF ArcStep, skev_alloc, InitCas, InitCasWins, AllocRaw, AllocOutOfMemory,
          skev_retain, skev_release, skev_dealloc, FreeObject
    <3> QED BY <2>2, <3>1, <3>2, <3>3, <3>4 DEF Step
  <2> QED BY <1>1, <2>1, <2>2 DEF Next
<1> QED BY <1>1, RuntimeSafe, PTL DEF Spec, LifecycleOneWay

=============================================================================
