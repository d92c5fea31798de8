-------------------------- MODULE RefinementProofs --------------------------
(***************************************************************************)
(* The runtime keeps its promise, for any number of threads, references,   *)
(* addresses and shards: under IInv every step of SkevRuntime is a step of *)
(* RefCounting, or changes nothing RefCounting can see.                    *)
(***************************************************************************)
EXTENDS RuntimeRefinement, SkevRuntimeProofs

(* The views of RuntimeRefinement, at one address and one weak slot.       *)
StoreAt(a) ==
    IF kind[a] # "obj" THEN "unused"
    ELSE IF Doomed(a) THEN "doomed" ELSE "live"
WatchAt(w) ==
    IF weak[w] = Null THEN Null
    ELSE IF strong_alive[weak[w]] THEN target[weak[w]] ELSE Dead
SomePanic == \E t \in Thread : pc[t] = "overflow"

(* The views by address and by slot.                                       *)
LEMMA Views ==
    /\ storeView = [a \in Addr |-> StoreAt(a)]
    /\ watchView = [w \in WSlot |-> WatchAt(w)]
BY DEF storeView, watchView, StoreAt, WatchAt

(* The same in the next state.                                             *)
LEMMA ViewsNext ==
    /\ storeView' = [a \in Addr |-> StoreAt(a)']
    /\ watchView' = [w \in WSlot |-> WatchAt(w)']
BY DEF storeView, watchView, StoreAt, WatchAt

(* A step that changes no view, no slot and no panic is a stutter.         *)
LEMMA Quiet ==
    ASSUME \A a \in Addr : StoreAt(a)' = StoreAt(a),
           \A w \in WSlot : WatchAt(w)' = WatchAt(w),
           strong' = strong, SomePanic' <=> SomePanic
    PROVE  UNCHANGED Promise!vars
<1>1. storeView' = storeView /\ watchView' = watchView
  BY Views, ViewsNext
<1> QED BY <1>1 DEF Promise!vars, SomePanic

(* ---- What a step of thread t changes. ---- *)
Others(t) == \A u \in Thread \ {t} : pc'[u] = pc[u] /\ obj'[u] = obj[u]

(* A thread moves no other.                                                *)
LEMMA OthersStay == ASSUME Typed, NEW t \in Thread, Step(t) PROVE Others(t)
<1> USE DEF Typed, TypeOK, ThreadsTypeOK, Others, Call, Return, Goto, callVars
<1>1. CASE LifecycleStep(t)
  BY <1>1
  DEF LifecycleStep, skev_init, InitCas, StoreReady, skev_shutdown, ShutdownCas
<1>2. CASE LeakStep(t)
  BY <1>2 DEF LeakStep, track_alloc, track_dealloc, report_leaks, StoreExitCode
<1>3. CASE WeakStep(t)
  BY <1>3
  DEF WeakStep, skev_weak_alloc, WeakLookup, WeakHit, WeakMiss, WeakOutOfMemory,
      skev_weak_upgrade, DropUpgraded, skev_weak_release, OnDeallocRemove,
      OnDeallocMark, OnDeallocUnslot, free_entry
<1>4. CASE ArcStep(t)
  BY <1>4
  DEF ArcStep, skev_alloc, InitCas, AllocRaw, AllocOutOfMemory, skev_retain,
      skev_release, skev_dealloc, FreeObject
<1> QED BY <1>1, <1>2, <1>3, <1>4 DEF Step

(* A step that leaves t where it was, in skev_dealloc or out of it.        *)
LEMMA SameDoomed ==
    ASSUME NEW t \in Thread, Others(t), NEW a \in Addr,
           Deallocating(t, a)' <=> Deallocating(t, a)
    PROVE  Doomed(a)' <=> Doomed(a)
BY DEF Doomed, Deallocating, Others

(* A step in which nobody enters or leaves a panic.                        *)
LEMMA SamePanic ==
    ASSUME NEW t \in Thread, Others(t), pc[t] # "overflow", pc'[t] # "overflow"
    PROVE  SomePanic' <=> SomePanic
BY DEF SomePanic, Others

(* ---- Steps nobody outside can see. ---- *)
LEMMA HiddenStep ==
    ASSUME Typed, NEW t \in Thread, Others(t), pc[t] # "overflow", pc'[t] # "overflow",
           \A a \in Addr : Deallocating(t, a)' <=> Deallocating(t, a),
           UNCHANGED <<kind, target, strong_alive, strong, weak>>
    PROVE  UNCHANGED Promise!vars
<1>1. \A a \in Addr : StoreAt(a)' = StoreAt(a)
  <2> SUFFICES ASSUME NEW a \in Addr PROVE StoreAt(a)' = StoreAt(a)
    OBVIOUS
  <2>1. Doomed(a)' <=> Doomed(a)
    BY SameDoomed
  <2> QED BY <2>1 DEF StoreAt
<1>2. \A w \in WSlot : WatchAt(w)' = WatchAt(w)
  BY DEF WatchAt
<1>3. SomePanic' <=> SomePanic
  BY SamePanic
<1> QED BY <1>1, <1>2, <1>3, Quiet

(* init.rs is out of sight of the promise.                                 *)
LEMMA LifecycleMaps ==
    ASSUME IInv, NEW t \in Thread, LifecycleStep(t)
    PROVE  UNCHANGED Promise!vars
<1>0. Typed /\ Others(t)
  BY OthersStay DEF IInv, Typed, Step
<1>1. /\ pc[t] # "overflow" /\ pc'[t] # "overflow"
      /\ pc[t] \notin DeallocPc /\ pc'[t] \notin DeallocPc
      /\ UNCHANGED <<kind, target, strong_alive, strong, weak>>
  BY <1>0
  DEF Typed, TypeOK, ThreadsTypeOK, LifecycleStep, skev_init, InitCas, StoreReady,
      skev_shutdown, ShutdownCas, Call, Return, Goto, Idle, heapVars, entryVars,
      DeallocPc
<1>2. \A a \in Addr : Deallocating(t, a)' <=> Deallocating(t, a)
  BY <1>1 DEF Deallocating
<1> QED BY <1>0, <1>1, <1>2, HiddenStep

(* So is leak.rs.                                                          *)
LEMMA LeakMaps ==
    ASSUME IInv, NEW t \in Thread, LeakStep(t)
    PROVE  UNCHANGED Promise!vars
<1>0. Typed /\ Others(t)
  BY OthersStay DEF IInv, Typed, Step
<1>1. /\ pc[t] # "overflow" /\ pc'[t] # "overflow"
      /\ UNCHANGED <<kind, target, strong_alive, strong, weak>>
      /\ \/ pc[t] \notin DeallocPc /\ pc'[t] \notin DeallocPc
         \/ pc[t] \in DeallocPc /\ pc'[t] \in DeallocPc /\ obj' = obj
  BY <1>0
  DEF Typed, TypeOK, ThreadsTypeOK, LeakStep, track_alloc, track_dealloc,
      report_leaks, StoreExitCode, Call, Return, Goto, heapVars, entryVars,
      callVars, DeallocPc
<1>2. \A a \in Addr : Deallocating(t, a)' <=> Deallocating(t, a)
  BY <1>1 DEF Deallocating
<1> QED BY <1>0, <1>1, <1>2, HiddenStep

(* ---- Steps of weak.rs. ---- *)
(* What IInv says of the entry a weak slot, or a call, has.                *)
LEMMA WeakFacts ==
    ASSUME IInv
    PROVE  /\ \A w \in WSlot : weak[w] # Null =>
                weak[w] \in Addr /\ kind[weak[w]] = "entry"
           /\ \A e \in Addr : kind[e] = "entry" /\ strong_alive[e] =>
                target[e] # Null /\ target[e] \in Addr
           /\ Dead \notin Addr \cup {Null}
           /\ \A t \in Thread, a \in Addr : Deallocating(t, a) =>
                kind[a] = "obj" /\ \A u \in Thread : Deallocating(u, a) => u = t
BY RefinementAssumption
DEF IInv, EntriesLive, AliveOK, DeallocExclusive, TypeOK, ThreadsTypeOK, HeapTypeOK

(* The lookup of skev_weak_alloc: a weak slot starts to watch the object.  *)
LEMMA WeakAllocMaps ==
    ASSUME IInv, NEW t \in Thread,
           \/ WeakHit(t) \/ \E e \in Addr : WeakMiss(t, e), WeakStep(t)
    PROVE  Promise!Watch(slot[t], wslot[t])
<1>0. Typed /\ Others(t)
  BY OthersStay DEF IInv, Typed, Step
<1>1. PICK s \in Slot, w \in WSlot, a \in Addr :
        /\ s = slot[t] /\ w = wslot[t] /\ a = obj[t] /\ pc[t] \in LockPc
        /\ strong[s] = a /\ weak[w] = Null /\ strong' = strong
  BY <1>0
  DEF IInv, Typed, TypeOK, ThreadsTypeOK, LocalsOK, SlotsOK, WeakHit, WeakMiss,
      LockPc, BorrowPc, ObjPc
<1>2. PICK e \in Addr :
        /\ weak' = [weak EXCEPT ![w] = e]
        /\ \A b \in Addr : (kind'[b] = "obj" <=> kind[b] = "obj")
        /\ \A d \in Addr : d # e => target'[d] = target[d]
                                   /\ strong_alive'[d] = strong_alive[d]
        /\ target'[e] = a /\ strong_alive'[e]
        /\ kind[e] = "entry" =>
             target'[e] = target[e] /\ strong_alive'[e] = strong_alive[e]
  <2>1. CASE WeakHit(t)
    <3>1. /\ ent[t] \in Addr /\ table[a] = ent[t] /\ ent[t] # Null
      BY <1>0, <1>1, <2>1
      DEF IInv, Typed, TypeOK, ThreadsTypeOK, LocksOK, WeakHit, LocalsOK, EntPc
    <3>2. target[ent[t]] = a /\ strong_alive[ent[t]]
      BY <1>1, <3>1 DEF IInv, TableMatchesHeap
    <3> QED BY <1>1, <2>1, <3>1, <3>2 DEF WeakHit
  <2>2. CASE \E e \in Addr : WeakMiss(t, e)
    BY <1>0, <1>1, <2>2 DEF WeakMiss, alloc_entry, Typed, TypeOK, HeapTypeOK
  <2> QED BY <2>1, <2>2
<1>3. pc'[t] = "idle"
  BY <1>0 DEF Typed, TypeOK, ThreadsTypeOK, WeakHit, WeakMiss, Return, Call
<1>4. \A b \in Addr : StoreAt(b)' = StoreAt(b)
  <2> SUFFICES ASSUME NEW b \in Addr PROVE StoreAt(b)' = StoreAt(b)
    OBVIOUS
  <2>1. Deallocating(t, b)' <=> Deallocating(t, b)
    BY <1>1, <1>3 DEF Deallocating, LockPc, DeallocPc
  <2>2. Doomed(b)' <=> Doomed(b)
    BY <1>0, <2>1, SameDoomed
  <2> QED BY <1>2, <2>2 DEF StoreAt
<1>5. WatchAt(w) = Null /\ WatchAt(w)' = strong[s]
  <2>1. weak'[w] = e /\ e # Null
    BY <1>0, <1>2, ThreadsAssumption DEF Typed, TypeOK, ThreadsTypeOK
  <2> QED BY <1>1, <1>2, <2>1 DEF WatchAt
<1>6. \A v \in WSlot \ {w} : WatchAt(v)' = WatchAt(v)
  <2> SUFFICES ASSUME NEW v \in WSlot \ {w} PROVE WatchAt(v)' = WatchAt(v)
    OBVIOUS
  <2>1. weak'[v] = weak[v]
    BY <1>0, <1>2 DEF Typed, TypeOK, ThreadsTypeOK
  <2>2. weak[v] # Null => weak[v] \in Addr /\ kind[weak[v]] = "entry"
    BY WeakFacts
  <2> QED BY <1>2, <2>1, <2>2 DEF WatchAt
<1>7. SomePanic' <=> SomePanic
  BY <1>0, <1>1, <1>3, SamePanic DEF LockPc
<1>8. /\ storeView' = storeView
      /\ watchView[w] = Null /\ watchView' = [watchView EXCEPT ![w] = strong[s]]
  BY <1>1, <1>4, <1>5, <1>6, Views, ViewsNext
<1>9. strong[s] # Null
  BY <1>1, ThreadsAssumption
<1> QED BY <1>1, <1>7, <1>8, <1>9 DEF Promise!Watch, SomePanic

(* The first access of skev_weak_release gives up a weak reference.        *)
LEMMA WeakReleaseMaps ==
    ASSUME IInv, NEW t \in Thread, NEW w \in WSlot, skev_weak_release(t, w),
           WeakStep(t)
    PROVE  Promise!Unwatch(w)
<1>0. Typed /\ Others(t)
  BY OthersStay DEF IInv, Typed, Step
<1>1. /\ weak[w] # Null /\ weak' = [weak EXCEPT ![w] = Null]
      /\ UNCHANGED <<kind, target, strong_alive, strong>>
      /\ pc[t] = "idle" /\ pc'[t] \in {"idle", "free_entry"}
      /\ pc'[t] = "free_entry" => obj'[t] = Null
  BY <1>0
  DEF skev_weak_release, Idle, Call, callVars, Typed, TypeOK, ThreadsTypeOK
<1>2. \A b \in Addr : StoreAt(b)' = StoreAt(b)
  <2> SUFFICES ASSUME NEW b \in Addr PROVE StoreAt(b)' = StoreAt(b)
    OBVIOUS
  <2>1. Deallocating(t, b)' <=> Deallocating(t, b)
    BY <1>1, ThreadsAssumption DEF Deallocating, DeallocPc
  <2>2. Doomed(b)' <=> Doomed(b)
    BY <1>0, <2>1, SameDoomed
  <2> QED BY <1>1, <2>2 DEF StoreAt
<1>3. WatchAt(w) # Null
  BY <1>1, WeakFacts DEF WatchAt
<1>4. \A v \in WSlot : WatchAt(v)' = IF v = w THEN Null ELSE WatchAt(v)
  BY <1>0, <1>1 DEF WatchAt, Typed, TypeOK, ThreadsTypeOK
<1>5. SomePanic' <=> SomePanic
  BY <1>0, <1>1, SamePanic
<1>6. /\ storeView' = storeView /\ watchView[w] # Null
      /\ watchView' = [watchView EXCEPT ![w] = Null]
  BY <1>2, <1>3, <1>4, Views, ViewsNext
<1> QED BY <1>1, <1>5, <1>6 DEF Promise!Unwatch, SomePanic

(* The store to strong_alive: the entry is the only one of its object, so  *)
(* all that watch the object hold it.                                      *)
LEMMA MarkMaps ==
    ASSUME IInv, NEW t \in Thread, OnDeallocMark(t), WeakStep(t)
    PROVE  Promise!Cut(obj[t])
<1>0. Typed /\ Others(t)
  BY OthersStay DEF IInv, Typed, Step
<1> DEFINE a == obj[t]
           e == ent[t]
<1>1. /\ pc[t] = "mark" /\ pc'[t] = "unslot" /\ obj'[t] = a
      /\ strong_alive' = [strong_alive EXCEPT ![e] = FALSE]
      /\ UNCHANGED <<kind, target, strong, weak>>
  BY <1>0 DEF OnDeallocMark, Goto, Typed, TypeOK, ThreadsTypeOK
<1>2. /\ a \in Addr /\ e \in Addr /\ e # Null /\ Deallocating(t, a)
      /\ target[e] = a /\ strong_alive[e]
  BY <1>0, <1>1
  DEF IInv, Typed, TypeOK, ThreadsTypeOK, LocalsOK, ObjPc, EntPc, DeallocPc,
      Deallocating, OrphansOK
<1>3. \A b \in Addr : StoreAt(b)' = StoreAt(b)
  <2> SUFFICES ASSUME NEW b \in Addr PROVE StoreAt(b)' = StoreAt(b)
    OBVIOUS
  <2>1. Deallocating(t, b)' <=> Deallocating(t, b)
    BY <1>1 DEF Deallocating, DeallocPc
  <2>2. Doomed(b)' <=> Doomed(b)
    BY <1>0, <2>1, SameDoomed
  <2> QED BY <1>1, <2>2 DEF StoreAt
<1>4. StoreAt(a) = "doomed"
  BY <1>2, WeakFacts DEF StoreAt, Doomed
<1>5. ASSUME NEW d \in Addr, kind[d] = "entry", strong_alive[d], target[d] = a
      PROVE  d = e
  <2>1. table[a] # d
    BY <1>1, <1>2, <1>5, ThreadsAssumption DEF IInv, TableMatchesHeap
  <2>2. PICK u \in Thread : pc[u] = "mark" /\ ent[u] = d
    BY <1>5, <2>1 DEF IInv, AliveOK
  <2>3. Deallocating(u, a)
    BY <1>5, <2>2 DEF IInv, OrphansOK, Deallocating, DeallocPc
  <2>4. u = t
    BY <1>2, <2>3, WeakFacts
  <2> QED BY <2>2, <2>4
<1>6. \A w \in WSlot : WatchAt(w)' = IF WatchAt(w) = a THEN Dead ELSE WatchAt(w)
  <2> SUFFICES ASSUME NEW w \in WSlot
               PROVE  WatchAt(w)' = IF WatchAt(w) = a THEN Dead ELSE WatchAt(w)
    OBVIOUS
  <2>1. weak[w] # Null => weak[w] \in Addr /\ kind[weak[w]] = "entry"
    BY WeakFacts
  <2>2. \A d \in Addr : strong_alive'[d] = IF d = e THEN FALSE ELSE strong_alive[d]
    BY <1>0, <1>1, <1>2 DEF Typed, TypeOK, HeapTypeOK
  <2>3. a # Null /\ a # Dead
    BY <1>2, ThreadsAssumption, WeakFacts
  <2>4. CASE weak[w] = Null
    BY <1>1, <2>3, <2>4 DEF WatchAt
  <2>5. CASE weak[w] = e
    BY <1>1, <1>2, <2>2, <2>5 DEF WatchAt
  <2>6. CASE weak[w] # Null /\ weak[w] # e
    <3>1. WatchAt(w) # a
      BY <1>5, <2>1, <2>3, <2>6 DEF WatchAt
    <3> QED BY <1>1, <2>1, <2>2, <2>6, <3>1 DEF WatchAt
  <2> QED BY <2>4, <2>5, <2>6
<1>7. SomePanic' <=> SomePanic
  BY <1>0, <1>1, SamePanic
<1>8. /\ storeView' = storeView /\ storeView[a] = "doomed"
      /\ watchView' = [w \in WSlot |-> IF watchView[w] = a THEN Dead ELSE watchView[w]]
  BY <1>2, <1>3, <1>4, <1>6, Views, ViewsNext
<1> QED BY <1>1, <1>7, <1>8 DEF Promise!Cut, SomePanic

(* The free of an entry is out of sight: nobody holds it.                  *)
LEMMA FreeEntryMaps ==
    ASSUME IInv, NEW t \in Thread, free_entry(t), WeakStep(t)
    PROVE  UNCHANGED Promise!vars
<1>0. Typed /\ Others(t)
  BY OthersStay DEF IInv, Typed, Step
<1> DEFINE e == ent[t]
<1>1. /\ pc[t] = "free_entry" /\ e \in Addr /\ kind[e] = "entry"
      /\ \A w \in WSlot : weak[w] # e
  BY <1>0, UnclaimedEntry
  DEF IInv, Typed, TypeOK, ThreadsTypeOK, LocalsOK, EntPc, EntriesLive, free_entry
<1>2. /\ kind' = [kind EXCEPT ![e] = "free"]
      /\ target' = [target EXCEPT ![e] = Null]
      /\ strong_alive' = [strong_alive EXCEPT ![e] = FALSE]
      /\ strong' = strong /\ weak' = weak
      /\ pc'[t] \in {"idle", "free_obj"} /\ (pc'[t] = "idle" => obj[t] = Null)
      /\ (pc'[t] = "free_obj" => obj'[t] = obj[t])
  BY <1>0
  DEF free_entry, skev_free_raw, Return, Call, Typed, TypeOK, ThreadsTypeOK
<1>3. \A b \in Addr : StoreAt(b)' = StoreAt(b)
  <2> SUFFICES ASSUME NEW b \in Addr PROVE StoreAt(b)' = StoreAt(b)
    OBVIOUS
  <2>1. Deallocating(t, b)' <=> Deallocating(t, b)
    BY <1>1, <1>2, ThreadsAssumption DEF Deallocating, DeallocPc
  <2>2. Doomed(b)' <=> Doomed(b)
    BY <1>0, <2>1, SameDoomed
  <2>3. kind'[b] = "obj" <=> kind[b] = "obj"
    BY <1>0, <1>1, <1>2 DEF Typed, TypeOK, HeapTypeOK
  <2> QED BY <2>2, <2>3 DEF StoreAt
<1>4. \A w \in WSlot : WatchAt(w)' = WatchAt(w)
  <2> SUFFICES ASSUME NEW w \in WSlot PROVE WatchAt(w)' = WatchAt(w)
    OBVIOUS
  <2>1. weak[w] # Null => weak[w] \in Addr /\ weak[w] # e
    BY <1>1, WeakFacts
  <2> QED BY <1>0, <1>2, <2>1 DEF WatchAt, Typed, TypeOK, HeapTypeOK
<1>5. SomePanic' <=> SomePanic
  BY <1>0, <1>1, <1>2, SamePanic
<1> QED BY <1>2, <1>3, <1>4, <1>5, Quiet

(* The steps of weak.rs: Watch, Cut, Unwatch, or a stutter.                *)
LEMMA WeakMaps ==
    ASSUME IInv, NEW t \in Thread, WeakStep(t)
    PROVE  [Promise!Next]_(Promise!vars)
<1>0. Typed /\ Others(t)
  BY OthersStay DEF IInv, Typed, Step
<1>1. CASE WeakHit(t) \/ \E e \in Addr : WeakMiss(t, e)
  <2>1. slot[t] \in Slot /\ wslot[t] \in WSlot
    BY <1>0, <1>1
    DEF Typed, TypeOK, ThreadsTypeOK, LocalsOK, WeakHit, WeakMiss, BorrowPc
  <2> QED BY <1>1, <2>1, WeakAllocMaps DEF Promise!Next
<1>2. CASE \E w \in WSlot : skev_weak_release(t, w)
  BY <1>2, WeakReleaseMaps DEF Promise!Next
<1>3. CASE OnDeallocMark(t)
  <2>1. obj[t] \in Addr
    BY <1>0, <1>3
    DEF Typed, TypeOK, ThreadsTypeOK, LocalsOK, OnDeallocMark, ObjPc, DeallocPc
  <2> QED BY <1>3, <2>1, MarkMaps DEF Promise!Next
<1>4. CASE free_entry(t)
  BY <1>4, FreeEntryMaps
<1>5. CASE \/ \E s \in Slot, w \in WSlot : skev_weak_alloc(t, s, w)
           \/ WeakLookup(t) \/ WeakOutOfMemory(t)
           \/ \E w \in WSlot : skev_weak_upgrade(t, w)
           \/ DropUpgraded(t) \/ OnDeallocRemove(t) \/ OnDeallocUnslot(t)
  <2>1. /\ pc[t] # "overflow" /\ pc'[t] # "overflow"
        /\ UNCHANGED <<kind, target, strong_alive, strong, weak>>
        /\ \/ pc[t] \notin DeallocPc /\ pc'[t] \notin DeallocPc
           \/ pc[t] \in DeallocPc /\ pc'[t] \in DeallocPc /\ obj'[t] = obj[t]
    BY <1>0, <1>5
    DEF Typed, TypeOK, ThreadsTypeOK, skev_weak_alloc, WeakLookup, WeakOutOfMemory,
        skev_weak_upgrade, DropUpgraded, OnDeallocRemove, OnDeallocUnslot, Idle,
        Call, Return, Goto, heapVars, entryVars, DeallocPc
  <2>2. \A a \in Addr : Deallocating(t, a)' <=> Deallocating(t, a)
    BY <2>1 DEF Deallocating
  <2> QED BY <1>0, <2>1, <2>2, HiddenStep
<1> QED BY <1>1, <1>2, <1>3, <1>4, <1>5 DEF WeakStep

(* ---- Steps of arc.rs. ---- *)
LEMMA AllocMaps ==
    ASSUME IInv, IInv', NEW t \in Thread, NEW a \in Addr, AllocRaw(t, a)
    PROVE  Promise!Allocate(slot[t], a)
<1>0. Typed /\ Others(t)
  BY OthersStay DEF IInv, Typed, Step, ArcStep
<1>1. PICK s \in Slot : s = slot[t] /\ strong[s] = Null
  BY <1>0 DEF IInv, Typed, TypeOK, ThreadsTypeOK, LocalsOK, SlotsOK, AllocRaw, AllocPc
<1>2. /\ kind[a] = "free" /\ kind' = [kind EXCEPT ![a] = "obj"]
      /\ strong' = [strong EXCEPT ![s] = a]
      /\ UNCHANGED <<target, strong_alive, weak>>
      /\ pc[t] = "alloc_raw" /\ pc'[t] \in {"idle", "track_alloc"}
  BY <1>0, <1>1
  DEF AllocRaw, AllocObject, Call, Return, entryVars, Typed, TypeOK, ThreadsTypeOK
<1>3. \A b \in Addr : StoreAt(b)' = IF b = a THEN "live" ELSE StoreAt(b)
  <2> SUFFICES ASSUME NEW b \in Addr
               PROVE  StoreAt(b)' = IF b = a THEN "live" ELSE StoreAt(b)
    OBVIOUS
  <2>1. Doomed(b)' <=> Doomed(b)
    <3>1. Deallocating(t, b)' <=> Deallocating(t, b)
      BY <1>2 DEF Deallocating, DeallocPc
    <3> QED BY <1>0, <3>1, SameDoomed
  <2>2. kind'[b] = IF b = a THEN "obj" ELSE kind[b]
    BY <1>0, <1>2 DEF Typed, TypeOK, HeapTypeOK
  <2>3. ~Doomed(a)
    BY <1>2, WeakFacts DEF Doomed
  <2> QED BY <2>1, <2>2, <2>3 DEF StoreAt
<1>4. \A w \in WSlot : WatchAt(w)' = WatchAt(w)
  BY <1>2 DEF WatchAt
<1>5. SomePanic' <=> SomePanic
  BY <1>0, <1>2, SamePanic
<1>6. StoreAt(a) = "unused"
  BY <1>2 DEF StoreAt
<1>7. /\ storeView[a] = "unused" /\ watchView' = watchView
      /\ storeView' = [storeView EXCEPT ![a] = "live"]
  BY <1>3, <1>4, <1>6, Views, ViewsNext
<1> QED BY <1>1, <1>2, <1>5, <1>7 DEF Promise!Allocate, SomePanic

(* skev_retain shares, or ends in the panic.                               *)
LEMMA RetainMaps ==
    ASSUME IInv, NEW t \in Thread, NEW src \in Slot, NEW dst \in Slot,
           skev_retain(t, src, dst)
    PROVE  Promise!Share(src, dst) \/ Promise!Panic
<1>0. Typed /\ Others(t)
  BY OthersStay DEF IInv, Typed, Step, ArcStep
<1>1. /\ pc[t] = "idle" /\ strong[src] # Null /\ strong[dst] = Null
      /\ UNCHANGED <<kind, target, strong_alive, weak>>
      /\ \/ pc' = [pc EXCEPT ![t] = "overflow"] /\ strong' = strong
         \/ pc' = pc /\ obj' = obj /\ strong' = [strong EXCEPT ![dst] = strong[src]]
  BY DEF skev_retain, Idle, Call, callVars, entryVars
<1>2. \A b \in Addr : StoreAt(b)' = StoreAt(b)
  <2> SUFFICES ASSUME NEW b \in Addr PROVE StoreAt(b)' = StoreAt(b)
    OBVIOUS
  <2>1. Deallocating(t, b)' <=> Deallocating(t, b)
    BY <1>0, <1>1 DEF Deallocating, DeallocPc, Typed, TypeOK, ThreadsTypeOK
  <2>2. Doomed(b)' <=> Doomed(b)
    BY <1>0, <2>1, SameDoomed
  <2> QED BY <1>1, <2>2 DEF StoreAt
<1>3. \A w \in WSlot : WatchAt(w)' = WatchAt(w)
  BY <1>1 DEF WatchAt
<1>4. storeView' = storeView /\ watchView' = watchView
  BY <1>2, <1>3, Views, ViewsNext
<1>5. CASE pc' = [pc EXCEPT ![t] = "overflow"] /\ strong' = strong
  <2>1. SomePanic'
    BY <1>0, <1>5 DEF SomePanic, Typed, TypeOK, ThreadsTypeOK
  <2> QED BY <1>4, <1>5, <2>1 DEF Promise!Panic, SomePanic
<1>6. CASE pc' = pc /\ strong' = [strong EXCEPT ![dst] = strong[src]]
  <2>1. SomePanic' <=> SomePanic
    BY <1>6 DEF SomePanic
  <2> QED BY <1>1, <1>4, <1>6, <2>1 DEF Promise!Share, SomePanic
<1> QED BY <1>1, <1>5, <1>6

(* A count above one has another owner, or was left behind in a panic.     *)
LEMMA NotAlone ==
    ASSUME IInv, NEW s \in Slot, strong[s] # Null, rc[strong[s]] # 1
    PROVE  (\E r \in Slot \ {s} : strong[r] = strong[s]) \/ SomePanic
<1> DEFINE a == strong[s]
<1>1. a \in Addr /\ kind[a] = "obj" /\ ~Doomed(a)
  BY DEF IInv, TypeOK, ThreadsTypeOK, StrongSlotsLive
<1>2. rc[a] = Cardinality(Holders(a)) + Cardinality(Panicking(a))
  BY <1>1 DEF IInv, RefCountExact
<1>3. SUFFICES ASSUME \A r \in Slot \ {s} : strong[r] # a, ~SomePanic
               PROVE  FALSE
  OBVIOUS
<1>4. Holders(a) = {s} /\ Panicking(a) = {}
  BY <1>3 DEF Holders, Panicking, SomePanic
<1>5. Cardinality({s}) = 1 /\ Cardinality({}) = 0
  BY FS_Singleton, FS_EmptySet
<1> QED BY <1>2, <1>4, <1>5

(* The decrement of skev_release drops a reference, the last one dooms     *)
(* the object.                                                             *)
LEMMA DropMaps ==
    ASSUME IInv, IInv', NEW t \in Thread, NEW s \in Slot,
           skev_release(t, s) \/ skev_dealloc(t, s)
    PROVE  Promise!Drop(s)
<1>0. Typed /\ Others(t)
  BY OthersStay DEF IInv, Typed, Step, ArcStep
<1>1. PICK a \in Addr : a = strong[s] /\ strong[s] # Null
  BY <1>0 DEF Typed, TypeOK, ThreadsTypeOK, skev_release, skev_dealloc
<1>2. /\ pc[t] = "idle" /\ strong' = [strong EXCEPT ![s] = Null]
      /\ UNCHANGED <<kind, target, strong_alive, weak>>
      /\ \/ rc[a] = 1 /\ pc'[t] \in {"untrack", "on_dealloc"} /\ obj'[t] = a
         \/ rc[a] # 1 /\ pc' = pc /\ obj' = obj
  <2>1. pc' = [pc EXCEPT ![t] = "underflow"] => pc'[t] = "underflow"
    BY <1>0 DEF Typed, TypeOK, ThreadsTypeOK
  <2>2. pc'[t] # "underflow"
    BY DEF IInv, PanicsOK, NoUnderflow
  <2> QED
    BY <1>0, <1>1, <2>1, <2>2
    DEF skev_release, skev_dealloc, Idle, Call, callVars, heapVars, entryVars,
        LastCount, DeallocEntry, Typed, TypeOK, ThreadsTypeOK
<1>3. \A w \in WSlot : WatchAt(w)' = WatchAt(w)
  BY <1>2 DEF WatchAt
<1>4. watchView' = watchView
  BY <1>3, Views, ViewsNext
<1>5. SomePanic' <=> SomePanic
  BY <1>0, <1>2, SamePanic
<1>6. CASE rc[a] = 1 /\ pc'[t] \in {"untrack", "on_dealloc"} /\ obj'[t] = a
  <2>1. Holders(a) = {s}
    BY <1>0, <1>1, <1>6, SoleHolder DEF IInv
  <2>2. \A r \in Slot \ {s} : strong[r] # strong[s]
    BY <1>1, <2>1 DEF Holders
  <2>3. kind[a] = "obj"
    BY <1>1 DEF IInv, StrongSlotsLive
  <2>4. \A b \in Addr : StoreAt(b)' = IF b = a THEN "doomed" ELSE StoreAt(b)
    <3> SUFFICES ASSUME NEW b \in Addr
                 PROVE  StoreAt(b)' = IF b = a THEN "doomed" ELSE StoreAt(b)
      OBVIOUS
    <3>1. CASE b = a
      <4>1. Doomed(b)'
        BY <1>6, <3>1 DEF Doomed, Deallocating, DeallocPc
      <4> QED BY <1>2, <2>3, <3>1, <4>1 DEF StoreAt
    <3>2. CASE b # a
      <4>1. Deallocating(t, b)' <=> Deallocating(t, b)
        BY <1>2, <1>6, <3>2 DEF Deallocating, DeallocPc
      <4>2. Doomed(b)' <=> Doomed(b)
        BY <1>0, <4>1, SameDoomed
      <4> QED BY <1>2, <3>2, <4>2 DEF StoreAt
    <3> QED BY <3>1, <3>2
  <2>5. storeView' = [storeView EXCEPT ![strong[s]] = "doomed"]
    BY <1>1, <2>4, Views, ViewsNext
  <2> QED BY <1>1, <1>2, <1>4, <1>5, <2>2, <2>5 DEF Promise!Drop, SomePanic
<1>7. CASE rc[a] # 1 /\ pc' = pc /\ obj' = obj
  <2>1. (\E r \in Slot \ {s} : strong[r] = strong[s]) \/ SomePanic
    BY <1>1, <1>7, NotAlone
  <2>2. \A b \in Addr : StoreAt(b)' = StoreAt(b)
    BY <1>2, <1>7 DEF StoreAt, Doomed, Deallocating
  <2>3. storeView' = storeView
    BY <2>2, Views, ViewsNext
  <2> QED BY <1>1, <1>2, <1>4, <1>5, <2>1, <2>3 DEF Promise!Drop, SomePanic
<1> QED BY <1>2, <1>6, <1>7

(* The free of an object reclaims it: no weak reference sees it any more.  *)
LEMMA FreeObjectMaps ==
    ASSUME IInv, NEW t \in Thread, FreeObject(t)
    PROVE  Promise!Reclaim(obj[t])
<1>0. Typed /\ Others(t)
  BY OthersStay DEF IInv, Typed, Step, ArcStep
<1>1. PICK a \in Addr : a = obj[t] /\ Deallocating(t, a) /\ pc[t] = "free_obj"
  BY <1>0
  DEF Typed, TypeOK, ThreadsTypeOK, LocalsOK, FreeObject, ObjPc, Deallocating,
      DeallocPc
<1>2. /\ kind' = [kind EXCEPT ![a] = "free"]
      /\ target' = [target EXCEPT ![a] = Null]
      /\ strong_alive' = [strong_alive EXCEPT ![a] = FALSE]
      /\ strong' = strong /\ weak' = weak /\ pc'[t] = "idle"
  BY <1>0, <1>1
  DEF FreeObject, skev_free_raw, Return, Call, Typed, TypeOK, ThreadsTypeOK
<1>3. kind[a] = "obj"
  BY <1>1, WeakFacts
<1>4. StoreAt(a) = "doomed"
  BY <1>1, <1>3 DEF StoreAt, Doomed
<1>5. \A b \in Addr : StoreAt(b)' = IF b = a THEN "unused" ELSE StoreAt(b)
  <2> SUFFICES ASSUME NEW b \in Addr
               PROVE  StoreAt(b)' = IF b = a THEN "unused" ELSE StoreAt(b)
    OBVIOUS
  <2>1. kind'[b] = IF b = a THEN "free" ELSE kind[b]
    BY <1>0, <1>2 DEF Typed, TypeOK, HeapTypeOK
  <2>2. CASE b = a
    BY <2>1, <2>2 DEF StoreAt
  <2>3. CASE b # a
    <3>1. Deallocating(t, b)' <=> Deallocating(t, b)
      BY <1>1, <1>2, <2>3 DEF Deallocating, DeallocPc
    <3>2. Doomed(b)' <=> Doomed(b)
      BY <1>0, <3>1, SameDoomed
    <3> QED BY <2>1, <2>3, <3>2 DEF StoreAt
  <2> QED BY <2>2, <2>3
<1>6. \A w \in WSlot : WatchAt(w) # a /\ WatchAt(w)' = WatchAt(w)
  <2> SUFFICES ASSUME NEW w \in WSlot
               PROVE  WatchAt(w) # a /\ WatchAt(w)' = WatchAt(w)
    OBVIOUS
  <2>1. weak[w] # Null =>
          weak[w] \in Addr /\ kind[weak[w]] = "entry" /\ weak[w] # a
    BY <1>3, WeakFacts
  <2>2. a # Null /\ a # Dead
    BY ThreadsAssumption, WeakFacts
  <2>3. WatchAt(w) # a
    BY <1>1, <2>1, <2>2 DEF WatchAt, IInv, AliveTargetAllocated
  <2>4. WatchAt(w)' = WatchAt(w)
    BY <1>0, <1>2, <2>1 DEF WatchAt, Typed, TypeOK, HeapTypeOK
  <2> QED BY <2>3, <2>4
<1>7. SomePanic' <=> SomePanic
  BY <1>0, <1>1, <1>2, SamePanic
<1>8. /\ storeView[a] = "doomed" /\ storeView' = [storeView EXCEPT ![a] = "unused"]
      /\ \A w \in WSlot : watchView[w] # a
      /\ watchView' = watchView
  BY <1>4, <1>5, <1>6, Views, ViewsNext
<1> QED BY <1>1, <1>2, <1>7, <1>8 DEF Promise!Reclaim, SomePanic

(* The steps of arc.rs.                                                    *)
LEMMA ArcMaps ==
    ASSUME IInv, IInv', NEW t \in Thread, ArcStep(t)
    PROVE  [Promise!Next]_(Promise!vars)
<1>0. Typed /\ Others(t)
  BY OthersStay DEF IInv, Typed, Step
<1>1. CASE \E a \in Addr : AllocRaw(t, a)
  <2>1. slot[t] \in Slot
    BY <1>0, <1>1 DEF Typed, TypeOK, ThreadsTypeOK, LocalsOK, AllocRaw, AllocPc
  <2> QED BY <1>1, <2>1, AllocMaps DEF Promise!Next
<1>2. CASE \E src, dst \in Slot : skev_retain(t, src, dst)
  BY <1>2, RetainMaps DEF Promise!Next
<1>3. CASE \E s \in Slot : skev_release(t, s) \/ skev_dealloc(t, s)
  BY <1>3, DropMaps DEF Promise!Next
<1>4. CASE FreeObject(t)
  <2>1. obj[t] \in Addr
    BY <1>0, <1>4
    DEF Typed, TypeOK, ThreadsTypeOK, LocalsOK, FreeObject, ObjPc, DeallocPc
  <2> QED BY <1>4, <2>1, FreeObjectMaps DEF Promise!Next
<1>5. CASE (\E s \in Slot : skev_alloc(t, s)) \/ AllocOutOfMemory(t)
  <2>1. /\ pc[t] # "overflow" /\ pc'[t] # "overflow"
        /\ pc[t] \notin DeallocPc /\ pc'[t] \notin DeallocPc
        /\ UNCHANGED <<kind, target, strong_alive, strong, weak>>
    BY <1>0, <1>5
    DEF Typed, TypeOK, ThreadsTypeOK, skev_alloc, InitCas, AllocOutOfMemory, Idle,
        Call, Return, heapVars, entryVars, DeallocPc
  <2>2. \A a \in Addr : Deallocating(t, a)' <=> Deallocating(t, a)
    BY <2>1 DEF Deallocating
  <2> QED BY <1>0, <2>1, <2>2, HiddenStep
<1> QED BY <1>1, <1>2, <1>3, <1>4, <1>5 DEF ArcStep

(* ---- The theorem. ---- *)
LEMMA InitMaps == Init => Promise!Init
<1> SUFFICES ASSUME Init PROVE Promise!Init
  OBVIOUS
<1>1. \A a \in Addr : kind[a] = "free"
  BY DEF Init, HeapInit
<1>2. \A w \in WSlot : weak[w] = Null
  BY DEF Init, ThreadsInit
<1>3. \A t \in Thread : pc[t] # "overflow"
  BY DEF Init, ThreadsInit
<1>4. /\ storeView = [a \in Addr |-> "unused"]
      /\ watchView = [w \in WSlot |-> Null]
  BY <1>1, <1>2 DEF storeView, watchView
<1> QED BY <1>3, <1>4 DEF Promise!Init, Init, ThreadsInit

(* A stutter is one of the promise too.                                    *)
LEMMA StutterMaps == UNCHANGED vars => UNCHANGED Promise!vars
BY
DEF vars, callVars, heapVars, entryVars, Promise!vars, storeView, watchView, Doomed,
    Deallocating

(* ImplementsPromise: whatever the threads do, what the callers can see of *)
(* arc.rs and weak.rs is a behaviour of RefCounting: objects live while    *)
(* they are owned, are reclaimed when no weak reference sees them, and a   *)
(* weak reference never sees another object at the same address.           *)
THEOREM RuntimeKeepsPromise == Spec => ImplementsPromise
<1>1. ASSUME IInv, IInv', [Next]_vars
      PROVE  [Promise!Next]_(Promise!vars)
  <2>1. CASE UNCHANGED vars
    BY <2>1, StutterMaps
  <2>2. ASSUME NEW t \in Thread, Step(t)
        PROVE  [Promise!Next]_(Promise!vars)
    BY <1>1, <2>2, LifecycleMaps, LeakMaps, WeakMaps, ArcMaps DEF Step
  <2> QED BY <1>1, <2>1, <2>2 DEF Next
<1> QED
  BY <1>1, InitMaps, RuntimeSafe, PTL DEF Spec, ImplementsPromise, Promise!Spec

=============================================================================
