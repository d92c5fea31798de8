---------------------------- MODULE RuntimeCounts ---------------------------
(***************************************************************************)
(* Counting in SkevRuntime: the words the counts are stored in, the finite *)
(* sets that count an object's holders, and what a count of one says of    *)
(* them.  Then, every step preserves the exactness of the two counts:      *)
(* ref_count in an object's header (RefCountExact and HeadroomKept, per    *)
(* object) and weak_count in a WeakEntry (WeakCountExact, per entry).      *)
(* All for any number of threads, slots, addresses and shards, and any     *)
(* thresholds that satisfy the assumptions.                                *)
(***************************************************************************)
EXTENDS RuntimeInvariant, FiniteSetTheorems, TLAPS

(* The types, with what a place inside a call says of its locals: they are *)
(* the values it will store.                                               *)
Typed == TypeOK /\ LocalsOK

(* The assumptions in the form the steps use.                              *)
LEMMA WordNat == Word \in Nat /\ Word > 1
BY ThreadsAssumption, WeakAssumption, FS_CardinalityType DEF WeakAssumption

(* fetch_add and fetch_sub stay in the word.                               *)
LEMMA WordOps ==
    ASSUME NEW n \in Nat
    PROVE  Inc(n) \in Nat /\ Dec(n) \in Nat
BY WordNat DEF Inc, Dec

(* The count of survivors stays a u32.                                     *)
LEMMA TallyTyped ==
    ASSUME NEW n \in 0..CountMax, NEW S \in SUBSET Addr
    PROVE  saturating_add(n, Cardinality(S)) \in 0..CountMax
BY LeakAssumption, FS_Subset, FS_CardinalityType DEF saturating_add

(* The holders of an object and the threads that panic over it are counted *)
(* by finite sets.                                                         *)
LEMMA CountsNat ==
    ASSUME NEW a
    PROVE  /\ IsFiniteSet(Holders(a)) /\ Cardinality(Holders(a)) \in Nat
           /\ IsFiniteSet(Panicking(a)) /\ Cardinality(Panicking(a)) \in Nat
           /\ Cardinality(Panicking(a)) <= Cardinality(Thread)
           /\ IsFiniteSet(WeakHolders(a)) /\ Cardinality(WeakHolders(a)) \in Nat
           /\ Cardinality(WeakHolders(a)) <= Cardinality(WSlot)
<1>1. Holders(a) \in SUBSET Slot /\ Panicking(a) \in SUBSET Thread
      /\ WeakHolders(a) \in SUBSET WSlot
  BY DEF Holders, Panicking, WeakHolders
<1> QED BY <1>1, ThreadsAssumption, FS_Subset, FS_CardinalityType

(* A count of one means that its slot is the only holder, and that no      *)
(* thread left a count behind in a panic.                                  *)
LEMMA SoleHolder ==
    ASSUME Typed, StrongSlotsLive, RefCountExact,
           NEW s \in Slot, strong[s] # Null, rc[strong[s]] = 1
    PROVE  Holders(strong[s]) = {s} /\ Panicking(strong[s]) = {}
<1> DEFINE a == strong[s]
<1>1. a \in Addr /\ kind[a] = "obj" /\ ~Doomed(a)
  BY DEF Typed, TypeOK, ThreadsTypeOK, StrongSlotsLive
<1>2. Cardinality(Holders(a)) + Cardinality(Panicking(a)) = 1
  BY <1>1 DEF RefCountExact
<1>3. s \in Holders(a)
  BY DEF Holders
<1>4. Cardinality(Holders(a)) # 0
  BY <1>3, CountsNat, FS_EmptySet
<1>5. Cardinality(Holders(a)) = 1 /\ Cardinality(Panicking(a)) = 0
  BY <1>2, <1>4, CountsNat
<1>6. PICK x : Holders(a) = {x}
  BY <1>5, CountsNat, FS_Singleton
<1>7. Panicking(a) = {}
  BY <1>5, CountsNat, FS_EmptySet
<1> QED BY <1>3, <1>6, <1>7

(* fetch_add and fetch_sub away from the ends of the word.                 *)
LEMMA WordSteps ==
    ASSUME NEW n \in Nat
    PROVE  /\ n + 1 < Word => Inc(n) = n + 1
           /\ n # 0 /\ n < Word => Dec(n) = n - 1
<1>1. ASSUME n + 1 < Word PROVE (n + 1) % Word = n + 1
  BY <1>1, WordNat
<1>2. ASSUME n # 0, n < Word PROVE (n + Word - 1) % Word = n - 1
  BY <1>2, WordNat
<1> QED BY <1>1, <1>2 DEF Inc, Dec

(* The entry a weak slot holds has a count; with a count of one, the slot  *)
(* has the only claim.                                                     *)
LEMMA SoleClaim ==
    ASSUME Typed, EntriesLive, WeakCountExact, NEW w \in WSlot, weak[w] # Null
    PROVE  /\ weak[w] \in Addr /\ weak_count[weak[w]] \in Nat \ {0}
           /\ weak_count[weak[w]] = 1 =>
                  WeakHolders(weak[w]) = {w} /\ ~StrongSide(weak[w])
<1> DEFINE e == weak[w]
<1>1. e \in Addr /\ kind[e] = "entry" /\ weak_count[e] \in Nat
  BY DEF Typed, TypeOK, ThreadsTypeOK, HeapTypeOK, EntriesLive
<1>2. weak_count[e] = Cardinality(WeakHolders(e)) + IF StrongSide(e) THEN 1 ELSE 0
  BY <1>1 DEF WeakCountExact
<1>3. w \in WeakHolders(e)
  BY DEF WeakHolders
<1>4. Cardinality(WeakHolders(e)) \in Nat \ {0}
  BY <1>3, CountsNat, FS_EmptySet
<1>5. weak_count[e] # 0
  BY <1>1, <1>2, <1>4
<1>6. ASSUME weak_count[e] = 1 PROVE WeakHolders(e) = {w} /\ ~StrongSide(e)
  <2>1. Cardinality(WeakHolders(e)) = 1 /\ ~StrongSide(e)
    BY <1>6, <1>2, <1>4
  <2>2. PICK x : WeakHolders(e) = {x}
    BY <2>1, CountsNat, FS_Singleton
  <2> QED BY <2>1, <2>2, <1>3
<1> QED BY <1>1, <1>5, <1>6

(* An entry about to be freed is in no weak slot; and the strong side's    *)
(* claim, when it is the last, leaves none.                                *)
LEMMA UnclaimedEntry ==
    ASSUME Typed, EntriesLive, WeakCountExact, OrphansOK, NEW t \in Thread
    PROVE  /\ pc[t] = "free_entry" => \A w \in WSlot : weak[w] # ent[t]
           /\ pc[t] \in {"mark", "unslot"} => weak_count[ent[t]] \in Nat \ {0}
           /\ pc[t] \in {"mark", "unslot"} /\ weak_count[ent[t]] = 1 =>
                  \A w \in WSlot : weak[w] # ent[t]
<1>1. ASSUME pc[t] = "free_entry", NEW w \in WSlot, weak[w] = ent[t] PROVE FALSE
  <2>1. ent[t] # Null /\ weak_count[ent[t]] = 0
    BY <1>1 DEF Typed, LocalsOK, EntPc, OrphansOK
  <2> QED BY <1>1, <2>1, SoleClaim
<1>2. ASSUME pc[t] \in {"mark", "unslot"}
      PROVE  /\ weak_count[ent[t]] \in Nat \ {0}
             /\ weak_count[ent[t]] = 1 => \A w \in WSlot : weak[w] # ent[t]
  <2>1. ent[t] \in Addr /\ kind[ent[t]] = "entry" /\ StrongSide(ent[t])
    BY <1>2
    DEF Typed, TypeOK, ThreadsTypeOK, LocalsOK, EntPc, EntriesLive, StrongSide
  <2>2. weak_count[ent[t]] = Cardinality(WeakHolders(ent[t])) + 1
    BY <2>1 DEF WeakCountExact
  <2>3. ASSUME weak_count[ent[t]] = 1 PROVE WeakHolders(ent[t]) = {}
    BY <2>2, <2>3, CountsNat, FS_EmptySet
  <2>4. Cardinality(WeakHolders(ent[t])) \in Nat
    BY CountsNat
  <2>5. weak_count[ent[t]] \in Nat \ {0}
    BY <2>2, <2>4
  <2> QED BY <2>3, <2>5 DEF WeakHolders
<1> QED BY <1>1, <1>2

(* The threads that stand in a panic after a step are still no more than   *)
(* all threads.                                                            *)
LEMMA CountsNatPrime ==
    ASSUME NEW a
    PROVE  Cardinality(Panicking(a)') <= Cardinality(Thread)
<1>1. Panicking(a)' \in SUBSET Thread
  BY DEF Panicking
<1> QED BY <1>1, ThreadsAssumption, FS_Subset

(* One more holder counts one more.                                        *)
LEMMA OneMore ==
    ASSUME NEW S, IsFiniteSet(S), NEW v, v \notin S
    PROVE  Cardinality(S \cup {v}) = Cardinality(S) + 1
BY FS_AddElement

-----------------------------------------------------------------------------

(* RefCountExact and HeadroomKept of one object.                           *)
Counted(x) ==
    /\ kind[x] = "obj" /\ ~Doomed(x) =>
           rc[x] = Cardinality(Holders(x)) + Cardinality(Panicking(x)) /\ rc[x] > 0
    /\ rc[x] <= MaxRefcount + Cardinality(Panicking(x))
    /\ Cardinality(Holders(x)) <= MaxRefcount

(* A step that does not touch the object's count.                          *)
LEMMA CountedQuiet ==
    ASSUME NEW x \in Addr, Counted(x),
           Holders(x)' = Holders(x), Panicking(x)' = Panicking(x),
           rc'[x] = rc[x],
           kind'[x] = "obj" /\ ~Doomed(x)' => kind[x] = "obj" /\ ~Doomed(x)
    PROVE  Counted(x)'
BY DEF Counted

(* retain adds a holder or, past the threshold, a panic; release takes a   *)
(* holder away, and with the last one dooms the object.                    *)
LEMMA CountedStep ==
    ASSUME Typed, SlotsOK, StrongSlotsLive, DeallocExclusive, EntriesLive,
           PanicsOK,
           NEW x \in Addr, Counted(x), NEW t \in Thread, Step(t)
    PROVE  Counted(x)'
<1> USE ThreadsAssumption
    DEF Typed, TypeOK, ThreadsTypeOK, HeapTypeOK, LocalsOK, WeakTypeOK,
        PcValue, AllocPc, BorrowPc, DeallocPc, PanicPc, ObjPc, EntPc,
        heapVars, entryVars, leakVars, lifecycleVars, callVars, Idle, Call,
        Return, Goto, EntriesLive, DeallocExclusive, SlotsOK
<1>1. CASE LifecycleStep(t)
  <2>1. Holders(x)' = Holders(x)
    BY <1>1
    DEF Holders, LifecycleStep, skev_init, InitCas, StoreReady, skev_shutdown,
        ShutdownCas, ShutdownCasWins
  <2>2. Panicking(x)' = Panicking(x)
    BY <1>1
    DEF Panicking, LifecycleStep, skev_init, InitCas, StoreReady,
        skev_shutdown, ShutdownCas, ShutdownCasWins
  <2>3. /\ rc'[x] = rc[x]
        /\ kind'[x] = "obj" /\ ~Doomed(x)' => kind[x] = "obj" /\ ~Doomed(x)
    BY <1>1
    DEF Doomed, Deallocating, LifecycleStep, skev_init, InitCas, StoreReady,
        skev_shutdown, ShutdownCas, ShutdownCasWins
  <2> QED BY <2>1, <2>2, <2>3, CountedQuiet
<1>2. CASE LeakStep(t)
  <2>1. Holders(x)' = Holders(x)
    BY <1>2
    DEF Holders, LeakStep, track_alloc, track_dealloc, report_leaks,
        LastShard, StoreExitCode
  <2>2. Panicking(x)' = Panicking(x)
    BY <1>2
    DEF Panicking, LeakStep, track_alloc, track_dealloc, report_leaks,
        LastShard, StoreExitCode
  <2>3. /\ rc'[x] = rc[x]
        /\ kind'[x] = "obj" /\ ~Doomed(x)' => kind[x] = "obj" /\ ~Doomed(x)
    BY <1>2
    DEF Doomed, Deallocating, LeakStep, track_alloc, track_dealloc,
        report_leaks, LastShard, StoreExitCode
  <2> QED BY <2>1, <2>2, <2>3, CountedQuiet
<1>3. CASE
      /\ \/ \E s \in Slot, w \in WSlot : skev_weak_alloc(t, s, w)
         \/ WeakLookup(t)
         \/ WeakHit(t)
         \/ \E e \in Addr : WeakMiss(t, e)
         \/ WeakOutOfMemory(t)
         \/ \E w \in WSlot : skev_weak_upgrade(t, w)
         \/ DropUpgraded(t)
         \/ \E w \in WSlot : skev_weak_release(t, w)
         \/ OnDeallocRemove(t)
         \/ OnDeallocMark(t)
         \/ OnDeallocUnslot(t)
      /\ UNCHANGED <<leakVars, lifecycleVars>>
  <2>1. Holders(x)' = Holders(x)
    BY <1>3
    DEF Holders, skev_weak_alloc, Reserved, BusyWeak, WeakLookup,
        ShardUnlocked, WeakHit, WeakMiss, alloc_entry, NewWeakCount,
        WeakOutOfMemory, skev_weak_upgrade, DropUpgraded, skev_weak_release,
        LastClaim, OnDeallocRemove, OnDeallocMark, OnDeallocUnslot
  <2>2. Panicking(x)' = Panicking(x)
    BY <1>3
    DEF Panicking, skev_weak_alloc, Reserved, BusyWeak, WeakLookup,
        ShardUnlocked, WeakHit, WeakMiss, alloc_entry, NewWeakCount,
        WeakOutOfMemory, skev_weak_upgrade, DropUpgraded, skev_weak_release,
        LastClaim, OnDeallocRemove, OnDeallocMark, OnDeallocUnslot
  <2>3. /\ rc'[x] = rc[x]
        /\ kind'[x] = "obj" /\ ~Doomed(x)' => kind[x] = "obj" /\ ~Doomed(x)
    BY <1>3
    DEF Doomed, Deallocating, skev_weak_alloc, Reserved, BusyWeak, WeakLookup,
        ShardUnlocked, WeakHit, WeakMiss, alloc_entry, NewWeakCount,
        WeakOutOfMemory, skev_weak_upgrade, DropUpgraded, skev_weak_release,
        LastClaim, OnDeallocRemove, OnDeallocMark, OnDeallocUnslot
  <2> QED BY <2>1, <2>2, <2>3, CountedQuiet
<1>4. ASSUME free_entry(t), UNCHANGED <<leakVars, lifecycleVars>>
      PROVE  Counted(x)'
  <2>1. Holders(x)' = Holders(x)
    BY <1>4 DEF Holders, free_entry, skev_free_raw
  <2>2. Panicking(x)' = Panicking(x)
    BY <1>4 DEF Panicking, free_entry, skev_free_raw
  <2>3. CASE x = ent[t]
    <3>1. rc'[x] = 0 /\ kind'[x] = "free"
      BY <1>4, <2>3 DEF free_entry, skev_free_raw
    <3> QED BY <3>1, <2>1, <2>2, CountsNat, ArcAssumption DEF Counted
  <2>4. CASE x # ent[t]
    <3>1. /\ rc'[x] = rc[x]
          /\ kind'[x] = "obj" /\ ~Doomed(x)' => kind[x] = "obj" /\ ~Doomed(x)
      BY <1>4, <2>4 DEF Doomed, Deallocating, free_entry, skev_free_raw
    <3> QED BY <2>1, <2>2, <3>1, CountedQuiet
  <2> QED BY <2>3, <2>4
<1>5. CASE
      \/ \E s \in Slot : skev_alloc(t, s)
      \/ AllocOutOfMemory(t)
  <2>1. Holders(x)' = Holders(x)
    BY <1>5 DEF Holders, skev_alloc, InitCas, Reserved, AllocOutOfMemory
  <2>2. Panicking(x)' = Panicking(x)
    BY <1>5 DEF Panicking, skev_alloc, InitCas, Reserved, AllocOutOfMemory
  <2>3. /\ rc'[x] = rc[x]
        /\ kind'[x] = "obj" /\ ~Doomed(x)' => kind[x] = "obj" /\ ~Doomed(x)
    BY <1>5
    DEF Doomed, Deallocating, skev_alloc, InitCas, Reserved, AllocOutOfMemory
  <2> QED BY <2>1, <2>2, <2>3, CountedQuiet
<1>6. ASSUME NEW a \in Addr, AllocRaw(t, a)
      PROVE  Counted(x)'
  <2>1. Panicking(x)' = Panicking(x)
    BY <1>6 DEF Panicking, AllocRaw
  <2>2. CASE x = a
    <3>1. kind[x] = "free" /\ rc'[x] = 1
      BY <1>6, <2>2 DEF AllocRaw, AllocObject
    <3>2. Holders(x) = {} /\ Panicking(x) = {}
      BY <3>1 DEF Holders, Panicking, StrongSlotsLive, PanicsOK
    <3>3. slot[t] \in Slot
      BY <1>6 DEF AllocRaw
    <3>4. Holders(x)' = {slot[t]}
      BY <1>6, <2>2, <3>2, <3>3 DEF Holders, AllocRaw
    <3>5a. Cardinality({slot[t]}) = 1 /\ Cardinality({}) = 0
      BY FS_Singleton, FS_EmptySet
    <3>5. Cardinality(Holders(x)') = 1 /\ Cardinality(Panicking(x)') = 0
      BY <3>2, <3>4, <2>1, <3>5a
    <3> QED BY <3>1, <3>5, ArcAssumption DEF Counted
  <2>3. CASE x # a
    <3>1. Holders(x)' = Holders(x)
      BY <1>6, <2>3 DEF Holders, AllocRaw
    <3>2. /\ rc'[x] = rc[x]
          /\ kind'[x] = "obj" /\ ~Doomed(x)' => kind[x] = "obj" /\ ~Doomed(x)
      BY <1>6, <2>3 DEF Doomed, Deallocating, AllocRaw, AllocObject
    <3> QED BY <2>1, <3>1, <3>2, CountedQuiet
  <2> QED BY <2>2, <2>3
<1>7. ASSUME NEW src \in Slot, NEW dst \in Slot, skev_retain(t, src, dst)
      PROVE  Counted(x)'
  <2> DEFINE H == Holders(x)  P == Panicking(x)
  <2>4. rc[x] \in Nat
    OBVIOUS
  <2>0. x = strong[src] => kind[x] = "obj" /\ ~Doomed(x) /\ rc[x] = Cardinality(H) + Cardinality(P)
    BY <1>7 DEF skev_retain, StrongSlotsLive, Counted
  <2>1. CASE x = strong[src] /\ rc[x] >= MaxRefcount
    <3>1. t \notin P /\ Panicking(x)' = P \cup {t}
      BY <1>7, <2>1 DEF Panicking, skev_retain, Overflows
    <3>2. H' = H
      BY <1>7, <2>1 DEF Holders, skev_retain, Overflows
    <3>3a. IsFiniteSet(P)
      BY CountsNat
    <3>3b. Cardinality(P \cup {t}) = Cardinality(P) + 1
      BY <3>1, <3>3a, FS_AddElement
    <3>3. Cardinality(P') = Cardinality(P) + 1
      BY <3>1, <3>3b
    <3>4. rc[x] + 1 < Word
      <4>1. Cardinality(P') <= Cardinality(Thread)
        BY CountsNatPrime
      <4>2. Cardinality(Thread) \in Nat /\ Cardinality(P) \in Nat /\ Cardinality(H) \in Nat
        BY CountsNat, ThreadsAssumption, FS_CardinalityType
      <4> QED BY <2>0, <2>1, <3>3, <4>1, <4>2, ArcAssumption, WordNat
              DEF Counted
    <3>5. rc'[x] = rc[x] + 1
      BY <1>7, <2>1, <3>4, WordSteps DEF skev_retain
    <3>6. kind'[x] = "obj" /\ ~Doomed(x)'
      BY <1>7, <2>0, <2>1 DEF skev_retain, Doomed, Deallocating
    <3> QED BY <2>0, <2>1, <3>2, <3>3, <3>5, <3>6, CountsNat, ArcAssumption
            DEF Counted
  <2>2. CASE x = strong[src] /\ rc[x] < MaxRefcount
    <3>0. ~Overflows(rc[strong[src]])
      BY <2>2, <2>4, ArcAssumption DEF Overflows
    <3>1. dst \notin H /\ Holders(x)' = H \cup {dst}
      BY <1>7, <2>2, <3>0 DEF Holders, skev_retain
    <3>2. P' = P
      BY <1>7, <2>2, <3>0 DEF Panicking, skev_retain
    <3>3a. IsFiniteSet(H)
      BY CountsNat
    <3>3b. Cardinality(H \cup {dst}) = Cardinality(H) + 1
      BY <3>1, <3>3a, FS_AddElement
    <3>3. Cardinality(H') = Cardinality(H) + 1
      BY <3>1, <3>3b
    <3>4. rc'[x] = rc[x] + 1
      <4>1. Cardinality(Thread) \in Nat
        BY ThreadsAssumption, FS_CardinalityType
      <4>2. rc[x] + 1 < Word
        BY <2>2, <4>1, ArcAssumption, WordNat
      <4> QED BY <1>7, <2>2, <4>2, WordSteps DEF skev_retain
    <3>5. kind'[x] = "obj" /\ ~Doomed(x)'
      BY <1>7, <2>0, <2>2 DEF skev_retain, Doomed, Deallocating, Overflows
    <3> QED BY <2>0, <2>2, <3>2, <3>3, <3>4, <3>5, CountsNat, ArcAssumption
            DEF Counted
  <2>3. CASE x # strong[src]
    <3>1. Holders(x)' = Holders(x)
      BY <1>7, <2>3 DEF Holders, skev_retain, Overflows
    <3>2. Panicking(x)' = Panicking(x)
      BY <1>7, <2>3 DEF Panicking, skev_retain, Overflows
    <3>3. /\ rc'[x] = rc[x]
          /\ kind'[x] = "obj" /\ ~Doomed(x)' => kind[x] = "obj" /\ ~Doomed(x)
      BY <1>7, <2>3 DEF Doomed, Deallocating, skev_retain, Overflows
    <3> QED BY <3>1, <3>2, <3>3, CountedQuiet
  <2> QED BY <2>1, <2>2, <2>3, <2>4, ArcAssumption
<1>8. ASSUME NEW s \in Slot, skev_release(t, s)
      PROVE  Counted(x)'
  <2> DEFINE H == Holders(x)  P == Panicking(x)
  <2>1. CASE x = strong[s]
    <3>1. kind[x] = "obj" /\ ~Doomed(x) /\ rc[x] = Cardinality(H) + Cardinality(P) /\ rc[x] > 0
      BY <1>8, <2>1 DEF skev_release, StrongSlotsLive, Counted
    <3>2. s \in H /\ H' = H \ {s}
      BY <1>8, <2>1 DEF Holders, skev_release
    <3>3. Cardinality(H') = Cardinality(H) - 1
      BY <3>2, CountsNat, FS_RemoveElement, ZenonT(60)
    <3>4. P' = P
      BY <1>8 DEF Panicking, skev_release, DeallocEntry
    <3>5. rc[x] < Word
      <4>1. Cardinality(Thread) \in Nat /\ Cardinality(P) \in Nat /\ Cardinality(P) <= Cardinality(Thread)
        BY CountsNat, ThreadsAssumption, FS_CardinalityType
      <4> QED BY <4>1, ArcAssumption, WordNat DEF Counted
    <3>6. rc'[x] = rc[x] - 1
      BY <1>8, <2>1, <3>1, <3>5, WordSteps DEF skev_release
    <3>7. rc[x] = 1 => Doomed(x)'
      BY <1>8, <2>1
      DEF skev_release, LastCount, DeallocEntry, Doomed, Deallocating
    <3> QED BY <3>1, <3>3, <3>4, <3>6, <3>7, CountsNat, ArcAssumption
            DEF Counted
  <2>2. CASE x # strong[s]
    <3>1. Holders(x)' = Holders(x)
      BY <1>8, <2>2 DEF Holders, skev_release, DeallocEntry
    <3>2. Panicking(x)' = Panicking(x)
      BY <1>8, <2>2 DEF Panicking, skev_release, DeallocEntry
    <3>3. /\ rc'[x] = rc[x]
          /\ kind'[x] = "obj" /\ ~Doomed(x)' => kind[x] = "obj" /\ ~Doomed(x)
      BY <1>8, <2>2 DEF Doomed, Deallocating, skev_release, DeallocEntry
    <3> QED BY <3>1, <3>2, <3>3, CountedQuiet
  <2> QED BY <2>1, <2>2
<1>9. ASSUME NEW s \in Slot, skev_dealloc(t, s)
      PROVE  Counted(x)'
  <2> DEFINE H == Holders(x)  P == Panicking(x)
  <2>1. CASE x = strong[s]
    <3>1. s \in H /\ H' = H \ {s}
      BY <1>9, <2>1 DEF Holders, skev_dealloc
    <3>2. Cardinality(H') = Cardinality(H) - 1
      BY <3>1, CountsNat, FS_RemoveElement, ZenonT(60)
    <3>3. P' = P
      BY <1>9 DEF Panicking, skev_dealloc, DeallocEntry
    <3>4. Doomed(x)' /\ rc'[x] = rc[x]
      BY <1>9, <2>1 DEF skev_dealloc, DeallocEntry, Doomed, Deallocating
    <3> QED BY <3>2, <3>3, <3>4, CountsNat, ArcAssumption DEF Counted
  <2>2. CASE x # strong[s]
    <3>1. Holders(x)' = Holders(x)
      BY <1>9, <2>2 DEF Holders, skev_dealloc, DeallocEntry
    <3>2. Panicking(x)' = Panicking(x)
      BY <1>9, <2>2 DEF Panicking, skev_dealloc, DeallocEntry
    <3>3. /\ rc'[x] = rc[x]
          /\ kind'[x] = "obj" /\ ~Doomed(x)' => kind[x] = "obj" /\ ~Doomed(x)
      BY <1>9, <2>2 DEF Doomed, Deallocating, skev_dealloc, DeallocEntry
    <3> QED BY <3>1, <3>2, <3>3, CountedQuiet
  <2> QED BY <2>1, <2>2
<1>10. CASE FreeObject(t)
  <2>1. Holders(x)' = Holders(x)
    BY <1>10 DEF Holders, FreeObject, skev_free_raw
  <2>2. Panicking(x)' = Panicking(x)
    BY <1>10 DEF Panicking, FreeObject, skev_free_raw
  <2>3. CASE x = obj[t]
    <3>1. rc'[x] = 0 /\ kind'[x] = "free"
      BY <1>10, <2>3 DEF FreeObject, skev_free_raw
    <3> QED BY <3>1, <2>1, <2>2, CountsNat, ArcAssumption DEF Counted
  <2>4. CASE x # obj[t]
    <3>1. /\ rc'[x] = rc[x]
          /\ kind'[x] = "obj" /\ ~Doomed(x)' => kind[x] = "obj" /\ ~Doomed(x)
      BY <1>10, <2>4 DEF Doomed, Deallocating, FreeObject, skev_free_raw
    <3> QED BY <2>1, <2>2, <3>1, CountedQuiet
  <2> QED BY <2>3, <2>4
<1>11. CASE WeakStep(t)
  BY <1>11, <1>3, <1>4 DEF WeakStep
<1>12. CASE ArcStep(t)
  BY <1>12, <1>5, <1>6, <1>7, <1>8, <1>9, <1>10 DEF ArcStep
<1> QED BY <1>1, <1>2, <1>11, <1>12 DEF Step

(* WeakCountExact of one entry.                                            *)
Freed(x) == \E t \in Thread : pc[t] = "free_entry" /\ ent[t] = x
Claims(x) == Cardinality(WeakHolders(x)) + IF StrongSide(x) THEN 1 ELSE 0

Claimed(x) == kind[x] = "entry" => weak_count[x] = Claims(x) /\ (weak_count[x] = 0 => Freed(x))

(* A step that does not touch the entry's count.                           *)
LEMMA ClaimedQuiet ==
    ASSUME NEW x \in Addr, Claimed(x),
           kind'[x] = "entry" => kind[x] = "entry",
           weak_count'[x] = weak_count[x],
           WeakHolders(x)' = WeakHolders(x),
           StrongSide(x)' <=> StrongSide(x),
           Freed(x) => Freed(x)'
    PROVE  Claimed(x)'
<1>1. Claims(x)' = Claims(x)
  BY DEF Claims
<1> QED BY <1>1 DEF Claimed

(* A hit adds a holder, a release takes one away, and the deallocation of  *)
(* the object gives up the virtual slot; whoever takes the count to zero   *)
(* frees the entry.                                                        *)
LEMMA ClaimedStep ==
    ASSUME Typed, SlotsOK, StrongSlotsLive, DeallocExclusive, EntriesLive,
           LocksOK, TableMatchesHeap,
           AliveOK, OrphansOK, OneEntryFreer,
           NEW x \in Addr, Claimed(x), NEW t \in Thread, Step(t)
    PROVE  Claimed(x)'
<1> USE ThreadsAssumption
    DEF Typed, TypeOK, ThreadsTypeOK, HeapTypeOK, LocalsOK, WeakTypeOK,
        PcValue, AllocPc, BorrowPc, DeallocPc, PanicPc, ObjPc, EntPc,
        heapVars, entryVars, leakVars, lifecycleVars, callVars, Idle, Call,
        Return, Goto, SlotsOK, StrongSlotsLive, DeallocExclusive, EntriesLive,
        LocksOK, TableMatchesHeap,
           AliveOK, OrphansOK, OneEntryFreer, Deallocating
<1>1. CASE LifecycleStep(t)
  <2>1. WeakHolders(x)' = WeakHolders(x)
    BY <1>1
    DEF WeakHolders, LifecycleStep, skev_init, InitCas, StoreReady,
        skev_shutdown, ShutdownCas, ShutdownCasWins
  <2>2. (kind'[x] = "entry" => kind[x] = "entry") /\ weak_count'[x] = weak_count[x]
    BY <1>1
    DEF LifecycleStep, skev_init, InitCas, StoreReady, skev_shutdown,
        ShutdownCas, ShutdownCasWins
  <2>3. (StrongSide(x)' <=> StrongSide(x)) /\ (Freed(x) => Freed(x)')
    BY <1>1
    DEF StrongSide, Freed, LifecycleStep, skev_init, InitCas, StoreReady,
        skev_shutdown, ShutdownCas, ShutdownCasWins
  <2> QED BY <2>1, <2>2, <2>3, ClaimedQuiet
<1>2. CASE LeakStep(t)
  <2>1. WeakHolders(x)' = WeakHolders(x)
    BY <1>2
    DEF WeakHolders, LeakStep, track_alloc, track_dealloc, report_leaks,
        LastShard, StoreExitCode
  <2>2. (kind'[x] = "entry" => kind[x] = "entry") /\ weak_count'[x] = weak_count[x]
    BY <1>2
    DEF LeakStep, track_alloc, track_dealloc, report_leaks, LastShard,
        StoreExitCode
  <2>3. (StrongSide(x)' <=> StrongSide(x)) /\ (Freed(x) => Freed(x)')
    BY <1>2
    DEF StrongSide, Freed, LeakStep, track_alloc, track_dealloc, report_leaks,
        LastShard, StoreExitCode
  <2> QED BY <2>1, <2>2, <2>3, ClaimedQuiet
<1>3. CASE
      /\ \/ \E s \in Slot, w \in WSlot : skev_weak_alloc(t, s, w)
         \/ WeakLookup(t)
         \/ WeakOutOfMemory(t)
         \/ \E w \in WSlot : skev_weak_upgrade(t, w)
         \/ DropUpgraded(t)
         \/ OnDeallocRemove(t)
         \/ OnDeallocMark(t)
      /\ UNCHANGED <<leakVars, lifecycleVars>>
  <2>1. WeakHolders(x)' = WeakHolders(x)
    BY <1>3
    DEF WeakHolders, skev_weak_alloc, Reserved, BusyWeak, WeakLookup,
        ShardUnlocked, WeakOutOfMemory, skev_weak_upgrade, DropUpgraded,
        OnDeallocRemove, OnDeallocMark
  <2>2. (kind'[x] = "entry" => kind[x] = "entry") /\ weak_count'[x] = weak_count[x]
    BY <1>3
    DEF skev_weak_alloc, Reserved, BusyWeak, WeakLookup, ShardUnlocked,
        WeakOutOfMemory, skev_weak_upgrade, DropUpgraded, OnDeallocRemove,
        OnDeallocMark
  <2>3. (StrongSide(x)' <=> StrongSide(x)) /\ (Freed(x) => Freed(x)')
    BY <1>3
    DEF StrongSide, Freed, skev_weak_alloc, Reserved, BusyWeak, WeakLookup,
        ShardUnlocked, WeakOutOfMemory, skev_weak_upgrade, DropUpgraded,
        OnDeallocRemove, OnDeallocMark
  <2> QED BY <2>1, <2>2, <2>3, ClaimedQuiet
<1>4. ASSUME WeakHit(t), UNCHANGED <<leakVars, lifecycleVars>>
      PROVE  Claimed(x)'
  <2> DEFINE W == WeakHolders(x)
  <2>1. CASE x = ent[t]
    <3>1. kind[x] = "entry" /\ weak_count[x] = Claims(x) /\ wslot[t] \in WSlot
      BY <1>4, <2>1 DEF WeakHit, Claimed
    <3>2. StrongSide(x)
      BY <1>4, <2>1 DEF WeakHit, StrongSide
    <3>3. StrongSide(x)'
      BY <1>4, <3>2 DEF WeakHit, StrongSide
    <3>4. WeakHolders(x)' = W \cup {wslot[t]}
      BY <1>4, <2>1, <3>1 DEF WeakHolders, WeakHit
    <3>4a. wslot[t] \notin W
      BY <1>4, <2>1, <3>1 DEF WeakHolders, WeakHit
    <3>5. IsFiniteSet(W) /\ Cardinality(W) \in Nat
      BY CountsNat
    <3>5a. IsFiniteSet(W)
      BY CountsNat
    <3>6. Cardinality(W \cup {wslot[t]}) = Cardinality(W) + 1
      BY <3>4a, <3>5a, OneMore
    <3>7. W \cup {wslot[t]} \in SUBSET WSlot
      BY <3>1 DEF WeakHolders
    <3>8. Cardinality(W \cup {wslot[t]}) <= Cardinality(WSlot) /\ Cardinality(WSlot) \in Nat
      BY <3>7, ThreadsAssumption, FS_Subset, FS_CardinalityType
    <3>9. weak_count[x] = Cardinality(W) + 1
      BY <3>1, <3>2 DEF Claims
    <3>10. weak_count[x] + 1 < Word
      BY <3>5, <3>6, <3>8, <3>9, WeakAssumption
    <3>11. weak_count'[x] = weak_count[x] + 1
      BY <1>4, <2>1, <3>10, WordSteps DEF WeakHit
    <3>12. Claims(x)' = Cardinality(W) + 2
      BY <3>3, <3>4, <3>5, <3>6 DEF Claims
    <3> QED BY <3>5, <3>9, <3>11, <3>12 DEF Claimed
  <2>2. CASE x # ent[t]
    <3>1. WeakHolders(x)' = WeakHolders(x)
      BY <1>4, <2>2 DEF WeakHolders, WeakHit
    <3>2. (kind'[x] = "entry" => kind[x] = "entry") /\ weak_count'[x] = weak_count[x]
      BY <1>4, <2>2 DEF WeakHit
    <3>3. (StrongSide(x)' <=> StrongSide(x)) /\ (Freed(x) => Freed(x)')
      BY <1>4, <2>2 DEF StrongSide, Freed, WeakHit
    <3> QED BY <3>1, <3>2, <3>3, ClaimedQuiet
  <2> QED BY <2>1, <2>2
<1>5. ASSUME NEW e \in Addr, WeakMiss(t, e), UNCHANGED <<leakVars,
             lifecycleVars>>
      PROVE  Claimed(x)'
  <2>1. CASE x = e
    <3>1. kind[x] = "free" /\ weak_count'[x] = 2 /\ wslot[t] \in WSlot
      BY <1>5, <2>1 DEF WeakMiss, alloc_entry, NewWeakCount
    <3>2. WeakHolders(x)' = {wslot[t]}
      BY <1>5, <2>1, <3>1 DEF WeakHolders, WeakMiss
    <3>3. StrongSide(x)'
      BY <1>5, <2>1 DEF WeakMiss, StrongSide
    <3>4. Cardinality({wslot[t]}) = 1
      BY FS_Singleton
    <3>5. Claims(x)' = 2
      BY <3>2, <3>3, <3>4 DEF Claims
    <3> QED BY <3>1, <3>5 DEF Claimed
  <2>2. CASE x # e
    <3>1. WeakHolders(x)' = WeakHolders(x)
      BY <1>5, <2>2 DEF WeakHolders, WeakMiss, alloc_entry, NewWeakCount
    <3>2. (kind'[x] = "entry" => kind[x] = "entry") /\ weak_count'[x] = weak_count[x]
      BY <1>5, <2>2 DEF WeakMiss, alloc_entry, NewWeakCount
    <3>3. (StrongSide(x)' <=> StrongSide(x)) /\ (Freed(x) => Freed(x)')
      BY <1>5, <2>2 DEF StrongSide, Freed, WeakMiss, alloc_entry, NewWeakCount
    <3> QED BY <3>1, <3>2, <3>3, ClaimedQuiet
  <2> QED BY <2>1, <2>2
<1>6. ASSUME NEW w \in WSlot, skev_weak_release(t, w), UNCHANGED <<leakVars,
             lifecycleVars>>
      PROVE  Claimed(x)'
  <2> DEFINE W == WeakHolders(x)
  <2>1. CASE x = weak[w]
    <3>1. kind[x] = "entry" /\ weak_count[x] = Claims(x)
      BY <1>6, <2>1 DEF skev_weak_release, Claimed
    <3>2. w \in W /\ WeakHolders(x)' = W \ {w}
      BY <1>6, <2>1 DEF WeakHolders, skev_weak_release
    <3>3. IsFiniteSet(W) /\ Cardinality(W) \in Nat /\ Cardinality(W) <= Cardinality(WSlot)
      BY CountsNat
    <3>4. Cardinality(W \ {w}) = Cardinality(W) - 1 /\ Cardinality(W \ {w}) \in Nat
      BY <3>2, <3>3, FS_RemoveElement, FS_CardinalityType
    <3>5. StrongSide(x)' <=> StrongSide(x)
      BY <1>6, SMTT(20) DEF skev_weak_release, StrongSide
    <3>6. weak_count[x] # 0 /\ weak_count[x] < Word
      <4>1. Cardinality(WSlot) \in Nat
        BY ThreadsAssumption, FS_CardinalityType
      <4> QED BY <3>1, <3>3, <3>4, <4>1, WeakAssumption DEF Claims
    <3>7. weak_count'[x] = weak_count[x] - 1
      BY <1>6, <2>1, <3>6, WordSteps DEF skev_weak_release
    <3>8. Claims(x)' = Claims(x) - 1
      BY <3>2, <3>3, <3>4, <3>5 DEF Claims
    <3>9. weak_count[x] = 1 => Freed(x)'
      BY <1>6, <2>1 DEF skev_weak_release, LastClaim, Freed
    <3> QED BY <3>1, <3>7, <3>8, <3>9 DEF Claimed
  <2>2. CASE x # weak[w]
    <3>1. WeakHolders(x)' = WeakHolders(x)
      BY <1>6, <2>2 DEF WeakHolders, skev_weak_release
    <3>2. (kind'[x] = "entry" => kind[x] = "entry") /\ weak_count'[x] = weak_count[x]
      BY <1>6, <2>2 DEF skev_weak_release
    <3>3. (StrongSide(x)' <=> StrongSide(x)) /\ (Freed(x) => Freed(x)')
      BY <1>6, <2>2, SMTT(20) DEF StrongSide, Freed, skev_weak_release
    <3> QED BY <3>1, <3>2, <3>3, ClaimedQuiet
  <2> QED BY <2>1, <2>2
<1>7. ASSUME OnDeallocUnslot(t), UNCHANGED <<leakVars, lifecycleVars>>
      PROVE  Claimed(x)'
  <2> DEFINE W == WeakHolders(x)
  <2>1. CASE x = ent[t]
    <3>1. kind[x] = "entry" /\ weak_count[x] = Claims(x)
      BY <1>7, <2>1 DEF OnDeallocUnslot, Claimed
    <3>2. WeakHolders(x)' = W
      BY <1>7 DEF WeakHolders, OnDeallocUnslot
    <3>3. Cardinality(W) \in Nat /\ Cardinality(W) <= Cardinality(WSlot)
      BY CountsNat
    <3>4. StrongSide(x) /\ ~StrongSide(x)'
      BY <1>7, <2>1, SMTT(20) DEF OnDeallocUnslot, StrongSide
    <3>5. weak_count[x] = Cardinality(W) + 1
      BY <3>1, <3>4 DEF Claims
    <3>6. weak_count[x] < Word
      <4>1. Cardinality(WSlot) \in Nat
        BY ThreadsAssumption, FS_CardinalityType
      <4> QED BY <3>3, <3>5, <4>1, WeakAssumption
    <3>7. weak_count'[x] = weak_count[x] - 1
      BY <1>7, <2>1, <3>3, <3>5, <3>6, WordSteps DEF OnDeallocUnslot
    <3>8. Claims(x)' = Cardinality(W)
      BY <3>2, <3>3, <3>4 DEF Claims
    <3>9. weak_count[x] = 1 => Freed(x)'
      BY <1>7, <2>1 DEF OnDeallocUnslot, LastClaim, Freed
    <3> QED BY <3>3, <3>5, <3>7, <3>8, <3>9 DEF Claimed
  <2>2. CASE x # ent[t]
    <3>1. WeakHolders(x)' = WeakHolders(x)
      BY <1>7, <2>2 DEF WeakHolders, OnDeallocUnslot
    <3>2. (kind'[x] = "entry" => kind[x] = "entry") /\ weak_count'[x] = weak_count[x]
      BY <1>7, <2>2 DEF OnDeallocUnslot
    <3>3. /\ table' = table /\ pc[t] \in {"unslot", "free_entry"} /\ ent[t] # x
          /\ pc'[t] \in {"idle", "free_entry", "free_obj"}
          /\ pc'[t] = "free_entry" => ent'[t] = ent[t]
          /\ \A u \in Thread \ {t} : pc'[u] = pc[u] /\ ent'[u] = ent[u]
      BY <1>7, <2>2 DEF OnDeallocUnslot
    <3>4. StrongSide(x)' <=> StrongSide(x)
      BY <3>3, SMTT(20) DEF StrongSide
    <3>5. Freed(x) => Freed(x)'
      BY <3>3 DEF Freed
    <3> QED BY <3>1, <3>2, <3>4, <3>5, ClaimedQuiet
  <2> QED BY <2>1, <2>2
<1>8. ASSUME free_entry(t), UNCHANGED <<leakVars, lifecycleVars>>
      PROVE  Claimed(x)'
  <2>1. CASE x = ent[t]
    BY <1>8, <2>1 DEF free_entry, skev_free_raw, Claimed
  <2>2. CASE x # ent[t]
    <3>1. WeakHolders(x)' = WeakHolders(x)
      BY <1>8, <2>2 DEF WeakHolders, free_entry, skev_free_raw
    <3>2. (kind'[x] = "entry" => kind[x] = "entry") /\ weak_count'[x] = weak_count[x]
      BY <1>8, <2>2 DEF free_entry, skev_free_raw
    <3>3. /\ table' = table /\ pc[t] \in {"unslot", "free_entry"} /\ ent[t] # x
          /\ pc'[t] \in {"idle", "free_entry", "free_obj"}
          /\ pc'[t] = "free_entry" => ent'[t] = ent[t]
          /\ \A u \in Thread \ {t} : pc'[u] = pc[u] /\ ent'[u] = ent[u]
      BY <1>8, <2>2 DEF free_entry
    <3>4. StrongSide(x)' <=> StrongSide(x)
      BY <3>3, SMTT(20) DEF StrongSide
    <3>5. Freed(x) => Freed(x)'
      BY <3>3 DEF Freed
    <3> QED BY <3>1, <3>2, <3>4, <3>5, ClaimedQuiet
  <2> QED BY <2>1, <2>2
<1>9. CASE
      \/ \E s \in Slot : skev_alloc(t, s)
      \/ AllocOutOfMemory(t)
      \/ \E src \in Slot, dst \in Slot : skev_retain(t, src, dst)
      \/ \E s \in Slot : skev_release(t, s)
      \/ \E s \in Slot : skev_dealloc(t, s)
  <2>1. WeakHolders(x)' = WeakHolders(x)
    BY <1>9
    DEF WeakHolders, skev_alloc, InitCas, Reserved, AllocOutOfMemory,
        skev_retain, Overflows, skev_release, DeallocEntry, Busy, skev_dealloc
  <2>2. (kind'[x] = "entry" => kind[x] = "entry") /\ weak_count'[x] = weak_count[x]
    BY <1>9
    DEF skev_alloc, InitCas, Reserved, AllocOutOfMemory, skev_retain,
        Overflows, skev_release, DeallocEntry, Busy, skev_dealloc
  <2>3. (StrongSide(x)' <=> StrongSide(x)) /\ (Freed(x) => Freed(x)')
    BY <1>9
    DEF StrongSide, Freed, skev_alloc, InitCas, Reserved, AllocOutOfMemory,
        skev_retain, Overflows, skev_release, DeallocEntry, Busy, skev_dealloc
  <2> QED BY <2>1, <2>2, <2>3, ClaimedQuiet
<1>10. ASSUME NEW a \in Addr, AllocRaw(t, a)
      PROVE  Claimed(x)'
  <2>1. CASE x = a
    BY <1>10, <2>1 DEF AllocRaw, AllocObject, Claimed
  <2>2. CASE x # a
    <3>1. WeakHolders(x)' = WeakHolders(x)
      BY <1>10, <2>2 DEF WeakHolders, AllocRaw, AllocObject
    <3>2. (kind'[x] = "entry" => kind[x] = "entry") /\ weak_count'[x] = weak_count[x]
      BY <1>10, <2>2 DEF AllocRaw, AllocObject
    <3>3. (StrongSide(x)' <=> StrongSide(x)) /\ (Freed(x) => Freed(x)')
      BY <1>10, <2>2, SMTT(20) DEF StrongSide, Freed, AllocRaw, AllocObject
    <3> QED BY <3>1, <3>2, <3>3, ClaimedQuiet
  <2> QED BY <2>1, <2>2
<1>11. CASE FreeObject(t)
  <2>1. CASE x = obj[t]
    BY <1>11, <2>1 DEF FreeObject, skev_free_raw, Claimed
  <2>2. CASE x # obj[t]
    <3>1. WeakHolders(x)' = WeakHolders(x)
      BY <1>11, <2>2 DEF WeakHolders, FreeObject, skev_free_raw
    <3>2. (kind'[x] = "entry" => kind[x] = "entry") /\ weak_count'[x] = weak_count[x]
      BY <1>11, <2>2 DEF FreeObject, skev_free_raw
    <3>3. (StrongSide(x)' <=> StrongSide(x)) /\ (Freed(x) => Freed(x)')
      BY <1>11, <2>2 DEF StrongSide, Freed, FreeObject, skev_free_raw
    <3> QED BY <3>1, <3>2, <3>3, ClaimedQuiet
  <2> QED BY <2>1, <2>2
<1>12. CASE WeakStep(t)
  BY <1>12, <1>3, <1>4, <1>5, <1>6, <1>7, <1>8 DEF WeakStep
<1>13. CASE ArcStep(t)
  BY <1>13, <1>9, <1>10, <1>11 DEF ArcStep
<1> QED BY <1>1, <1>2, <1>12, <1>13 DEF Step

=============================================================================
