---------------------------- MODULE SkevRuntime ----------------------------
(***************************************************************************)
(* The runtime as its callers see it: any number of threads calling the    *)
(* exported functions of arc.rs, weak.rs and init.rs on shared objects,    *)
(* interleaved at every access to shared memory.  The components' actions  *)
(* come from their own modules; here each is completed with what it leaves *)
(* alone, and the properties that span the components are stated.          *)
(***************************************************************************)
EXTENDS Arc

vars == <<callVars, strong, weak, heapVars, table, leakVars, lifecycleVars>>

TypeOK ==
    /\ ThreadsTypeOK
    /\ HeapTypeOK
    /\ LifecycleTypeOK
    /\ LeakTypeOK
    /\ WeakTypeOK

Init ==
    /\ ThreadsInit
    /\ HeapInit
    /\ LifecycleInit
    /\ LeakInit
    /\ WeakInit

(* init.rs and leak.rs leave the heap and the side table alone ...         *)
LifecycleStep(t) ==
    /\ skev_init(t) \/ StoreReady(t) \/ skev_shutdown(t) \/ ShutdownCas(t)
    /\ UNCHANGED <<heapVars, table, leakVars>>

LeakStep(t) ==
    /\ track_alloc(t) \/ track_dealloc(t) \/ report_leaks(t) \/ StoreExitCode(t)
    /\ UNCHANGED <<heapVars, table>>

(* ... and weak.rs leaves the lifecycle and the tracker alone.             *)
WeakStep(t) ==
    /\ \/ \E s \in Slot, w \in WSlot : skev_weak_alloc(t, s, w)
       \/ WeakLookup(t)
       \/ WeakHit(t)
       \/ \E e \in Addr : WeakMiss(t, e)
       \/ WeakOutOfMemory(t)
       \/ \E w \in WSlot : skev_weak_upgrade(t, w)
       \/ DropUpgraded(t)
       \/ \E w \in WSlot : skev_weak_release(t, w)
       \/ OnDeallocRemove(t)
       \/ OnDeallocMark(t)
       \/ OnDeallocUnslot(t)
       \/ free_entry(t)
    /\ UNCHANGED <<leakVars, lifecycleVars>>

ArcStep(t) ==
    \/ \E s \in Slot : skev_alloc(t, s)
    \/ \E a \in Addr : AllocRaw(t, a)
    \/ AllocOutOfMemory(t)
    \/ \E src, dst \in Slot : skev_retain(t, src, dst)
    \/ \E s \in Slot : skev_release(t, s)
    \/ \E s \in Slot : skev_dealloc(t, s)
    \/ FreeObject(t)

Step(t) == LifecycleStep(t) \/ LeakStep(t) \/ WeakStep(t) \/ ArcStep(t)

Next == \E t \in Thread : Step(t)

Spec == Init /\ [][Next]_vars

(* The operating system runs every thread: a thread inside the runtime     *)
(* takes its next step unless it stays blocked.  A program need never call *)
(* the runtime, so calls are not fair; nor is a Mutex: a thread that waits *)
(* for a shard is not promised the lock while others keep taking it.       *)
FairSpec == Spec /\ \A t \in Thread : WF_vars(~Idle(t) /\ Step(t))

-----------------------------------------------------------------------------
(* Thread t is in skev_dealloc of object a (free_entry is also a tail of   *)
(* skev_weak_release, which has no object).                                *)
Deallocating(t, a) == pc[t] \in DeallocPc /\ obj[t] = a
Doomed(a) == \E t \in Thread : Deallocating(t, a)

Panicking(a) == {t \in Thread : pc[t] = "overflow" /\ obj[t] = a}

(* weak.rs:8-15, the virtual slot: the strong side's claim on entry e,     *)
(* until OnDeallocUnslot gives it up.                                      *)
StrongSide(e) ==
    \/ \E a \in Addr : table[a] = e
    \/ \E t \in Thread : pc[t] \in {"mark", "unslot"} /\ ent[t] = e

(* A strong slot never points at memory that is free, reused for another   *)
(* kind of block, or in skev_dealloc: the SAFETY comment of skev_retain,   *)
(* "ptr was returned by skev_alloc and has not yet been deallocated".      *)
StrongSlotsLive ==
    \A s \in Slot : strong[s] # Null => kind[strong[s]] = "obj" /\ ~Doomed(strong[s])

(* The count in the header is the number of slots that own one (a retain   *)
(* that overflowed leaves its increment behind while its thread panics).   *)
RefCountExact ==
    \A a \in Addr : kind[a] = "obj" /\ ~Doomed(a) =>
        /\ rc[a] = Cardinality(Holders(a)) + Cardinality(Panicking(a))
        /\ rc[a] > 0

(* arc.rs:100, "ref count just dropped to 0 - no other reference exists":  *)
(* one thread deallocates an object, it is still an object, and no slot    *)
(* owns a count of it.                                                     *)
DeallocExclusive ==
    \A t \in Thread, a \in Addr : Deallocating(t, a) =>
        /\ kind[a] = "obj"
        /\ Holders(a) = {}
        /\ \A u \in Thread : Deallocating(u, a) => u = t

(* arc.rs:28-29: retains racing past the threshold never make the count    *)
(* wrap; each thread that goes past it stops in its panic.                 *)
HeadroomKept ==
    \A a \in Addr :
        /\ rc[a] <= MaxRefcount + Cardinality(Panicking(a))
        /\ Cardinality(Holders(a)) <= MaxRefcount

(* A caller that releases what it owns never sees the underflow panic.     *)
NoUnderflow == \A t \in Thread : pc[t] # "underflow"

(* The entry a weak slot holds, and the one a thread is about to access    *)
(* without holding a weak claim, has not been freed.                       *)
EntriesLive ==
    /\ \A w \in WSlot : weak[w] # Null => kind[weak[w]] = "entry"
    /\ \A t \in Thread : ent[t] # Null => kind[ent[t]] = "entry"

(* weak.rs:33, weak_count is "1 (virtual strong slot) + N (active weak     *)
(* holders)"; an entry with neither is being freed.                        *)
WeakCountExact ==
    \A e \in Addr : kind[e] = "entry" =>
        /\ weak_count[e] = Cardinality(WeakHolders(e)) + IF StrongSide(e) THEN 1 ELSE 0
        /\ weak_count[e] = 0 => \E t \in Thread : pc[t] = "free_entry" /\ ent[t] = e

(* weak.rs:17-18, "exactly one party brings the count to 0 - no            *)
(* double-free is possible".                                               *)
OneEntryFreer ==
    \A t, u \in Thread :
        pc[t] = "free_entry" /\ pc[u] = "free_entry" /\ ent[t] = ent[u] => t = u

(* An entry that still says strong_alive has its target in memory: if the  *)
(* object is being deallocated, its strong_alive is still to be cleared.   *)
AliveTargetAllocated ==
    \A e \in Addr : kind[e] = "entry" /\ strong_alive[e] =>
        /\ kind[target[e]] = "obj"
        /\ \A t \in Thread : Deallocating(t, target[e]) =>
               pc[t] \in {"untrack", "on_dealloc", "mark"}

(* The side table has at most the one entry made for the object that now   *)
(* lives at an address: none survives its object to be found by the next   *)
(* object at the same address.                                             *)
TableMatchesHeap ==
    \A a \in Addr : table[a] # Null =>
        /\ kind[a] = "obj"
        /\ target[table[a]] = a /\ strong_alive[table[a]]
        /\ \A t \in Thread : Deallocating(t, a) => pc[t] \in {"untrack", "on_dealloc"}

(* Under leak-check the tracker holds exactly the objects whose skev_alloc *)
(* has returned and whose skev_dealloc has not begun.                      *)
Tracked(a) ==
    /\ kind[a] = "obj"
    /\ \A t \in Thread : obj[t] = a => pc[t] # "track_alloc"
    /\ \A t \in Thread : Deallocating(t, a) => pc[t] = "untrack"

TrackerExact == LeakCheck => \A a \in Addr : a \in tracker <=> Tracked(a)

(* init.rs:5-6, "only the CAS winner runs the init/shutdown body": one     *)
(* thread is in a body, the state says which, and no shutdown overlaps the *)
(* initialisation.                                                         *)
BodiesExclusive ==
    /\ \A t \in Thread : pc[t] \in {"init", "init_alloc"} => lifecycle = "INITING"
    /\ \A t \in Thread : pc[t] = "report" => lifecycle = "SHUTDOWN"
    /\ \A t, u \in {v \in Thread : pc[v] \in {"init", "init_alloc", "report"}} : t = u

(* init.rs:3 and :54, "UNINIT, INITING, READY, SHUTDOWN", "the state is    *)
(* one-way": a step leaves the state alone or takes it to the next one.    *)
LifecycleOneWay ==
    [][\/ lifecycle = "UNINIT" /\ lifecycle' = "INITING"
       \/ lifecycle = "INITING" /\ lifecycle' = "READY"
       \/ lifecycle = "READY" /\ lifecycle' = "SHUTDOWN"]_lifecycle

-----------------------------------------------------------------------------
(* Whoever wins the race to initialise, the runtime becomes ready, though  *)
(* the losers go on without waiting for it.                                *)
InitFinishes == lifecycle = "INITING" ~> lifecycle = "READY"

(* The lock of a shard is always given back: no wait for one is for ever   *)
(* because of the runtime itself.                                          *)
ShardReleased == \A a \in Addr : []<>ShardUnlocked(a)

(* If from some point on no thread is in skev_weak_alloc, every object     *)
(* whose last count was dropped is given back to the allocator.            *)
Borrowing == \E t \in Thread : pc[t] \in BorrowPc
DoomedFreed ==
    \A t \in Thread :
        [](pc[t] \in DeallocPc /\ []~Borrowing => <>(pc[t] = "idle"))

(* leak.rs:59-60 and init.rs:93-94: an object that is live throughout the  *)
(* shutdown makes the exit code 2, whatever the other threads allocate and *)
(* release behind the walk.                                                *)
LeakReported ==
    \A a \in Addr :
        []((\E t \in Thread : pc[t] = "report") /\ walk = 0 /\ [](a \in tracker)
              => <>(leak_exit_code = 2))

=============================================================================
