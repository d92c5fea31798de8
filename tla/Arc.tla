-------------------------------- MODULE Arc --------------------------------
(***************************************************************************)
(* arc.rs: allocation of an object with one count, retain, release, and    *)
(* the deallocation that the last release runs: the object leaves the leak *)
(* tracker (Leak.tla), its weak entry is orphaned (Weak.tla), its memory   *)
(* is returned.  A panic on overflow or underflow diverges: the thread     *)
(* stands in it until abort() ends the process, and the others run on.     *)
(***************************************************************************)
EXTENDS Weak

CONSTANT MaxRefcount   \* MAX_REFCOUNT

(* "Leaves headroom for racing retains across cores before u64 would wrap" *)
ASSUME ArcAssumption == /\ MaxRefcount \in Nat \ {0}
                        /\ MaxRefcount + Cardinality(Thread) < Word

(* Faults: only the retain that meets the threshold panics; a count too    *)
(* early is taken for the last; deallocation forgets the tracker.          *)
Overflows_Exact(old) == old = MaxRefcount
LastCount_Early(old) == old <= 2
DeallocEntry_Untracked == "on_dealloc"

Overflows(old) == old >= MaxRefcount
LastCount(old) == old = 1

DeallocEntry == IF LeakCheck THEN "untrack" ELSE "on_dealloc"

(* skev_alloc: ensure_init first.  The result will fill slot s.            *)
skev_alloc(t, s) ==
    /\ Idle(t)
    /\ strong[s] = Null /\ ~Reserved(s)
    /\ InitCas(t, "init_alloc", "alloc_raw", s)
    /\ UNCHANGED <<heapVars, leakVars, table, strong, weak>>

(* skev_alloc_raw and the store of ref_count.                              *)
AllocRaw(t, a) ==
    /\ pc[t] = "alloc_raw"
    /\ AllocObject(a)
    /\ strong' = [strong EXCEPT ![slot[t]] = a]
    /\ IF LeakCheck
       THEN Call(t, "track_alloc", a, Null, slot[t], Null)
       ELSE Return(t)
    /\ UNCHANGED <<leakVars, lifecycleVars, table, weak>>

(* malloc fails: skev_alloc returns NULL.                                  *)
AllocOutOfMemory(t) ==
    /\ pc[t] = "alloc_raw"
    /\ Return(t)
    /\ UNCHANGED <<heapVars, leakVars, lifecycleVars, table, strong, weak>>

(* skev_retain of the object in src; the count it takes is owned by dst.   *)
skev_retain(t, src, dst) ==
    /\ Idle(t)
    /\ strong[src] # Null /\ ~Reserved(src)
    /\ strong[dst] = Null /\ ~Reserved(dst)
    /\ rc' = [rc EXCEPT ![strong[src]] = Inc(@)]
    /\ IF Overflows(rc[strong[src]])
       THEN Call(t, "overflow", strong[src], Null, Null, Null) /\ UNCHANGED strong
       ELSE strong' = [strong EXCEPT ![dst] = strong[src]] /\ UNCHANGED callVars
    /\ UNCHANGED <<kind, entryVars, leakVars, lifecycleVars, table, weak>>

(* skev_release of the count slot s owns.                                  *)
skev_release(t, s) ==
    /\ Idle(t)
    /\ strong[s] # Null /\ ~Busy(s)
    /\ strong' = [strong EXCEPT ![s] = Null]
    /\ rc' = [rc EXCEPT ![strong[s]] = Dec(@)]
    /\ \/ /\ rc[strong[s]] = 0
          /\ Call(t, "underflow", strong[s], Null, Null, Null)
       \/ /\ LastCount(rc[strong[s]])
          /\ Call(t, DeallocEntry, strong[s], Null, Null, Null)
       \/ /\ rc[strong[s]] # 0 /\ ~LastCount(rc[strong[s]])
          /\ UNCHANGED callVars
    /\ UNCHANGED <<kind, entryVars, leakVars, lifecycleVars, table, weak>>

(* skev_dealloc called by the program itself, which holds the only count.  *)
skev_dealloc(t, s) ==
    /\ Idle(t)
    /\ strong[s] # Null /\ ~Busy(s)
    /\ rc[strong[s]] = 1
    /\ strong' = [strong EXCEPT ![s] = Null]
    /\ Call(t, DeallocEntry, strong[s], Null, Null, Null)
    /\ UNCHANGED <<heapVars, leakVars, lifecycleVars, table, weak>>

(* The last statement of skev_dealloc: the object's memory is returned.    *)
FreeObject(t) ==
    /\ pc[t] = "free_obj"
    /\ skev_free_raw(obj[t])
    /\ Return(t)
    /\ UNCHANGED <<leakVars, lifecycleVars, table, strong, weak>>

=============================================================================
