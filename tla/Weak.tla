-------------------------------- MODULE Weak --------------------------------
(***************************************************************************)
(* weak.rs: the side table of WeakEntry blocks.  The table is in shards by *)
(* target address, each behind a Mutex; the guard is held from the lookup  *)
(* of skev_weak_alloc to its return, and by on_dealloc for the removal     *)
(* alone.  The entry's fields are atomics that the other functions reach   *)
(* without the lock.                                                       *)
(***************************************************************************)
EXTENDS Heap, Leak

CONSTANT Word   \* 2^64: the values of an AtomicU64

ASSUME WeakAssumption == Word \in Nat /\ Cardinality(WSlot) + 1 < Word

VARIABLE table   \* WEAK_TABLE: the entry of each object, or Null

WeakTypeOK == table \in [Addr -> Addr \cup {Null}]
WeakInit   == table = [a \in Addr |-> Null]

Inc(n) == (n + 1) % Word            \* fetch_add(1)
Dec(n) == (n + Word - 1) % Word     \* fetch_sub(1)

(* The lock of the shard of address a is free: no thread stands between    *)
(* `shard.table.lock()` and the end of skev_weak_alloc.                    *)
ShardUnlocked(a) ==
    \A t \in Thread : pc[t] \in {"weak_found", "weak_missing"} => ShardOf[obj[t]] # ShardOf[a]

(* Fault: a claim too early is taken for the last.                         *)
LastClaim_Early(old) == old <= 2

LastClaim(old) == old = 1

(* skev_weak_alloc(target): the caller lends the pointer in slot s for the *)
(* time of the call and stores the result in weak slot w.                  *)
skev_weak_alloc(t, s, w) ==
    /\ Idle(t)
    /\ strong[s] # Null /\ ~Reserved(s)
    /\ weak[w] = Null /\ ~BusyWeak(w)
    /\ Call(t, "weak_lock", strong[s], Null, s, w)
    /\ UNCHANGED <<table, heapVars, strong, weak>>

(* lock, and table.get                                                     *)
WeakLookup(t) ==
    /\ pc[t] = "weak_lock"
    /\ ShardUnlocked(obj[t])
    /\ IF table[obj[t]] # Null
       THEN Call(t, "weak_found", obj[t], table[obj[t]], slot[t], wslot[t])
       ELSE Goto(t, "weak_missing")
    /\ UNCHANGED <<table, heapVars, strong, weak>>

(* fetch_add on the entry found; the guard is dropped on return.           *)
WeakHit(t) ==
    /\ pc[t] = "weak_found"
    /\ weak_count' = [weak_count EXCEPT ![ent[t]] = Inc(@)]
    /\ weak' = [weak EXCEPT ![wslot[t]] = ent[t]]
    /\ Return(t)
    /\ UNCHANGED <<table, kind, rc, target, strong_alive, strong>>

(* alloc_entry and table.insert                                            *)
WeakMiss(t, e) ==
    /\ pc[t] = "weak_missing"
    /\ alloc_entry(e, obj[t])
    /\ table' = [table EXCEPT ![obj[t]] = e]
    /\ weak' = [weak EXCEPT ![wslot[t]] = e]
    /\ Return(t)
    /\ UNCHANGED strong

(* Fault: alloc_entry is tried again, under the lock, until malloc has     *)
(* memory.                                                                 *)
WeakOutOfMemory_Retry(t) ==
    /\ pc[t] = "weak_missing"
    /\ UNCHANGED <<callVars, table, heapVars, strong, weak>>

(* malloc fails: nothing is inserted and the caller gets NULL.             *)
WeakOutOfMemory(t) ==
    /\ pc[t] = "weak_missing"
    /\ Return(t)
    /\ UNCHANGED <<table, heapVars, strong, weak>>

(* skev_weak_upgrade: one load of strong_alive decides the result; a dead  *)
(* target gives NULL.  No count is taken.                                  *)
skev_weak_upgrade(t, w) ==
    /\ Idle(t)
    /\ weak[w] # Null
    /\ strong_alive[weak[w]]
    /\ Call(t, "upgraded", target[weak[w]], Null, Null, Null)
    /\ UNCHANGED <<table, heapVars, strong, weak>>

(* The transient check the pointer was wanted for is over.                 *)
DropUpgraded(t) ==
    /\ pc[t] = "upgraded"
    /\ Return(t)
    /\ UNCHANGED <<table, heapVars, strong, weak>>

skev_weak_release(t, w) ==
    /\ Idle(t)
    /\ weak[w] # Null
    /\ weak' = [weak EXCEPT ![w] = Null]
    /\ weak_count' = [weak_count EXCEPT ![weak[w]] = Dec(@)]
    /\ IF LastClaim(weak_count[weak[w]])
       THEN Call(t, "free_entry", Null, weak[w], Null, Null)
       ELSE UNCHANGED callVars
    /\ UNCHANGED <<table, kind, rc, target, strong_alive, strong>>

(* Fault: the entry is looked up and stays in the table.                   *)
OnDeallocRemove_Get(t) ==
    /\ pc[t] = "on_dealloc"
    /\ ShardUnlocked(obj[t])
    /\ IF table[obj[t]] # Null
       THEN Call(t, "mark", obj[t], table[obj[t]], Null, Null)
       ELSE Goto(t, "free_obj")
    /\ UNCHANGED <<table, heapVars, strong, weak>>

(* on_dealloc: lock, table.remove, unlock.                                 *)
OnDeallocRemove(t) ==
    /\ pc[t] = "on_dealloc"
    /\ ShardUnlocked(obj[t])
    /\ table' = [table EXCEPT ![obj[t]] = Null]
    /\ IF table[obj[t]] # Null
       THEN Call(t, "mark", obj[t], table[obj[t]], Null, Null)
       ELSE Goto(t, "free_obj")
    /\ UNCHANGED <<heapVars, strong, weak>>

(* Fault: the entry is given up without telling its holders.               *)
OnDeallocMark_NoStore(t) ==
    /\ pc[t] = "mark"
    /\ Goto(t, "unslot")
    /\ UNCHANGED <<table, heapVars, strong, weak>>

(* strong_alive.store(false)                                               *)
OnDeallocMark(t) ==
    /\ pc[t] = "mark"
    /\ strong_alive' = [strong_alive EXCEPT ![ent[t]] = FALSE]
    /\ Goto(t, "unslot")
    /\ UNCHANGED <<table, kind, rc, target, weak_count, strong, weak>>

(* Fault: the deallocation waits until no weak holder is left.             *)
OnDeallocUnslot_Wait(t) ==
    /\ pc[t] = "unslot"
    /\ LastClaim(weak_count[ent[t]])
    /\ weak_count' = [weak_count EXCEPT ![ent[t]] = Dec(@)]
    /\ Goto(t, "free_entry")
    /\ UNCHANGED <<table, kind, rc, target, strong_alive, strong, weak>>

(* fetch_sub of the virtual strong slot                                    *)
OnDeallocUnslot(t) ==
    /\ pc[t] = "unslot"
    /\ weak_count' = [weak_count EXCEPT ![ent[t]] = Dec(@)]
    /\ IF LastClaim(weak_count[ent[t]])
       THEN Goto(t, "free_entry")
       ELSE Call(t, "free_obj", obj[t], Null, Null, Null)
    /\ UNCHANGED <<table, kind, rc, target, strong_alive, strong, weak>>

(* free_entry, the tail of skev_weak_release (which then returns) and of   *)
(* on_dealloc (which goes on to free the object).                          *)
free_entry(t) ==
    /\ pc[t] = "free_entry"
    /\ skev_free_raw(ent[t])
    /\ IF obj[t] = Null
       THEN Return(t)
       ELSE Call(t, "free_obj", obj[t], Null, Null, Null)
    /\ UNCHANGED <<table, strong, weak>>

=============================================================================
