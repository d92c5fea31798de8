-------------------------- MODULE RuntimeInvariant --------------------------
(***************************************************************************)
(* The inductive strengthening of the safety properties of SkevRuntime:    *)
(* what the threads inside the runtime know of the memory they are about   *)
(* to touch.  TLC checks it on the run RuntimeHeap and SkevRuntimeProofs    *)
(* proves it.                                                              *)
(***************************************************************************)
EXTENDS SkevRuntime

(* Which locals a place inside a call has.                                 *)
ObjPc  == {"track_alloc"} \cup BorrowPc \cup (DeallocPc \ {"free_entry"}) \cup PanicPc
EntPc  == {"weak_found", "mark", "unslot", "free_entry"}
LockPc == {"weak_found", "weak_missing"}
InitPc == {"init", "init_alloc"}

LocalsOK ==
    \A t \in Thread :
        /\ pc[t] \in ObjPc => obj[t] # Null
        /\ obj[t] # Null => pc[t] \in ObjPc \cup {"free_entry", "upgraded"}
        /\ ent[t] # Null <=> pc[t] \in EntPc
        /\ slot[t] # Null <=> pc[t] \in AllocPc \cup BorrowPc
        /\ wslot[t] # Null <=> pc[t] \in BorrowPc
        /\ pc[t] \in {"track_alloc", "untrack", "report"} => LeakCheck

(* The slots a call fills or borrows: nobody else fills them, nobody       *)
(* releases them under it.                                                 *)
SlotsOK ==
    /\ \A t \in Thread :
           /\ pc[t] \in {"init_alloc", "alloc_raw"} => strong[slot[t]] = Null
           /\ pc[t] \in {"track_alloc"} \cup BorrowPc => strong[slot[t]] = obj[t]
           /\ pc[t] \in BorrowPc => weak[wslot[t]] = Null
    /\ \A t, u \in Thread :
           /\ pc[t] \in AllocPc /\ slot[t] = slot[u] => t = u
           /\ wslot[t] # Null /\ wslot[t] = wslot[u] => t = u

(* A new object is known to the call that made it alone, until that call   *)
(* returns.                                                                *)
NewbornOK ==
    \A t \in Thread, s \in Slot :
        pc[t] = "track_alloc" /\ strong[s] = obj[t] => s = slot[t]

(* A panic leaves its count behind, so that its object stays.              *)
PanicsOK ==
    /\ NoUnderflow
    /\ \A t \in Thread : pc[t] = "overflow" => kind[obj[t]] = "obj" /\ ~Doomed(obj[t])

(* The Mutex of a shard excludes, and what was read under it still holds.  *)
LocksOK ==
    /\ \A t, u \in Thread :
           pc[t] \in LockPc /\ pc[u] \in LockPc /\ ShardOf[obj[t]] = ShardOf[obj[u]] => t = u
    /\ \A t \in Thread :
           /\ pc[t] = "weak_found" => table[obj[t]] = ent[t]
           /\ pc[t] = "weak_missing" => table[obj[t]] = Null

(* The entry in the hands of a deallocation: orphaned, still the object's. *)
OrphansOK ==
    \A t \in Thread :
        /\ pc[t] \in {"mark", "unslot"} =>
               target[ent[t]] = obj[t] /\ (strong_alive[ent[t]] <=> pc[t] = "mark")
        /\ pc[t] = "free_entry" =>
               weak_count[ent[t]] = 0 /\ ~strong_alive[ent[t]] /\ ~StrongSide(ent[t])

(* An entry is in the table under its target as long as it says            *)
(* strong_alive, but for the moment between its removal and the store.     *)
AliveOK ==
    /\ \A a \in Addr : table[a] # Null => kind[table[a]] = "entry"
    /\ \A e \in Addr : kind[e] = "entry" /\ strong_alive[e] =>
           /\ target[e] # Null
           /\ \/ table[target[e]] = e
              \/ \E t \in Thread : pc[t] = "mark" /\ ent[t] = e

(* The walk and the exit code belong to the shutdown.                      *)
ShutdownOK ==
    /\ lifecycle \in {"UNINIT", "INITING", "READY"} => walk = 0 /\ leak_exit_code = 0
    /\ lifecycle = "INITING" => \E t \in Thread : pc[t] \in InitPc

IInv ==
    /\ TypeOK
    /\ LocalsOK
    /\ SlotsOK
    /\ NewbornOK
    /\ StrongSlotsLive
    /\ RefCountExact
    /\ DeallocExclusive
    /\ HeadroomKept
    /\ PanicsOK
    /\ LocksOK
    /\ EntriesLive
    /\ WeakCountExact
    /\ OneEntryFreer
    /\ OrphansOK
    /\ TableMatchesHeap
    /\ AliveOK
    /\ AliveTargetAllocated
    /\ TrackerExact
    /\ BodiesExclusive
    /\ ShutdownOK

=============================================================================
