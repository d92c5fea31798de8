-------------------------------- MODULE Heap --------------------------------
(***************************************************************************)
(* alloc.rs with the default allocator: skev_alloc_raw and skev_free_raw   *)
(* call libc malloc and free (external).  A block is free, an object (its  *)
(* header's ref_count is rc) or a WeakEntry (target, weak_count and        *)
(* strong_alive).  An address that was freed can be returned again, for a  *)
(* block of either kind.  A free block has no contents to read: its fields *)
(* go back to their initial values.                                        *)
(***************************************************************************)
EXTENDS Threads

VARIABLES kind,          \* what each block is
          rc,            \* ref_count of an object
          target,        \* WeakEntry.target
          weak_count,    \* WeakEntry.weak_count
          strong_alive   \* WeakEntry.strong_alive

entryVars == <<target, weak_count, strong_alive>>
heapVars  == <<kind, rc, entryVars>>

HeapTypeOK ==
    /\ kind         \in [Addr -> {"free", "obj", "entry"}]
    /\ rc           \in [Addr -> Nat]
    /\ target       \in [Addr -> Addr \cup {Null}]
    /\ weak_count   \in [Addr -> Nat]
    /\ strong_alive \in [Addr -> BOOLEAN]

HeapInit ==
    /\ kind         = [a \in Addr |-> "free"]
    /\ rc           = [a \in Addr |-> 0]
    /\ target       = [a \in Addr |-> Null]
    /\ weak_count   = [a \in Addr |-> 0]
    /\ strong_alive = [a \in Addr |-> FALSE]

(* Faults that the runs must notice: the header store is lost; the entry   *)
(* is made without the strong side's virtual slot.                         *)
AllocObject_NoHeader(a) ==
    /\ kind[a] = "free"
    /\ kind' = [kind EXCEPT ![a] = "obj"]
    /\ UNCHANGED <<rc, entryVars>>

NewWeakCount_NoVirtualSlot == 1

(* skev_alloc_raw for an object, with the header store that follows it.    *)
AllocObject(a) ==
    /\ kind[a] = "free"
    /\ kind' = [kind EXCEPT ![a] = "obj"]
    /\ rc'   = [rc EXCEPT ![a] = 1]
    /\ UNCHANGED entryVars

(* alloc_entry: a WeakEntry with the virtual slot and the first weak claim *)
NewWeakCount == 2

alloc_entry(e, a) ==
    /\ kind[e] = "free"
    /\ kind'         = [kind EXCEPT ![e] = "entry"]
    /\ target'       = [target EXCEPT ![e] = a]
    /\ weak_count'   = [weak_count EXCEPT ![e] = NewWeakCount]
    /\ strong_alive' = [strong_alive EXCEPT ![e] = TRUE]
    /\ UNCHANGED rc

skev_free_raw(a) ==
    /\ kind'         = [kind EXCEPT ![a] = "free"]
    /\ rc'           = [rc EXCEPT ![a] = 0]
    /\ target'       = [target EXCEPT ![a] = Null]
    /\ weak_count'   = [weak_count EXCEPT ![a] = 0]
    /\ strong_alive' = [strong_alive EXCEPT ![a] = FALSE]

=============================================================================
