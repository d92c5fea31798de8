------------------------------ MODULE Threads ------------------------------
(***************************************************************************)
(* The threads that call the Skev runtime, and the references they hold.   *)
(*                                                                         *)
(* The runtime (src/skev-runtime) is a library of C functions without      *)
(* threads of its own: any thread of the program may be inside any of its  *)
(* functions.  pc[t] is the place inside the runtime where thread t stands *)
(* ("idle" outside of it) and obj, ent, slot and wslot are the locals of   *)
(* the call it is in.                                                      *)
(*                                                                         *)
(* A strong slot is a variable or field of the Skev program that owns one  *)
(* count of the object it points at; a weak slot is one that holds a       *)
(* `*mut WeakEntry`.  Slots belong to the program and not to a thread: a   *)
(* count taken by one thread is released by any other.  That a caller owns *)
(* the count it releases and the pointer it lends is the contract the      *)
(* SAFETY comments state ("caller upholds ...").                           *)
(***************************************************************************)
EXTENDS Naturals, FiniteSets

CONSTANTS Thread,   \* the threads of the program
          Slot,     \* its strong references
          WSlot,    \* its weak references
          Addr,     \* the addresses malloc can return
          Null      \* the null pointer

ASSUME ThreadsAssumption == /\ IsFiniteSet(Thread)
                            /\ IsFiniteSet(Slot)
                            /\ IsFiniteSet(WSlot)
                            /\ Null \notin Addr \cup Slot \cup WSlot

VARIABLES pc,       \* where each thread is inside the runtime
          obj,      \* `ptr` / `target` of its call: an object's address
          ent,      \* `entry` of its call: a WeakEntry's address
          slot,     \* the strong slot its call fills or borrows
          wslot,    \* the weak slot its call fills
          strong,   \* the object each strong slot owns a count of
          weak      \* the entry each weak slot holds

callVars == <<pc, obj, ent, slot, wslot>>

(* The places inside a call; one name per step another thread can see.     *)
AllocPc    == {"init_alloc", "alloc_raw", "track_alloc"}
BorrowPc   == {"weak_lock", "weak_found", "weak_missing"}
DeallocPc  == {"untrack", "on_dealloc", "mark", "unslot", "free_entry", "free_obj"}
PanicPc    == {"overflow", "underflow"}
PcValue    == {"idle", "init", "shutdown", "report", "upgraded"}
              \cup AllocPc \cup BorrowPc \cup DeallocPc \cup PanicPc

ThreadsTypeOK ==
    /\ pc     \in [Thread -> PcValue]
    /\ obj    \in [Thread -> Addr \cup {Null}]
    /\ ent    \in [Thread -> Addr \cup {Null}]
    /\ slot   \in [Thread -> Slot \cup {Null}]
    /\ wslot  \in [Thread -> WSlot \cup {Null}]
    /\ strong \in [Slot -> Addr \cup {Null}]
    /\ weak   \in [WSlot -> Addr \cup {Null}]

ThreadsInit ==
    /\ pc     = [t \in Thread |-> "idle"]
    /\ obj    = [t \in Thread |-> Null]
    /\ ent    = [t \in Thread |-> Null]
    /\ slot   = [t \in Thread |-> Null]
    /\ wslot  = [t \in Thread |-> Null]
    /\ strong = [s \in Slot |-> Null]
    /\ weak   = [w \in WSlot |-> Null]

Idle(t) == pc[t] = "idle"

(* Thread t enters a call and its locals get their values.                 *)
Call(t, place, a, e, s, w) ==
    /\ pc'    = [pc EXCEPT ![t] = place]
    /\ obj'   = [obj EXCEPT ![t] = a]
    /\ ent'   = [ent EXCEPT ![t] = e]
    /\ slot'  = [slot EXCEPT ![t] = s]
    /\ wslot' = [wslot EXCEPT ![t] = w]

Return(t) == Call(t, "idle", Null, Null, Null, Null)

Goto(t, place) ==
    /\ pc' = [pc EXCEPT ![t] = place]
    /\ UNCHANGED <<obj, ent, slot, wslot>>

(* A slot that skev_alloc has still to fill is not visible to the program, *)
(* and one whose pointer is lent to skev_weak_alloc is not released before *)
(* that call returns.                                                      *)
Reserved(s) == \E t \in Thread : slot[t] = s /\ pc[t] \in AllocPc
Busy(s)     == \E t \in Thread : slot[t] = s
BusyWeak(w) == \E t \in Thread : wslot[t] = w

(* The slots that own a count of object a, or a claim on entry e.          *)
Holders(a)     == {s \in Slot : strong[s] = a}
WeakHolders(e) == {w \in WSlot : weak[w] = e}

=============================================================================
