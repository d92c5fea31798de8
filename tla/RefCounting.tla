----------------------------- MODULE RefCounting -----------------------------
(***************************************************************************)
(* What the runtime promises its callers, without headers, tables, locks   *)
(* or counts.  An object lives while a strong reference owns it; when the  *)
(* last one is dropped it is doomed, and it is reclaimed once every weak   *)
(* reference to it has been cut.  A weak reference never keeps an object   *)
(* alive and never sees another object at the same address.                *)
(*                                                                         *)
(* The one exception is a program that is about to end in a panic: then an *)
(* object may outlive its last reference.                                  *)
(***************************************************************************)
EXTENDS Naturals

CONSTANTS Addr, Slot, WSlot, Null, Dead

VARIABLES store,    \* what an address is to the program
          owner,    \* the object a strong reference owns
          watch,    \* the object a weak reference watches, or Dead
          panicking

vars == <<store, owner, watch, panicking>>

Init ==
    /\ store = [a \in Addr |-> "unused"]
    /\ owner = [s \in Slot |-> Null]
    /\ watch = [w \in WSlot |-> Null]
    /\ panicking = FALSE

Allocate(s, a) ==
    /\ owner[s] = Null /\ store[a] = "unused"
    /\ store' = [store EXCEPT ![a] = "live"]
    /\ owner' = [owner EXCEPT ![s] = a]
    /\ UNCHANGED <<watch, panicking>>

Share(src, dst) ==
    /\ owner[src] # Null /\ owner[dst] = Null
    /\ owner' = [owner EXCEPT ![dst] = owner[src]]
    /\ UNCHANGED <<store, watch, panicking>>

Drop(s) ==
    /\ owner[s] # Null
    /\ owner' = [owner EXCEPT ![s] = Null]
    /\ \/ \E r \in Slot \ {s} : owner[r] = owner[s] /\ UNCHANGED store
       \/ panicking /\ UNCHANGED store
       \/ /\ \A r \in Slot \ {s} : owner[r] # owner[s]
          /\ store' = [store EXCEPT ![owner[s]] = "doomed"]
    /\ UNCHANGED <<watch, panicking>>

Watch(s, w) ==
    /\ owner[s] # Null /\ watch[w] = Null
    /\ watch' = [watch EXCEPT ![w] = owner[s]]
    /\ UNCHANGED <<store, owner, panicking>>

Unwatch(w) ==
    /\ watch[w] # Null
    /\ watch' = [watch EXCEPT ![w] = Null]
    /\ UNCHANGED <<store, owner, panicking>>

(* All the weak references to a doomed object are cut at once.             *)
Cut(a) ==
    /\ store[a] = "doomed"
    /\ watch' = [w \in WSlot |-> IF watch[w] = a THEN Dead ELSE watch[w]]
    /\ UNCHANGED <<store, owner, panicking>>

Reclaim(a) ==
    /\ store[a] = "doomed"
    /\ \A w \in WSlot : watch[w] # a
    /\ store' = [store EXCEPT ![a] = "unused"]
    /\ UNCHANGED <<owner, watch, panicking>>

Panic ==
    /\ panicking' = TRUE
    /\ UNCHANGED <<store, owner, watch>>

Next ==
    \/ \E s \in Slot, a \in Addr : Allocate(s, a)
    \/ \E src, dst \in Slot : Share(src, dst)
    \/ \E s \in Slot : Drop(s)
    \/ \E s \in Slot, w \in WSlot : Watch(s, w)
    \/ \E w \in WSlot : Unwatch(w)
    \/ \E a \in Addr : Cut(a) \/ Reclaim(a)
    \/ Panic

Spec == Init /\ [][Next]_vars

=============================================================================
