------------------------- MODULE UpgradeThenRetain -------------------------
(***************************************************************************)
(* weak.rs:123-125: skev_weak_upgrade "does NOT bump the strong refcount - *)
(* codegen is responsible for calling skev_retain on the result if it      *)
(* intends to use the value beyond a transient check".  This module adds   *)
(* that call to SkevRuntime: a thread that got a pointer from an upgrade   *)
(* retains it.  The caller has no other count to retain on.                *)
(***************************************************************************)
EXTENDS SkevRuntime

(* skev_retain of the pointer that skev_weak_upgrade returned.             *)
RetainUpgraded(t, dst) ==
    /\ pc[t] = "upgraded"
    /\ strong[dst] = Null /\ ~Reserved(dst)
    /\ rc' = [rc EXCEPT ![obj[t]] = Inc(@)]
    /\ IF Overflows(rc[obj[t]])
       THEN Goto(t, "overflow") /\ UNCHANGED strong
       ELSE strong' = [strong EXCEPT ![dst] = obj[t]] /\ Return(t)
    /\ UNCHANGED <<kind, entryVars, leakVars, lifecycleVars, table, weak>>

RetainNext ==
    \/ Next
    \/ \E t \in Thread, dst \in Slot : RetainUpgraded(t, dst)

RetainSpec == Init /\ [][RetainNext]_vars

(* arc.rs:100, the SAFETY comment of the deallocation by the last release: *)
(* "ref count just dropped to 0 - no other reference exists".              *)
NoOtherReference ==
    \A t \in Thread : pc[t] \in DeallocPc /\ obj[t] # Null => Holders(obj[t]) = {}

=============================================================================
