------------------------- MODULE RuntimeRefinement -------------------------
(***************************************************************************)
(* SkevRuntime implements RefCounting.  An address is live or doomed for   *)
(* the program while it holds an object; a block that holds a WeakEntry is *)
(* unused.  A weak slot watches the target of its entry as long as         *)
(* strong_alive is set, so that the store in on_dealloc cuts all of them.  *)
(***************************************************************************)
EXTENDS SkevRuntime

CONSTANT Dead   \* what a weak reference whose object is gone watches

ASSUME RefinementAssumption == Dead \notin Addr \cup {Null}

storeView ==
    [a \in Addr |-> IF kind[a] # "obj" THEN "unused"
                    ELSE IF Doomed(a) THEN "doomed" ELSE "live"]

watchView ==
    [w \in WSlot |-> IF weak[w] = Null THEN Null
                     ELSE IF strong_alive[weak[w]] THEN target[weak[w]] ELSE Dead]

Promise == INSTANCE RefCounting
               WITH store <- storeView, owner <- strong, watch <- watchView,
                    panicking <- (\E t \in Thread : pc[t] = "overflow")

(* Every behaviour of the runtime, its internal steps hidden, is one that  *)
(* RefCounting allows.                                                     *)
ImplementsPromise == Promise!Spec

=============================================================================
