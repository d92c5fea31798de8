----------------------------- MODULE PanicProofs -----------------------------
(***************************************************************************)
(* The registration of a safety handler, for any threads and handlers: one *)
(* registration wins, its handler is never replaced, and a panic that      *)
(* starts after it enters the handler.                                     *)
(***************************************************************************)
EXTENDS Panic, TLAPS

(* A thread has won the compare_exchange.                                  *)
Winner(t) == registered[t] = "true" \/ pc[t] = "store"

(* The flag is set as long as anybody has won; the pointer is stored when, *)
(* and not before, the winner is told, so that nobody stores after it.     *)
WinnerSetFlag == \A t \in Thread : Winner(t) => handler_installed
StoredOnce ==
    safety_handler # Null =>
        handler_installed /\ \A t \in Thread : pc[t] # "store"
ToldAfterStore ==
    \A t \in Thread : registered[t] = "true" => safety_handler # Null

PInv ==
    TypeOK /\ OneRegistration /\ WinnerSetFlag /\ StoredOnce /\ ToldAfterStore

(* Nothing is registered and no thread is in panic.rs at the start.        *)
LEMMA InitPInv == Init => PInv
BY PanicAssumption
DEF Init, PInv, TypeOK, OneRegistration, WinnerSetFlag, Winner, StoredOnce,
    ToldAfterStore

(* Every access to the flag, to the pointer and to the handler keeps it.   *)
LEMMA NextPInv == PInv /\ [Next]_vars => PInv'
<1> SUFFICES ASSUME PInv, [Next]_vars PROVE PInv'
  OBVIOUS
<1> USE PanicAssumption
    DEF PInv, TypeOK, OneRegistration, WinnerSetFlag, Winner, StoredOnce,
        ToldAfterStore
<1>1. CASE UNCHANGED vars
  BY <1>1 DEF vars
<1>2. ASSUME NEW t \in Thread, NEW h \in Handler,
             skev_register_safety_handler(t, h)
      PROVE  PInv'
  <2>1. CASE handler_installed
    BY <1>2, <2>1 DEF skev_register_safety_handler
  <2>2. CASE ~handler_installed
    <3>1. /\ handler_installed' = TRUE
          /\ pc' = [pc EXCEPT ![t] = "store"]
          /\ handler' = [handler EXCEPT ![t] = h]
          /\ UNCHANGED <<registered, safety_handler, aborted>>
      BY <1>2, <2>2 DEF skev_register_safety_handler, InstalledByCas
    <3>2. \A u \in Thread : ~Winner(u)
      BY <2>2
    <3> QED BY <3>1, <3>2, <2>2
  <2> QED BY <2>1, <2>2
<1>3. ASSUME NEW t \in Thread, StoreHandler(t) PROVE PInv'
  <2>1. /\ handler[t] \in Handler /\ pc[t] = "store"
        /\ \A u \in Thread \ {t} : ~Winner(u)
    BY <1>3 DEF StoreHandler
  <2> QED BY <1>3, <2>1 DEF StoreHandler
<1>4. ASSUME NEW t \in Thread, skev_runtime_panic(t) PROVE PInv'
  BY <1>4 DEF skev_runtime_panic
<1>5. ASSUME NEW t \in Thread, fire_safety_handler_if_set(t) PROVE PInv'
  BY <1>5 DEF fire_safety_handler_if_set
<1>6. ASSUME NEW t \in Thread, Abort(t) PROVE PInv'
  BY <1>6 DEF Abort
<1> QED BY <1>1, <1>2, <1>3, <1>4, <1>5, <1>6 DEF Next, InPanicModule

(* The invariant of panic.rs, for any number of threads and handlers.      *)
THEOREM PanicInvariant == Spec => []PInv
<1> QED BY InitPInv, NextPInv, PTL DEF Spec

(* TypeOK: types, and that whoever stores or runs a handler has one.       *)
THEOREM PanicTypes == Spec => []TypeOK
<1>1. PInv => TypeOK
  BY DEF PInv
<1> QED BY <1>1, PanicInvariant, PTL

(* OneRegistration: however many threads race for the compare_exchange of  *)
(* skev_register_safety_handler, one wins.                                 *)
THEOREM OneRegistrationWins == Spec => []OneRegistration
<1>1. PInv => OneRegistration
  BY DEF PInv
<1> QED BY <1>1, PanicInvariant, PTL

(* HandlerNeverReplaced: SAFETY_HANDLER is stored once, for ever.          *)
THEOREM HandlerIsForEver == Spec => HandlerNeverReplaced
<1>1. PInv /\ [Next]_vars => [safety_handler # Null => safety_handler' = safety_handler]_vars
  <2> SUFFICES ASSUME PInv, [Next]_vars, safety_handler # Null
               PROVE  safety_handler' = safety_handler
    OBVIOUS
  <2>1. \A t \in Thread : ~StoreHandler(t)
    BY DEF PInv, StoredOnce, StoreHandler
  <2> QED
    BY <2>1
    DEF vars, Next, InPanicModule, skev_register_safety_handler,
        skev_runtime_panic, fire_safety_handler_if_set, Abort
<1> QED BY <1>1, PanicInvariant, PTL DEF Spec, HandlerNeverReplaced

(* HandlerFires: a thread that is not in a panic when a registration has   *)
(* returned true will not abort without having entered the handler.        *)
THEOREM RegisteredHandlerFires == Spec => HandlerFires
<1>1. ASSUME NEW t \in Thread, NEW u \in Thread
      PROVE  Spec => [](registered[u] = "true" /\ pc[t] = "idle"
                          => [](pc[t] # "abort"))
  <2> DEFINE Warned == registered[u] = "true" /\ pc[t] # "abort"
  <2>1. PInv /\ Warned /\ [Next]_vars => Warned'
    <3> SUFFICES ASSUME PInv, Warned, [Next]_vars PROVE Warned'
      OBVIOUS
    <3> USE DEF PInv, TypeOK, OneRegistration, ToldAfterStore
    <3>1. CASE UNCHANGED vars
      BY <3>1 DEF vars
    <3>2. ASSUME NEW v \in Thread, NEW h \in Handler,
                 skev_register_safety_handler(v, h)
          PROVE  Warned'
      BY <3>2 DEF skev_register_safety_handler
    <3>3. ASSUME NEW v \in Thread, InPanicModule(v) PROVE Warned'
      BY <3>3
      DEF InPanicModule, StoreHandler, fire_safety_handler_if_set, Abort
    <3>4. ASSUME NEW v \in Thread, skev_runtime_panic(v) PROVE Warned'
      BY <3>4 DEF skev_runtime_panic
    <3> QED BY <3>1, <3>2, <3>3, <3>4 DEF Next
  <2>2. registered[u] = "true" /\ pc[t] = "idle" => Warned
    OBVIOUS
  <2>3. Warned => pc[t] # "abort"
    OBVIOUS
  <2> HIDE DEF Warned
  <2> QED BY <2>1, <2>2, <2>3, PanicInvariant, PTL DEF Spec
<1> QED BY <1>1 DEF HandlerFires
=============================================================================
