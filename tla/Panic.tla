------------------------------- MODULE Panic -------------------------------
(***************************************************************************)
(* panic.rs: the set-once registration of a safety handler and the two     *)
(* panic entry points.  skev_register_safety_handler wins or loses a       *)
(* compare_exchange on HANDLER_INSTALLED and stores SAFETY_HANDLER after   *)
(* that; a panic loads SAFETY_HANDLER alone.  A handler diverges: its      *)
(* thread never leaves it, but another thread may still abort the process. *)
(* skev_runtime_panic and skev_runtime_panic_msg differ in the text they   *)
(* write, which is left out.                                               *)
(***************************************************************************)
CONSTANTS Thread,    \* the threads of the program
          Handler,   \* the handlers they may register
          Null       \* the null function pointer

ASSUME PanicAssumption == Null \notin Handler

VARIABLES handler_installed,   \* HANDLER_INSTALLED
          safety_handler,      \* SAFETY_HANDLER
          pc,                  \* where each thread is in this module
          handler,             \* its argument, or the pointer it loaded
          registered,          \* what its registration returned
          aborted              \* the process has ended by abort()

vars == <<handler_installed, safety_handler, pc, handler, registered, aborted>>

TypeOK ==
    /\ handler_installed \in BOOLEAN
    /\ safety_handler \in Handler \cup {Null}
    /\ pc \in [Thread -> {"idle", "store", "panic", "handler", "abort"}]
    /\ handler \in [Thread -> Handler \cup {Null}]
    /\ registered \in [Thread -> {"none", "true", "false"}]
    /\ aborted \in BOOLEAN
    /\ \A t \in Thread : pc[t] \in {"store", "handler"} => handler[t] \in Handler

Init ==
    /\ handler_installed = FALSE
    /\ safety_handler = Null
    /\ pc = [t \in Thread |-> "idle"]
    /\ handler = [t \in Thread |-> Null]
    /\ registered = [t \in Thread |-> "none"]
    /\ aborted = FALSE

(* What the compare_exchange leaves in the flag; the fault is a plain load *)
(* in its place.                                                           *)
InstalledByCas_LoadOnly == handler_installed
InstalledByCas == TRUE

(* The compare_exchange of skev_register_safety_handler.  A thread         *)
(* registers at most once (the bound on registrations).                    *)
skev_register_safety_handler(t, h) ==
    /\ pc[t] = "idle" /\ registered[t] = "none"
    /\ IF handler_installed
       THEN /\ registered' = [registered EXCEPT ![t] = "false"]
            /\ UNCHANGED <<handler_installed, pc, handler>>
       ELSE /\ handler_installed' = InstalledByCas
            /\ pc' = [pc EXCEPT ![t] = "store"]
            /\ handler' = [handler EXCEPT ![t] = h]
            /\ UNCHANGED registered
    /\ UNCHANGED <<safety_handler, aborted>>

StoreHandler(t) ==
    /\ pc[t] = "store"
    /\ safety_handler' = handler[t]
    /\ registered' = [registered EXCEPT ![t] = "true"]
    /\ pc' = [pc EXCEPT ![t] = "idle"]
    /\ handler' = [handler EXCEPT ![t] = Null]
    /\ UNCHANGED <<handler_installed, aborted>>

skev_runtime_panic(t) ==
    /\ pc[t] = "idle"
    /\ pc' = [pc EXCEPT ![t] = "panic"]
    /\ UNCHANGED <<handler_installed, safety_handler, handler, registered, aborted>>

(* Fault: the panic looks at the flag and not at the pointer.              *)
fire_safety_handler_if_set_ByFlag(t) ==
    /\ pc[t] = "panic"
    /\ handler' = [handler EXCEPT ![t] = safety_handler]
    /\ pc' = [pc EXCEPT ![t] = IF handler_installed THEN "handler" ELSE "abort"]
    /\ UNCHANGED <<handler_installed, safety_handler, registered, aborted>>

(* Fault: the panic goes straight to abort().                              *)
fire_safety_handler_if_set_Skipped(t) ==
    /\ pc[t] = "panic"
    /\ pc' = [pc EXCEPT ![t] = "abort"]
    /\ UNCHANGED <<handler_installed, safety_handler, handler, registered, aborted>>

(* One load of SAFETY_HANDLER: the handler is entered, or there is none.   *)
fire_safety_handler_if_set(t) ==
    /\ pc[t] = "panic"
    /\ handler' = [handler EXCEPT ![t] = safety_handler]
    /\ pc' = [pc EXCEPT ![t] = IF safety_handler # Null THEN "handler" ELSE "abort"]
    /\ UNCHANGED <<handler_installed, safety_handler, registered, aborted>>

(* write_panic_header and abort(): the process ends.                       *)
Abort(t) ==
    /\ pc[t] = "abort"
    /\ aborted' = TRUE
    /\ UNCHANGED <<handler_installed, safety_handler, pc, handler, registered>>

InPanicModule(t) ==
    ~aborted /\ (StoreHandler(t) \/ fire_safety_handler_if_set(t) \/ Abort(t))

Next ==
    \E t \in Thread :
        \/ InPanicModule(t)
        \/ ~aborted /\ \E h \in Handler : skev_register_safety_handler(t, h)
        \/ ~aborted /\ skev_runtime_panic(t)

Spec == Init /\ [][Next]_vars

-----------------------------------------------------------------------------
(* panic.rs:48-49, set-once: one registration returns true, and the        *)
(* pointer a panic loads is the one that registration stored, for ever.    *)
OneRegistration ==
    \A t, u \in {v \in Thread : registered[v] = "true" \/ pc[v] = "store"} : t = u

HandlerNeverReplaced ==
    [][safety_handler # Null => safety_handler' = safety_handler]_vars

(* panic.rs:88-92: once a registration has returned true, a thread that is *)
(* not yet in a panic never aborts without entering the handler.           *)
HandlerFires ==
    \A t, u \in Thread :
        [](registered[u] = "true" /\ pc[t] = "idle" => [](pc[t] # "abort"))

(* panic.rs:7-8, "both fire any registered safety handler (set-once via    *)
(* skev_register_safety_handler)", as a caller reads it that was told      *)
(* false: a handler is registered already, so its own panic fires it.      *)
HandlerFiresForLoser ==
    \A t \in Thread : registered[t] = "false" => pc[t] # "abort"

=============================================================================
