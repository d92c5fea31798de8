----------------------------- MODULE Lifecycle -----------------------------
(***************************************************************************)
(* init.rs: the runtime's one-way state machine, the guard in skev_alloc   *)
(* that initialises the runtime on first use, and the shutdown that walks  *)
(* the leak tracker (Leak.tla) and sets the exit code.  The stubs the two  *)
(* bodies call (install_panic_sink, init_main_thread_tls, drain_tasks,     *)
(* teardown_tls) do nothing in this version.                               *)
(***************************************************************************)
EXTENDS Threads

CONSTANT LeakCheck   \* the Cargo feature `leak-check`

ASSUME LeakCheckAssumption == LeakCheck \in BOOLEAN

VARIABLES lifecycle,       \* LIFECYCLE_STATE
          leak_exit_code   \* LEAK_EXIT_CODE

lifecycleVars == <<lifecycle, leak_exit_code>>

LifecycleState == {"UNINIT", "INITING", "READY", "SHUTDOWN"}

LifecycleTypeOK ==
    /\ lifecycle \in LifecycleState
    /\ leak_exit_code \in {0, 2}

LifecycleInit ==
    /\ lifecycle = "UNINIT"
    /\ leak_exit_code = 0

(* Faults: a load and a store in place of the compare_exchange; a shutdown *)
(* that does not wait for the runtime to be ready.                         *)
InitCasWins_LoadStore  == lifecycle \in {"UNINIT", "INITING"}
ShutdownCasWins_AnyState == lifecycle # "SHUTDOWN"

(* The two compare_exchange calls: the state each expects to replace.      *)
InitCasWins     == lifecycle = "UNINIT"
ShutdownCasWins == lifecycle = "READY"

(* skev_init: only the winner of the compare_exchange runs the body; `at`  *)
(* is where the body is entered and `after` where a loser goes on.  The    *)
(* Relaxed load of ensure_init adds nothing: it only spares a              *)
(* compare_exchange that would be lost.                                    *)
InitCas(t, at, after, s) ==
    /\ IF InitCasWins
       THEN lifecycle' = "INITING" /\ Call(t, at, Null, Null, s, Null)
       ELSE UNCHANGED lifecycle /\ Call(t, after, Null, Null, s, Null)
    /\ UNCHANGED leak_exit_code

skev_init(t) ==
    /\ Idle(t)
    /\ InitCas(t, "init", "idle", Null)
    /\ UNCHANGED <<strong, weak>>

(* Fault: the call made by ensure_init goes on without storing READY.      *)
StoreReady_OnlyExplicit(t) ==
    /\ \/ pc[t] = "init" /\ Return(t) /\ lifecycle' = "READY"
       \/ pc[t] = "init_alloc" /\ Goto(t, "alloc_raw") /\ UNCHANGED lifecycle
    /\ UNCHANGED <<leak_exit_code, strong, weak>>

(* The end of the body, for a call of skev_init by the program and for one *)
(* by ensure_init, which goes on to skev_alloc.                            *)
StoreReady(t) ==
    /\ \/ pc[t] = "init" /\ Return(t)
       \/ pc[t] = "init_alloc" /\ Goto(t, "alloc_raw")
    /\ lifecycle' = "READY"
    /\ UNCHANGED <<leak_exit_code, strong, weak>>

skev_shutdown(t) ==
    /\ Idle(t)
    /\ Goto(t, "shutdown")
    /\ UNCHANGED <<lifecycleVars, strong, weak>>

(* The compare_exchange of skev_shutdown.  Without leak-check the body is  *)
(* the stubs alone.                                                        *)
ShutdownCas(t) ==
    /\ pc[t] = "shutdown"
    /\ IF ShutdownCasWins
       THEN /\ lifecycle' = "SHUTDOWN"
            /\ IF LeakCheck THEN Goto(t, "report") ELSE Return(t)
       ELSE UNCHANGED lifecycle /\ Return(t)
    /\ UNCHANGED <<leak_exit_code, strong, weak>>

=============================================================================
