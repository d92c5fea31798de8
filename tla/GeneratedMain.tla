--------------------------- MODULE GeneratedMain ---------------------------
(***************************************************************************)
(* The entry point of a program, over the runtime.  The `main` that        *)
(* codegen's emit_main generates calls skev_init, calls skev_shutdown, and *)
(* returns the constant 0.  emit_main generates nothing if the module has  *)
(* a function of that name, the program's own or one it declares extern:   *)
(* then no call of skev_init or skev_shutdown is generated at all.  And it *)
(* looks for the two in Codegen.functions, where a function of the program *)
(* takes the place of the runtime's of the same name: then that is called. *)
(*                                                                         *)
(* Skev code can run before either main - init.rs:27-29, "a C++ static     *)
(* initialiser that allocates a Skev type before main runs still works" -  *)
(* and a thread such an initialiser started can run beside it.             *)
(***************************************************************************)
EXTENDS SkevRuntime

CONSTANT Main   \* the thread that runs main

ASSUME MainAssumption == Main \in Thread

VARIABLES own,          \* of OwnFunction, those the program has itself
          main_pc,      \* the next statement of main
          exit_status   \* the exit status of the process

mainVars == <<own, main_pc, exit_status>>

OwnFunction == {"main", "skev_init", "skev_shutdown"}
ExitStatus == {0, 1, 2}   \* what a main of the program's own may return

(* Fault: main without the call of skev_init.                              *)
call_init_Omitted == Idle(Main) /\ UNCHANGED vars

(* The two calls of main; a call that only loses its compare_exchange      *)
(* changes nothing else.                                                   *)
call_init ==
    IF "skev_init" \in own THEN UNCHANGED vars
    ELSE skev_init(Main) /\ UNCHANGED <<heapVars, table, leakVars>>

call_shutdown ==
    IF "skev_shutdown" \in own THEN UNCHANGED vars
    ELSE skev_shutdown(Main) /\ UNCHANGED <<heapVars, table, leakVars>>

(* What a static initialiser does of itself: it uses the heap and leaves   *)
(* the runtime's lifecycle to skev_alloc and to main.                      *)
Static(t) == WeakStep(t) \/ ArcStep(t)

(* Main is in the runtime until its call returns, and so is every thread.  *)
InCall(t) == ~Idle(t) /\ Step(t)

emit_main ==
    /\ "main" \notin own /\ Idle(Main) /\ UNCHANGED own
    /\ \/ /\ main_pc = "static"
          /\ call_init
          /\ main_pc' = "in_init"
          /\ UNCHANGED exit_status
       \/ /\ main_pc = "in_init"
          /\ call_shutdown
          /\ main_pc' = "in_shutdown"
          /\ UNCHANGED exit_status
       \/ /\ main_pc = "in_shutdown"
          /\ main_pc' = "exited"
          /\ exit_status' = 0
          /\ UNCHANGED vars

(* The early return of emit_main: the program's own main runs.             *)
OwnMain ==
    /\ "main" \in own /\ Idle(Main) /\ UNCHANGED <<vars, own>>
    /\ \/ /\ main_pc = "static"
          /\ main_pc' = "own"
          /\ UNCHANGED exit_status
       \/ /\ main_pc = "own"
          /\ main_pc' = "exited"
          /\ exit_status' \in ExitStatus

(* A function of the program's own may use the runtime in any way, its     *)
(* lifecycle included, and need not use it.                                *)
OwnCode ==
    /\ \/ main_pc = "own"
       \/ main_pc = "in_init" /\ "skev_init" \in own
       \/ main_pc = "in_shutdown" /\ "skev_shutdown" \in own
    /\ Step(Main) /\ UNCHANGED mainVars

MainInit ==
    /\ Init
    /\ own \in SUBSET OwnFunction /\ main_pc = "static" /\ exit_status = 0

MainNext ==
    \/ emit_main
    \/ OwnMain
    \/ OwnCode
    \/ /\ main_pc # "exited"
       /\ \E t \in Thread :
              \/ InCall(t)
              \/ (t = Main => main_pc = "static") /\ Static(t)
       /\ UNCHANGED mainVars

MainSpec == MainInit /\ [][MainNext]_<<vars, mainVars>>

(* With the generated main, the runtime's two functions and no thread but  *)
(* main's, the shutdown has run when the process ends, and its exit code   *)
(* tells whether the static initialisers left an object.  A program with a *)
(* function of its own under one of the three names is owed neither.       *)
ShutdownReported ==
    main_pc = "exited" /\ own = {} /\ LeakCheck =>
        /\ lifecycle = "SHUTDOWN"
        /\ leak_exit_code = 2 <=> tracker # {}

(* init.rs:27-29, skev_init is "called automatically by skev_alloc": with  *)
(* no thread but main's no object is ever made before the runtime is       *)
(* ready, be it by a static initialiser or under a main or a skev_init of  *)
(* the program's own, when no call of the runtime's is generated.          *)
InitialisedFirst ==
    (\E a \in Addr : kind[a] = "obj") => lifecycle \in {"READY", "SHUTDOWN"}

(* init.rs:52-53, "the first call wins the CAS and runs the shutdown body; *)
(* subsequent calls return immediately": the generated main's is the only  *)
(* call.                                                                   *)
FirstShutdownRuns == main_pc = "exited" /\ own = {} => lifecycle = "SHUTDOWN"

(* init.rs:95-96, leak_exit_code is "used by the codegen-emitted main() to *)
(* produce the process exit code".                                         *)
ExitStatusIsLeakExitCode ==
    main_pc = "exited" /\ own = {} => exit_status = leak_exit_code

=============================================================================
