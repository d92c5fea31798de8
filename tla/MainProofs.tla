----------------------------- MODULE MainProofs -----------------------------
(***************************************************************************)
(* Main over the runtime, for any references, addresses and shards.  A     *)
(* program with any main is a program of the runtime, so that the          *)
(* safety properties of SkevRuntime hold in it with any threads.  If there *)
(* is no thread but main's, the runtime is ready before the first object,  *)
(* and the generated main's shutdown has reported the leaks when the       *)
(* process ends.                                                           *)
(***************************************************************************)
EXTENDS GeneratedMain, SkevRuntimeProofs

(* Main and the static initialisers do nothing to the runtime but call it; *)
(* functions of the program's own no more than the generated main.         *)
LEMMA MainSteps ==
    ASSUME [MainNext]_<<vars, mainVars>>
    PROVE  [Next]_vars
<1>1. CASE emit_main
  <2>1. call_init => Step(Main) \/ UNCHANGED vars
    BY DEF call_init, Step, LifecycleStep
  <2>2. call_shutdown => Step(Main) \/ UNCHANGED vars
    BY DEF call_shutdown, Step, LifecycleStep
  <2> QED BY <1>1, <2>1, <2>2, MainAssumption DEF emit_main, Next
<1>2. ASSUME NEW t \in Thread, InCall(t) \/ Static(t)
      PROVE  Next
  BY <1>2 DEF InCall, Static, Step, Next
<1>3. CASE OwnMain \/ OwnCode
  BY <1>3, MainAssumption DEF OwnMain, OwnCode, Next
<1>4. CASE UNCHANGED <<vars, mainVars>>
  BY <1>4
<1> QED BY <1>1, <1>2, <1>3, <1>4 DEF MainNext

(* Whatever the threads: the program uses the runtime as its callers may.  *)
THEOREM MainUsesRuntime == MainSpec => Spec
<1>1. MainInit => Init
  BY DEF MainInit
<1>2. [MainNext]_<<vars, mainVars>> => [Next]_vars
  BY MainSteps
<1> QED BY <1>1, <1>2, PTL DEF MainSpec, Spec

(* ---- No thread but main's. ---- *)
(* The count of survivors says whether there is one in the shards the walk *)
(* has been through.                                                       *)
Walked == leaks > 0 <=> \E a \in tracker : ShardOf[a] <= walk

(* What main knows when its call of skev_shutdown has returned.            *)
Reported ==
    /\ lifecycle = "SHUTDOWN"
    /\ LeakCheck => (leak_exit_code = 2 <=> tracker # {})

(* How far the generated main is, and where in its call.                   *)
GeneratedInv ==
    /\ main_pc \in {"static", "in_init", "in_shutdown", "exited"}
    /\ Walked
    /\ main_pc = "static" =>
         lifecycle # "SHUTDOWN" /\ pc[Main] \notin {"shutdown", "report"}
    /\ main_pc = "in_init" =>
         \/ pc[Main] = "init" /\ lifecycle # "SHUTDOWN"
         \/ pc[Main] = "idle" /\ lifecycle = "READY"
    /\ main_pc = "in_shutdown" =>
         \/ pc[Main] = "shutdown" /\ lifecycle = "READY"
         \/ pc[Main] = "report" /\ lifecycle = "SHUTDOWN" /\ leak_exit_code = 0
         \/ pc[Main] = "idle" /\ Reported
    /\ main_pc = "exited" => Reported

MainInv == own = {} => GeneratedInv

(* One shard more.                                                         *)
LEMMA WalkedOn ==
    ASSUME IInv, Walked, NEW t \in Thread, report_leaks(t)
    PROVE  Walked'
<1> DEFINE S == {a \in tracker : ShardOf[a] = walk + 1}
           c == Cardinality(S)
<1>1. /\ tracker \subseteq Addr /\ walk \in 0..NShards /\ leaks \in 0..CountMax
  BY DEF IInv, TypeOK, LeakTypeOK
<1>2. /\ CountMax \in Nat \ {0} /\ NShards \in Nat
      /\ \A a \in Addr : ShardOf[a] \in Nat
  BY LeakAssumption
<1>3. c \in Nat /\ (c = 0 <=> S = {})
  <2>1. IsFiniteSet(S)
    BY <1>1, LeakAssumption, FS_Subset
  <2> HIDE DEF S
  <2> QED BY <2>1, FS_CardinalityType, FS_EmptySet
<1>4. /\ walk' = walk + 1 /\ leaks' = saturating_add(leaks, c)
      /\ tracker' = tracker
  BY DEF report_leaks
<1> HIDE DEF c
<1>5. leaks' > 0 <=> leaks > 0 \/ c # 0
  BY <1>1, <1>2, <1>3, <1>4 DEF saturating_add
<1>6. (\E a \in tracker : ShardOf[a] <= walk + 1)
        <=> (\E a \in tracker : ShardOf[a] <= walk) \/ S # {}
  BY <1>1, <1>2
<1> QED BY <1>3, <1>4, <1>5, <1>6 DEF Walked

(* Before the shutdown nothing has been walked.                            *)
LEMMA WalkedNot ==
    ASSUME IInv, IInv', Walked, leaks' = leaks, lifecycle # "SHUTDOWN",
           lifecycle' # "SHUTDOWN"
    PROVE  Walked'
<1>1. walk = 0 /\ walk' = 0 /\ tracker \subseteq Addr /\ tracker' \subseteq Addr
  BY DEF IInv, ShutdownOK, TypeOK, LifecycleTypeOK, LeakTypeOK, LifecycleState
<1>2. \A a \in Addr : ~(ShardOf[a] <= 0)
  BY LeakAssumption
<1> QED BY <1>1, <1>2 DEF Walked

(* What a step of a call does, by where the call is.                       *)
LEMMA StepOfMain ==
    ASSUME IInv, Step(Main), pc[Main] \in {"init", "shutdown", "report"}
    PROVE  /\ pc[Main] = "init" => StoreReady(Main) /\ UNCHANGED leakVars
           /\ pc[Main] = "shutdown" => ShutdownCas(Main) /\ UNCHANGED leakVars
           /\ pc[Main] = "report" => report_leaks(Main) \/ StoreExitCode(Main)
<1>1. CASE LifecycleStep(Main)
  BY <1>1
  DEF LifecycleStep, skev_init, StoreReady, skev_shutdown, ShutdownCas, Idle
<1>2. CASE LeakStep(Main)
  BY <1>2 DEF LeakStep, track_alloc, track_dealloc, report_leaks, StoreExitCode
<1>3. CASE WeakStep(Main)
  BY <1>3
  DEF WeakStep, skev_weak_alloc, WeakLookup, WeakHit, WeakMiss, WeakOutOfMemory,
      skev_weak_upgrade, DropUpgraded, skev_weak_release, OnDeallocRemove,
      OnDeallocMark, OnDeallocUnslot, free_entry, Idle
<1>4. CASE ArcStep(Main)
  BY <1>4
  DEF ArcStep, skev_alloc, AllocRaw, AllocOutOfMemory, skev_retain,
      skev_release, skev_dealloc, FreeObject, Idle
<1> QED BY <1>1, <1>2, <1>3, <1>4 DEF Step

(* The static initialisers come to no shutdown.                            *)
LEMMA StaticStep ==
    ASSUME IInv, InCall(Main) \/ Static(Main), lifecycle # "SHUTDOWN",
           pc[Main] \notin {"shutdown", "report"}
    PROVE  /\ lifecycle' # "SHUTDOWN" /\ leaks' = leaks
           /\ pc'[Main] \notin {"shutdown", "report"}
<1>1. pc \in [Thread -> PcValue] /\ Main \in Thread
  BY MainAssumption DEF IInv, TypeOK, ThreadsTypeOK
<1> USE <1>1 DEF Call, Return, Goto, leakVars, lifecycleVars
<1>2. CASE LifecycleStep(Main) /\ ~Idle(Main)
  BY <1>2
  DEF LifecycleStep, skev_init, StoreReady, skev_shutdown, ShutdownCas
<1>3. CASE LeakStep(Main)
  <2>1. track_alloc(Main) \/ track_dealloc(Main)
    BY <1>3 DEF LeakStep, report_leaks, StoreExitCode
  <2> QED BY <2>1 DEF track_alloc, track_dealloc
<1>4. CASE WeakStep(Main)
  <2>1. leaks' = leaks /\ lifecycle' = lifecycle
    BY <1>4 DEF WeakStep
  <2>2. CASE \/ \E s \in Slot, w \in WSlot : skev_weak_alloc(Main, s, w)
             \/ \E w \in WSlot : skev_weak_upgrade(Main, w)
    BY <2>1, <2>2 DEF skev_weak_alloc, skev_weak_upgrade
  <2>3. CASE \E w \in WSlot : skev_weak_release(Main, w)
    BY <2>1, <2>3 DEF skev_weak_release, callVars
  <2>4. CASE WeakLookup(Main) \/ WeakHit(Main) \/ WeakOutOfMemory(Main)
    BY <2>1, <2>4 DEF WeakLookup, WeakHit, WeakOutOfMemory
  <2>5. CASE \E e \in Addr : WeakMiss(Main, e)
    BY <2>1, <2>5 DEF WeakMiss
  <2>6. CASE DropUpgraded(Main) \/ OnDeallocRemove(Main)
    BY <2>1, <2>6 DEF DropUpgraded, OnDeallocRemove
  <2>7. CASE OnDeallocMark(Main) \/ OnDeallocUnslot(Main) \/ free_entry(Main)
    BY <2>1, <2>7 DEF OnDeallocMark, OnDeallocUnslot, free_entry
  <2> QED BY <1>4, <2>2, <2>3, <2>4, <2>5, <2>6, <2>7 DEF WeakStep
<1>5. CASE ArcStep(Main)
  <2>1. CASE \E s \in Slot : skev_alloc(Main, s)
    BY <2>1 DEF skev_alloc, InitCas, InitCasWins
  <2>2. CASE AllocOutOfMemory(Main) \/ \E a \in Addr : AllocRaw(Main, a)
    BY <2>2 DEF AllocRaw, AllocOutOfMemory
  <2>3. CASE \E src, dst \in Slot : skev_retain(Main, src, dst)
    BY <2>3 DEF skev_retain, callVars
  <2>4. DeallocEntry \in {"untrack", "on_dealloc"}
    BY DEF DeallocEntry
  <2>5. CASE \E s \in Slot : skev_release(Main, s) \/ skev_dealloc(Main, s)
    BY <2>4, <2>5 DEF skev_release, skev_dealloc, callVars
  <2>6. CASE FreeObject(Main)
    BY <2>6 DEF FreeObject
  <2> QED BY <1>5, <2>1, <2>2, <2>3, <2>5, <2>6 DEF ArcStep
<1> QED BY <1>2, <1>3, <1>4, <1>5 DEF InCall, Static, Step

(* Every step of main and of the static initialisers, if there is no other *)
(* thread.                                                                 *)
LEMMA GeneratedInvNext ==
    ASSUME Thread = {Main}, IInv, IInv', GeneratedInv, MainNext, own = {}
    PROVE  GeneratedInv'
<1>1. /\ pc \in [Thread -> PcValue] /\ lifecycle \in LifecycleState
      /\ Main \in Thread /\ \A t \in Thread : t = Main
      /\ pc[Main] = "report" => LeakCheck
      /\ lifecycle = "INITING" => pc[Main] \in {"init", "init_alloc"}
      /\ lifecycle \in {"UNINIT", "INITING", "READY"} =>
            walk = 0 /\ leak_exit_code = 0
  BY DEF IInv, TypeOK, ThreadsTypeOK, LifecycleTypeOK, LocalsOK, ShutdownOK, InitPc
<1>2. CASE main_pc = "static" /\ emit_main
  <2>1. /\ call_init /\ main_pc' = "in_init" /\ Idle(Main)
        /\ lifecycle # "SHUTDOWN"
    BY <1>2 DEF emit_main, GeneratedInv
  <2>2. CASE InitCasWins
    <3>1. /\ lifecycle' = "INITING" /\ pc'[Main] = "init" /\ leaks' = leaks
      BY <1>1, <2>1, <2>2
      DEF call_init, skev_init, InitCas, Call, leakVars
    <3>2. Walked'
      BY <2>1, <3>1, WalkedNot DEF GeneratedInv
    <3> QED BY <2>1, <3>1, <3>2 DEF GeneratedInv
  <2>3. CASE ~InitCasWins
    <3>1. lifecycle = "READY"
      BY <1>1, <2>1, <2>3 DEF InitCasWins, LifecycleState, Idle
    <3>2. /\ lifecycle' = "READY" /\ pc'[Main] = "idle" /\ leaks' = leaks
      BY <1>1, <2>1, <2>3, <3>1
      DEF call_init, skev_init, InitCas, Call, leakVars
    <3>3. Walked'
      BY <2>1, <3>2, WalkedNot DEF GeneratedInv
    <3> QED BY <2>1, <3>2, <3>3 DEF GeneratedInv
  <2> QED BY <2>2, <2>3
<1>3. CASE main_pc = "in_init" /\ emit_main
  <2>1. /\ call_shutdown /\ main_pc' = "in_shutdown" /\ Idle(Main)
        /\ lifecycle = "READY"
    BY <1>3 DEF emit_main, GeneratedInv, Idle
  <2>2. /\ lifecycle' = "READY" /\ pc'[Main] = "shutdown" /\ leaks' = leaks
    BY <1>1, <2>1
    DEF call_shutdown, skev_shutdown, Goto, leakVars, lifecycleVars
  <2>3. Walked'
    BY <2>1, <2>2, WalkedNot DEF GeneratedInv
  <2> QED BY <2>1, <2>2, <2>3 DEF GeneratedInv
<1>4. CASE main_pc = "in_shutdown" /\ emit_main
  <2>1. /\ main_pc' = "exited" /\ Reported /\ UNCHANGED vars
    BY <1>4 DEF emit_main, GeneratedInv, Idle
  <2>2. UNCHANGED <<lifecycle, leak_exit_code, tracker, walk, leaks>>
    BY <2>1 DEF vars, leakVars, lifecycleVars
  <2> QED BY <1>4, <2>1, <2>2 DEF GeneratedInv, Reported, Walked
<1>5. CASE main_pc = "static" /\ (InCall(Main) \/ Static(Main)) /\ UNCHANGED mainVars
  <2>1. /\ lifecycle' # "SHUTDOWN" /\ leaks' = leaks
        /\ pc'[Main] \notin {"shutdown", "report"}
    BY <1>5, StaticStep DEF GeneratedInv
  <2>2. Walked'
    BY <1>5, <2>1, WalkedNot DEF GeneratedInv
  <2> QED BY <1>5, <2>1, <2>2 DEF GeneratedInv, mainVars
<1>6. CASE main_pc = "in_init" /\ InCall(Main) /\ UNCHANGED mainVars
  <2>1. pc[Main] = "init" /\ lifecycle # "SHUTDOWN" /\ Step(Main)
    BY <1>6 DEF GeneratedInv, InCall, Idle
  <2>2. StoreReady(Main) /\ UNCHANGED leakVars
    BY <2>1, StepOfMain
  <2>3. lifecycle' = "READY" /\ pc'[Main] = "idle" /\ leaks' = leaks
    BY <1>1, <2>1, <2>2 DEF StoreReady, Return, Call, leakVars
  <2>4. Walked'
    BY <2>1, <2>3, WalkedNot DEF GeneratedInv
  <2> QED BY <1>6, <2>3, <2>4 DEF GeneratedInv, mainVars
<1>7. CASE main_pc = "in_shutdown" /\ InCall(Main) /\ UNCHANGED mainVars
  <2>1. CASE pc[Main] = "shutdown"
    <3>1. ShutdownCas(Main) /\ UNCHANGED leakVars /\ lifecycle = "READY"
      BY <1>7, <2>1, StepOfMain DEF InCall, GeneratedInv
    <3>2. /\ lifecycle' = "SHUTDOWN" /\ leak_exit_code' = 0
          /\ pc'[Main] = IF LeakCheck THEN "report" ELSE "idle"
      BY <1>1, <2>1, <3>1
      DEF ShutdownCas, ShutdownCasWins, Goto, Return, Call
    <3>3. Walked'
      BY <3>1 DEF GeneratedInv, Walked, leakVars
    <3> QED BY <1>7, <3>2, <3>3 DEF GeneratedInv, mainVars, Reported
  <2>2. CASE pc[Main] = "report" /\ report_leaks(Main)
    <3>1. /\ pc' = pc /\ lifecycle' = lifecycle
          /\ leak_exit_code' = leak_exit_code
      BY <2>2 DEF report_leaks, callVars, lifecycleVars
    <3>2. Walked'
      BY <1>1, <2>2, WalkedOn DEF GeneratedInv
    <3> QED BY <1>7, <2>2, <3>1, <3>2 DEF GeneratedInv, mainVars
  <2>3. CASE pc[Main] = "report" /\ StoreExitCode(Main)
    <3>1. /\ walk = NShards /\ UNCHANGED <<tracker, walk, leaks, lifecycle>>
          /\ leak_exit_code' = (IF leaks > 0 THEN 2 ELSE leak_exit_code)
          /\ pc'[Main] = "idle"
      BY <1>1, <2>3
      DEF StoreExitCode, LastShard, leakVars, Return, Call
    <3>2. lifecycle = "SHUTDOWN" /\ leak_exit_code = 0 /\ Walked
      BY <1>7, <2>3 DEF GeneratedInv
    <3>3. \A a \in tracker : ShardOf[a] <= NShards
      BY LeakAssumption DEF IInv, TypeOK, LeakTypeOK
    <3>4. leaks > 0 <=> tracker # {}
      BY <3>1, <3>2, <3>3 DEF Walked
    <3>5. Reported'
      BY <3>1, <3>2, <3>4 DEF Reported
    <3>6. Walked'
      BY <3>1, <3>2 DEF Walked
    <3> QED BY <1>7, <3>1, <3>5, <3>6 DEF GeneratedInv, mainVars
  <2>4. pc[Main] \in {"shutdown", "report"} /\ Step(Main)
    BY <1>7 DEF InCall, Idle, GeneratedInv
  <2> QED BY <2>1, <2>2, <2>3, <2>4, StepOfMain
<1>8. \/ emit_main
      \/ /\ main_pc # "exited" /\ UNCHANGED mainVars
         /\ InCall(Main) \/ (main_pc = "static" /\ Static(Main))
  BY <1>1 DEF MainNext, OwnMain, OwnCode, GeneratedInv
<1> QED
  BY <1>2, <1>3, <1>4, <1>5, <1>6, <1>7, <1>8 DEF GeneratedInv, emit_main

(* When the generated main returns, the exit code tells whether the static *)
(* initialisers left an object.                                            *)
THEOREM LeaksReported ==
    ASSUME Thread = {Main}
    PROVE  MainSpec => []ShutdownReported
<1>1. MainInit => MainInv
  <2> SUFFICES ASSUME MainInit PROVE GeneratedInv
    BY DEF MainInv
  <2>1. /\ lifecycle = "UNINIT" /\ pc[Main] = "idle" /\ leaks = 0 /\ tracker = {}
        /\ main_pc = "static"
    BY MainAssumption
    DEF MainInit, Init, ThreadsInit, LifecycleInit, LeakInit
  <2> QED BY <2>1 DEF GeneratedInv, Walked
<1>2. IInv /\ IInv' /\ MainInv /\ [MainNext]_<<vars, mainVars>> => MainInv'
  <2> SUFFICES ASSUME IInv, IInv', MainInv, [MainNext]_<<vars, mainVars>>
               PROVE  MainInv'
    OBVIOUS
  <2>1. own' = own
    BY DEF MainNext, emit_main, OwnMain, OwnCode, mainVars
  <2>2. CASE own # {}
    BY <2>1, <2>2 DEF MainInv
  <2>3. CASE MainNext /\ own = {}
    BY <2>1, <2>3, GeneratedInvNext DEF MainInv
  <2>4. CASE UNCHANGED <<vars, mainVars>>
    BY <2>4
    DEF vars, mainVars, callVars, leakVars, lifecycleVars, MainInv, GeneratedInv,
        Walked, Reported
  <2> QED BY <2>2, <2>3, <2>4
<1>3. MainInv => ShutdownReported
  BY DEF MainInv, GeneratedInv, Reported, ShutdownReported
<1>4. MainSpec => []IInv
  BY MainUsesRuntime, RuntimeSafe, PTL
<1> QED BY <1>1, <1>2, <1>3, <1>4, PTL DEF MainSpec

(* ---- Ready before the first object, whatever the program has itself. ---- *)
Ready == lifecycle \in {"READY", "SHUTDOWN"}

(* The call of skev_alloc that has passed ensure_init knows it.            *)
FirstInv == InitialisedFirst /\ (pc[Main] = "alloc_raw" => Ready)

LEMMA FirstInvStep ==
    ASSUME Thread = {Main}, IInv, FirstInv, Step(Main)
    PROVE  FirstInv'
<1>1. /\ pc \in [Thread -> PcValue] /\ lifecycle \in LifecycleState
      /\ kind \in [Addr -> {"free", "obj", "entry"}] /\ Main \in Thread
      /\ pc[Main] \in {"init", "init_alloc"} => lifecycle = "INITING"
      /\ lifecycle = "INITING" => pc[Main] \in {"init", "init_alloc"}
  BY DEF IInv, TypeOK, ThreadsTypeOK, HeapTypeOK, LifecycleTypeOK,
         BodiesExclusive, ShutdownOK, InitPc
<1> DEFINE Objects == {a \in Addr : kind[a] = "obj"}
<1>2. ASSUME Objects' \subseteq Objects, Ready => Ready',
             pc'[Main] = "alloc_raw" => Ready'
      PROVE  FirstInv'
  BY <1>2 DEF FirstInv, InitialisedFirst, Ready
<1> HIDE DEF Objects
<1>3. ASSUME kind' = kind PROVE Objects' \subseteq Objects
  BY <1>3 DEF Objects
<1>4. DeallocEntry # "alloc_raw"
  BY DEF DeallocEntry
<1> USE <1>1 DEF Call, Return, Goto, heapVars, lifecycleVars, callVars
<1>5. CASE LifecycleStep(Main)
  <2>1. kind' = kind
    BY <1>5 DEF LifecycleStep
  <2>2. Ready => Ready'
    BY <1>5 DEF LifecycleStep, skev_init, InitCas, InitCasWins, StoreReady,
                skev_shutdown, ShutdownCas, Ready
  <2>3. pc'[Main] = "alloc_raw" => Ready'
    BY <1>5 DEF LifecycleStep, skev_init, InitCas, InitCasWins, StoreReady,
                skev_shutdown, ShutdownCas, Ready
  <2> QED BY <1>2, <1>3, <2>1, <2>2, <2>3
<1>6. CASE LeakStep(Main)
  <2>1. kind' = kind /\ lifecycle' = lifecycle
    BY <1>6
    DEF LeakStep, track_alloc, track_dealloc, report_leaks, StoreExitCode
  <2>2. pc'[Main] = "alloc_raw" => pc[Main] = "alloc_raw"
    BY <1>6
    DEF LeakStep, track_alloc, track_dealloc, report_leaks, StoreExitCode
  <2> QED BY <1>2, <1>3, <2>1, <2>2 DEF FirstInv, Ready
<1>7. CASE WeakStep(Main)
  <2>1. lifecycle' = lifecycle
    BY <1>7 DEF WeakStep
  <2>2. ASSUME kind' = kind, pc'[Main] # "alloc_raw" \/ pc' = pc
        PROVE  FirstInv'
    BY <1>2, <1>3, <2>1, <2>2 DEF FirstInv, Ready
  <2>3. CASE \/ \E s \in Slot, w \in WSlot : skev_weak_alloc(Main, s, w)
             \/ \E w \in WSlot : skev_weak_upgrade(Main, w)
    BY <2>2, <2>3 DEF skev_weak_alloc, skev_weak_upgrade
  <2>4. CASE \E w \in WSlot : skev_weak_release(Main, w)
    BY <2>2, <2>4 DEF skev_weak_release
  <2>5. CASE WeakLookup(Main) \/ WeakHit(Main) \/ WeakOutOfMemory(Main)
    BY <2>2, <2>5 DEF WeakLookup, WeakHit, WeakOutOfMemory
  <2>6. CASE \E e \in Addr : WeakMiss(Main, e)
    <3>1. Objects' \subseteq Objects /\ pc'[Main] = "idle"
      BY <2>6 DEF WeakMiss, alloc_entry, Objects
    <3> QED BY <1>2, <2>1, <3>1 DEF Ready
  <2>7. CASE DropUpgraded(Main) \/ OnDeallocRemove(Main)
    BY <2>2, <2>7 DEF DropUpgraded, OnDeallocRemove
  <2>8. CASE OnDeallocMark(Main) \/ OnDeallocUnslot(Main)
    BY <2>2, <2>8 DEF OnDeallocMark, OnDeallocUnslot
  <2>9. CASE free_entry(Main)
    <3>1. Objects' \subseteq Objects /\ pc'[Main] # "alloc_raw"
      BY <2>9 DEF free_entry, skev_free_raw, Objects
    <3> QED BY <1>2, <2>1, <3>1 DEF Ready
  <2> QED BY <1>7, <2>3, <2>4, <2>5, <2>6, <2>7, <2>8, <2>9 DEF WeakStep
<1>8. CASE ArcStep(Main)
  <2>1. CASE \E s \in Slot : skev_alloc(Main, s)
    <3>1. kind' = kind /\ (Ready => Ready')
      BY <2>1 DEF skev_alloc, InitCas, InitCasWins, Ready
    <3>2. pc[Main] = "idle"
      BY <2>1 DEF skev_alloc, Idle
    <3>3. pc'[Main] = "alloc_raw" => Ready'
      BY <2>1, <3>2
      DEF skev_alloc, InitCas, InitCasWins, Ready, LifecycleState
    <3> QED BY <1>2, <1>3, <3>1, <3>3
  <2>2. CASE \E a \in Addr : AllocRaw(Main, a)
    <3>1. Ready /\ lifecycle' = lifecycle
      BY <2>2 DEF AllocRaw, FirstInv
    <3> QED BY <3>1 DEF FirstInv, InitialisedFirst, Ready
  <2>3. CASE AllocOutOfMemory(Main) \/ FreeObject(Main)
    <3>1. Objects' \subseteq Objects /\ pc'[Main] = "idle"
          /\ lifecycle' = lifecycle
      BY <2>3 DEF AllocOutOfMemory, FreeObject, skev_free_raw, Objects
    <3> QED BY <1>2, <3>1 DEF Ready
  <2>4. CASE \/ \E src, dst \in Slot : skev_retain(Main, src, dst)
             \/ \E s \in Slot : skev_release(Main, s) \/ skev_dealloc(Main, s)
    <3>1. kind' = kind /\ lifecycle' = lifecycle
      BY <2>4 DEF skev_retain, skev_release, skev_dealloc
    <3>2. pc'[Main] # "alloc_raw" \/ pc' = pc
      BY <1>4, <2>4 DEF skev_retain, skev_release, skev_dealloc
    <3> QED BY <1>2, <1>3, <3>1, <3>2 DEF FirstInv, Ready
  <2> QED BY <1>8, <2>1, <2>2, <2>3, <2>4 DEF ArcStep
<1> QED BY <1>5, <1>6, <1>7, <1>8 DEF Step

(* The guard in skev_alloc is enough of itself: with no thread but main's, *)
(* no object is made before the runtime is ready, though a program with a  *)
(* main of its own is not given a call of skev_init.                       *)
THEOREM ReadyBeforeObjects ==
    ASSUME Thread = {Main}
    PROVE  MainSpec => []InitialisedFirst
<1>1. Init => FirstInv
  BY MainAssumption
  DEF Init, ThreadsInit, HeapInit, FirstInv, InitialisedFirst
<1>2. IInv /\ FirstInv /\ [Next]_vars => FirstInv'
  <2>1. ASSUME IInv, FirstInv, UNCHANGED vars PROVE FirstInv'
    BY <2>1 DEF vars, callVars, heapVars, lifecycleVars, FirstInv,
                InitialisedFirst, Ready
  <2>2. Next => Step(Main)
    BY DEF Next
  <2> QED BY <2>1, <2>2, FirstInvStep
<1>3. Spec => []FirstInv
  BY <1>1, <1>2, RuntimeSafe, PTL DEF Spec
<1>4. FirstInv => InitialisedFirst
  BY DEF FirstInv
<1> QED BY <1>3, <1>4, MainUsesRuntime, PTL
=============================================================================
