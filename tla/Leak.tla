-------------------------------- MODULE Leak --------------------------------
(***************************************************************************)
(* leak.rs under `leak-check`: the tracker of live allocations, in shards  *)
(* each behind its own Mutex.  track_alloc and track_dealloc are one       *)
(* critical section each; report_leaks locks one shard after the other, so *)
(* that allocations and releases can run between two of its shards.  The   *)
(* reporting call's `total` and place in the walk are leaks and walk: the  *)
(* only caller is the body of skev_shutdown.                               *)
(***************************************************************************)
EXTENDS Lifecycle

CONSTANTS NShards,    \* SHARD_COUNT
          ShardOf,    \* shard_for: the shard of an address
          CountMax    \* u32::MAX, where `total` saturates

ASSUME LeakAssumption == /\ NShards \in Nat \ {0}
                         /\ ShardOf \in [Addr -> 1..NShards]
                         /\ CountMax \in Nat \ {0}
                         /\ IsFiniteSet(Addr)

VARIABLES tracker,    \* the keys of all shards of TRACKER
          walk,       \* the shards report_leaks has walked
          leaks       \* its `total`

leakVars == <<tracker, walk, leaks>>

LeakTypeOK ==
    /\ tracker \subseteq Addr
    /\ walk \in 0..NShards
    /\ leaks \in 0..CountMax

LeakInit ==
    /\ tracker = {}
    /\ walk = 0
    /\ leaks = 0

(* Faults: `total` grows past u32::MAX; it wraps around.                   *)
saturating_add_Unbounded(n, k) == n + k
saturating_add_Wrapping(n, k)  == (n + k) % (CountMax + 1)

saturating_add(n, k) == IF n + k > CountMax THEN CountMax ELSE n + k

(* The last statement of skev_alloc.                                       *)
track_alloc(t) ==
    /\ pc[t] = "track_alloc"
    /\ tracker' = tracker \cup {obj[t]}
    /\ Return(t)
    /\ UNCHANGED <<walk, leaks, lifecycleVars, strong, weak>>

(* The first statement of skev_dealloc.                                    *)
track_dealloc(t) ==
    /\ pc[t] = "untrack"
    /\ tracker' = tracker \ {obj[t]}
    /\ Goto(t, "on_dealloc")
    /\ UNCHANGED <<walk, leaks, lifecycleVars, strong, weak>>

(* One iteration of report_leaks: a shard is locked, its survivors counted *)
LastShard == NShards

report_leaks(t) ==
    /\ pc[t] = "report"
    /\ walk < LastShard
    /\ walk' = walk + 1
    /\ leaks' = saturating_add(leaks,
                   Cardinality({a \in tracker : ShardOf[a] = walk + 1}))
    /\ UNCHANGED <<tracker, callVars, lifecycleVars, strong, weak>>

(* The end of skev_shutdown: the exit code is stored, and it returns.      *)
StoreExitCode(t) ==
    /\ pc[t] = "report"
    /\ walk = LastShard
    /\ leak_exit_code' = IF leaks > 0 THEN 2 ELSE leak_exit_code
    /\ Return(t)
    /\ UNCHANGED <<leakVars, lifecycle, strong, weak>>

=============================================================================
