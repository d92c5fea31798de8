------------------------------ MODULE MCRuntime ------------------------------
(***************************************************************************)
(* Instances of SkevRuntime for TLC.                                       *)
(***************************************************************************)
EXTENDS RuntimeInvariant, TLC

(* One shard: the shards of different addresses share no state, and with   *)
(* one of them the addresses are interchangeable.                          *)
OneShard == [a \in Addr |-> 1]

(* Two shards, for the walk of report_leaks.                               *)
First == CHOOSE a \in Addr : TRUE
TwoShards == [a \in Addr |-> IF a = First THEN 1 ELSE 2]

Symmetric == Permutations(Thread) \cup Permutations(Addr)
                 \cup Permutations(Slot) \cup Permutations(WSlot)

=============================================================================
