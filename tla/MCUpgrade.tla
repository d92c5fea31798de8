------------------------------ MODULE MCUpgrade ------------------------------
(* UpgradeThenRetain for TLC, on the shards and symmetry of MCRuntime.     *)
EXTENDS UpgradeThenRetain, MCRuntime
=============================================================================
