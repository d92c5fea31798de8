---------------------------- MODULE MCRefinement ----------------------------
(* RuntimeRefinement for TLC, on the shards of MCRuntime.                  *)
EXTENDS RuntimeRefinement, MCRuntime
=============================================================================
