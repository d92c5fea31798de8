------------------------------- MODULE MCMain -------------------------------
(* GeneratedMain for TLC, on the shards of MCRuntime.                      *)
EXTENDS GeneratedMain, MCRuntime
=============================================================================
