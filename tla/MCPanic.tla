------------------------------- MODULE MCPanic -------------------------------
(* Panic for TLC.                                                          *)
EXTENDS Panic, TLC
Symmetric == Permutations(Thread) \cup Permutations(Handler)
=============================================================================
