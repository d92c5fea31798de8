----------------------------- MODULE MCFrontEnd -----------------------------
(***************************************************************************)
(* FrontEnd for TLC, in two parts of one run: all that is to be seen with  *)
(* one name, self; and two names, with functions that lose parameters to   *)
(* others of their name, in bodies that nest once.                         *)
(***************************************************************************)
EXTENDS FrontEnd

(* The sixth block, for an if or a loop inside an if with an else, is for  *)
(* top level functions: blocks are made alike in members.                  *)
OneName ==
    /\ signature = "full" /\ functions \subseteq {Self}
    /\ Len(blocks) > 5 => item = "fn" /\ reached = {}
    /\ \A n \in Name \ {Self} :
         ~local(n) /\ \A i \in 1 .. Len(scopes) : scopes[i][n] = None

(* A body of a match arm, a task or an every, which makes no blocks, opens *)
(* scopes as any other does.                                               *)
TwoNames == Len(frames) <= 1 /\ Len(blocks) <= 1 /\ reached = {}

Bound == TwoNames \/ OneName
=============================================================================
