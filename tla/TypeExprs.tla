----------------------------- MODULE TypeExprs -----------------------------
(***************************************************************************)
(* The type annotations of a Skev program and the two functions of the     *)
(* compiler that walk them: convert_type of the typechecker, which reports *)
(* a game-native type it does not know, and skev_type_to_llvm of codegen,  *)
(* which panics on one.  The two walks do not descend into the same        *)
(* arguments.                                                              *)
(*                                                                         *)
(* An annotation is what parse_type builds, to a depth of two: a name, a   *)
(* game-native type, or a constructor with arguments.  "generic" stands    *)
(* for every base convert_type has no case for.  parse_type never builds   *)
(* TypeExpr::Array, and never a Generic named maybe or result, which are   *)
(* keywords.                                                               *)
(***************************************************************************)
EXTENDS Sequences

CONSTANTS Builtin,       \* the names of BUILTIN_GAME_NATIVE_TYPES
          UserDefined,   \* those added with game_native::register
          Undefined      \* game-native names that are neither

ASSUME TypeExprsAssumption == Undefined \cap (Builtin \cup UserDefined) = {}

GameNative == Builtin \cup UserDefined \cup Undefined

Leaf == [node : {"named"}, name : {"named"}, args : {<<>>}]
          \cup [node : {"game_native"}, name : GameNative, args : {<<>>}]

Apply(Args) ==
    [node : {"maybe", "result", "list", "channel", "array", "generic"},
     name : {"constructor"}, args : {<<t>> : t \in Args}]

(* Every annotation of at most two constructors, and the maps of leaves.   *)
TypeExpr ==
    Leaf \cup Apply(Leaf) \cup Apply(Apply(Leaf))
      \cup [node : {"map"}, name : {"constructor"}, args : Leaf \X Leaf]

is_known(name) == name \in Builtin \cup UserDefined
layout_for(name) == name \in Builtin

(* The constructors whose arguments each walk converts.  The fault leaves  *)
(* one of the typechecker's recursive calls out.                           *)
ConvertedArgs_NoResult == {"maybe", "list", "channel", "array", "map"}
ConvertedArgs == {"maybe", "result", "list", "channel", "array", "map"}
LoweredArgs == {"maybe", "result"}

Arguments(t) == {t.args[i] : i \in DOMAIN t.args}

(* What a walk comes to that converts the arguments of the constructors in *)
(* C: the annotation, its arguments, and theirs, which have none.          *)
Below(S, C) == S \cup UNION {Arguments(t) : t \in {u \in S : u.node \in C}}
Visited(t, C) == Below(Below({t}, C), C)

(* convert_type(t) reports an error.                                       *)
Reports(t) ==
    \E u \in Visited(t, ConvertedArgs) :
        u.node = "game_native" /\ ~is_known(u.name)

(* skev_type_to_llvm(t) reaches its catch-all, which panics.               *)
CatchAll(t) ==
    \E u \in Visited(t, LoweredArgs) :
        u.node = "game_native" /\ ~layout_for(u.name)

(* An annotation as the two passes see it.                                 *)
Annotation ==
    {[reports |-> Reports(t), catch_all |-> CatchAll(t)] : t \in TypeExpr}
=============================================================================
