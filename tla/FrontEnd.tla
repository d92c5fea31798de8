------------------------------ MODULE FrontEnd ------------------------------
(***************************************************************************)
(* The typechecker and codegen over one program, in lockstep.  A program   *)
(* is read item by item and statement by statement; each action is one     *)
(* node of the tree and does what both passes do on visiting it.  The      *)
(* passes run one after the other, but meet in one place only: codegen     *)
(* runs if the typechecker reported nothing (compile_src,                  *)
(* codegen/mod.rs:1165-1173).  What is done for codegen under an error is  *)
(* never looked at.  register_top_level and the signature pass come before *)
(* any body, so the names of all top level items are there from the start. *)
(*                                                                         *)
(* Bounds: MaxNesting constructs may be open, MaxBlocks blocks made, and   *)
(* nothing is read after the first error, as no later node takes it back.  *)
(* Not in the model: interpolation, operators, and the values and machine  *)
(* types of expressions.  The parser never builds IfExists or Expr::Match, *)
(* nor Expr::As: it waits for a field called as, which is a keyword.       *)
(***************************************************************************)
EXTENDS Codegen

CONSTANTS MaxNesting, MaxBlocks

ASSUME FrontEndAssumption == MaxNesting \in Nat /\ MaxBlocks \in Nat \ {0}

VARIABLES stage,   \* where in the program the reader stands
          item     \* a top level function, or a method or event handler

vars == <<scopes, errors, locals, functions, signature, blocks, cur, frames,
          reached, stage, item>>

Position == {"field", "property", "parameter", "fn result", "variable",
             "method result", "extern"}

TypeOK ==
    /\ stage \in {"top", "entity", "signature", "body", "finished",
                  "extern", "end"}
    /\ item \in {"fn", "member", None}
    /\ errors \in BOOLEAN /\ reached \subseteq Position
    /\ functions \subseteq Name
    /\ signature \in {"full", "short", "spent"}
    /\ Len(scopes) \in 1 .. (MaxNesting + 3)
    /\ \A i \in 1 .. Len(scopes) :
         scopes[i] \in [Name -> SymbolKind \cup {None}]
    /\ \A i \in 1 .. Len(locals) : locals[i] \subseteq Name
    /\ Len(blocks) <= MaxBlocks /\ cur \in 0 .. Len(blocks)
    /\ \A i \in 1 .. Len(frames) :
         /\ frames[i].kind \in Construct
         /\ frames[i].kind \in Branching =>
              {frames[i].own, frames[i].join} \subseteq 1 .. Len(blocks)

(* register_top_level enters entities and functions, the last of a name.   *)
(* Codegen has every function, and more: those of the runtime and of       *)
(* extern blocks, methods and handlers under a name made of the entity's,  *)
(* and functions whose name an entity took over.                           *)
Init ==
    /\ \E global \in [Name -> {"Entity", "Function", None}],
          others \in SUBSET Name :
         /\ scopes = <<global>>
         /\ functions = others \cup {n \in Name : global[n] = "Function"}
    /\ errors = FALSE /\ reached = {}
    /\ locals = <<>> /\ blocks = <<>> /\ cur = 0 /\ frames = <<>>
    /\ stage = "top" /\ item = None /\ signature = "full"

At(s) == stage = s /\ ~errors
Goto(s) == stage' = s /\ UNCHANGED item

(* Items.                                                                  *)
DataField(t) ==
    /\ At("top")
    /\ check_field(t) /\ Lower("field", t)
    /\ UNCHANGED <<functionVars, functions, stage, item>>

(* A parameter or a result of an extern function: codegen alone sees it.   *)
(* Extern blocks are read last; their place changes nothing for the rest.  *)
ExternType(t) ==
    /\ At("top") \/ At("extern")
    /\ Goto("extern")
    /\ UNCHANGED <<scopes, errors, functionVars, functions>>
    /\ Lower("extern", t)

Entity ==
    /\ At("top") /\ Goto("entity")
    /\ check_open
    /\ UNCHANGED <<functionVars, functions, reached>>

Property(n, t) ==
    /\ At("entity")
    /\ check_declaration(n, t, "Property") /\ Lower("property", t)
    /\ UNCHANGED <<functionVars, functions, stage, item>>

EndEntity ==
    /\ At("entity") /\ Goto("top")
    /\ check_close
    /\ UNCHANGED <<functionVars, functions, reached>>

(* The head of a function, a method or an event handler, which has no      *)
(* result; a named type stands for a missing one as well.                  *)
Function(t) ==
    /\ At("top") /\ stage' = "signature" /\ item' = "fn"
    /\ errors' = (errors \/ check_result(t)) /\ scopes' = push_scope(scopes)
    /\ compile_fn_entry(FALSE) /\ Lower("fn result", t) /\ UNCHANGED functions

Method(t) ==
    /\ At("entity") /\ stage' = "signature" /\ item' = "member"
    /\ check_open
    /\ compile_fn_entry(TRUE) /\ Lower("method result", t) /\ UNCHANGED functions

When ==
    /\ At("entity") /\ stage' = "signature" /\ item' = "member"
    /\ check_open
    /\ compile_fn_entry(TRUE) /\ UNCHANGED <<functions, reached>>

Parameter(n, t) ==
    /\ At("signature") /\ UNCHANGED <<stage, item>>
    /\ check_declaration(n, t, "Local")
    /\ compile_parameter(n, t)

Body ==
    /\ At("signature") /\ Goto("body")
    /\ UNCHANGED <<scopes, errors, functionVars, functions, reached>>

EndFunction ==
    /\ At("body") /\ frames = <<>> /\ Goto("finished")
    /\ check_close
    /\ PopLocals /\ compile_fn_exit

(* On to the next item; the blocks of the last function are done with.     *)
NextItem ==
    /\ At("finished")
    /\ stage' = IF item = "fn" THEN "top" ELSE "entity"
    /\ item' = None /\ blocks' = <<>> /\ cur' = 0 /\ signature' = "full"
    /\ UNCHANGED <<scopes, errors, locals, functions, frames, reached>>

(* Statements.                                                             *)
InBody == At("body") /\ UNCHANGED <<stage, item>>
Room(n) == Len(frames) < MaxNesting /\ Len(blocks) + n <= MaxBlocks

VarDecl(n, t) ==
    /\ InBody
    /\ check_declaration(n, t, "Local")
    /\ compile_variable(n, t)

(* A name read, assigned and called; and the function n called as a field  *)
(* of o, of which the typechecker sees the object alone and codegen the    *)
(* field alone.                                                            *)
Use(n) == InBody /\ type_of_identifier(n) /\ compile_identifier(n)
Assign(n) == InBody /\ type_of_identifier(n) /\ compile_assign(n)
Call(n) == InBody /\ type_of_identifier(n) /\ compile_call(n)
CallField(o, n) == InBody /\ type_of_identifier(o) /\ compile_call(n)

(* Result, succeed or fail.                                                *)
Return ==
    /\ InBody /\ UNCHANGED <<scopes, errors>>
    /\ compile_return

If(else_) ==
    /\ InBody /\ Room(IF else_ THEN 3 ELSE 2)
    /\ check_open
    /\ compile_if(else_)

Else == InBody /\ frames # <<>> /\ check_next /\ compile_else

(* A loop of any kind: its header is skipped by both passes, so that a     *)
(* loop variable is defined in neither.                                    *)
Loop == InBody /\ Room(2) /\ check_open /\ compile_loop

Plain == InBody /\ Len(frames) < MaxNesting /\ check_open /\ compile_plain

Close ==
    /\ InBody /\ frames # <<>> /\ Last(frames).kind # "if"
    /\ check_close
    /\ PopLocals /\ compile_close

(* The verdict; nothing of the last function is kept.                      *)
EndProgram ==
    /\ stage \in {"top", "extern"} \/ (errors /\ stage # "end")
    /\ stage' = "end" /\ item' = None /\ scopes' = <<NoSymbols>>
    /\ locals' = <<>> /\ blocks' = <<>> /\ cur' = 0 /\ frames' = <<>>
    /\ signature' = "full"
    /\ UNCHANGED <<errors, functions, reached>>

Next ==
    \/ Entity \/ EndEntity \/ When \/ Body \/ EndFunction \/ NextItem
    \/ Return \/ Else \/ Loop \/ Plain \/ Close \/ EndProgram
    \/ \E else_ \in BOOLEAN : If(else_)
    \/ \E t \in Annotation :
         DataField(t) \/ ExternType(t) \/ Function(t) \/ Method(t)
    \/ \E n \in Name :
         \/ Use(n) \/ Assign(n) \/ Call(n)
         \/ \E o \in Name : CallField(o, n)
         \/ \E t \in Annotation :
              Property(n, t) \/ Parameter(n, t) \/ VarDecl(n, t)

Spec == Init /\ [][Next]_vars
-----------------------------------------------------------------------------
(* While a body is read, what codegen has as a local is a parameter or     *)
(* variable to the typechecker as well, or self in a method or an event    *)
(* handler; and a name the typechecker takes for a function has a          *)
(* declaration.  If the LLVM function has a parameter for each of the      *)
(* source, the converse holds too, and the two passes mean the local of    *)
(* the same body.  A scope that one pass opens or closes and the other     *)
(* does not breaks it.  What the typechecker accepts and codegen makes a   *)
(* constant 0 of is then a parameter of a function that shares its name    *)
(* with a shorter one, self in a top level function that declares no self, *)
(* and an entity or a property, which is neither a local nor a function.   *)
LocalLevel(n) == Max({0} \cup {i \in 1 .. Len(locals) : n \in locals[i]})
Receiver(n) == n = Self /\ item # "fn"

NamesAgree ==
    stage \in {"signature", "body"} => \A n \in Name :
      /\ local(n) => lookup(n) = "Local" \/ Receiver(n)
      /\ signature = "full" =>
           /\ lookup(n) = "Local" \/ Receiver(n) => local(n)
           /\ lookup(n) = "Local" =>
                Level(n) = LocalLevel(n) + (IF item = "fn" THEN 1 ELSE 2)
      /\ lookup(n) = "Function" => n \in functions

(* A block of a finished function has a terminator at its end, unless it   *)
(* is where the branches of an if or a loop join that is itself inside the *)
(* body of an if or a loop.  compile_if and compile_loop test the first    *)
(* block of a body for its terminator and not the block the body ended in. *)
OnlyNestedJoinsOpen ==
    stage = "finished" => \A i \in 1 .. Len(blocks) :
      get_terminator(blocks[i]) \/ (blocks[i].join /\ blocks[i].nested)

(* Instructions behind a terminator come from a return statement that is   *)
(* not the last of its block; a branch is never written behind a branch.   *)
SpoiledByReturnOnly ==
    \A i \in 1 .. Len(blocks) :
      blocks[i].shape \in {"tail", "twice"} => blocks[i].first = "ret"

(* A program without type errors reaches the catch-all of                  *)
(* skev_type_to_llvm only through the result type of a method or a type of *)
(* an extern function: everything else codegen lowers, the typechecker has *)
(* converted, as deep as codegen goes.                                     *)
UncheckedPosition == {"method result", "extern"}

OnlyUncheckedTypesPanic ==
    stage = "end" /\ ~errors => reached \subseteq UncheckedPosition

(* codegen/mod.rs:524, the message of the catch-all: "typechecker should   *)
(* have rejected this".                                                    *)
CatchAllUnreached == stage = "end" /\ ~errors => reached = {}
=============================================================================
