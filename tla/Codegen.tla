------------------------------ MODULE Codegen ------------------------------
(***************************************************************************)
(* codegen/mod.rs: the function that is being compiled, as the stack of    *)
(* locals and the basic blocks LLVM holds.  An instruction is reduced to   *)
(* what get_terminator can tell: whether it is a terminator.               *)
(*                                                                         *)
(* LLVM appends whatever it is given, and get_terminator answers for the   *)
(* last instruction of a block only, so a block is                         *)
(*   open    no terminator in it                                           *)
(*   closed  one terminator, at its end: the only legal form               *)
(*   tail    instructions behind a terminator                              *)
(*   twice   a terminator behind another one                               *)
(***************************************************************************)
EXTENDS Typechecker

CONSTANT Signatures

ASSUME SignaturesAssumption == Signatures \subseteq {"full", "short", "spent"}

VARIABLES locals,     \* one set of names per open body, outermost first
          functions,  \* Codegen.functions: the names with a declaration
          signature,  \* the parameters of the LLVM function, see below
          blocks,     \* the basic blocks of the function, in order
          cur,        \* the insertion point of the builder
          frames,     \* the constructs that are open, with their blocks
          reached     \* where the catch-all of skev_type_to_llvm is reached

Construct == {"if", "then", "else", "loop", "plain"}
Branching == {"if", "then", "else", "loop"}

ASSUME CodegenAssumption == None \notin {"br", "ret"}

Block(join) ==
    [shape |-> "open", first |-> None, join |-> join,
     nested |-> \E i \in 1 .. Len(frames) : frames[i].kind \in Branching]

get_terminator(b) == b.shape \in {"closed", "twice"}

Emit(b) == [b EXCEPT !.shape = IF @ = "open" THEN "open" ELSE "tail"]

EmitTerminator(b, kind) ==
    [b EXCEPT !.shape = IF @ = "open" THEN "closed" ELSE "twice",
              !.first = IF @ = None THEN kind ELSE @]

(* A branch that closes block i unless it has a terminator already: the    *)
(* test compile_if and compile_loop make before their last branch.  The    *)
(* fault makes the branch without the test.                                *)
Branched_Always(bs, i) == [bs EXCEPT ![i] = EmitTerminator(@, "br")]
Branched(bs, i) ==
    IF get_terminator(bs[i])
    THEN bs ELSE [bs EXCEPT ![i] = EmitTerminator(@, "br")]

local(n) == \E i \in 1 .. Len(locals) : n \in locals[i]

functionVars == <<locals, signature, blocks, cur, frames>>

(* skev_type_to_llvm at position pos of the program, if there is a codegen *)
(* after this node: compile_src asks the typechecker for errors first.     *)
Lower(pos, t) ==
    reached' = IF t.catch_all /\ ~errors' THEN reached \cup {pos} ELSE reached

(* The entry block.  A body is compiled into the function that its name    *)
(* has in functions: the last one of that name, be it another function, a  *)
(* method, a handler or an extern function.  It has all the parameters of  *)
(* this one (full), or fewer (short) and at last no more (spent).  A       *)
(* method or an event handler has a first parameter that the source does   *)
(* not name: self.  The fault leaves it out of locals.                     *)
compile_fn_entry_NoSelf(has_self) ==
    /\ signature' \in Signatures
    /\ blocks' = <<[shape |-> "open", first |-> None, join |-> FALSE,
                    nested |-> FALSE]>>
    /\ cur' = 1
    /\ locals' = <<{}>>
    /\ frames' = <<>>

compile_fn_entry(has_self) ==
    /\ signature' \in Signatures
    /\ blocks' = <<[shape |-> "open", first |-> None, join |-> FALSE,
                    nested |-> FALSE]>>
    /\ cur' = 1
    /\ locals' = <<IF has_self /\ signature' # "spent" THEN {Self} ELSE {}>>
    /\ frames' = <<>>

(* An alloca in the block and a name in locals.                            *)
Declare(n) ==
    /\ blocks' = [blocks EXCEPT ![cur] = Emit(@)]
    /\ locals' = [locals EXCEPT ![Len(locals)] = @ \cup {n}]

compile_variable(n, t) ==
    /\ Lower("variable", t)
    /\ Declare(n)
    /\ UNCHANGED <<functions, signature, cur, frames>>

(* A parameter of the source that the function does not have is left out.  *)
compile_parameter(n, t) ==
    /\ Lower("parameter", t)
    /\ signature' \in IF signature = "short" THEN {"short", "spent"}
                      ELSE {signature}
    /\ IF signature' = "spent" THEN UNCHANGED <<blocks, locals>>
       ELSE Declare(n)
    /\ UNCHANGED <<functions, cur, frames>>

(* An instruction where the builder stands, or none.                       *)
Instruction(emits) ==
    /\ blocks' = IF emits THEN [blocks EXCEPT ![cur] = Emit(@)] ELSE blocks
    /\ UNCHANGED <<locals, functions, signature, cur, frames, reached>>

(* A name read: a load if it is a local, a constant if not (the address of *)
(* a function, or 0).                                                      *)
compile_identifier(n) == Instruction(local(n))

(* A name assigned: a store if it is a local; if not, the value is lost.   *)
compile_assign(n) == Instruction(local(n))

(* A call looks for the name, a bare one or the field of an object, among  *)
(* the functions alone; without one it is the constant 0.                  *)
compile_call(n) == Instruction(n \in functions)

compile_return ==
    /\ blocks' = [blocks EXCEPT ![cur] = EmitTerminator(@, "ret")]
    /\ UNCHANGED <<locals, functions, signature, cur, frames, reached>>

Push(f) == frames' = Append(frames, f) /\ locals' = Append(locals, {})

(* compile_if up to its then body.  The merge block comes before the else  *)
(* block; with no else the condition branches to the merge block.          *)
compile_if(else_) ==
    LET B == [blocks EXCEPT ![cur] = EmitTerminator(@, "br")]
        next == Len(blocks)
    IN /\ blocks' = B \o <<Block(FALSE), Block(TRUE)>>
                      \o (IF else_ THEN <<Block(FALSE)>> ELSE <<>>)
       /\ cur' = next + 1
       /\ Push([kind |-> IF else_ THEN "if" ELSE "then",
                own |-> next + 1, join |-> next + 2])
       /\ UNCHANGED <<functions, signature, reached>>

(* The end of a then body with an else: to the else block, which follows   *)
(* the merge block.  The fault leaves the then block without its branch.   *)
ThenBranched_Never(bs, i) == bs
ThenBranched(bs, i) == Branched(bs, i)

compile_else ==
    LET f == Last(frames)
    IN /\ f.kind = "if"
       /\ blocks' = ThenBranched(blocks, f.own)
       /\ cur' = f.join + 1
       /\ locals' = Append(Front(locals), {})
       /\ frames' = Append(Front(frames),
                           [f EXCEPT !.kind = "else", !.own = f.join + 1])
       /\ UNCHANGED <<functions, signature, reached>>

compile_loop ==
    LET next == Len(blocks)
    IN /\ blocks' = [blocks EXCEPT ![cur] = EmitTerminator(@, "br")]
                      \o <<Block(FALSE), Block(TRUE)>>
       /\ cur' = next + 1
       /\ Push([kind |-> "loop", own |-> next + 1, join |-> next + 2])
       /\ UNCHANGED <<functions, signature, reached>>

(* Every, task and match arm: a scope of its own and no block.             *)
compile_plain ==
    /\ Push([kind |-> "plain", own |-> None, join |-> None])
    /\ UNCHANGED <<functions, signature, blocks, cur, reached>>

(* The end of a body.  A then, else or loop body closes its own first      *)
(* block, wherever the builder stands by then, and goes on in the join.    *)
compile_close ==
    LET f == Last(frames)
    IN /\ frames' = Front(frames)
       /\ IF f.kind = "plain" THEN UNCHANGED <<blocks, cur>>
          ELSE /\ blocks' = Branched(blocks, f.own)
               /\ cur' = f.join
       /\ UNCHANGED <<functions, signature, reached>>

(* The locals of a body are popped at its end.                             *)
PopLocals == locals' = Front(locals)

(* The end of compile_fn_body: a default return if the block the builder   *)
(* stands in has no terminator.                                            *)
emit_default_return(b) ==
    IF get_terminator(b) THEN b ELSE EmitTerminator(b, "ret")

compile_fn_exit ==
    /\ blocks' = [blocks EXCEPT ![cur] = emit_default_return(@)]
    /\ UNCHANGED <<functions, signature, cur, frames, reached>>
=============================================================================
