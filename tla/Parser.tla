------------------------------- MODULE Parser -------------------------------
(***************************************************************************)
(* parser/mod.rs: the recursive descent over the tokens and its recovery.  *)
(* The Rust call stack is `todo`, the calls and loops still to run, the    *)
(* innermost first; each action is the part of one function between two    *)
(* calls.  The tree that is built is left out, but for the precedence at   *)
(* the root of an expression.                                              *)
(*                                                                         *)
(* The tokens are read one by one, any that Following allows; "decl" is an *)
(* identifier with :: behind it, the one place where the parser looks two  *)
(* tokens ahead, and "ident", "type" (looks_like_type) and "_" are the     *)
(* others.  Token kinds no function tells apart are one kind here.  A      *)
(* name with :: behind it is never taken for a type, so texts in which a   *)
(* type is followed by a stray :: are left out.                            *)
(*                                                                         *)
(* Bound: a text ends, at the latest, where the calls nest MaxStack deep.  *)
(***************************************************************************)
EXTENDS Naturals, Sequences, FiniteSets

CONSTANTS Alphabets,  \* sets of token kinds; a text is written with one
          MaxStack

VARIABLES letters,  \* the token kinds of this text
          tok,      \* peek_kind()
          fresh,    \* behind a <<: the token is on a later line
          todo,     \* the calls to run, innermost first
          root,     \* precedence at the root of the expression just read
          errors,   \* Parser.errors is not empty
          opened,   \* the >> less the << read so far, until an error
          stray,    \* a loop has passed over a >> or << unseen
          moved     \* the last step has read a token

vars == <<letters, tok, fresh, todo, root, errors, opened, stray, moved>>

(* The levels of parse_expr_prec.  "-" is a prefix too; "=" starts a value *)
(* and assigns, "op=" only assigns.                                        *)
Precedence ==
    [or |-> 1, and |-> 2, cmp |-> 3, bor |-> 4, bxor |-> 5, band |-> 6,
     shift |-> 7, plus |-> 8, minus |-> 8, star |-> 9]
Operator == DOMAIN Precedence
Atom == 10

Identifier == {"ident", "decl", "type", "_"}
TypeStart == {"type", "native", "maybe", "result"}
InString == {"content", "interpolation", "quote"}
Mark == {">>", "<<"}

TokenKind ==
    Operator \cup Identifier \cup TypeStart \cup InString \cup Mark \cup
    {"EOF", "literal", "string", "(", ")", "[", "]", ",", ".", ":", "::",
     "->", "=", "op=", "not", "exists", "async", "shared", "await", "fail",
     "if", "else", "loop", "while", "from", "to", "in", "every", "match",
     "task", "stop", "has", "when", "entity", "fn", "data", "kind",
     "import", "extern", "test", "mock", "other"}

ASSUME ParserAssumption ==
    /\ \A A \in Alphabets :
         /\ A \subseteq TokenKind /\ "EOF" \in A
         /\ "decl" \in A => "::" \in A
    /\ MaxStack \in Nat

(* What the lexer can put behind a token.                                  *)
Following(t) ==
    CASE t = "decl" -> {"::"}
      [] t \in Identifier \ {"decl"} -> letters \ (InString \cup {"::"})
      [] t \in {"string", "content", "interpolation"} ->
           (letters \cap InString) \cup {"EOF"}
      [] OTHER -> letters \ InString

-----------------------------------------------------------------------------
Calls(plan) == [i \in DOMAIN plan |-> [op |-> plan[i]]]

At(op) == todo # <<>> /\ Head(todo).op = op

(* advance(): a move is seen by every loop that compares positions.        *)
Moved(s) ==
    [i \in DOMAIN s |->
        IF s[i].op = "again" THEN [s[i] EXCEPT !.moved = TRUE] ELSE s[i]]

Advance(next) ==
    IF tok = "EOF"
    THEN todo' = next /\ moved' = FALSE /\ UNCHANGED <<letters, tok, fresh, opened>>
    ELSE /\ todo' = Moved(next) /\ moved' = TRUE /\ UNCHANGED letters
         /\ tok' \in IF Len(next) > MaxStack THEN {"EOF"} ELSE Following(tok)
         /\ fresh' \in IF next # <<>> /\ Head(next).op = "label"
                       THEN BOOLEAN ELSE {FALSE}
         /\ opened' = IF errors' \/ stray' THEN 0
                      ELSE IF tok = ">>" THEN opened + 1
                      ELSE IF tok = "<<" THEN opened - 1 ELSE opened

Stay(next) ==
    /\ todo' = next /\ moved' = FALSE
    /\ opened' = IF errors' \/ stray' THEN 0 ELSE opened
    /\ fresh' = FALSE /\ UNCHANGED <<letters, tok>>

(* Read a token and go on with the calls of plan; the same without reading *)
(* one; the same after error_at_peek.                                      *)
Frame == UNCHANGED <<errors, stray>> /\ root' = Atom
Read(plan) == Frame /\ Advance(Calls(plan) \o Tail(todo))
Call(plan) == Frame /\ Stay(Calls(plan) \o Tail(todo))
Report(plan) ==
    /\ errors' = TRUE /\ UNCHANGED stray /\ root' = Atom
    /\ Stay(Calls(plan) \o Tail(todo))

(* One turn of a loop that throws tokens away.                             *)
Skip(plan) ==
    /\ UNCHANGED errors /\ root' = Atom
    /\ stray' = (stray \/ (~errors /\ tok \in Mark))
    /\ Advance(Calls(plan) \o Tail(todo))

(* A call that reads a token of the set T, or reports or does without.     *)
Demand(op, T, plan) ==
    At(op) /\ IF tok \in T THEN Read(plan) ELSE Report(<<>>)
Accept(op, T, plan) ==
    At(op) /\ IF tok \in T THEN Read(plan) ELSE Call(<<>>)

(* The loops over items: until << or the end of the text, one item per     *)
(* turn, and a token skipped if the item read none.                        *)
Item ==
    [program |-> "top_level", entity_body |-> "entity_item",
     fields |-> "field", variants |-> "variant", externs |-> "extern_item",
     mocks |-> "mock_item", stmts |-> "stmt", arms |-> "arm"]

LoopTest ==
    \E loop \in DOMAIN Item :
      /\ At(loop)
      /\ IF tok = "EOF" \/ (tok = "<<" /\ loop # "program")
         THEN Call(<<>>)
         ELSE /\ Frame
              /\ Stay(Calls(<<Item[loop]>>)
                        \o <<[op |-> "again", loop |-> loop, moved |-> FALSE]>>
                        \o Tail(todo))

(* The fault compares no positions.                                        *)
Again_NoCheck == At("again") /\ Call(<<Head(todo).loop>>)
Again ==
    /\ At("again")
    /\ IF Head(todo).moved THEN Call(<<Head(todo).loop>>)
       ELSE Read(<<Head(todo).loop>>)

Block == <<"open", "stmts", "close">>

expect_open_block == Demand("open", {">>"}, <<>>)

(* << and the label behind it, to the end of the line; the fault stops at  *)
(* no block mark.                                                          *)
consume_close_PastMarks ==
    \/ Demand("close", {"<<"}, <<"label">>)
    \/ /\ At("label")
       /\ IF tok = "EOF" \/ fresh THEN Call(<<>>) ELSE Read(<<"label">>)

consume_close ==
    \/ Demand("close", {"<<"}, <<"label">>)
    \/ /\ At("label")
       /\ IF tok \in Mark \cup {"EOF"} \/ fresh THEN Call(<<>>)
          ELSE Read(<<"label">>)

parse_identifier == Demand("identifier", Identifier, <<>>)

-----------------------------------------------------------------------------
TopLevel ==
    [entity |-> <<"identifier", "open", "entity_body", "close">>,
     fn |-> <<"identifier", "generics", "params", "returns">> \o Block,
     data |-> <<"identifier", "generics", "open", "fields", "close">>,
     kind |-> <<"identifier", "open", "variants", "close">>,
     import |-> <<"identifier", "path">>,
     extern |-> <<"string_literal", "identifier", "open", "externs", "close">>,
     test |-> <<"string_literal">> \o Block,
     mock |-> <<"identifier", "open", "mocks", "close">>]

parse_top_level ==
    \/ At("top_level") /\ tok = "async" /\ Read(<<"item">>)
    \/ /\ At("item") \/ (At("top_level") /\ tok # "async")
       /\ IF tok \in DOMAIN TopLevel THEN Read(TopLevel[tok]) ELSE Report(<<>>)

parse_import == Accept("path", {"."}, <<"identifier", "path">>)

parse_entity_item ==
    \/ /\ At("entity_item")
       /\ IF tok \in {"async", "shared"} THEN Read(<<"entity_item">>)
          ELSE IF tok = "has" THEN Read(<<"identifier">>)
          ELSE IF tok = "when" THEN Read(<<"identifier", "params">> \o Block)
          ELSE IF tok \in Identifier THEN Read(<<"member">>)
          ELSE Report(<<>>)
    \/ /\ At("member")
       /\ IF tok = "::" THEN Read(<<"typed_decl">>)
          ELSE IF tok = "(" THEN Call(<<"params", "returns">> \o Block)
          ELSE Report(<<>>)

(* The second half of parse_var_decl, too.                                 *)
parse_typed_decl ==
    \/ /\ At("typed_decl")
       /\ IF tok \in TypeStart THEN Call(<<"type", "value">>)
          ELSE Call(<<"expr">>)
    \/ Accept("value", {"="}, <<"expr">>)

(* The type parameters of a function or a data type.                       *)
skip_generics ==
    \/ Accept("generics", {"["}, <<"skip_generics">>)
    \/ /\ At("skip_generics")
       /\ IF tok = "EOF" THEN Call(<<>>)
          ELSE Skip(IF tok = "]" THEN <<>> ELSE <<"skip_generics">>)

parse_data ==
    \/ Demand("field", Identifier, <<"field_type">>)
    \/ Demand("field_type", {"::"}, <<"typed_decl">>)

(* A payload is skipped by its parentheses, one "payload" for each open.   *)
parse_kind ==
    \/ Demand("variant", Identifier, <<"payload_start">>)
    \/ Accept("payload_start", {"("}, <<"payload">>)
    \/ /\ At("payload")
       /\ IF tok = "EOF" THEN Call(<<>>)
          ELSE Skip(IF tok = "(" THEN <<"payload", "payload">>
                    ELSE IF tok = ")" THEN <<>> ELSE <<"payload">>)

(* The fault skips what is no function without a word.                     *)
parse_extern_Silent ==
    Accept("extern_item", Identifier, <<"params", "returns">>)
parse_extern == Demand("extern_item", Identifier, <<"params", "returns">>)

parse_mock == Demand("mock_item", {"when"}, <<"identifier", "params">> \o Block)

parse_string_literal ==
    \/ Demand("string_literal", {"string"}, <<"string_skip">>)
    \/ /\ At("string_skip")
       /\ IF tok = "EOF" THEN Call(<<>>)
          ELSE Skip(IF tok = "quote" THEN <<>> ELSE <<"string_skip">>)

(* The test of positions behind the comma never finds them equal.          *)
parse_params ==
    \/ Accept("params", {"("}, <<"param", "params_end">>)
    \/ /\ At("param")
       /\ IF tok \in {")", "EOF"} THEN Call(<<>>)
          ELSE IF tok \in Identifier THEN Read(<<"param_type", "param_comma">>)
          ELSE Report(<<"param_comma">>)
    \/ /\ At("param_type")
       /\ IF tok = ":" THEN Read(<<"type">>)
          ELSE Call(IF tok \in TypeStart THEN <<"type">> ELSE <<>>)
    \/ Accept("param_comma", {","}, <<"param">>)
    \/ Demand("params_end", {")"}, <<>>)

parse_returns == Accept("returns", {"->"}, <<"type">>)

-----------------------------------------------------------------------------
Statement ==
    [fail |-> <<"expr">>, result |-> <<"expr">>, await |-> <<"expr">>,
     if |-> <<"expr">> \o Block \o <<"else">>,
     loop |-> <<"loop_head">>,
     every |-> <<"expr">> \o Block,
     match |-> <<"expr", "open", "arms", "close">>,
     task |-> <<"skip_to_open">> \o Block,
     stop |-> <<>>,
     decl |-> <<"colons">>]

parse_stmt ==
    \/ /\ At("stmt")
       /\ IF tok \in DOMAIN Statement THEN Read(Statement[tok])
          ELSE Call(<<"expr", "assign">>)
    \/ Accept("assign", {"=", "op="}, <<"expr">>)
    \/ At("colons") /\ Read(<<"typed_decl">>)

parse_if_stmt ==
    \/ Accept("else", {"else"}, <<"else_body">>)
    \/ /\ At("else_body")
       /\ IF tok = "if" THEN Read(Statement["if"]) ELSE Call(Block)

parse_loop_stmt ==
    \/ /\ At("loop_head")
       /\ IF tok = "while" THEN Read(<<"expr">> \o Block)
          ELSE Call(IF tok = ">>" THEN Block ELSE <<"identifier", "loop_kind">>)
    \/ /\ At("loop_kind")
       /\ IF tok = "from" THEN Read(<<"expr", "to", "expr">> \o Block)
          ELSE IF tok = "in" THEN Read(<<"expr">> \o Block)
          ELSE Report(<<"skip_to_open">> \o Block)
    \/ Demand("to", {"to"}, <<>>)

(* The head of a task, and of a loop that is neither from nor in.          *)
skip_to_open ==
    /\ At("skip_to_open")
    /\ IF tok \in {">>", "EOF"} THEN Call(<<>>) ELSE Skip(<<"skip_to_open">>)

parse_match_arm ==
    \/ /\ At("arm")
       /\ IF tok = "_" THEN Read(<<"arm_body">>) ELSE Call(<<"expr", "arm_body">>)
    \/ /\ At("arm_body")
       /\ IF tok = "->" THEN Read(<<"stmt">>)
          ELSE IF tok = ">>" THEN Read(<<"stmts", "close">>)
          ELSE Report(<<>>)

-----------------------------------------------------------------------------
(* parse_expr_prec(min): an operand, then operators of level min and up.   *)
Expr(min) == <<[op |-> "unary"], [op |-> "binary", min |-> min]>>

parse_expr == At("expr") /\ Frame /\ Stay(Expr(0) \o Tail(todo))

(* The level the right operand is read at; the fault makes operators of    *)
(* the same level group to the right.                                      *)
RightLevel_Same(prec) == prec
RightLevel(prec) == prec + 1

parse_expr_prec ==
    \/ /\ At("binary") /\ UNCHANGED <<errors, stray>>
       /\ LET min == Head(todo).min
              taken == tok \in Operator /\ Precedence[tok] >= min
              prec == Precedence[tok]
          IN IF taken
             THEN /\ root' = Atom
                  /\ Advance(Expr(RightLevel(prec))
                               \o <<[op |-> "combine", prec |-> prec,
                                     left |-> root]>>
                               \o todo)
             ELSE UNCHANGED root /\ Stay(Tail(todo))
    \/ /\ At("combine") /\ UNCHANGED <<errors, stray>>
       /\ root' = Head(todo).prec /\ Stay(Tail(todo))

parse_unary ==
    /\ At("unary")
    /\ IF tok \in {"minus", "not"} THEN Read(<<"unary">>)
       ELSE Call(<<"primary", "postfix">>)

(* A field is never called "as", which is a keyword to the lexer.          *)
parse_postfix ==
    \/ /\ At("postfix")
       /\ IF tok = "." THEN Read(<<"identifier", "postfix">>)
          ELSE IF tok = "(" THEN Read(<<"args", "rparen", "postfix">>)
          ELSE IF tok = "[" THEN Read(<<"expr", "rbracket", "postfix">>)
          ELSE IF tok = "exists" THEN Read(<<"postfix">>)
          ELSE Call(<<>>)
    \/ /\ At("args")
       /\ Call(IF tok \in {")", "EOF"} THEN <<>> ELSE <<"expr", "arg_comma">>)
    \/ Accept("arg_comma", {","}, <<"args">>)
    \/ Accept("rparen", {")"}, <<>>)
    \/ Accept("rbracket", {"]"}, <<>>)

(* Any other token is an error, and is read; the fault reads it in         *)
(* silence.                                                                *)
Unexpected_Silent == Read(<<>>)
Unexpected ==
    errors' = TRUE /\ UNCHANGED stray /\ root' = Atom /\ Advance(Tail(todo))

parse_primary ==
    \/ /\ At("primary")
       /\ IF tok \in Identifier \cup {"literal", "native"} THEN Read(<<>>)
          ELSE IF tok = "string" THEN Read(<<"string_parts">>)
          ELSE IF tok = "(" THEN Read(<<"expr", "rparen">>)
          ELSE IF tok = "[" THEN Read(<<"list">>)
          ELSE IF tok = "->" THEN Read(<<"arrow">>)
          ELSE IF tok = "await" THEN Read(<<"expr">>)
          ELSE Unexpected
    \/ /\ At("string_parts")
       /\ IF tok = "quote" THEN Read(<<>>)
          ELSE IF tok \in InString THEN Read(<<"string_parts">>)
          ELSE Call(<<>>)
    \/ At("arrow") /\ IF tok = "await" THEN Read(<<"expr">>) ELSE Call(<<"expr">>)

(* [a, b] and [a -> b, c -> d], with a comma or not at the end.            *)
list_literal ==
    \/ /\ At("list")
       /\ IF tok = "]" THEN Read(<<>>) ELSE Call(<<"expr", "list_kind">>)
    \/ /\ At("list_kind")
       /\ IF tok = "->" THEN Read(<<"expr", "pairs">>) ELSE Call(<<"items">>)
    \/ /\ At("items")
       /\ IF tok = "," THEN Read(<<"next_item">>) ELSE Call(<<"rbracket">>)
    \/ /\ At("next_item")
       /\ Call(IF tok = "]" THEN <<"rbracket">> ELSE <<"expr", "items">>)
    \/ /\ At("pairs")
       /\ IF tok = "," THEN Read(<<"next_pair">>) ELSE Call(<<"rbracket">>)
    \/ /\ At("next_pair")
       /\ Call(IF tok = "]" THEN <<"rbracket">>
               ELSE <<"expr", "pair_arrow", "expr", "pairs">>)
    \/ Accept("pair_arrow", {"->"}, <<>>)

parse_type ==
    \/ /\ At("type")
       /\ IF tok = "maybe" THEN Read(<<"type">>)
          ELSE IF tok = "result" THEN Read(<<"result_arg">>)
          ELSE IF tok = "native" THEN Read(<<>>)
          ELSE IF tok \in Identifier THEN Read(<<"type_args">>)
          ELSE Report(<<>>)
    \/ Accept("result_arg", {"["}, <<"type", "rbracket">>)
    \/ Accept("type_args", {"["}, <<"type", "more_types">>)
    \/ /\ At("more_types")
       /\ IF tok = "," THEN Read(<<"type", "more_types">>)
          ELSE Call(<<"rbracket">>)

-----------------------------------------------------------------------------
Init ==
    /\ letters \in Alphabets /\ tok \in letters \ InString
    /\ todo = Calls(<<"program">>)
    /\ root = Atom /\ fresh = FALSE /\ moved = FALSE
    /\ errors = FALSE /\ opened = 0 /\ stray = FALSE

Next ==
    \/ LoopTest \/ Again \/ expect_open_block \/ consume_close
    \/ parse_identifier \/ parse_top_level \/ parse_import
    \/ parse_entity_item \/ parse_typed_decl \/ skip_generics \/ parse_data
    \/ parse_kind \/ parse_extern \/ parse_mock \/ parse_string_literal
    \/ parse_params \/ parse_returns \/ parse_stmt \/ parse_if_stmt
    \/ parse_loop_stmt \/ skip_to_open \/ parse_match_arm \/ parse_expr
    \/ parse_expr_prec \/ parse_unary \/ parse_postfix \/ parse_primary
    \/ list_literal \/ parse_type

Spec == Init /\ [][Next]_vars
FairSpec == Spec /\ WF_vars(Next)
-----------------------------------------------------------------------------
(* Types.  The parser is in as many blocks as the text has opened or more, *)
(* so that opened is never negative.                                       *)
TypeOK ==
    /\ letters \in Alphabets /\ tok \in letters
    /\ root \in 1 .. Atom /\ opened \in Nat
    /\ {fresh, errors, stray, moved} \subseteq BOOLEAN
    /\ Len(todo) <= MaxStack + 12

(* As long as there is no error, the blocks the parser thinks it is in are *)
(* those the text has opened, unless a >> or << was passed over in type    *)
(* parameters, a payload or the head of a task: so a text whose blocks do  *)
(* not match is never read without an error.                               *)
Pending(op) == Cardinality({i \in 1 .. Len(todo) : todo[i].op = op})

BlocksMatch ==
    ~errors /\ ~stray => opened + Pending("open") = Pending("close")

(* An operator binds its operands: what stands left of it groups at its    *)
(* own level or above, what stands right strictly above.                   *)
OperandsBindTighter ==
    At("combine") => Head(todo).left >= Head(todo).prec /\ root > Head(todo).prec

(* Every step of the parser is followed by one that reads a token, until   *)
(* it is through with the text: no loop turns without reading.             *)
Progress == <>(todo = <<>>) \/ []<>moved

(* A token thrown away because an item could not start with it is never    *)
(* thrown away in silence.                                                 *)
ThrownAwayWithError ==
    [][At("again") /\ moved' => errors]_vars
=============================================================================
