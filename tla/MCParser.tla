------------------------------ MODULE MCParser ------------------------------
(***************************************************************************)
(* Instances of Parser for TLC.  The three alphabets are the three parts   *)
(* of the grammar, each with the tokens that let the parser into it: items *)
(* and types, statements, expressions.                                     *)
(***************************************************************************)
EXTENDS Parser

Items ==
    {"EOF", "ident", "decl", "type", "::", "(", ")", "[", "]", ",", "->", ":",
     ">>", "<<", "async", "has", "when", "entity", "fn", "data", "kind",
     "import", ".", "extern", "string", "content", "quote", "test", "mock",
     "maybe", "result", "=", "other"}

Statements ==
    {"EOF", "fn", "(", ")", "ident", "decl", "::", ">>", "<<", "if", "else",
     "loop", "while", "from", "to", "in", "every", "task", "match", "_", "->",
     "stop", "fail", "=", "other"}

Expressions ==
    {"EOF", "fn", "ident", "(", ")", ">>", "<<", "or", "cmp", "plus", "minus",
     "not", ".", "[", "]", ",", "->", "await", "exists", "string",
     "interpolation", "quote", "literal"}

Texts == {Items, Statements, Expressions}
=============================================================================
