------------------------------- MODULE MCLexer -------------------------------
(***************************************************************************)
(* Instances of Lexer for TLC: every text up to a length over the          *)
(* characters one part of the lexer is about.                              *)
(***************************************************************************)
EXTENDS Lexer

UpTo(n, A) == UNION {[1 .. k -> A] : k \in 0 .. n}

Operators ==
    {"+", "-", "*", "/", "%", "|", "!", "=", ">", "<", ":", ".", "f", "@"}
Strings == {"quote", "{", "}", "a", Newline}
Comments == {"#", "{", "}", "!", Newline, "a"}
Numbers == {"0", "1", "9", "x", "b", "o", "_", ".", "f"}
Names == {"f", "n", "_", "!", "=", "1", " "}

AllTexts ==
    UpTo(4, Operators) \cup UpTo(6, Strings) \cup UpTo(6, Comments)
        \cup UpTo(4, Numbers) \cup UpTo(5, Names)
Reserved == {<<"f", "n">>}
=============================================================================
