------------------------------- MODULE Lexer -------------------------------
(***************************************************************************)
(* lexer/mod.rs: one pass over the characters of a text.  `mode` says in   *)
(* which function, and in which of its loops, the lexer stands; an action  *)
(* is one turn of that loop.  A token keeps the stretch of text it was     *)
(* made of, at .. to, in place of its payload.                             *)
(*                                                                         *)
(* Characters the lexer treats alike are one here: Letter and Digit hold   *)
(* those it tells apart and one or two for the rest, and no capitals.      *)
(* Keywords are the words with a token of their own.  MaxInt stands for    *)
(* i64::MAX.                                                               *)
(***************************************************************************)
EXTENDS Naturals, Sequences, FiniteSets, SequencesExt

CONSTANTS Texts, Keywords, MaxInt

Newline == "newline"
White == {" ", Newline}
DigitValue ==
    [c \in {"0", "1", "7", "9", "a", "b", "f"} |->
        CASE c = "0" -> 0 [] c = "1" -> 1 [] c = "7" -> 7 [] c = "9" -> 9
          [] c = "a" -> 10 [] c = "b" -> 11 [] c = "f" -> 15]
Digit == {"0", "1", "7", "9"}
Letter == {"a", "b", "f", "n", "o", "x"}
NameChar == Letter \cup Digit \cup {"_"}
Single == {".", ",", "?", "(", ")", "[", "]"}
Sign == Single \cup {">", "<", "-", "=", "!", ":", "+", "*", "/", "%", "|"}
Char == White \cup NameChar \cup Sign \cup {"#", "{", "}", "quote", "@"}

ASSUME LexerAssumption ==
    Texts \subseteq Seq(Char) /\ Keywords \subseteq Seq(NameChar) /\ MaxInt \in Nat

VARIABLES text, pos, line, col, tokens,
          errors,  \* Lexer.errors is not empty
          mode,    \* "next" is next_token
          first,   \* where the token being read starts
          depth    \* open braces of an interpolation

vars == <<text, pos, line, col, tokens, errors, mode, first, depth>>

(* peek, and None at the end of the text.                                  *)
End == "end"
peek_at(offset) ==
    IF pos + offset < Len(text) THEN text[pos + offset + 1] ELSE End
peek == peek_at(0)

(* n calls of advance; a newline is only ever read alone.  The fault       *)
(* leaves the column as it was.                                            *)
Advance_SameColumn(n) ==
    /\ pos' = pos + n /\ col' = col + n
    /\ line' = IF n = 1 /\ peek = Newline THEN line + 1 ELSE line
Advance(n) ==
    /\ pos' = pos + n
    /\ IF n = 1 /\ peek = Newline THEN line' = line + 1 /\ col' = 1
       ELSE line' = line /\ col' = col + n

Here == [at |-> pos, line |-> line, col |-> col]
Token(kind, where, to) ==
    [kind |-> kind, at |-> where.at, to |-> to,
     line |-> where.line, col |-> where.col]

Behind == [at |-> pos + 1, line |-> line, col |-> col + 1]

(* n characters are read and ts are the tokens from now on.                *)
Read(n, m, ts) == Advance(n) /\ mode' = m /\ tokens' = ts /\ UNCHANGED text

(* A token starts; goes on; ends n characters from here and is pushed; is  *)
(* reported and not pushed.                                                *)
Start(n, m) ==
    Read(n, m, tokens) /\ first' = Here /\ UNCHANGED <<errors, depth>>
Continue(n, m) == Read(n, m, tokens) /\ UNCHANGED <<errors, first, depth>>
Push(kind, where, n) ==
    /\ Read(n, "next", Append(tokens, Token(kind, where, pos + n)))
    /\ UNCHANGED <<errors, first, depth>>
Report(n) ==
    Read(n, "next", tokens) /\ errors' = TRUE /\ UNCHANGED <<first, depth>>

-----------------------------------------------------------------------------
skip_white == mode = "next" /\ peek \in White /\ Continue(1, "next")

(* The fault takes any closing brace for the end of a block comment.       *)
BlockEnds_Brace == peek = "}"
BlockEnds == peek = "}" /\ peek_at(1) = "#"

lex_comment ==
    \/ /\ mode = "next" /\ peek = "#"
       /\ IF peek_at(1) = "{" THEN Start(2, "block")
          ELSE IF peek_at(1) = "!" THEN Start(2, "doc")
          ELSE Start(1, "comment")
    \/ /\ mode = "block"
       /\ IF peek = End THEN Report(0)
          ELSE IF BlockEnds THEN Continue(2, "next") ELSE Continue(1, "block")
    \/ /\ mode = "comment"
       /\ IF peek \in {End, Newline} THEN Continue(0, "next")
          ELSE Continue(1, "comment")
    \/ /\ mode = "doc"
       /\ IF peek \in {End, Newline} THEN Push("doc", first, 0)
          ELSE Continue(1, "doc")

(* The content of a string goes into tokens when it ends, unless empty;    *)
(* first is where it began.                                                *)
WithContent ==
    IF first.at = pos THEN tokens
    ELSE Append(tokens, Token("content", first, pos))

lex_string ==
    \/ /\ mode = "next" /\ peek = "quote"
       /\ Read(1, "string", Append(tokens, Token("start", Here, pos + 1)))
       /\ first' = Behind /\ UNCHANGED <<errors, depth>>
    \/ /\ mode = "string"
       /\ CASE peek = End ->
                 /\ Read(0, "next", WithContent)
                 /\ errors' = TRUE /\ UNCHANGED <<first, depth>>
            [] peek = "quote" ->
                 /\ Read(1, "next",
                         Append(WithContent, Token("end", Here, pos + 1)))
                 /\ UNCHANGED <<errors, first, depth>>
            [] peek = "{" ->
                 /\ Read(1, "interpolation", WithContent)
                 /\ first' = Here /\ depth' = 1 /\ UNCHANGED errors
            [] OTHER -> Continue(1, "string")

(* The braces inside are counted; the fault takes the first } for the end. *)
Closes_First == TRUE
Closes == depth = 1

lex_interpolation ==
    /\ mode = "interpolation"
    /\ LET pushed(to) == Append(tokens, Token("interpolation", first, to))
       IN CASE peek = End ->
                 /\ Read(0, "next", pushed(pos)) /\ errors' = TRUE
                 /\ UNCHANGED <<first, depth>>
            [] peek = "{" ->
                 /\ Read(1, mode, tokens)
                 /\ depth' = depth + 1 /\ UNCHANGED <<errors, first>>
            [] peek = "}" /\ Closes ->
                 /\ Read(1, "string", pushed(pos + 1))
                 /\ first' = Behind /\ depth' = 0 /\ UNCHANGED errors
            [] peek = "}" /\ ~Closes ->
                 /\ Read(1, mode, tokens)
                 /\ depth' = depth - 1 /\ UNCHANGED <<errors, first>>
            [] OTHER -> Continue(1, mode)

-----------------------------------------------------------------------------
(* A number in the radix of its prefix; what parse makes of the digits     *)
(* from the offset on.                                                     *)
Radix == [x |-> 16, b |-> 2, o |-> 8, digits |-> 10]
RadixDigit(m) == {c \in DOMAIN DigitValue : DigitValue[c] < Radix[m]} \cup {"_"}
Value(m, offset) ==
    FoldLeft(LAMBDA n, c : IF c = "_" THEN n ELSE Radix[m] * n + DigitValue[c],
             0, SubSeq(text, first.at + offset + 1, pos))

(* A literal that does not fit gets an error and no token.                 *)
PushInt(m, offset) ==
    IF Value(m, offset) > MaxInt THEN Report(0) ELSE Push("int", first, 0)

lex_radix_int ==
    /\ mode \in {"x", "b", "o"}
    /\ IF peek \in RadixDigit(mode) THEN Continue(1, mode) ELSE PushInt(mode, 2)

lex_number ==
    \/ /\ mode = "next" /\ peek \in Digit
       /\ IF peek = "0" /\ peek_at(1) \in {"x", "b", "o"}
          THEN Start(2, peek_at(1)) ELSE Start(1, "digits")
    \/ /\ mode = "digits"
       /\ IF peek \in RadixDigit("digits") THEN Continue(1, "digits")
          ELSE IF peek = "." /\ peek_at(1) \in Digit THEN Continue(1, "fraction")
          ELSE PushInt("digits", 0)
    \/ /\ mode = "fraction"
       /\ IF peek \in Digit \cup {"_"} THEN Continue(1, "fraction")
          ELSE Push("float", first, 0)

(* A name with ! right behind it is a game-native type, keyword or not.    *)
lex_identifier ==
    \/ mode = "next" /\ peek \in Letter \cup {"_"} /\ Start(1, "name")
    \/ /\ mode = "name"
       /\ IF peek \in NameChar THEN Continue(1, "name")
          ELSE IF peek = "!" THEN Push("native", first, 1)
          ELSE IF SubSeq(text, first.at + 1, pos) \in Keywords
               THEN Push("keyword", first, 0)
          ELSE Push("name", first, 0)

(* How many characters the operator has that starts with c, n, m; 0 when   *)
(* none does.  The fault tries two characters before three.                *)
Arithmetic == {"+", "-", "*"}
Overflow == {"%", "|", "!"}
Second ==
    [c \in Sign \cup {"!"} |->
        CASE c = ">" -> {">", "="} [] c = "<" -> {"<", "="}
          [] c = "=" -> {"=", ">"} [] c = ":" -> {":"}
          [] c = "-" -> Overflow \cup {">", "="}
          [] c \in {"+", "*"} -> Overflow \cup {"="}
          [] c \in {"!", "/"} -> {"="} [] OTHER -> {}]

OperatorLength_TwoFirst(c, n, m) ==
    IF c \notin DOMAIN Second \ {"%", "|"} THEN 0
    ELSE IF n \in Second[c] THEN 2 ELSE 1
OperatorLength(c, n, m) ==
    IF c \notin DOMAIN Second \ {"%", "|"} THEN 0
    ELSE IF c \in Arithmetic /\ n \in Overflow /\ m = "=" THEN 3
    ELSE IF n \in Second[c] THEN 2 ELSE 1

lex_operator ==
    /\ mode = "next"
    /\ peek \notin White \cup NameChar \cup {"#", "quote", End}
    /\ LET length == OperatorLength(peek, peek_at(1), peek_at(2))
       IN IF length = 0 THEN Report(1) ELSE Push("operator", Here, length)

run ==
    /\ mode = "next" /\ peek = End
    /\ Read(0, "done", Append(tokens, Token("EOF", Here, pos)))
    /\ UNCHANGED <<errors, first, depth>>

-----------------------------------------------------------------------------
Init ==
    /\ text \in Texts
    /\ pos = 0 /\ line = 1 /\ col = 1 /\ tokens = <<>> /\ errors = FALSE
    /\ mode = "next" /\ first = Here /\ depth = 0

Next ==
    \/ skip_white \/ lex_comment \/ lex_string \/ lex_interpolation
    \/ lex_number \/ lex_radix_int \/ lex_identifier \/ lex_operator \/ run

Spec == Init /\ [][Next]_vars

-----------------------------------------------------------------------------
InString == {"content", "interpolation", "end"}
Kind ==
    InString \cup {"start", "doc", "int", "float", "name", "keyword", "native",
                   "operator", "EOF"}
Mode ==
    {"next", "block", "doc", "comment", "string", "interpolation", "fraction",
     "name", "done"} \cup DOMAIN Radix

(* Types.  The lexer never reads beyond the end of the text.               *)
Place == [at : 0 .. Len(text), line : Nat, col : Nat]
TokenType ==
    [kind : Kind, at : 0 .. Len(text), to : 0 .. Len(text), line : Nat, col : Nat]
TypeOK ==
    /\ text \in Seq(Char) /\ pos \in 0 .. Len(text) /\ line \in Nat /\ col \in Nat
    /\ tokens \in Seq(TokenType) /\ errors \in BOOLEAN /\ mode \in Mode
    /\ first \in Place /\ depth \in Nat

(* Where a character is, counted in the text.                              *)
LineOf(at) == 1 + Cardinality({i \in 1 .. at : text[i] = Newline})
ColumnOf(at) ==
    1 + Cardinality({i \in 1 .. at : \A j \in i .. at : text[j] # Newline})

(* The tokens lie in the text in their order and do not overlap, their     *)
(* lines and columns are those of their first characters, and as long as   *)
(* there is no error, what lies between two tokens is blank up to a        *)
(* comment: no character is dropped without a report.                      *)
BlankOrComment(from, to) ==
    \A i \in from + 1 .. to :
        text[i] \in White \/ \E j \in from + 1 .. i : text[j] = "#"

TokensInPlace ==
    \A k \in DOMAIN tokens :
      LET previous == IF k = 1 THEN 0 ELSE tokens[k - 1].to
      IN /\ previous <= tokens[k].at /\ tokens[k].at <= tokens[k].to
         /\ tokens[k].line = LineOf(tokens[k].at)
         /\ tokens[k].col = ColumnOf(tokens[k].at)
         /\ ~errors => BlankOrComment(previous, tokens[k].at)

(* The spellings beside the operators in TokenKind.                        *)
Spelling ==
    {<<c>> : c \in (Sign \ {"%", "|"}) \cup {"!"}} \cup
    {<<"-", ">">>, <<"=", ">">>, <<">", ">">>, <<"<", "<">>, <<":", ":">>,
     <<"+", "=">>, <<"-", "=">>, <<"*", "=">>, <<"/", "=">>, <<"=", "=">>,
     <<"!", "=">>, <<"<", "=">>, <<">", "=">>} \cup
    {<<c, o>> : c \in Arithmetic, o \in Overflow} \cup
    {<<c, o, "=">> : c \in Arithmetic, o \in Overflow}

(* Every operator is spelled as TokenKind says, and no longer one stands   *)
(* in its place in the text, read or not.                                  *)
OperatorsMaximal ==
    \A k \in DOMAIN tokens : tokens[k].kind = "operator" =>
      LET at == tokens[k].at + 1
      IN /\ SubSeq(text, at, tokens[k].to) \in Spelling
         /\ \A s \in Spelling :
              (at + Len(s) - 1 <= Len(text) /\ SubSeq(text, at, at + Len(s) - 1) = s)
                => Len(s) <= tokens[k].to - tokens[k].at

(* What Parser relies on, Following there: a string is a start, contents   *)
(* and interpolations without a gap, and an end, or it is cut off by the   *)
(* end of the text with an error; two contents never follow each other.    *)
(* An interpolation is closed by the brace that matches its first.         *)
MayFollow(kind) ==
    CASE kind \in {"start", "interpolation"} -> InString
      [] kind = "content" -> InString \ {"content"}
      [] OTHER -> Kind \ InString

Braces(b, from, to) == Cardinality({i \in from .. to : text[i] = b})
Matched(t) ==
    /\ \A i \in t.at + 1 .. t.to - 1 :
         Braces("{", t.at + 1, i) > Braces("}", t.at + 1, i)
    /\ \/ Braces("{", t.at + 1, t.to) = Braces("}", t.at + 1, t.to)
       \/ errors /\ t.to = Len(text)

StringsBracketed ==
    \A k \in DOMAIN tokens :
      /\ tokens[k].kind = "interpolation" => Matched(tokens[k])
      /\ k > 1 =>
           LET previous == tokens[k - 1]
           IN IF tokens[k].kind \in MayFollow(previous.kind)
              THEN tokens[k].kind \in InString => previous.to = tokens[k].at
              ELSE tokens[k].kind = "EOF" /\ errors
=============================================================================
