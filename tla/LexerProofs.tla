----------------------------- MODULE LexerProofs -----------------------------
(***************************************************************************)
(* The lexer on any texts: the tokens lie in the text where they say,      *)
(* strings come in the order the parser relies on, with every              *)
(* interpolation closed by its own brace, and no operator is cut short.    *)
(***************************************************************************)
EXTENDS Lexer, FiniteSetTheorems, TLAPS

(* ---- Counting in the text. ---- *)
LEMMA Count ==
    ASSUME NEW from \in Nat, NEW at \in Nat, NEW P, NEW Q,
           P \subseteq from .. at + 1, Q = P \cap (from .. at), from <= at + 1
    PROVE  /\ Cardinality(P) \in Nat /\ Cardinality(Q) \in Nat
           /\ Cardinality(P) = IF at + 1 \in P THEN Cardinality(Q) + 1
                               ELSE Cardinality(Q)
<1>1. IsFiniteSet(from .. at + 1)
  BY FS_Interval
<1>2. IsFiniteSet(P)
  BY <1>1, FS_Subset
<1>3. IsFiniteSet(Q)
  BY <1>2, FS_Subset
<1>4. Cardinality(P) \in Nat /\ Cardinality(Q) \in Nat
  BY <1>2, <1>3, FS_CardinalityType
<1>0. /\ \A x \in P : x = at + 1 \/ x \in from .. at
      /\ at + 1 \notin from .. at
  OBVIOUS
<1>5. CASE at + 1 \in P
  <2>1. P = Q \cup {at + 1} /\ at + 1 \notin Q
    BY <1>0, <1>5
  <2>2. Cardinality(Q \cup {at + 1}) = Cardinality(Q) + 1
    BY <1>3, <2>1, FS_AddElement
  <2> QED BY <1>4, <1>5, <2>1, <2>2
<1>6. CASE at + 1 \notin P
  <2>1. P = Q
    BY <1>0, <1>6
  <2> QED BY <1>4, <1>6, <2>1
<1> QED BY <1>5, <1>6

(* One character on, the line goes up behind a newline.                    *)
LEMMA LineOfNext ==
    ASSUME TypeOK, NEW at \in Nat, at < Len(text)
    PROVE  /\ LineOf(at) \in Nat /\ LineOf(at + 1) \in Nat
           /\ LineOf(at + 1) = IF text[at + 1] = Newline THEN LineOf(at) + 1
                               ELSE LineOf(at)
<1> DEFINE P == {i \in 1 .. at + 1 : text[i] = Newline}
           Q == {i \in 1 .. at : text[i] = Newline}
<1>1. P \subseteq 1 .. at + 1 /\ Q = P \cap (1 .. at)
  OBVIOUS
<1>2. at + 1 \in P <=> text[at + 1] = Newline
  OBVIOUS
<1>3. LineOf(at) = 1 + Cardinality(Q) /\ LineOf(at + 1) = 1 + Cardinality(P)
  BY DEF LineOf
<1> HIDE DEF P, Q
<1>4. /\ Cardinality(P) \in Nat /\ Cardinality(Q) \in Nat
      /\ Cardinality(P) = IF at + 1 \in P THEN Cardinality(Q) + 1
                          ELSE Cardinality(Q)
  BY <1>1, Count, 1 \in Nat, 1 <= at + 1
<1> QED BY <1>2, <1>3, <1>4

(* One character on, the column starts again behind a newline.             *)
LEMMA ColumnOfNext ==
    ASSUME TypeOK, NEW at \in Nat, at < Len(text)
    PROVE  /\ ColumnOf(at) \in Nat /\ ColumnOf(at + 1) \in Nat
           /\ ColumnOf(at + 1) = IF text[at + 1] = Newline THEN 1
                                 ELSE ColumnOf(at) + 1
<1> DEFINE P == {i \in 1 .. at + 1 : \A j \in i .. at + 1 : text[j] # Newline}
           Q == {i \in 1 .. at : \A j \in i .. at : text[j] # Newline}
<1>1. P \subseteq 1 .. at + 1 /\ Q \subseteq 1 .. at
  OBVIOUS
<1>2. ColumnOf(at) = 1 + Cardinality(Q) /\ ColumnOf(at + 1) = 1 + Cardinality(P)
  BY DEF ColumnOf
<1>3. CASE text[at + 1] = Newline
  <2>1. P = {}
    BY <1>3
  <2>2. IsFiniteSet(1 .. at)
    BY FS_Interval
  <2>3. IsFiniteSet(Q)
    BY <1>1, <2>2, FS_Subset
  <2>4. Cardinality(Q) \in Nat
    BY <2>3, FS_CardinalityType
  <2>5. Cardinality(P) = 0
    BY <2>1, FS_EmptySet
  <2> HIDE DEF P, Q
  <2> QED BY <1>2, <1>3, <2>4, <2>5
<1>4. CASE text[at + 1] # Newline
  <2>1. at + 1 \in P /\ Q = P \cap (1 .. at)
    <3>1. \A i \in 1 .. at :
            (\A j \in i .. at + 1 : text[j] # Newline)
              <=> \A j \in i .. at : text[j] # Newline
      BY <1>4
    <3> QED BY <1>4, <3>1
  <2> HIDE DEF P, Q
  <2>2. /\ Cardinality(P) \in Nat /\ Cardinality(Q) \in Nat
        /\ Cardinality(P) = Cardinality(Q) + 1
    BY <1>1, <2>1, Count, 1 \in Nat, 1 <= at + 1
  <2> QED BY <1>2, <1>4, <2>2
<1> QED BY <1>3, <1>4

(* ---- Reading. ---- *)
(* peek finds nothing only at the end of the text.                         *)
LEMMA PeekEnd ==
    ASSUME TypeOK, peek = End
    PROVE  pos = Len(text)
<1>1. End \notin Char
  BY DEF Char, White, NameChar, Letter, Digit, Sign, Single, End, Newline
<1>2. \A i \in 1 .. Len(text) : text[i] \in Char
  BY DEF TypeOK
<1>3. pos \in 0 .. Len(text) /\ Len(text) \in Nat
  BY DEF TypeOK
<1> QED BY <1>1, <1>2, <1>3 DEF peek, peek_at

InPlace(where) ==
    where.line = LineOf(where.at) /\ where.col = ColumnOf(where.at)

(* Lines and columns are a matter of the text alone.                       *)
LEMMA SameText ==
    ASSUME UNCHANGED text
    PROVE  \A at : LineOf(at)' = LineOf(at) /\ ColumnOf(at)' = ColumnOf(at)
BY DEF LineOf, ColumnOf

(* Within a line, the column follows the position.                         *)
LEMMA SameLine ==
    ASSUME TypeOK, NEW at \in Nat, at < Len(text), text[at + 1] # Newline
    PROVE  /\ LineOf(at + 1) = LineOf(at)
           /\ ColumnOf(at + 1) = ColumnOf(at) + 1
BY LineOfNext, ColumnOfNext

(* advance keeps line and column with the position.                        *)
LEMMA AdvanceInPlace ==
    ASSUME TypeOK, InPlace(Here), NEW n \in 0 .. 3, Advance(n),
           UNCHANGED text, pos + n <= Len(text),
           n > 1 => \A i \in 1 .. n : text[pos + i] # Newline
    PROVE  /\ InPlace(Here)'
           /\ pos' \in 0 .. Len(text)' /\ line' \in Nat /\ col' \in Nat
<1>1. \A at : LineOf(at)' = LineOf(at) /\ ColumnOf(at)' = ColumnOf(at)
  BY SameText
<1>2. /\ line = LineOf(pos) /\ col = ColumnOf(pos)
      /\ pos \in Nat /\ line \in Nat /\ col \in Nat /\ Len(text) \in Nat
  BY DEF InPlace, Here, TypeOK
<1>3. line' = LineOf(pos + n) /\ col' = ColumnOf(pos + n)
  <2>1. CASE n = 0
    BY <1>2, <2>1 DEF Advance
  <2>2. CASE n = 1
    <3>1. peek = text[pos + 1] /\ pos < Len(text)
      BY <1>2, <2>2 DEF peek, peek_at
    <3>2. /\ LineOf(pos + 1) = IF text[pos + 1] = Newline THEN LineOf(pos) + 1
                               ELSE LineOf(pos)
          /\ ColumnOf(pos + 1) = IF text[pos + 1] = Newline THEN 1
                                 ELSE ColumnOf(pos) + 1
      BY <1>2, <3>1, LineOfNext, ColumnOfNext
    <3> QED BY <1>2, <2>2, <3>1, <3>2 DEF Advance
  <2>3. CASE n > 1
    <3>1. /\ line' = line /\ col' = col + n
          /\ text[pos + 1] # Newline /\ text[pos + 2] # Newline
      BY <2>3 DEF Advance
    <3>2. LineOf(pos + 1) = LineOf(pos) /\ ColumnOf(pos + 1) = ColumnOf(pos) + 1
      BY <1>2, <2>3, <3>1, SameLine
    <3> DEFINE p == pos + 1
               q == pos + 2
    <3>3. LineOf(p + 1) = LineOf(p) /\ ColumnOf(p + 1) = ColumnOf(p) + 1
      <4>1. p \in Nat /\ p < Len(text) /\ text[p + 1] # Newline
        BY <1>2, <2>3, <3>1
      <4> HIDE DEF p
      <4> QED BY <4>1, SameLine
    <3>4. p + 1 = q
      BY <1>2
    <3>5. CASE n = 2
      <4>1. pos + n = q
        BY <3>5
      <4> QED BY <1>2, <3>1, <3>2, <3>3, <3>4, <3>5, <4>1
    <3>6. CASE n = 3
      <4>1. q \in Nat /\ q < Len(text) /\ text[q + 1] # Newline
        BY <1>2, <3>6
      <4>2. pos + n = q + 1
        BY <1>2, <3>6
      <4>3. LineOf(q + 1) = LineOf(q) /\ ColumnOf(q + 1) = ColumnOf(q) + 1
        <5> HIDE DEF q
        <5> QED BY <4>1, SameLine
      <4> QED BY <1>2, <3>1, <3>2, <3>3, <3>4, <3>6, <4>2, <4>3
    <3> QED BY <2>3, <3>5, <3>6
  <2> QED BY <2>1, <2>2, <2>3
<1>4. /\ pos' = pos + n /\ pos + n \in 0 .. Len(text)
      /\ line' \in Nat /\ col' \in Nat
  BY <1>2 DEF Advance
<1>5. InPlace(Here)'
  BY <1>1, <1>3, <1>4 DEF InPlace, Here
<1> QED BY <1>4, <1>5

(* ---- The invariant. ---- *)
To(ts) == IF ts = <<>> THEN 0 ELSE ts[Len(ts)].to

Placed(ts, e) ==
    \A k \in DOMAIN ts :
      LET previous == IF k = 1 THEN 0 ELSE ts[k - 1].to
      IN /\ previous <= ts[k].at /\ ts[k].at <= ts[k].to
         /\ InPlace(ts[k])
         /\ ~e => BlankOrComment(previous, ts[k].at)

(* Between tokens, the text since the last one is blank or a comment; in a *)
(* comment its # has been read; in a token, first is where it starts.      *)
Between == {"next", "done"}
InComment == {"block", "comment"}
InToken == Mode \ (Between \cup InComment)

SinceLast(ts, p, m, f, e, d) ==
    /\ To(ts) <= p
    /\ m \in Between \cup InComment /\ ~e => BlankOrComment(To(ts), p)
    /\ m \in InComment =>
         To(ts) <= f.at /\ f.at < p /\ text[f.at + 1] = "#"
    /\ m \in InToken =>
         /\ To(ts) <= f.at /\ f.at <= p /\ InPlace(f)
         /\ ~e => BlankOrComment(To(ts), f.at)
    /\ m = "interpolation" => d >= 1

LexInv ==
    /\ TypeOK /\ InPlace(Here) /\ Placed(tokens, errors)
    /\ SinceLast(tokens, pos, mode, first, errors, depth)

(* So are the places of tokens and what lies between them.                 *)
LEMMA SamePlaces ==
    ASSUME UNCHANGED text
    PROVE  /\ \A w : InPlace(w)' <=> InPlace(w)
           /\ \A a, b : BlankOrComment(a, b)' <=> BlankOrComment(a, b)
           /\ \A ts, e : Placed(ts, e)' <=> Placed(ts, e)
<1>1. \A w : InPlace(w)' <=> InPlace(w)
  BY SameText DEF InPlace
<1>2. \A a, b : BlankOrComment(a, b)' <=> BlankOrComment(a, b)
  BY DEF BlankOrComment
<1> QED BY <1>1, <1>2 DEF Placed

(* A token placed behind the others leaves all of them in place.           *)
LEMMA PlacedAppend ==
    ASSUME NEW ts \in Seq(TokenType), NEW e \in BOOLEAN, NEW t \in TokenType,
           Placed(ts, e), To(ts) <= t.at, t.at <= t.to, InPlace(t),
           ~e => BlankOrComment(To(ts), t.at)
    PROVE  /\ Append(ts, t) \in Seq(TokenType) /\ Placed(Append(ts, t), e)
           /\ To(Append(ts, t)) = t.to
<1> DEFINE us == Append(ts, t)
<1>1. /\ us \in Seq(TokenType) /\ Len(us) = Len(ts) + 1 /\ us # <<>>
      /\ us[Len(us)] = t /\ \A k \in 1 .. Len(ts) : us[k] = ts[k]
      /\ DOMAIN us = 1 .. Len(us) /\ DOMAIN ts = 1 .. Len(ts) /\ Len(ts) \in Nat
  OBVIOUS
<1>2. (ts = <<>> <=> Len(ts) = 0) /\ t.at \in Nat /\ t.to \in Nat
  BY DEF TokenType
<1> HIDE DEF us
<1>3. ASSUME NEW k \in DOMAIN us
      PROVE  LET previous == IF k = 1 THEN 0 ELSE us[k - 1].to
             IN /\ previous <= us[k].at /\ us[k].at <= us[k].to
                /\ InPlace(us[k])
                /\ ~e => BlankOrComment(previous, us[k].at)
  <2>1. CASE k = Len(us)
    <3>1. (IF k = 1 THEN 0 ELSE us[k - 1].to) = To(ts)
      BY <1>1, <1>2, <2>1 DEF To
    <3> QED BY <1>1, <2>1, <3>1
  <2>2. CASE k # Len(us)
    <3>1. k \in DOMAIN ts /\ us[k] = ts[k] /\ (k # 1 => us[k - 1] = ts[k - 1])
      BY <1>1, <2>2
    <3> QED BY <3>1 DEF Placed
  <2> QED BY <2>1, <2>2
<1> QED BY <1>1, <1>3 DEF Placed, To, us

(* ---- Steps. ---- *)
LEMMA ReadStep ==
    ASSUME LexInv, NEW n \in 0 .. 3, NEW m \in Mode, NEW ts \in Seq(TokenType),
           Read(n, m, ts), pos + n <= Len(text),
           n > 1 => \A i \in 1 .. n : text[pos + i] # Newline,
           errors' \in BOOLEAN, first' \in Place, depth' \in Nat,
           Placed(ts, errors'), SinceLast(ts, pos + n, m, first', errors', depth')
    PROVE  LexInv'
<1>1. /\ InPlace(Here)' /\ pos' \in 0 .. Len(text)' /\ line' \in Nat
      /\ col' \in Nat /\ text' = text
  BY AdvanceInPlace DEF Read, LexInv
<1>2. TokenType' = TokenType /\ Place' = Place
  BY <1>1 DEF TokenType, Place
<1>3. TypeOK'
  BY <1>1, <1>2 DEF TypeOK, Read, LexInv
<1>4. Placed(tokens, errors)'
  BY SamePlaces DEF Read
<1>5. /\ pos' = pos + n /\ tokens' = ts /\ mode' = m
      /\ \A w : InPlace(w)' <=> InPlace(w)
      /\ \A a, b : BlankOrComment(a, b)' <=> BlankOrComment(a, b)
  BY SamePlaces DEF Read, Advance
<1>6. SinceLast(tokens, pos, mode, first, errors, depth)'
  BY <1>1, <1>5 DEF SinceLast, To
<1> QED BY <1>1, <1>3, <1>4, <1>6 DEF LexInv

(* Reading on in a comment, or over what is blank.                         *)
LEMMA BlankOn ==
    ASSUME NEW from \in Nat, NEW at \in Nat, NEW to \in Nat,
           BlankOrComment(from, at), at <= to,
           \/ \A i \in at + 1 .. to : text[i] \in White
           \/ \E j \in from + 1 .. to : text[j] = "#" /\ j <= at + 1
    PROVE  BlankOrComment(from, to)
<1> SUFFICES ASSUME NEW i \in from + 1 .. to
             PROVE  text[i] \in White \/ \E j \in from + 1 .. i : text[j] = "#"
  BY DEF BlankOrComment
<1>1. CASE i <= at
  <2>1. i \in from + 1 .. at
    BY <1>1
  <2> QED BY <2>1 DEF BlankOrComment
<1>2. CASE i > at
  <2>1. i \in at + 1 .. to
    BY <1>2
  <2>2. ASSUME NEW j \in from + 1 .. to, text[j] = "#", j <= at + 1
        PROVE  \E k \in from + 1 .. i : text[k] = "#"
    <3>1. j \in from + 1 .. i
      BY <1>2, <2>2
    <3> QED BY <2>2, <3>1
  <2> QED BY <2>1, <2>2
<1> QED BY <1>1, <1>2

(* What the invariant says of the state an action reads.                   *)
LEMMA Known ==
    ASSUME LexInv
    PROVE  /\ tokens \in Seq(TokenType) /\ errors \in BOOLEAN /\ mode \in Mode
           /\ first \in Place /\ depth \in Nat /\ Here \in Place
           /\ first.at \in Nat /\ Here.at = pos /\ InPlace(Here)
           /\ pos \in Nat /\ Len(text) \in Nat /\ pos <= Len(text)
           /\ To(tokens) \in Nat /\ To(tokens) <= pos
           /\ Placed(tokens, errors) /\ Placed(tokens, TRUE)
<1>1. /\ tokens \in Seq(TokenType) /\ errors \in BOOLEAN /\ mode \in Mode
      /\ first \in Place /\ depth \in Nat /\ Here \in Place
      /\ first.at \in Nat /\ Here.at = pos
      /\ pos \in Nat /\ Len(text) \in Nat /\ pos <= Len(text)
  BY DEF LexInv, TypeOK, Place, Here
<1>2. InPlace(Here) /\ To(tokens) <= pos /\ Placed(tokens, errors)
  BY DEF LexInv, SinceLast
<1>3. To(tokens) \in Nat
  <2>1. CASE tokens = <<>>
    BY <2>1 DEF To
  <2>2. CASE tokens # <<>>
    <3>1. tokens[Len(tokens)] \in TokenType
      BY <1>1, <2>2
    <3> QED BY <2>2, <3>1 DEF To, TokenType
  <2> QED BY <2>1, <2>2
<1>4. Placed(tokens, TRUE)
  BY <1>2 DEF Placed
<1> QED BY <1>1, <1>2, <1>3, <1>4

(* What peek finds is in the text.                                         *)
LEMMA PeekNext ==
    ASSUME LexInv, peek # End
    PROVE  pos + 1 <= Len(text) /\ text[pos + 1] = peek
<1>1. pos \in Nat /\ Len(text) \in Nat
  BY Known
<1> QED BY <1>1 DEF peek, peek_at

(* What peek_at finds one or two characters on is.                         *)
LEMMA PeekSecond ==
    ASSUME LexInv, NEW k \in {1, 2}, peek_at(k) # End
    PROVE  pos + k + 1 <= Len(text) /\ text[pos + k + 1] = peek_at(k)
<1>1. pos \in Nat /\ Len(text) \in Nat
  BY Known
<1> QED BY <1>1 DEF peek_at

(* Two or three characters that are no newlines.                           *)
LEMMA TwoChars ==
    ASSUME LexInv, peek \notin {End, Newline}, peek_at(1) \notin {End, Newline}
    PROVE  pos + 2 <= Len(text) /\ \A i \in 1 .. 2 : text[pos + i] # Newline
<1>1. text[pos + 1] # Newline
  BY PeekNext
<1>2. pos + 1 + 1 <= Len(text) /\ text[pos + 1 + 1] # Newline
  BY PeekSecond
<1>3. pos + 2 = pos + 1 + 1
  <2>1. pos \in Nat
    BY Known
  <2> QED BY <2>1
<1> QED BY <1>1, <1>2, <1>3

(* Going on inside of a token keeps everything.                            *)
LEMMA ContinueToken ==
    ASSUME LexInv, NEW m \in InToken, mode \in InToken, NEW n \in {0, 1},
           Read(n, m, tokens), UNCHANGED <<errors, first>>, pos + n <= Len(text),
           depth' \in Nat, m = "interpolation" => depth' >= 1
    PROVE  LexInv'
<1>1. m \in Mode /\ m \notin Between \cup InComment /\ n \in 0 .. 3 /\ ~(n > 1)
  BY DEF InToken
<1>2. /\ first' = first /\ errors' = errors
      /\ To(tokens) <= first.at /\ first.at <= pos /\ InPlace(first)
      /\ ~errors => BlankOrComment(To(tokens), first.at)
  BY DEF LexInv, SinceLast
<1>3. To(tokens) <= pos + n /\ first.at <= pos + n
  BY <1>2, Known
<1>4. SinceLast(tokens, pos + n, m, first', errors', depth')
  BY <1>1, <1>2, <1>3 DEF SinceLast
<1> QED BY <1>1, <1>4, Known, ReadStep

(* A token starts where the lexer stands, at something that was not read.  *)
LEMMA StartToken ==
    ASSUME LexInv, mode = "next", NEW m \in InToken, NEW n \in {1, 2},
           Start(n, m), m # "interpolation", pos + n <= Len(text),
           n > 1 => \A i \in 1 .. n : text[pos + i] # Newline
    PROVE  LexInv'
<1>1. m \in Mode /\ m \notin Between \cup InComment /\ n \in 0 .. 3
  BY DEF InToken
<1>2. /\ first' = Here /\ errors' = errors /\ depth' = depth
      /\ Read(n, m, tokens)
  BY DEF Start
<1>3. ~errors => BlankOrComment(To(tokens), pos)
  BY DEF LexInv, SinceLast, Between
<1>4. SinceLast(tokens, pos + n, m, first', errors', depth')
  BY <1>1, <1>2, <1>3, Known DEF SinceLast
<1> QED BY <1>1, <1>2, <1>4, Known, ReadStep

(* Nothing is dropped between a position and itself.                       *)
LEMMA NoGap == \A a \in Nat : BlankOrComment(a, a)
BY DEF BlankOrComment

(* A token is pushed; the next one is looked for behind it.                *)
LEMMA PushToken ==
    ASSUME LexInv, NEW kind \in Kind, NEW where \in Place, NEW n \in 0 .. 3,
           Push(kind, where, n), pos + n <= Len(text),
           n > 1 => \A i \in 1 .. n : text[pos + i] # Newline,
           \/ mode \in InToken /\ where = first
           \/ mode = "next" /\ where = Here
    PROVE  LexInv'
<1> DEFINE t == Token(kind, where, pos + n)
           ts == Append(tokens, t)
<1>1. /\ Read(n, "next", ts) /\ first' = first /\ errors' = errors
      /\ depth' = depth
  BY DEF Push
<1>2. /\ To(tokens) <= where.at /\ where.at <= pos /\ InPlace(where)
      /\ ~errors => BlankOrComment(To(tokens), where.at)
  <2>1. CASE mode \in InToken /\ where = first
    BY <2>1 DEF LexInv, SinceLast
  <2>2. CASE mode = "next" /\ where = Here
    <3>1. ~errors => BlankOrComment(To(tokens), pos)
      BY <2>2 DEF LexInv, SinceLast, Between
    <3>2. pos <= pos
      BY Known
    <3> QED BY <2>2, <3>1, <3>2, Known
  <2> QED BY <2>1, <2>2
<1>3. /\ t \in TokenType /\ t.at = where.at /\ t.to = pos + n /\ InPlace(t)
      /\ t.at <= t.to
  BY <1>2, Known DEF Token, TokenType, Place, InPlace
<1> HIDE DEF t
<1>4. ts \in Seq(TokenType) /\ Placed(ts, errors) /\ To(ts) = pos + n
  BY <1>2, <1>3, Known, PlacedAppend
<1>5. BlankOrComment(pos + n, pos + n)
  BY NoGap, Known
<1> HIDE DEF ts
<1>6. /\ "next" \in Mode /\ "next" \notin InComment /\ "next" \notin InToken
      /\ pos + n <= pos + n
  BY Known DEF Mode, InComment, InToken, Between
<1>7. SinceLast(ts, pos + n, "next", first', errors', depth')
  BY <1>4, <1>5, <1>6 DEF SinceLast
<1> QED BY <1>1, <1>4, <1>6, <1>7, Known, ReadStep

(* Something is reported, and not pushed.                                  *)
LEMMA ReportStep ==
    ASSUME LexInv, NEW n \in {0, 1}, Report(n), pos + n <= Len(text)
    PROVE  LexInv'
<1>1. /\ Read(n, "next", tokens) /\ first' = first /\ errors' = TRUE
      /\ depth' = depth
  BY DEF Report
<1>2. /\ "next" \in Mode /\ "next" \notin InComment /\ "next" \notin InToken
      /\ n \in 0 .. 3 /\ ~(n > 1)
  BY DEF Mode, InComment, InToken, Between
<1>3. SinceLast(tokens, pos + n, "next", first', TRUE, depth')
  BY <1>2, Known DEF SinceLast
<1> QED BY <1>1, <1>2, <1>3, Known, ReadStep

(* skip_white: what is dropped is blank.                                   *)
LEMMA WhiteStep == LexInv /\ skip_white => LexInv'
<1> SUFFICES ASSUME LexInv, skip_white PROVE LexInv'
  OBVIOUS
<1>1. /\ mode = "next" /\ Read(1, "next", tokens) /\ peek \in White
      /\ first' = first /\ errors' = errors /\ depth' = depth
  BY DEF skip_white, Continue
<1>2. pos + 1 <= Len(text) /\ text[pos + 1] \in White
  BY <1>1, PeekNext DEF White, End, Newline
<1>3. ~errors => BlankOrComment(To(tokens), pos)
  BY <1>1 DEF LexInv, SinceLast, Between
<1>4. ~errors => BlankOrComment(To(tokens), pos + 1)
  <2>1. \A i \in pos + 1 .. pos + 1 : text[i] \in White
    BY <1>2, Known
  <2> QED BY <1>3, <2>1, Known, BlankOn
<1>5. /\ "next" \in Mode /\ "next" \notin InComment /\ "next" \notin InToken
      /\ 1 \in 0 .. 3 /\ ~(1 > 1)
  BY DEF Mode, InComment, InToken, Between
<1>6. SinceLast(tokens, pos + 1, "next", first', errors', depth')
  BY <1>1, <1>4, <1>5, Known DEF SinceLast
<1> QED BY <1>1, <1>2, <1>5, <1>6, Known, ReadStep

(* lex_identifier: names, keywords and the native types with their !.      *)
LEMMA IdentifierStep == LexInv /\ lex_identifier => LexInv'
<1> SUFFICES ASSUME LexInv, lex_identifier PROVE LexInv'
  OBVIOUS
<1>0. "name" \in InToken /\ {"native", "keyword", "name"} \subseteq Kind
  BY DEF InToken, Mode, Between, InComment, Kind
<1>1. CASE mode = "next" /\ peek \in Letter \cup {"_"} /\ Start(1, "name")
  <2>1. peek # End
    BY <1>1 DEF Letter, End
  <2>2. pos + 1 <= Len(text) /\ "name" # "interpolation" /\ ~(1 > 1)
    BY <2>1, PeekNext
  <2> QED BY <1>0, <1>1, <2>2, StartToken
<1>2. CASE mode = "name" /\ peek \in NameChar /\ Continue(1, "name")
  <2>1. peek # End
    BY <1>2 DEF NameChar, Letter, Digit, End
  <2>2. Read(1, "name", tokens) /\ UNCHANGED <<errors, first, depth>>
    BY <1>2 DEF Continue
  <2> QED BY <1>0, <1>2, <2>1, <2>2, PeekNext, ContinueToken, Known
<1>3. CASE mode = "name" /\ peek = "!" /\ Push("native", first, 1)
  <2>1. peek # End
    BY <1>3 DEF End
  <2> QED BY <1>0, <1>3, <2>1, PeekNext, PushToken, Known
<1>4. CASE mode = "name" /\ \E k \in {"keyword", "name"} : Push(k, first, 0)
  <2>1. PICK k \in {"keyword", "name"} : Push(k, first, 0)
    BY <1>4
  <2>2. pos + 0 <= Len(text) /\ first \in Place
    BY Known
  <2> QED BY <1>0, <1>4, <2>1, <2>2, PushToken
<1> QED BY <1>1, <1>2, <1>3, <1>4 DEF lex_identifier

(* An integer is pushed or, too large, reported.                           *)
LEMMA PushIntStep ==
    ASSUME LexInv, mode \in InToken, NEW m, NEW offset, PushInt(m, offset)
    PROVE  LexInv'
<1>1. /\ "int" \in Kind /\ first \in Place /\ pos + 0 <= Len(text)
  BY Known DEF Kind
<1>2. CASE Report(0)
  BY <1>1, <1>2, ReportStep
<1>3. CASE Push("int", first, 0)
  BY <1>1, <1>3, PushToken
<1> QED BY <1>2, <1>3 DEF PushInt

(* lex_radix_int keeps the invariant.                                      *)
LEMMA RadixStep == LexInv /\ lex_radix_int => LexInv'
<1> SUFFICES ASSUME LexInv, lex_radix_int PROVE LexInv'
  OBVIOUS
<1>1. mode \in InToken /\ mode \in {"x", "b", "o"} /\ mode # "interpolation"
  BY DEF lex_radix_int, InToken, Mode, Between, InComment, Radix
<1>2. CASE peek \in RadixDigit(mode) /\ Continue(1, mode)
  <2>1. peek # End
    BY <1>2 DEF RadixDigit, DigitValue, End
  <2>2. Read(1, mode, tokens) /\ UNCHANGED <<errors, first, depth>>
    BY <1>2 DEF Continue
  <2> QED BY <1>1, <2>1, <2>2, PeekNext, ContinueToken, Known
<1>3. CASE PushInt(mode, 2)
  BY <1>1, <1>3, PushIntStep
<1> QED BY <1>2, <1>3 DEF lex_radix_int

(* lex_number keeps the invariant.                                         *)
LEMMA NumberStep == LexInv /\ lex_number => LexInv'
<1> SUFFICES ASSUME LexInv, lex_number PROVE LexInv'
  OBVIOUS
<1>0. /\ {"x", "b", "o", "digits", "fraction"} \subseteq InToken
      /\ "float" \in Kind
  BY DEF InToken, Mode, Between, InComment, Kind, Radix
<1>1. CASE /\ mode = "next" /\ peek \in Digit
           /\ peek = "0" /\ peek_at(1) \in {"x", "b", "o"}
           /\ Start(2, peek_at(1))
  <2>1. peek \notin {End, Newline} /\ peek_at(1) \notin {End, Newline}
    BY <1>1 DEF End, Newline
  <2>2. pos + 2 <= Len(text) /\ \A i \in 1 .. 2 : text[pos + i] # Newline
    BY <2>1, TwoChars
  <2> QED BY <1>0, <1>1, <2>2, StartToken
<1>2. CASE mode = "next" /\ peek \in Digit /\ Start(1, "digits")
  <2>1. peek # End
    BY <1>2 DEF Digit, End
  <2> QED BY <1>0, <1>2, <2>1, PeekNext, StartToken
<1>3. CASE /\ mode = "digits" /\ peek \in RadixDigit("digits") \cup {"."}
           /\ \E m \in {"digits", "fraction"} : Continue(1, m)
  <2>1. peek # End
    BY <1>3 DEF RadixDigit, DigitValue, End
  <2>2. PICK m \in {"digits", "fraction"} :
          Read(1, m, tokens) /\ UNCHANGED <<errors, first, depth>>
    BY <1>3 DEF Continue
  <2> QED BY <1>0, <1>3, <2>1, <2>2, PeekNext, ContinueToken, Known
<1>4. CASE mode = "digits" /\ PushInt("digits", 0)
  BY <1>0, <1>4, PushIntStep
<1>5. CASE /\ mode = "fraction" /\ peek \in Digit \cup {"_"}
           /\ Continue(1, "fraction")
  <2>1. peek # End
    BY <1>5 DEF Digit, End
  <2>2. Read(1, "fraction", tokens) /\ UNCHANGED <<errors, first, depth>>
    BY <1>5 DEF Continue
  <2> QED BY <1>0, <1>5, <2>1, <2>2, PeekNext, ContinueToken, Known
<1>6. CASE mode = "fraction" /\ Push("float", first, 0)
  <2>1. pos + 0 <= Len(text) /\ first \in Place
    BY Known
  <2> QED BY <1>0, <1>6, <2>1, PushToken
<1> QED BY <1>1, <1>2, <1>3, <1>4, <1>5, <1>6 DEF lex_number

(* An operator has at most three characters, none a newline or beyond the  *)
(* end of the text.                                                        *)
LEMMA LengthRange ==
    ASSUME NEW c, NEW n, NEW m
    PROVE  /\ OperatorLength(c, n, m) \in 0 .. 3
           /\ OperatorLength(c, n, m) >= 2 =>
                c \notin {End, Newline} /\ n \notin {End, Newline}
           /\ OperatorLength(c, n, m) = 3 => m = "="
<1>1. c \in DOMAIN Second => c \notin {End, Newline}
  BY DEF Second, Sign, Single, End, Newline
<1>2. n \in Overflow => n \notin {End, Newline}
  BY DEF Overflow, End, Newline
<1>3. c \in DOMAIN Second => Second[c] \subseteq Overflow \cup {">", "<", "=", ":"}
  <2>1. ASSUME NEW d \in Sign \cup {"!"}
        PROVE  Second[d] \in {{">", "="}, {"<", "="}, {"=", ">"}, {":"},
                  Overflow \cup {">", "="}, Overflow \cup {"="}, {"="}, {}}
    BY DEF Second
  <2>2. \A S \in {{">", "="}, {"<", "="}, {"=", ">"}, {":"},
                  Overflow \cup {">", "="}, Overflow \cup {"="}, {"="}, {}} :
          S \subseteq Overflow \cup {">", "<", "=", ":"}
    OBVIOUS
  <2> QED BY <2>1, <2>2 DEF Second
<1>4. \A x \in Overflow \cup {">", "<", "=", ":"} : x \notin {End, Newline}
  BY DEF Overflow, End, Newline
<1> HIDE DEF End, Newline
<1> QED BY <1>1, <1>2, <1>3, <1>4 DEF OperatorLength

(* lex_operator: a token of one to three characters, or a report.          *)
LEMMA OperatorStep == LexInv /\ lex_operator => LexInv'
<1> SUFFICES ASSUME LexInv, lex_operator PROVE LexInv'
  OBVIOUS
<1> DEFINE length == OperatorLength(peek, peek_at(1), peek_at(2))
<1>1. /\ mode = "next" /\ peek # End
      /\ IF length = 0 THEN Report(1) ELSE Push("operator", Here, length)
  BY DEF lex_operator
<1>2. pos + 1 <= Len(text) /\ text[pos + 1] = peek
  BY <1>1, PeekNext
<1>3. /\ length \in 0 .. 3
      /\ length >= 2 => peek # Newline /\ peek_at(1) \notin {End, Newline}
      /\ length = 3 => peek_at(2) = "="
  BY LengthRange
<1>4. "operator" \in Kind
  BY DEF Kind
<1>5. ("=" # End) /\ ("=" # Newline)
  BY DEF End, Newline
<1> HIDE DEF length
<1>6. CASE length = 0
  BY <1>1, <1>2, <1>6, ReportStep
<1>7. CASE length # 0
  <2>1. length >= 2 => pos + 1 + 1 <= Len(text) /\ text[pos + 1 + 1] # Newline
    BY <1>3, PeekSecond
  <2>2. length = 3 => pos + 2 + 1 <= Len(text) /\ text[pos + 2 + 1] # Newline
    BY <1>3, <1>5, PeekSecond
  <2>3. pos + 2 = pos + 1 + 1 /\ pos + 3 = pos + 2 + 1
    BY Known
  <2>4. length > 1 => \A i \in 1 .. length : text[pos + i] # Newline
    BY <1>2, <1>3, <2>1, <2>2, <2>3
  <2>5. pos + length <= Len(text)
    BY <1>2, <1>3, <1>7, <2>1, <2>2, <2>3, Known
  <2> QED BY <1>1, <1>3, <1>4, <1>7, <2>4, <2>5, PushToken, Known
<1> QED BY <1>6, <1>7

(* lex_comment: what is dropped begins with a #.                           *)
LEMMA CommentStep == LexInv /\ lex_comment => LexInv'
<1> SUFFICES ASSUME LexInv, lex_comment PROVE LexInv'
  OBVIOUS
<1>0. /\ "doc" \in InToken /\ "doc" \in Kind /\ "doc" # "interpolation"
      /\ "next" \in Mode /\ "next" \notin InComment /\ "next" \notin InToken
      /\ \A m \in InComment : m \in Mode /\ m \notin InToken /\ m # "interpolation"
  BY DEF InToken, Mode, Between, InComment, Kind
<1>1. CASE mode = "next" /\ peek = "#"
  <2>1. pos + 1 <= Len(text) /\ text[pos + 1] = "#"
    BY <1>1, PeekNext DEF End
  <2>2. peek_at(1) \in {"{", "!"} =>
          pos + 2 <= Len(text) /\ \A i \in 1 .. 2 : text[pos + i] # Newline
    BY <1>1, TwoChars DEF End, Newline
  <2>3. ~errors => BlankOrComment(To(tokens), pos)
    BY <1>1 DEF LexInv, SinceLast, Between
  <2>4. ASSUME NEW n \in {1, 2}, NEW m \in InComment, Start(n, m),
               n = 2 => peek_at(1) = "{"
        PROVE  LexInv'
    <3>1. /\ Read(n, m, tokens) /\ first' = Here /\ errors' = errors
          /\ depth' = depth
      BY <2>4 DEF Start
    <3>2. pos + n <= Len(text) /\ n \in 0 .. 3
      <4>1. CASE n = 1
        BY <2>1, <4>1
      <4>2. CASE n = 2
        <5>1. peek_at(1) \in {"{", "!"}
          BY <2>4, <4>2
        <5>2. pos + 2 <= Len(text) /\ pos + n = pos + 2
          BY <2>2, <4>2, <5>1
        <5> QED BY <4>2, <5>2
      <4> QED BY <4>1, <4>2
    <3>3. n > 1 => \A i \in 1 .. n : text[pos + i] # Newline
      <4>1. n > 1 => n = 2
        OBVIOUS
      <4> QED BY <2>2, <2>4, <4>1
    <3>4. ~errors => BlankOrComment(To(tokens), pos + n)
      <4>1. pos + 1 \in To(tokens) + 1 .. pos + n /\ pos + 1 <= pos + 1
            /\ pos <= pos + n /\ pos + n \in Nat
        BY Known
      <4> QED BY <2>1, <2>3, <4>1, Known, BlankOn
    <3>5. pos < pos + n /\ To(tokens) <= pos + n
      BY Known
    <3>6. SinceLast(tokens, pos + n, m, first', errors', depth')
      BY <1>0, <2>1, <3>1, <3>4, <3>5, Known DEF SinceLast
    <3> QED BY <1>0, <3>1, <3>2, <3>3, <3>6, Known, ReadStep
  <2>5. ASSUME Start(2, "doc"), peek_at(1) = "!"
        PROVE  LexInv'
    <3>1. pos + 2 <= Len(text) /\ \A i \in 1 .. 2 : text[pos + i] # Newline
      BY <2>2, <2>5
    <3> QED BY <1>0, <1>1, <2>5, <3>1, StartToken
  <2>6. {"block", "comment"} = InComment
    BY DEF InComment
  <2>7. \/ peek_at(1) = "{" /\ Start(2, "block")
        \/ peek_at(1) = "!" /\ Start(2, "doc")
        \/ Start(1, "comment")
    BY <1>1 DEF lex_comment
  <2>8. CASE peek_at(1) = "{" /\ Start(2, "block")
    BY <2>4, <2>6, <2>8
  <2>9. CASE Start(1, "comment")
    <3>1. 1 \in {1, 2} /\ 1 # 2 /\ "comment" \in InComment
      BY <2>6
    <3> HIDE DEF Start
    <3> QED BY <2>4, <2>9, <3>1
  <2> QED BY <2>5, <2>7, <2>8, <2>9
<1>2. CASE mode \in InComment
  <2>1. /\ ~errors => BlankOrComment(To(tokens), pos)
        /\ To(tokens) <= first.at /\ first.at < pos /\ text[first.at + 1] = "#"
    BY <1>2 DEF LexInv, SinceLast
  <2>2. ASSUME NEW n \in {0, 1, 2}, NEW m \in InComment \cup {"next"},
               Continue(n, m), pos + n <= Len(text),
               n > 1 => \A i \in 1 .. n : text[pos + i] # Newline
        PROVE  LexInv'
    <3>1. /\ Read(n, m, tokens) /\ first' = first /\ errors' = errors
          /\ depth' = depth /\ n \in 0 .. 3
      BY <2>2 DEF Continue
    <3>2. ~errors => BlankOrComment(To(tokens), pos + n)
      <4>1. /\ first.at + 1 \in To(tokens) + 1 .. pos + n
            /\ first.at + 1 <= pos + 1
            /\ pos <= pos + n /\ pos + n \in Nat
        BY <2>1, Known
      <4> QED BY <2>1, <4>1, Known, BlankOn
    <3>3. first.at < pos + n /\ To(tokens) <= pos + n
      BY <2>1, Known
    <3>4. m \in Mode /\ m \notin InToken /\ m # "interpolation"
      BY <1>0
    <3>5. SinceLast(tokens, pos + n, m, first', errors', depth')
      BY <2>1, <3>1, <3>2, <3>3, <3>4 DEF SinceLast
    <3> QED BY <2>2, <3>1, <3>4, <3>5, Known, ReadStep
  <2>3. pos + 0 <= Len(text) /\ (peek # End => pos + 1 <= Len(text))
    BY Known, PeekNext
  <2>4. CASE Report(0)
    BY <2>3, <2>4, ReportStep
  <2>5. CASE \E m \in {"block", "comment"} : peek # End /\ Continue(1, m)
    BY <2>2, <2>3, <2>5 DEF InComment
  <2>6. CASE Continue(0, "next")
    BY <2>2, <2>3, <2>6
  <2>7. CASE BlockEnds /\ Continue(2, "next")
    <3>1. peek \notin {End, Newline} /\ peek_at(1) \notin {End, Newline}
      BY <2>7 DEF BlockEnds, End, Newline
    <3>2. pos + 2 <= Len(text) /\ \A i \in 1 .. 2 : text[pos + i] # Newline
      BY <3>1, TwoChars
    <3> QED BY <2>2, <2>7, <3>2
  <2>8. mode \in {"block", "comment"}
    BY <1>2 DEF InComment
  <2> QED BY <2>4, <2>5, <2>6, <2>7, <2>8 DEF lex_comment
<1>3. CASE mode = "doc"
  <2>1. CASE Push("doc", first, 0)
    <3>1. pos + 0 <= Len(text) /\ first \in Place
      BY Known
    <3> QED BY <1>0, <1>3, <2>1, <3>1, PushToken
  <2>2. CASE peek # End /\ Continue(1, "doc")
    <3>1. Read(1, "doc", tokens) /\ UNCHANGED <<errors, first, depth>>
      BY <2>2 DEF Continue
    <3> QED BY <1>0, <1>3, <2>2, <3>1, PeekNext, ContinueToken, Known
  <2> QED BY <1>3, <2>1, <2>2 DEF lex_comment
<1> QED BY <1>1, <1>2, <1>3 DEF lex_comment, InComment

(* run pushes the EOF at the end of the text.                              *)
LEMMA RunStep == LexInv /\ run => LexInv'
<1> SUFFICES ASSUME LexInv, run PROVE LexInv'
  OBVIOUS
<1> DEFINE t == Token("EOF", Here, pos)
           ts == Append(tokens, t)
<1>1. /\ Read(0, "done", ts) /\ first' = first /\ errors' = errors
      /\ depth' = depth /\ mode = "next"
  BY DEF run
<1>2. ~errors => BlankOrComment(To(tokens), pos)
  BY <1>1 DEF LexInv, SinceLast, Between
<1>3. /\ t \in TokenType /\ t.at = pos /\ t.to = pos /\ InPlace(t)
      /\ t.at <= t.to
  BY Known DEF Token, TokenType, Place, InPlace, Here, Kind
<1> HIDE DEF t
<1>4. ts \in Seq(TokenType) /\ Placed(ts, errors) /\ To(ts) = pos
  BY <1>2, <1>3, Known, PlacedAppend
<1>5. BlankOrComment(pos, pos)
  BY NoGap, Known
<1> HIDE DEF ts
<1>6. /\ "done" \in Mode /\ "done" \notin InComment /\ "done" \notin InToken
      /\ pos <= pos + 0 /\ pos + 0 = pos /\ 0 \in 0 .. 3 /\ ~(0 > 1)
  BY Known DEF Mode, InComment, InToken, Between
<1>7. SinceLast(ts, pos + 0, "done", first', errors', depth')
  BY <1>1, <1>4, <1>5, <1>6 DEF SinceLast
<1> QED BY <1>1, <1>4, <1>6, <1>7, Known, ReadStep

(* A string and an interpolation: what is read goes into tokens when it    *)
(* ends, and the next part starts where it ended.                          *)
LEMMA PartRead ==
    ASSUME LexInv, mode \in {"string", "interpolation"}, NEW kind \in Kind,
           NEW to \in pos .. Len(text)
    PROVE  LET ts == Append(tokens, Token(kind, first, to))
           IN /\ ts \in Seq(TokenType) /\ Placed(ts, errors) /\ Placed(ts, TRUE)
              /\ To(ts) = to
<1> DEFINE t == Token(kind, first, to)
           ts == Append(tokens, t)
<1>1. /\ To(tokens) <= first.at /\ first.at <= pos /\ InPlace(first)
      /\ ~errors => BlankOrComment(To(tokens), first.at)
  BY DEF LexInv, SinceLast, InToken, Mode, Between, InComment
<1>2. /\ t \in TokenType /\ t.at = first.at /\ t.to = to /\ InPlace(t)
      /\ t.at <= t.to
  BY <1>1, Known DEF Token, TokenType, Place, InPlace
<1> HIDE DEF t
<1>3. ts \in Seq(TokenType) /\ Placed(ts, errors) /\ To(ts) = to
  BY <1>1, <1>2, Known, PlacedAppend
<1>4. Placed(ts, TRUE)
  BY <1>3 DEF Placed
<1> QED BY <1>3, <1>4 DEF t

(* The content of a string lies between its last token and here.           *)
LEMMA ContentRead ==
    ASSUME LexInv, mode = "string"
    PROVE  /\ WithContent \in Seq(TokenType) /\ Placed(WithContent, errors)
           /\ Placed(WithContent, TRUE) /\ To(WithContent) <= pos
           /\ To(WithContent) \in Nat
           /\ ~errors => BlankOrComment(To(WithContent), pos)
<1>1. CASE first.at = pos
  <2>1. ~errors => BlankOrComment(To(tokens), first.at)
    BY DEF LexInv, SinceLast, InToken, Mode, Between, InComment
  <2> QED BY <1>1, <2>1, Known DEF WithContent
<1>2. CASE first.at # pos
  <2>1. "content" \in Kind /\ pos \in pos .. Len(text) /\ pos \in Nat /\ pos <= pos
    BY Known DEF Kind, InString
  <2> DEFINE ts == Append(tokens, Token("content", first, pos))
  <2>2. WithContent = ts
    BY <1>2 DEF WithContent
  <2>3. /\ ts \in Seq(TokenType) /\ Placed(ts, errors) /\ Placed(ts, TRUE)
        /\ To(ts) = pos
    BY <2>1, PartRead
  <2> HIDE DEF ts
  <2> QED BY <2>1, <2>2, <2>3, NoGap
<1> QED BY <1>1, <1>2

(* Behind a character that is no newline, a place is in the text.          *)
LEMMA BehindInPlace ==
    ASSUME LexInv, pos + 1 <= Len(text), text[pos + 1] # Newline
    PROVE  Behind \in Place /\ Behind.at = pos + 1 /\ InPlace(Behind)
<1>1. pos \in Nat /\ Len(text) \in Nat /\ line \in Nat /\ col \in Nat
  BY DEF LexInv, TypeOK
<1>2. TypeOK /\ line = LineOf(pos) /\ col = ColumnOf(pos)
  BY DEF LexInv, InPlace, Here
<1>3. LineOf(pos + 1) = LineOf(pos) /\ ColumnOf(pos + 1) = ColumnOf(pos) + 1
  <2>1. pos < Len(text)
    BY <1>1
  <2> QED BY <1>1, <1>2, <2>1, SameLine
<1> QED BY <1>1, <1>2, <1>3 DEF Behind, Place, InPlace

(* A part of a string ends and the next one, or what comes behind, starts. *)
LEMMA NextPart ==
    ASSUME LexInv, NEW ts \in Seq(TokenType), NEW n \in {0, 1},
           NEW m \in {"next", "string", "interpolation"},
           Read(n, m, ts), pos + n <= Len(text), To(ts) \in Nat, To(ts) <= pos + n,
           errors' \in BOOLEAN, depth' \in Nat, m = "interpolation" => depth' >= 1,
           first' \in Place, Placed(ts, errors'),
           m = "next" /\ ~errors' => BlankOrComment(To(ts), pos + n),
           m # "next" =>
             /\ To(ts) <= first'.at /\ first'.at <= pos + n /\ InPlace(first')
             /\ ~errors' => BlankOrComment(To(ts), first'.at)
    PROVE  LexInv'
<1>1. /\ m \in Mode /\ m \notin InComment /\ n \in 0 .. 3 /\ ~(n > 1)
      /\ m \in InToken <=> m # "next"
      /\ m \in Between <=> m = "next"
  BY DEF InToken, Mode, Between, InComment
<1>2. SinceLast(ts, pos + n, m, first', errors', depth')
  BY <1>1 DEF SinceLast
<1> QED BY <1>1, <1>2, ReadStep

(* lex_string: start, contents and end follow each other without a gap.    *)
LEMMA StringStep == LexInv /\ lex_string => LexInv'
<1> SUFFICES ASSUME LexInv, lex_string PROVE LexInv'
  OBVIOUS
<1>0. {"start", "content", "end", "interpolation"} \subseteq Kind
  BY DEF Kind, InString
<1>1. CASE /\ mode = "next" /\ peek = "quote"
           /\ Read(1, "string", Append(tokens, Token("start", Here, pos + 1)))
           /\ first' = Behind /\ UNCHANGED <<errors, depth>>
  <2> DEFINE t == Token("start", Here, pos + 1)
             ts == Append(tokens, t)
  <2>1. pos + 1 <= Len(text) /\ text[pos + 1] # Newline
    BY <1>1, PeekNext DEF End, Newline
  <2>2. Behind \in Place /\ Behind.at = pos + 1 /\ InPlace(Behind)
    BY <2>1, BehindInPlace
  <2>3. ~errors => BlankOrComment(To(tokens), pos)
    BY <1>1 DEF LexInv, SinceLast, Between
  <2>4. /\ t \in TokenType /\ t.at = pos /\ t.to = pos + 1 /\ InPlace(t)
        /\ t.at <= t.to
    BY <1>0, <2>1, Known DEF Token, TokenType, Place, InPlace, Here
  <2> HIDE DEF t
  <2>5. ts \in Seq(TokenType) /\ Placed(ts, errors) /\ To(ts) = pos + 1
    BY <2>3, <2>4, Known, PlacedAppend
  <2>6. Read(1, "string", ts)
    BY <1>1 DEF t
  <2> HIDE DEF ts
  <2>7. pos + 1 \in Nat /\ pos + 1 <= pos + 1
    BY Known
  <2>8. BlankOrComment(pos + 1, pos + 1)
    BY <2>7, NoGap
  <2> QED BY <1>1, <2>1, <2>2, <2>5, <2>6, <2>7, <2>8, Known, NextPart
<1>2. CASE /\ mode = "string" /\ peek = End /\ Read(0, "next", WithContent)
           /\ errors' = TRUE /\ UNCHANGED <<first, depth>>
  <2>1. pos + 0 = pos /\ pos <= Len(text)
    BY Known
  <2> QED BY <1>2, <2>1, Known, ContentRead, NextPart
<1>3. CASE /\ mode = "string" /\ peek = "quote"
           /\ Read(1, "next", Append(WithContent, Token("end", Here, pos + 1)))
           /\ UNCHANGED <<errors, first, depth>>
  <2> DEFINE t == Token("end", Here, pos + 1)
             ts == Append(WithContent, t)
  <2>1. pos + 1 <= Len(text)
    BY <1>3, PeekNext DEF End
  <2>2. /\ t \in TokenType /\ t.at = pos /\ t.to = pos + 1 /\ InPlace(t)
        /\ t.at <= t.to
    BY <1>0, <2>1, Known DEF Token, TokenType, Place, InPlace, Here
  <2> HIDE DEF t
  <2>3. ts \in Seq(TokenType) /\ Placed(ts, errors) /\ To(ts) = pos + 1
    BY <1>3, <2>2, Known, ContentRead, PlacedAppend
  <2>4. Read(1, "next", ts)
    BY <1>3 DEF t
  <2> HIDE DEF ts
  <2>5. pos + 1 \in Nat /\ pos + 1 <= pos + 1
    BY Known
  <2>6. BlankOrComment(pos + 1, pos + 1)
    BY <2>5, NoGap
  <2> QED BY <1>3, <2>1, <2>3, <2>4, <2>5, <2>6, Known, NextPart
<1>4. CASE /\ mode = "string" /\ peek = "{" /\ Read(1, "interpolation", WithContent)
           /\ first' = Here /\ depth' = 1 /\ UNCHANGED errors
  <2>1. pos + 1 <= Len(text)
    BY <1>4, PeekNext DEF End
  <2>2. pos \in Nat /\ To(WithContent) \in Nat /\ To(WithContent) <= pos
    BY <1>4, Known, ContentRead
  <2>3. pos <= pos + 1 /\ 1 \in Nat /\ 1 >= 1 /\ To(WithContent) <= pos + 1
    BY <2>2
  <2> QED BY <1>4, <2>1, <2>2, <2>3, Known, ContentRead, NextPart
<1>5. CASE mode = "string" /\ peek # End /\ Continue(1, "string")
  <2>1. /\ Read(1, "string", tokens) /\ UNCHANGED <<errors, first, depth>>
        /\ "string" \in InToken /\ "string" # "interpolation"
    BY <1>5 DEF Continue, InToken, Mode, Between, InComment
  <2> QED BY <1>5, <2>1, PeekNext, ContinueToken, Known
<1> QED BY <1>1, <1>2, <1>3, <1>4, <1>5 DEF lex_string

(* lex_interpolation: from its { to the } that closes it.                  *)
LEMMA InterpolationStep == LexInv /\ lex_interpolation => LexInv'
<1> SUFFICES ASSUME LexInv, lex_interpolation PROVE LexInv'
  OBVIOUS
<1> DEFINE pushed(to) == Append(tokens, Token("interpolation", first, to))
<1>0. /\ "interpolation" \in Kind /\ "interpolation" \in InToken
      /\ mode = "interpolation" /\ depth >= 1
  BY DEF Kind, InString, InToken, Mode, Between, InComment, lex_interpolation,
         LexInv, SinceLast
<1>1. CASE /\ peek = End /\ Read(0, "next", pushed(pos)) /\ errors' = TRUE
           /\ UNCHANGED <<first, depth>>
  <2>1. /\ pos + 0 = pos /\ pos <= Len(text) /\ pos \in pos .. Len(text)
        /\ pos <= pos /\ pos \in Nat
    BY Known
  <2>2. /\ pushed(pos) \in Seq(TokenType) /\ Placed(pushed(pos), TRUE)
        /\ To(pushed(pos)) = pos
    BY <1>0, <2>1, PartRead
  <2> HIDE DEF pushed
  <2> QED BY <1>1, <2>1, <2>2, Known, NextPart
<1>2. CASE /\ peek = "{" /\ Read(1, mode, tokens) /\ depth' = depth + 1
           /\ UNCHANGED <<errors, first>>
  <2>1. pos + 1 <= Len(text)
    BY <1>2, PeekNext DEF End
  <2>2. depth \in Nat
    BY Known
  <2>3. depth + 1 \in Nat /\ depth + 1 >= 1
    BY <2>2
  <2> QED BY <1>0, <1>2, <2>1, <2>3, ContinueToken
<1>3. CASE /\ peek = "}" /\ Read(1, "string", pushed(pos + 1))
           /\ first' = Behind /\ depth' = 0 /\ UNCHANGED errors
  <2>1. pos + 1 <= Len(text) /\ text[pos + 1] # Newline
    BY <1>3, PeekNext DEF End, Newline
  <2>2. Behind \in Place /\ Behind.at = pos + 1 /\ InPlace(Behind)
    BY <2>1, BehindInPlace
  <2>3. pos + 1 \in pos .. Len(text) /\ pos + 1 \in Nat /\ pos + 1 <= pos + 1
    BY <2>1, Known
  <2>4. /\ pushed(pos + 1) \in Seq(TokenType) /\ Placed(pushed(pos + 1), errors)
        /\ To(pushed(pos + 1)) = pos + 1
    BY <1>0, <2>3, PartRead
  <2>5. BlankOrComment(pos + 1, pos + 1)
    BY <2>3, NoGap
  <2> HIDE DEF pushed
  <2> QED BY <1>3, <2>1, <2>2, <2>3, <2>4, <2>5, Known, NextPart
<1>4. CASE /\ peek = "}" /\ ~Closes /\ Read(1, mode, tokens)
           /\ depth' = depth - 1 /\ UNCHANGED <<errors, first>>
  <2>1. pos + 1 <= Len(text)
    BY <1>4, PeekNext DEF End
  <2>2. depth \in Nat /\ depth >= 1 /\ depth # 1
    BY <1>0, <1>4, Known DEF Closes
  <2>3. depth - 1 \in Nat /\ depth - 1 >= 1
    BY <2>2
  <2> QED BY <1>0, <1>4, <2>1, <2>3, ContinueToken
<1>5. CASE peek # End /\ Continue(1, mode)
  <2>1. Read(1, mode, tokens) /\ UNCHANGED <<errors, first, depth>>
    BY <1>5 DEF Continue
  <2> QED BY <1>0, <1>5, <2>1, PeekNext, ContinueToken, Known
<1> QED BY <1>1, <1>2, <1>3, <1>4, <1>5 DEF lex_interpolation

(* ---- The invariant for every text. ---- *)
LEMMA LexInvInit == Init => LexInv
<1> SUFFICES ASSUME Init PROVE LexInv
  OBVIOUS
<1>1. TypeOK
  <2>1. text \in Seq(Char) /\ Len(text) \in Nat
    BY LexerAssumption DEF Init
  <2>2. 0 \in 0 .. Len(text)
    BY <2>1
  <2>3. first \in Place
    BY <2>2 DEF Init, Here, Place
  <2>4. tokens \in Seq(TokenType) /\ "next" \in Mode
    BY DEF Init, Mode
  <2> QED BY <2>1, <2>2, <2>3, <2>4 DEF Init, TypeOK
<1>2. InPlace(Here)
  <2>1. LineOf(0) = 1 /\ ColumnOf(0) = 1
    <3>1. 1 .. 0 = {}
      OBVIOUS
    <3>2. Cardinality({}) = 0
      BY FS_EmptySet
    <3>3. /\ {i \in 1 .. 0 : text[i] = Newline} = {}
          /\ {i \in 1 .. 0 : \A j \in i .. 0 : text[j] # Newline} = {}
      BY <3>1
    <3> QED BY <3>2, <3>3 DEF LineOf, ColumnOf
  <2> QED BY <2>1 DEF Init, InPlace, Here
<1>3. Placed(tokens, errors)
  BY DEF Init, Placed
<1>4. SinceLast(tokens, pos, mode, first, errors, depth)
  BY NoGap DEF Init, SinceLast, To, Mode, Between, InComment, InToken
<1> QED BY <1>1, <1>2, <1>3, <1>4 DEF LexInv

(* Every step of the lexer keeps the invariant.                            *)
LEMMA LexInvNext == LexInv /\ [Next]_vars => LexInv'
<1> SUFFICES ASSUME LexInv, [Next]_vars PROVE LexInv'
  OBVIOUS
<1>1. CASE UNCHANGED vars
  <2>1. /\ TypeOK' <=> TypeOK
        /\ SinceLast(tokens, pos, mode, first, errors, depth)'
             <=> SinceLast(tokens, pos, mode, first, errors, depth)
    BY <1>1, SamePlaces DEF vars, TypeOK, TokenType, Place, SinceLast, To
  <2>2. Placed(tokens, errors)' /\ InPlace(Here)'
    BY <1>1, SamePlaces DEF vars, LexInv, Here
  <2> QED BY <2>1, <2>2 DEF LexInv
<1>2. CASE Next
  BY <1>2, WhiteStep, CommentStep, StringStep, InterpolationStep, NumberStep,
     RadixStep, IdentifierStep, OperatorStep, RunStep DEF Next
<1> QED BY <1>1, <1>2

(* The invariant of the lexer, for every text.                             *)
THEOREM LexerInvariant == Spec => []LexInv
BY LexInvInit, LexInvNext, PTL DEF Spec

(* The types: no token and no position lies beyond the end of the text.    *)
THEOREM LexerTypes == Spec => []TypeOK
<1>1. LexInv => TypeOK
  BY DEF LexInv
<1> QED BY <1>1, LexerInvariant, PTL

(* The tokens of any text lie where they say, in their order, and no       *)
(* character between them is dropped without an error.                     *)
THEOREM TokensLieInPlace == Spec => []TokensInPlace
<1>1. LexInv => TokensInPlace
  BY DEF LexInv, TokensInPlace, Placed, InPlace
<1> QED BY <1>1, LexerInvariant, PTL

(* ---- Strings and their brackets. ---- *)

(* The braces up and down to a character, and which one it is.             *)
Up(from, to) == Braces("{", from, to)
Down(from, to) == Braces("}", from, to)
Rises(c) == c = "{"
Falls(c) == c = "}"

(* StringsBracketed with the error flag as a parameter, token by token: t  *)
(* may stand behind p, an interpolation is closed by its own brace.        *)
MatchedOr(t, e) ==
    /\ \A i \in t.at + 1 .. t.to - 1 :
         Up(t.at + 1, i) > Down(t.at + 1, i)
    /\ \/ Up(t.at + 1, t.to) = Down(t.at + 1, t.to)
       \/ e /\ t.to = Len(text)

Follows(p, t, e) ==
    IF t.kind \in MayFollow(p.kind)
    THEN t.kind \in InString => p.to = t.at
    ELSE t.kind = "EOF" /\ e

Bracketed(ts, e) ==
    \A k \in DOMAIN ts :
      /\ ts[k].kind = "interpolation" => MatchedOr(ts[k], e)
      /\ k > 1 => Follows(ts[k - 1], ts[k], e)

(* The kinds of token behind which a string goes on.                       *)
Open == {"start", "content", "interpolation"}
Plain == Mode \ {"string", "interpolation", "done"}

(* What the last token is, by where the lexer is; depth counts the braces  *)
(* of the interpolation that is being read, and it never came down to 0.   *)
Opened(ts, p, m, f, e, d) ==
    /\ m \in {"string", "interpolation"} =>
         /\ ts # <<>> /\ Last(ts).kind \in Open /\ Last(ts).to = f.at
         /\ m = "string" => Last(ts).kind # "content"
    /\ m \in Plain /\ ts # <<>> =>
         \/ Last(ts).kind \notin Open
         \/ m = "next" /\ e /\ p = Len(text)
    /\ m = "interpolation" =>
         /\ f.at < p
         /\ Up(f.at + 1, p) = Down(f.at + 1, p) + d
         /\ \A i \in f.at + 1 .. p :
              Up(f.at + 1, i) > Down(f.at + 1, i)

BracketInv ==
    /\ Bracketed(tokens, errors)
    /\ Opened(tokens, pos, mode, first, errors, depth)

(* One more character, and the brace counted is it or not.                 *)
LEMMA BracesNext ==
    ASSUME NEW b, NEW from \in Nat, NEW at \in Nat, from <= at + 1
    PROVE  /\ Braces(b, from, at) \in Nat /\ Braces(b, from, at + 1) \in Nat
           /\ Braces(b, from, at + 1)
                = IF text[at + 1] = b THEN Braces(b, from, at) + 1
                  ELSE Braces(b, from, at)
<1> DEFINE P == {i \in from .. at + 1 : text[i] = b}
           Q == {i \in from .. at : text[i] = b}
<1>1. P \subseteq from .. at + 1 /\ Q = P \cap (from .. at)
  OBVIOUS
<1>2. at + 1 \in P <=> text[at + 1] = b
  OBVIOUS
<1>3. Braces(b, from, at) = Cardinality(Q) /\ Braces(b, from, at + 1) = Cardinality(P)
  BY DEF Braces
<1> HIDE DEF P, Q
<1>4. /\ Cardinality(P) \in Nat /\ Cardinality(Q) \in Nat
      /\ Cardinality(P) = IF at + 1 \in P THEN Cardinality(Q) + 1
                          ELSE Cardinality(Q)
  BY <1>1, Count
<1> QED BY <1>2, <1>3, <1>4

(* No character, no brace.                                                 *)
LEMMA BracesNone ==
    ASSUME NEW b, NEW from \in Nat, NEW at \in Nat, from = at + 1
    PROVE  Braces(b, from, at) = 0
<1>1. {i \in from .. at : text[i] = b} = {}
  OBVIOUS
<1> QED BY <1>1, FS_EmptySet DEF Braces

(* Up and Down, one character on.                                          *)
LEMMA UpDownNext ==
    ASSUME NEW from \in Nat, NEW at \in Nat, from <= at + 1
    PROVE  /\ Up(from, at) \in Nat /\ Down(from, at) \in Nat
           /\ Up(from, at + 1) = IF Rises(text[at + 1]) THEN Up(from, at) + 1
                                 ELSE Up(from, at)
           /\ Down(from, at + 1) = IF Falls(text[at + 1]) THEN Down(from, at) + 1
                                   ELSE Down(from, at)
<1>1. ASSUME NEW b, NEW c
      PROVE  /\ Braces(b, from, at) \in Nat /\ Braces(c, from, at) \in Nat
             /\ Braces(b, from, at + 1)
                  = IF text[at + 1] = b THEN Braces(b, from, at) + 1
                    ELSE Braces(b, from, at)
             /\ Braces(c, from, at + 1)
                  = IF text[at + 1] = c THEN Braces(c, from, at) + 1
                    ELSE Braces(c, from, at)
  BY BracesNext
<1> QED BY <1>1, Zenon DEF Up, Down, Rises, Falls

(* Braces, and what they say of a token, are a matter of the text alone.   *)
LEMMA SameBraces ==
    ASSUME UNCHANGED text
    PROVE  /\ \A ts, e : Bracketed(ts, e)' <=> Bracketed(ts, e)
           /\ \A ts, p, m, f, e, d :
                Opened(ts, p, m, f, e, d)' <=> Opened(ts, p, m, f, e, d)
<1>1. \A i, j : Up(i, j)' = Up(i, j) /\ Down(i, j)' = Down(i, j)
  <2>1. \A b, i, j : Braces(b, i, j)' = Braces(b, i, j)
    BY DEF Braces
  <2> QED BY <2>1 DEF Up, Down
<1>2. \A t, e : MatchedOr(t, e)' <=> MatchedOr(t, e)
  BY <1>1 DEF MatchedOr
<1>3. \A ts, e : Bracketed(ts, e)' <=> Bracketed(ts, e)
  BY <1>2 DEF Bracketed, Follows
<1>4. \A ts, p, m, f, e, d :
        Opened(ts, p, m, f, e, d)' <=> Opened(ts, p, m, f, e, d)
  <2> TAKE ts, p, m, f, e, d
  <2>1. /\ Up(f.at + 1, p)' = Up(f.at + 1, p)
        /\ Down(f.at + 1, p)' = Down(f.at + 1, p)
        /\ \A i : Up(f.at + 1, i)' = Up(f.at + 1, i)
        /\ \A i : Down(f.at + 1, i)' = Down(f.at + 1, i)
    BY <1>1
  <2>2. Len(text)' = Len(text)
    OBVIOUS
  <2> QED BY ONLY <2>1, <2>2 DEF Opened
<1> QED BY <1>3, <1>4

(* An error that is reported takes nothing back.                           *)
LEMMA BracketedMore ==
    ASSUME NEW ts, NEW e \in BOOLEAN, NEW g \in BOOLEAN, e => g, Bracketed(ts, e)
    PROVE  Bracketed(ts, g)
BY DEF Bracketed, MatchedOr, Follows

(* Append, element by element.                                             *)
LEMMA AppendIs ==
    ASSUME NEW ts \in Seq(TokenType), NEW t \in TokenType
    PROVE  LET us == Append(ts, t)
           IN /\ us \in Seq(TokenType) /\ Len(us) = Len(ts) + 1 /\ us # <<>>
              /\ us[Len(us)] = t /\ \A k \in 1 .. Len(ts) : us[k] = ts[k]
              /\ DOMAIN us = 1 .. Len(us) /\ DOMAIN ts = 1 .. Len(ts)
              /\ Len(ts) \in Nat /\ (ts = <<>> <=> Len(ts) = 0)
OBVIOUS

(* A token that may stand behind the last one.                             *)
LEMMA BracketedAppend ==
    ASSUME NEW ts \in Seq(TokenType), NEW e \in BOOLEAN, NEW t \in TokenType,
           Bracketed(ts, e), t.kind = "interpolation" => MatchedOr(t, e),
           ts # <<>> => Follows(Last(ts), t, e)
    PROVE  /\ Bracketed(Append(ts, t), e) /\ Append(ts, t) # <<>>
           /\ Append(ts, t) \in Seq(TokenType) /\ Last(Append(ts, t)) = t
<1> DEFINE us == Append(ts, t)
<1>1. /\ us \in Seq(TokenType) /\ Len(us) = Len(ts) + 1 /\ us # <<>>
      /\ us[Len(us)] = t /\ \A k \in 1 .. Len(ts) : us[k] = ts[k]
      /\ DOMAIN us = 1 .. Len(us) /\ DOMAIN ts = 1 .. Len(ts)
      /\ Len(ts) \in Nat /\ (ts = <<>> <=> Len(ts) = 0)
  BY AppendIs
<1> HIDE DEF us
<1>3. ASSUME NEW k \in DOMAIN us
      PROVE  /\ us[k].kind = "interpolation" => MatchedOr(us[k], e)
             /\ k > 1 => Follows(us[k - 1], us[k], e)
  <2>1. CASE k = Len(us)
    <3>1. k > 1 => ts # <<>> /\ us[k - 1] = Last(ts)
      BY <1>1, <2>1 DEF Last
    <3> QED BY <1>1, <2>1, <3>1
  <2>2. CASE k # Len(us)
    <3>1. k \in DOMAIN ts /\ us[k] = ts[k] /\ (k > 1 => us[k - 1] = ts[k - 1])
      BY <1>1, <2>2
    <3> QED BY <3>1 DEF Bracketed
  <2> QED BY <2>1, <2>2
<1> QED BY <1>1, <1>3 DEF Bracketed, us, Last

(* Outside of strings: a token that is no part of a string may stand       *)
(* behind the last one, and any step to a plain mode keeps the brackets.   *)
LEMMA PlainStep ==
    ASSUME LexInv, BracketInv, LexInv', mode \in Plain, mode' \in Plain,
           mode = "next" => peek # End, text' = text, errors => errors',
           \/ tokens' = tokens
           \/ \E t \in TokenType :
                /\ t.kind \in Kind \ (InString \cup {"start"})
                /\ tokens' = Append(tokens, t)
    PROVE  BracketInv'
<1>1. tokens # <<>> => Last(tokens).kind \notin Open
  <2>1. mode # "next" \/ pos # Len(text)
    BY PeekNext, Known
  <2> QED BY <2>1 DEF BracketInv, Opened
<1>2. /\ tokens \in Seq(TokenType) /\ errors \in BOOLEAN /\ errors' \in BOOLEAN
      /\ Bracketed(tokens, errors')
  BY BracketedMore DEF LexInv, TypeOK, BracketInv
<1>3. mode' \notin {"string", "interpolation"}
  BY DEF Plain
<1>4. /\ Bracketed(tokens', errors')
      /\ tokens' # <<>> => Last(tokens').kind \notin Open
  <2>1. CASE tokens' = tokens
    BY <1>1, <1>2, <2>1
  <2>2. CASE \E t \in TokenType :
               /\ t.kind \in Kind \ (InString \cup {"start"})
               /\ tokens' = Append(tokens, t)
    <3>1. PICK t \in TokenType :
               /\ t.kind \in Kind \ (InString \cup {"start"})
               /\ tokens' = Append(tokens, t)
      BY <2>2
    <3>2. t.kind # "interpolation" /\ t.kind \notin Open
      BY <3>1 DEF Kind, InString, Open
    <3>3. tokens # <<>> => Follows(Last(tokens), t, errors')
      BY <1>1, <3>1 DEF Follows, MayFollow, Open
    <3> QED BY <1>2, <3>1, <3>2, <3>3, BracketedAppend
  <2> QED BY <2>1, <2>2
<1>5. Opened(tokens', pos', mode', first', errors', depth')
  BY <1>3, <1>4 DEF Opened
<1> QED BY <1>4, <1>5, SameBraces DEF BracketInv

(* A token that was pushed is typed as all of them are.                    *)
LEMMA PushedTyped ==
    ASSUME LexInv, LexInv', NEW t, tokens' = Append(tokens, t), text' = text
    PROVE  t \in TokenType
<1>1. /\ tokens \in Seq(TokenType) /\ tokens' \in Seq(TokenType')
      /\ TokenType' = TokenType
  BY DEF LexInv, TypeOK, TokenType
<1>2. Len(tokens) \in Nat /\ Len(tokens') = Len(tokens) + 1
  BY <1>1
<1>3. tokens'[Len(tokens) + 1] = t
  BY <1>1
<1>4. tokens'[Len(tokens) + 1] \in TokenType
  BY <1>1, <1>2
<1> QED BY <1>3, <1>4

(* The four ways to read outside of strings.                               *)
LEMMA PlainRead ==
    ASSUME LexInv, BracketInv, LexInv', mode \in Plain,
           mode = "next" => peek # End,
           \/ \E n \in Nat, m \in Plain : Continue(n, m) \/ Start(n, m)
           \/ \E n \in Nat, kind \in Kind \ (InString \cup {"start"}) :
                \E where : Push(kind, where, n)
           \/ \E n \in Nat : Report(n)
    PROVE  BracketInv'
<1>1. "next" \in Plain
  BY DEF Plain, Mode
<1>2. CASE \E n \in Nat, m \in Plain : Continue(n, m) \/ Start(n, m)
  <2>1. tokens' = tokens /\ mode' \in Plain /\ text' = text /\ errors' = errors
    BY <1>2 DEF Continue, Start, Read
  <2> QED BY <2>1, PlainStep
<1>3. CASE \E n \in Nat, kind \in Kind \ (InString \cup {"start"}) :
             \E where : Push(kind, where, n)
  <2>1. PICK n \in Nat, kind \in Kind \ (InString \cup {"start"}) :
             \E where : Push(kind, where, n)
    BY <1>3
  <2>2. PICK where : Push(kind, where, n)
    BY <2>1
  <2> DEFINE t == Token(kind, where, pos + n)
  <2>3. /\ tokens' = Append(tokens, t) /\ mode' = "next" /\ text' = text
        /\ errors' = errors
    BY <2>2 DEF Push, Read
  <2>4. t.kind = kind
    BY DEF Token
  <2> HIDE DEF t
  <2>5. t \in TokenType
    BY <2>3, PushedTyped
  <2> QED BY <1>1, <2>1, <2>3, <2>4, <2>5, PlainStep
<1>4. CASE \E n \in Nat : Report(n)
  <2>1. tokens' = tokens /\ mode' = "next" /\ text' = text /\ errors' = TRUE
    BY <1>4 DEF Report, Read
  <2> QED BY <1>1, <2>1, PlainStep
<1> QED BY <1>2, <1>3, <1>4

(* Everything but strings and the end of the text.                         *)
LEMMA PlainActions ==
    ASSUME LexInv, BracketInv, LexInv',
           \/ skip_white \/ lex_comment \/ lex_number \/ lex_radix_int
           \/ lex_identifier \/ lex_operator
    PROVE  BracketInv'
<1> DEFINE Outside == Kind \ (InString \cup {"start"})
<1>1. /\ {"next", "block", "comment", "doc", "digits", "fraction", "name",
          "x", "b", "o"} \subseteq Plain
      /\ {"doc", "int", "float", "native", "keyword", "name", "operator"}
           \subseteq Outside
      /\ 0 \in Nat /\ 1 \in Nat /\ 2 \in Nat
  BY DEF Plain, Mode, Radix, Kind, InString
<1> HIDE DEF Outside
<1>2. End \notin White \cup Digit \cup Letter \cup {"_", "#"}
  BY DEF End, White, Newline, Digit, Letter
<1>3. mode \in Plain /\ (mode = "next" => peek # End)
  BY <1>1, <1>2
  DEF skip_white, lex_comment, lex_number, lex_radix_int, lex_identifier,
      lex_operator
<1>4. \/ \E n \in Nat, m \in Plain : Continue(n, m) \/ Start(n, m)
      \/ \E n \in Nat, kind \in Outside : \E where : Push(kind, where, n)
      \/ \E n \in Nat : Report(n)
  <2>1. CASE skip_white
    BY <1>1, <2>1 DEF skip_white
  <2>2. CASE lex_comment
    BY <1>1, <2>2 DEF lex_comment
  <2>3. CASE lex_number
    BY <1>1, <2>3 DEF lex_number, PushInt
  <2>4. CASE lex_radix_int
    BY <1>1, <2>4 DEF lex_radix_int, PushInt
  <2>5. CASE lex_identifier
    BY <1>1, <2>5 DEF lex_identifier
  <2>6. CASE lex_operator
    <3> DEFINE length == OperatorLength(peek, peek_at(1), peek_at(2))
    <3>1. length \in Nat
      BY LengthRange
    <3> HIDE DEF length
    <3>2. Report(1) \/ Push("operator", Here, length)
      BY <2>6 DEF lex_operator, length
    <3> QED BY <1>1, <3>1, <3>2
  <2> QED BY <2>1, <2>2, <2>3, <2>4, <2>5, <2>6
<1> QED BY <1>3, <1>4, PlainRead DEF Outside

(* run pushes the EOF, behind a string that was cut off with an error.     *)
LEMMA RunBrackets ==
    ASSUME LexInv, BracketInv, LexInv', run
    PROVE  BracketInv'
<1> DEFINE t == Token("EOF", Here, pos)
<1>1. /\ tokens' = Append(tokens, t) /\ mode' = "done" /\ mode = "next"
      /\ text' = text /\ errors' = errors
  BY DEF run, Read
<1>2. t.kind = "EOF"
  BY DEF Token
<1> HIDE DEF t
<1>3. t \in TokenType
  BY <1>1, PushedTyped
<1>4. "next" \in Plain /\ "done" \notin Plain
  BY DEF Plain, Mode
<1>5. tokens \in Seq(TokenType) /\ errors \in BOOLEAN
  BY Known
<1>6. tokens # <<>> => Follows(Last(tokens), t, errors)
  <2>1. "EOF" \in Kind \ InString
    BY DEF Kind, InString
  <2>2. tokens # <<>> => Last(tokens).kind \notin Open \/ errors
    BY <1>1, <1>4 DEF BracketInv, Opened
  <2> QED BY <1>2, <2>1, <2>2 DEF Follows, MayFollow, Open
<1>7. Bracketed(tokens', errors')
  BY <1>1, <1>2, <1>3, <1>5, <1>6, BracketedAppend DEF BracketInv
<1>8. Opened(tokens', pos', mode', first', errors', depth')
  BY <1>1, <1>4 DEF Opened
<1> QED BY <1>1, <1>7, <1>8, SameBraces DEF BracketInv

(* The content that was read may stand behind the tokens of its string.    *)
LEMMA ContentBracketed ==
    ASSUME LexInv, BracketInv, mode = "string"
    PROVE  /\ WithContent \in Seq(TokenType) /\ WithContent # <<>>
           /\ Bracketed(WithContent, errors) /\ Last(WithContent).kind \in Open
           /\ Last(WithContent).to = pos
<1>1. /\ tokens \in Seq(TokenType) /\ errors \in BOOLEAN /\ tokens # <<>>
      /\ Last(tokens).kind \in Open \ {"content"} /\ Last(tokens).to = first.at
      /\ Bracketed(tokens, errors)
  BY Known DEF BracketInv, Opened
<1>2. CASE first.at = pos
  BY <1>1, <1>2 DEF WithContent
<1>3. CASE first.at # pos
  <2> DEFINE t == Token("content", first, pos)
  <2>1. t.kind = "content" /\ t.at = first.at /\ t.to = pos
    BY DEF Token
  <2>2. WithContent = Append(tokens, t) /\ WithContent \in Seq(TokenType)
    BY <1>3, ContentRead DEF WithContent
  <2>3. t \in TokenType
    BY Known DEF Token, TokenType, Place, Kind, InString
  <2> HIDE DEF t
  <2>4. Follows(Last(tokens), t, errors)
    BY <1>1, <2>1 DEF Follows, MayFollow, Open, InString
  <2>5. "content" \in Open /\ "content" # "interpolation"
    BY DEF Open
  <2> QED BY <1>1, <2>1, <2>2, <2>3, <2>4, <2>5, BracketedAppend
<1> QED BY <1>2, <1>3

(* lex_string: start, contents and end.                                    *)
LEMMA StringBrackets ==
    ASSUME LexInv, BracketInv, LexInv', lex_string
    PROVE  BracketInv'
<1>0. /\ "next" \in Plain /\ "string" \notin Plain /\ "interpolation" \notin Plain
      /\ {"start", "content", "interpolation"} = Open
      /\ "start" \in Kind /\ "start" \notin InString /\ "end" \notin Open
      /\ "next" # "interpolation" /\ "next" # "string"
  BY DEF Plain, Mode, Open, Kind, InString
<1>1. CASE /\ mode = "next" /\ peek = "quote"
           /\ Read(1, "string", Append(tokens, Token("start", Here, pos + 1)))
           /\ first' = Behind /\ UNCHANGED <<errors, depth>>
  <2> DEFINE t == Token("start", Here, pos + 1)
  <2>1. /\ tokens' = Append(tokens, t) /\ mode' = "string" /\ text' = text
        /\ errors' = errors /\ first'.at = pos + 1
    BY <1>1 DEF Read, Behind
  <2>2. t.kind = "start" /\ t.to = pos + 1
    BY DEF Token
  <2> HIDE DEF t
  <2>3. t \in TokenType
    BY <2>1, PushedTyped
  <2>4. tokens # <<>> => Last(tokens).kind \notin Open
    <3>1. pos # Len(text)
      BY <1>1, PeekNext, Known DEF End
    <3> QED BY <1>0, <1>1, <3>1 DEF BracketInv, Opened
  <2>5. tokens # <<>> => Follows(Last(tokens), t, errors)
    BY <1>0, <2>2, <2>4 DEF Follows, MayFollow
  <2>6. /\ Bracketed(tokens', errors') /\ tokens' # <<>>
        /\ Last(tokens') = t
    BY <2>1, <2>2, <2>3, <2>5, Known, BracketedAppend DEF BracketInv
  <2>7. Opened(tokens', pos', mode', first', errors', depth')
    BY <1>0, <2>1, <2>2, <2>6 DEF Opened
  <2> QED BY <2>1, <2>6, <2>7, SameBraces DEF BracketInv
<1>2. CASE /\ mode = "string" /\ peek = End /\ Read(0, "next", WithContent)
           /\ errors' = TRUE /\ UNCHANGED <<first, depth>>
  <2>1. /\ tokens' = WithContent /\ mode' = "next" /\ text' = text
        /\ pos' = pos + 0
    BY <1>2 DEF Read, Advance
  <2>2. pos' = Len(text)
    BY <1>2, <2>1, Known, PeekEnd DEF LexInv
  <2>3. Bracketed(tokens', errors')
    BY <1>2, <2>1, Known, ContentBracketed, BracketedMore
  <2>4. Opened(tokens', pos', mode', first', errors', depth')
    BY <1>0, <1>2, <2>1, <2>2 DEF Opened
  <2> QED BY <2>1, <2>3, <2>4, SameBraces DEF BracketInv
<1>3. CASE /\ mode = "string" /\ peek = "quote"
           /\ Read(1, "next", Append(WithContent, Token("end", Here, pos + 1)))
           /\ UNCHANGED <<errors, first, depth>>
  <2> DEFINE t == Token("end", Here, pos + 1)
  <2>1. /\ tokens' = Append(WithContent, t) /\ mode' = "next" /\ text' = text
        /\ errors' = errors
    BY <1>3 DEF Read
  <2>2. t.kind = "end" /\ t.at = pos
    BY DEF Token, Here
  <2>3. t \in TokenType
    <3>1. pos + 1 <= Len(text)
      BY <1>3, PeekNext DEF End
    <3> QED BY <3>1, Known DEF Token, TokenType, Place, Here, Kind, InString
  <2> HIDE DEF t
  <2>4. Follows(Last(WithContent), t, errors)
    BY <1>3, <2>2, ContentBracketed DEF Follows, MayFollow, Open, InString
  <2>5. Bracketed(tokens', errors') /\ Last(tokens') = t
    BY <1>3, <2>1, <2>2, <2>3, <2>4, Known, ContentBracketed, BracketedAppend
  <2>6. Opened(tokens', pos', mode', first', errors', depth')
    BY <1>0, <2>1, <2>2, <2>5 DEF Opened
  <2> QED BY <2>1, <2>5, <2>6, SameBraces DEF BracketInv
<1>4. CASE /\ mode = "string" /\ peek = "{" /\ Read(1, "interpolation", WithContent)
           /\ first' = Here /\ depth' = 1 /\ UNCHANGED errors
  <2>1. /\ tokens' = WithContent /\ mode' = "interpolation" /\ text' = text
        /\ pos' = pos + 1 /\ errors' = errors /\ first'.at = pos /\ pos \in Nat
    BY <1>4, Known DEF Read, Advance, Here
  <2>2. Rises(text[pos + 1]) /\ ~Falls(text[pos + 1])
    <3>1. text[pos + 1] = "{" /\ "{" # "}"
      BY <1>4, PeekNext DEF End
    <3> QED BY <3>1, Zenon DEF Rises, Falls
  <2> DEFINE at == pos
             from == pos + 1
  <2>3. Up(from, at + 1) = 1 /\ Down(from, at + 1) = 0
    <3>1. /\ from \in Nat /\ at \in Nat /\ from = at + 1 /\ from <= at + 1
          /\ Rises(text[at + 1]) /\ ~Falls(text[at + 1])
      BY <2>1, <2>2
    <3> HIDE DEF from, at
    <3>2. Up(from, at) = 0 /\ Down(from, at) = 0
      BY <3>1, BracesNone, Zenon DEF Up, Down
    <3> QED BY <3>1, <3>2, UpDownNext
  <2>4. /\ \A i \in pos + 1 .. pos + 1 : i = pos + 1
        /\ pos < pos + 1
    BY <2>1
  <2>5. /\ Up(pos + 1, pos + 1) = 1 /\ Down(pos + 1, pos + 1) = 0
    BY <2>3
  <2>6. /\ Up(pos + 1, pos + 1) = Down(pos + 1, pos + 1) + 1
        /\ \A i \in pos + 1 .. pos + 1 :
             Up(pos + 1, i) > Down(pos + 1, i)
    BY <2>4, <2>5
  <2>7. /\ tokens' # <<>> /\ Last(tokens').kind \in Open
        /\ Last(tokens').to = first'.at
    BY <1>4, <2>1, ContentBracketed
  <2>8. /\ first'.at < pos'
        /\ Up(first'.at + 1, pos') = Down(first'.at + 1, pos') + depth'
        /\ \A i \in first'.at + 1 .. pos' :
             Up(first'.at + 1, i) > Down(first'.at + 1, i)
    BY <1>4, <2>1, <2>4, <2>6
  <2>9. Opened(tokens', pos', mode', first', errors', depth')
    BY <1>0, <2>1, <2>7, <2>8 DEF Opened
  <2> QED BY <1>4, <2>1, <2>9, ContentBracketed, SameBraces DEF BracketInv
<1>5. CASE mode = "string" /\ Continue(1, "string")
  <2>1. /\ tokens' = tokens /\ mode' = mode /\ text' = text /\ errors' = errors
        /\ first' = first
    BY <1>5 DEF Continue, Read
  <2>2. Opened(tokens', pos', mode', first', errors', depth')
    BY <1>0, <1>5, <2>1 DEF BracketInv, Opened
  <2> QED BY <2>1, <2>2, SameBraces DEF BracketInv
<1> QED BY <1>1, <1>2, <1>3, <1>4, <1>5 DEF lex_string

(* What the braces say of the token of an interpolation, at its end.       *)
LEMMA InterpolationMatched ==
    ASSUME BracketInv, mode = "interpolation", NEW t, NEW e \in BOOLEAN,
           pos \in Nat, first.at \in Nat, t.at = first.at, t.to \in Nat,
           t.to - 1 <= pos,
           \/ Up(first.at + 1, t.to) = Down(first.at + 1, t.to)
           \/ e /\ t.to = Len(text)
    PROVE  MatchedOr(t, e)
<1>1. \A i \in first.at + 1 .. pos :
        Up(first.at + 1, i) > Down(first.at + 1, i)
  BY DEF BracketInv, Opened
<1>2. \A i \in t.at + 1 .. t.to - 1 : i \in first.at + 1 .. pos
  OBVIOUS
<1> QED BY <1>1, <1>2 DEF MatchedOr

(* What the invariant says of an interpolation.                            *)
LEMMA InInterpolation ==
    ASSUME LexInv, BracketInv, mode = "interpolation"
    PROVE  /\ first.at \in Nat /\ pos \in Nat /\ first.at < pos
           /\ depth \in Nat \ {0}
           /\ Up(first.at + 1, pos) = Down(first.at + 1, pos) + depth
           /\ \A i \in first.at + 1 .. pos :
                Up(first.at + 1, i) > Down(first.at + 1, i)
<1>1. first.at \in Nat /\ pos \in Nat /\ depth \in Nat
  BY Known
<1>2. depth >= 1
  BY DEF LexInv, SinceLast
<1>3. /\ first.at < pos
      /\ Up(first.at + 1, pos) = Down(first.at + 1, pos) + depth
      /\ \A i \in first.at + 1 .. pos :
           Up(first.at + 1, i) > Down(first.at + 1, i)
  BY DEF BracketInv, Opened
<1>4. depth \in Nat \ {0}
  BY <1>1, <1>2
<1> QED BY <1>1, <1>3, <1>4

(* The braces of an interpolation, one character on.                       *)
LEMMA InterpolationCount ==
    ASSUME LexInv, BracketInv, mode = "interpolation", peek # End
    PROVE  LET from == first.at + 1
               up == IF Rises(peek) THEN 1 ELSE 0
               down == IF Falls(peek) THEN 1 ELSE 0
           IN /\ Up(from, pos) \in Nat /\ Down(from, pos) \in Nat
              /\ Up(from, pos) = Down(from, pos) + depth
              /\ Up(from, pos + 1) = Up(from, pos) + up
              /\ Down(from, pos + 1) = Down(from, pos) + down
<1> DEFINE from == first.at + 1
           at == pos
<1>1. /\ from \in Nat /\ at \in Nat /\ from <= at + 1 /\ text[at + 1] = peek
      /\ Up(from, pos) = Down(from, pos) + depth
  BY InInterpolation, PeekNext
<1> HIDE DEF from, at
<1>2. /\ Up(from, at) \in Nat /\ Down(from, at) \in Nat
      /\ Up(from, at + 1) = IF Rises(text[at + 1]) THEN Up(from, at) + 1
                            ELSE Up(from, at)
      /\ Down(from, at + 1) = IF Falls(text[at + 1]) THEN Down(from, at) + 1
                              ELSE Down(from, at)
  BY <1>1, UpDownNext
<1> QED BY <1>1, <1>2 DEF from, at

(* An interpolation goes on while its first brace is open.                 *)
LEMMA InterpolationOn ==
    ASSUME LexInv, BracketInv, mode = "interpolation", peek # End,
           Read(1, mode, tokens), UNCHANGED <<errors, first>>, depth' \in Nat \ {0},
           depth' = depth + (IF Rises(peek) THEN 1 ELSE 0)
                          - (IF Falls(peek) THEN 1 ELSE 0)
    PROVE  BracketInv'
<1> DEFINE from == first.at + 1
<1>1. /\ tokens' = tokens /\ mode' = mode /\ text' = text /\ errors' = errors
      /\ first' = first /\ pos' = pos + 1
  BY DEF Read, Advance
<1>2. /\ pos \in Nat /\ depth \in Nat /\ first.at < pos /\ from \in Nat
      /\ \A i \in from .. pos : Up(from, i) > Down(from, i)
  BY InInterpolation
<1>3. Up(from, pos + 1) = Down(from, pos + 1) + depth'
  BY <1>2, InterpolationCount
<1>4. Down(from, pos + 1) \in Nat
  BY <1>2, InterpolationCount
<1>5. Up(from, pos + 1) > Down(from, pos + 1)
  BY <1>3, <1>4
<1>6. \A i \in from .. pos + 1 : i \in from .. pos \/ i = pos + 1
  BY <1>2
<1>7. \A i \in from .. pos + 1 : Up(from, i) > Down(from, i)
  BY <1>2, <1>5, <1>6
<1>8. first.at < pos + 1
  BY <1>2, Known
<1>9. mode \notin Plain
  BY DEF Plain
<1>10. Opened(tokens', pos', mode', first', errors', depth')
  BY <1>1, <1>3, <1>7, <1>8, <1>9 DEF BracketInv, Opened
<1> QED BY <1>1, <1>10, SameBraces DEF BracketInv

(* lex_interpolation: from a brace to the one that closes it.              *)
LEMMA InterpolationBrackets ==
    ASSUME LexInv, BracketInv, LexInv', lex_interpolation
    PROVE  BracketInv'
<1> DEFINE token(to) == Token("interpolation", first, to)
<1>0. /\ mode = "interpolation" /\ depth \in Nat \ {0} /\ pos \in Nat
      /\ first.at \in Nat
      /\ tokens \in Seq(TokenType) /\ errors \in BOOLEAN
  BY Known, InInterpolation DEF lex_interpolation
<1>1. /\ tokens # <<>> /\ Last(tokens).kind \in Open /\ Last(tokens).to = first.at
      /\ Bracketed(tokens, errors)
  BY <1>0 DEF BracketInv, Opened
<1>2. \A to, e : Follows(Last(tokens), token(to), e)
  BY <1>1 DEF Follows, MayFollow, Open, InString, Token
<1>3. \A to : /\ token(to).kind = "interpolation" /\ token(to).at = first.at
              /\ token(to).to = to
  BY DEF Token
<1>4. /\ "next" \in Plain /\ "string" \notin Plain /\ "interpolation" \in Open
      /\ "interpolation" # "content" /\ "string" # "interpolation"
      /\ "next" # "string" /\ "next" # "interpolation"
  BY DEF Plain, Mode, Open
<1> HIDE DEF token
<1>5. CASE /\ peek = End /\ Read(0, "next", Append(tokens, token(pos)))
           /\ errors' = TRUE /\ UNCHANGED <<first, depth>>
  <2>1. /\ tokens' = Append(tokens, token(pos)) /\ mode' = "next" /\ text' = text
        /\ pos' = pos + 0 /\ pos = Len(text)
    BY <1>5, PeekEnd DEF Read, Advance, LexInv
  <2>2. token(pos) \in TokenType
    BY <2>1, PushedTyped
  <2>3. MatchedOr(token(pos), TRUE)
    <3>1. /\ token(pos).at = first.at /\ token(pos).to = Len(text)
          /\ token(pos).to \in Nat /\ token(pos).to - 1 <= pos
      BY <1>0, <1>3, <2>1
    <3> QED BY <1>0, <3>1, InterpolationMatched, Zenon
  <2>4. Bracketed(tokens', errors')
    BY <1>0, <1>1, <1>2, <1>5, <2>1, <2>2, <2>3, BracketedMore, BracketedAppend
  <2>5. pos' = Len(text)
    BY <1>0, <2>1
  <2>6. Opened(tokens', pos', mode', first', errors', depth')
    BY <1>4, <1>5, <2>1, <2>5 DEF Opened
  <2> QED BY <2>1, <2>4, <2>6, SameBraces DEF BracketInv
<1>6. CASE /\ peek # End /\ Falls(peek) /\ ~Rises(peek) /\ Closes /\ errors' = errors
           /\ Read(1, "string", Append(tokens, token(pos + 1)))
           /\ first' = Behind /\ depth' = 0
  <2>1. /\ tokens' = Append(tokens, token(pos + 1)) /\ mode' = "string"
        /\ text' = text /\ first'.at = pos + 1
    BY <1>6 DEF Read, Behind
  <2>2. token(pos + 1) \in TokenType
    BY <2>1, PushedTyped
  <2>3. Up(first.at + 1, pos + 1) = Down(first.at + 1, pos + 1)
    BY <1>0, <1>6, InterpolationCount DEF Closes
  <2>4. MatchedOr(token(pos + 1), errors)
    BY <1>0, <1>3, <2>3, InterpolationMatched
  <2>5. /\ Bracketed(tokens', errors') /\ tokens' # <<>>
        /\ Last(tokens') = token(pos + 1)
    BY <1>0, <1>1, <1>2, <1>6, <2>1, <2>2, <2>4, BracketedAppend
  <2>6. Opened(tokens', pos', mode', first', errors', depth')
    BY <1>3, <1>4, <2>1, <2>5 DEF Opened
  <2> QED BY <2>1, <2>5, <2>6, SameBraces DEF BracketInv
<1>7. CASE /\ peek # End /\ Read(1, mode, tokens) /\ UNCHANGED <<errors, first>>
           /\ \/ Rises(peek) /\ ~Falls(peek) /\ depth' = depth + 1
              \/ Falls(peek) /\ ~Rises(peek) /\ ~Closes /\ depth' = depth - 1
              \/ ~Rises(peek) /\ ~Falls(peek) /\ depth' = depth
  <2>1. /\ depth' \in Nat \ {0}
        /\ depth' = depth + (IF Rises(peek) THEN 1 ELSE 0)
                          - (IF Falls(peek) THEN 1 ELSE 0)
    BY <1>0, <1>7 DEF Closes
  <2> QED BY <1>0, <1>7, <2>1, InterpolationOn
<1>8. /\ \A c : ~(Rises(c) /\ Falls(c))
      /\ peek = End => ~Rises(peek) /\ ~Falls(peek)
  <2>1. "{" # "}" /\ End # "{" /\ End # "}"
    BY DEF End
  <2> QED BY <2>1, Zenon DEF Rises, Falls
<1>9. lex_interpolation =>
        CASE peek = End ->
               /\ Read(0, "next", Append(tokens, token(pos))) /\ errors' = TRUE
               /\ UNCHANGED <<first, depth>>
          [] Rises(peek) ->
               /\ Read(1, mode, tokens)
               /\ depth' = depth + 1 /\ UNCHANGED <<errors, first>>
          [] Falls(peek) /\ Closes ->
               /\ Read(1, "string", Append(tokens, token(pos + 1)))
               /\ first' = Behind /\ depth' = 0 /\ UNCHANGED errors
          [] Falls(peek) /\ ~Closes ->
               /\ Read(1, mode, tokens)
               /\ depth' = depth - 1 /\ UNCHANGED <<errors, first>>
          [] OTHER -> Continue(1, mode)
  BY Zenon DEF lex_interpolation, token, Rises, Falls
<1> QED BY <1>5, <1>6, <1>7, <1>8, <1>9 DEF Continue

(* The brackets of every string, and where the lexer is in one.            *)
LEMMA BracketNext ==
    ASSUME LexInv, LexInv', BracketInv, [Next]_vars
    PROVE  BracketInv'
<1>1. CASE UNCHANGED vars
  <2>1. text' = text
    BY <1>1 DEF vars
  <2> QED BY <1>1, <2>1, SameBraces DEF vars, BracketInv
<1>2. CASE Next
  BY <1>2, PlainActions, StringBrackets, InterpolationBrackets, RunBrackets
  DEF Next
<1> QED BY <1>1, <1>2

(* What Parser relies on: strings are start, parts without a gap, and end, *)
(* and an interpolation ends at the brace that matches its first.          *)
THEOREM StringsAreBracketed == Spec => []StringsBracketed
<1>1. Init => BracketInv
  <2>1. /\ Init => tokens = <<>> /\ mode = "next"
        /\ "next" \notin {"string", "interpolation"}
    BY DEF Init
  <2> QED BY <2>1 DEF BracketInv, Bracketed, Opened
<1>2. BracketInv => StringsBracketed
  <2>1. \A t : MatchedOr(t, errors) <=> Matched(t)
    BY Zenon DEF MatchedOr, Matched, Up, Down
  <2> QED BY <2>1
      DEF BracketInv, Bracketed, Follows, StringsBracketed
<1> QED BY <1>1, <1>2, BracketNext, LexerInvariant, PTL DEF Spec

(* ---- Operators. ---- *)

(* The text from .. to is the longest spelling that stands at from.        *)
Longest(from, to) ==
    /\ SubSeq(text, from + 1, to) \in Spelling
    /\ \A s \in Spelling :
         (from + Len(s) <= Len(text) /\ SubSeq(text, from + 1, from + Len(s)) = s)
           => Len(s) <= to - from

Maximal(ts) ==
    \A k \in DOMAIN ts : ts[k].kind = "operator" => Longest(ts[k].at, ts[k].to)

(* The characters an operator starts with.                                 *)
FirstChar == (Sign \ {"%", "|"}) \cup {"!"}

(* What may come second, character by character.                           *)
LEMMA SecondIs ==
    /\ DOMAIN Second = Sign \cup {"!"}
    /\ Second[">"] = {">", "="} /\ Second["<"] = {"<", "="}
    /\ Second["="] = {"=", ">"} /\ Second[":"] = {":"}
    /\ Second["-"] = Overflow \cup {">", "="}
    /\ Second["+"] = Overflow \cup {"="} /\ Second["*"] = Overflow \cup {"="}
    /\ Second["!"] = {"="} /\ Second["/"] = {"="}
    /\ \A c \in FirstChar \ {">", "<", "=", ":", "-", "+", "*", "!", "/"} :
         Second[c] = {}
<1>1. {">", "<", "=", ":", "-", "+", "*", "!", "/"} \subseteq Sign \cup {"!"}
  BY DEF Sign
<1>2. FirstChar \subseteq Sign \cup {"!"}
  BY DEF FirstChar
<1> QED BY <1>1, <1>2 DEF Second

(* The spellings by their length: one character, two of which the second   *)
(* is one of Second, or three that end with a =.                           *)
Pairs == {<<"-", ">">>, <<"=", ">">>, <<">", ">">>, <<"<", "<">>, <<":", ":">>,
          <<"+", "=">>, <<"-", "=">>, <<"*", "=">>, <<"/", "=">>, <<"=", "=">>,
          <<"!", "=">>, <<"<", "=">>, <<">", "=">>}
            \cup {<<c, o>> : c \in Arithmetic, o \in Overflow}

(* A pair is a spelling just if Second admits it.                          *)
LEMMA PairsAreSecond ==
    ASSUME NEW c, NEW n
    PROVE  <<c, n>> \in Pairs <=> c \in FirstChar /\ n \in Second[c]
<1>1. ASSUME <<c, n>> \in Pairs
      PROVE  c \in FirstChar /\ n \in Second[c]
  BY <1>1, SecondIs DEF Pairs, FirstChar, Sign, Arithmetic, Overflow
<1>2. ASSUME c \in FirstChar, n \in Second[c]
      PROVE  <<c, n>> \in Pairs
  <2>1. c \in {">", "<", "=", ":", "-", "+", "*", "!", "/"}
    BY <1>2, SecondIs
  <2> QED BY <1>2, <2>1, SecondIs DEF Pairs, Arithmetic
<1> QED BY <1>1, <1>2

(* Every spelling is of one of the three lengths.                          *)
LEMMA SpellingIs ==
    Spelling = {<<c>> : c \in FirstChar} \cup Pairs
                 \cup {<<c, o, "=">> : c \in Arithmetic, o \in Overflow}
BY DEF Spelling, FirstChar, Pairs

(* A stretch of one, two or three characters of the text.                  *)
LEMMA Stretch ==
    ASSUME TypeOK, NEW k \in 1 .. 3, pos + k <= Len(text)
    PROVE  LET s == SubSeq(text, pos + 1, pos + k)
           IN /\ Len(s) = k /\ s \in Seq(Char)
              /\ \A i \in 1 .. k : s[i] = text[pos + i]
              /\ k = 1 => s = <<text[pos + 1]>>
              /\ k = 2 => s = <<text[pos + 1], text[pos + 2]>>
              /\ k = 3 => s = <<text[pos + 1], text[pos + 2], text[pos + 3]>>
<1> DEFINE s == SubSeq(text, pos + 1, pos + k)
<1>1. pos \in Nat /\ text \in Seq(Char) /\ Len(text) \in Nat
  BY DEF TypeOK
<1>2. /\ s \in Seq(Char) /\ Len(s) = k
      /\ \A i \in 1 .. k : s[i] = text[pos + i]
  BY <1>1
<1> HIDE DEF s
<1>3. k = 1 => s = <<text[pos + 1]>>
  BY <1>2
<1>4. k = 2 => s = <<text[pos + 1], text[pos + 2]>>
  BY <1>2
<1>5. k = 3 => s = <<text[pos + 1], text[pos + 2], text[pos + 3]>>
  BY <1>2
<1> QED BY <1>2, <1>3, <1>4, <1>5 DEF s

(* What lex_operator reads is the longest operator that stands there.      *)
LEMMA LongestRead ==
    ASSUME LexInv, peek # End,
           NEW length, length = OperatorLength(peek, peek_at(1), peek_at(2)),
           length # 0
    PROVE  Longest(pos, pos + length)
<1> DEFINE c == peek
           n == peek_at(1)
           m == peek_at(2)
<1>1. TypeOK /\ pos \in Nat /\ Len(text) \in Nat
  BY Known DEF LexInv
<1>2. End \notin Overflow \cup {">", "<", "=", ":"}
  BY DEF End, Overflow
<1>3. /\ c \in FirstChar
      /\ length = IF c \in Arithmetic /\ n \in Overflow /\ m = "=" THEN 3
                  ELSE IF n \in Second[c] THEN 2 ELSE 1
  BY SecondIs DEF OperatorLength, FirstChar, Sign
<1>4. Second[c] \subseteq Overflow \cup {">", "<", "=", ":"}
  BY <1>3, SecondIs
<1>5. pos + 1 <= Len(text) /\ text[pos + 1] = c
  BY PeekNext
<1>6. \A k \in {1, 2} :
        pos + k + 1 <= Len(text) => text[pos + k + 1] = peek_at(k)
  BY <1>1 DEF peek_at
<1>7. /\ pos + 2 <= Len(text) => text[pos + 2] = n
      /\ pos + 3 <= Len(text) => text[pos + 3] = m
  BY <1>1, <1>6
<1>8. /\ n # End => pos + 2 <= Len(text)
      /\ m # End => pos + 3 <= Len(text)
  BY <1>1 DEF peek_at
<1> HIDE DEF c, n, m
<1>9. SubSeq(text, pos + 1, pos + length) \in Spelling
  <2>1. CASE length = 1
    BY <1>1, <1>3, <1>5, <2>1, Stretch, SpellingIs
  <2>2. CASE length = 2
    <3>1. n \in Second[c] /\ pos + 2 <= Len(text)
      BY <1>2, <1>3, <1>4, <1>8, <2>2
    <3>2. <<c, n>> \in Pairs
      BY <1>3, <3>1, PairsAreSecond
    <3>3. SubSeq(text, pos + 1, pos + 2) = <<c, n>>
      BY <1>1, <1>5, <1>7, <3>1, Stretch
    <3>4. pos + length = pos + 2
      BY <2>2
    <3>5. <<c, n>> \in Spelling
      BY <3>2, SpellingIs
    <3> QED BY <3>3, <3>4, <3>5, Zenon
  <2>3. CASE length = 3
    <3>1. c \in Arithmetic /\ n \in Overflow /\ m = "="
      BY <1>3, <2>3
    <3>2. pos + 2 <= Len(text) /\ pos + 3 <= Len(text)
      BY <1>2, <1>8, <3>1
    <3>3. SubSeq(text, pos + 1, pos + 3) = <<c, n, "=">>
      BY <1>1, <1>5, <1>7, <3>1, <3>2, Stretch
    <3> QED BY <2>3, <3>1, <3>3, SpellingIs
  <2> QED BY <1>3, <2>1, <2>2, <2>3
<1>10. ASSUME NEW s \in Spelling, pos + Len(s) <= Len(text),
              SubSeq(text, pos + 1, pos + Len(s)) = s
       PROVE  Len(s) <= (pos + length) - pos
  <2>1. length \in {1, 2, 3} /\ (pos + length) - pos = length
    BY <1>1, <1>3
  <2>2. CASE s \in {<<d>> : d \in FirstChar}
    <3>1. Len(s) = 1
      <4>1. PICK d : s = <<d>>
        BY <2>2
      <4> QED BY <4>1
    <3> QED BY <2>1, <3>1
  <2>3. CASE s \in Pairs
    <3>1. PICK d, o : s = <<d, o>>
      BY <2>3 DEF Pairs
    <3>2. Len(s) = 2
      BY <3>1
    <3>3. s = <<text[pos + 1], text[pos + 2]>> /\ pos + 2 <= Len(text)
      <4>1. 2 \in 1 .. 3 /\ pos + 2 <= Len(text) /\ SubSeq(text, pos + 1, pos + 2) = s
        BY <1>10, <3>2
      <4>2. SubSeq(text, pos + 1, pos + 2) = <<text[pos + 1], text[pos + 2]>>
        BY <1>1, <4>1, Stretch
      <4> QED BY <4>1, <4>2
    <3>4. d = c /\ o = n
      BY <1>5, <1>7, <3>1, <3>3
    <3>5. n \in Second[c]
      BY <2>3, <3>1, <3>4, PairsAreSecond
    <3> QED BY <1>3, <2>1, <3>2, <3>5
  <2>4. CASE s \in {<<d, o, "=">> : d \in Arithmetic, o \in Overflow}
    <3>1. PICK d \in Arithmetic, o \in Overflow : s = <<d, o, "=">>
      BY <2>4
    <3>2. Len(s) = 3
      BY <3>1
    <3>3. /\ s = <<text[pos + 1], text[pos + 2], text[pos + 3]>>
          /\ pos + 3 <= Len(text)
      BY <1>1, <1>10, <3>2, Stretch
    <3>4. pos + 2 <= Len(text)
      BY <1>1, <3>3
    <3>5. d = c /\ o = n /\ m = "="
      BY <1>5, <1>7, <3>1, <3>3, <3>4
    <3> QED BY <1>3, <2>1, <3>1, <3>2, <3>5
  <2> QED BY <2>2, <2>3, <2>4, SpellingIs
<1>11. \A s \in Spelling :
         (pos + Len(s) <= Len(text) /\ SubSeq(text, pos + 1, pos + Len(s)) = s)
           => Len(s) <= (pos + length) - pos
  BY <1>10, Zenon
<1> QED BY <1>9, <1>11, Zenon DEF Longest

(* Pushing a token that is no operator, or is the longest.                 *)
LEMMA MaximalAppend ==
    ASSUME NEW ts \in Seq(TokenType), NEW t \in TokenType, Maximal(ts),
           t.kind = "operator" => Longest(t.at, t.to)
    PROVE  Maximal(Append(ts, t))
<1> DEFINE us == Append(ts, t)
<1>1. /\ Len(us) = Len(ts) + 1
      /\ us[Len(us)] = t /\ \A k \in 1 .. Len(ts) : us[k] = ts[k]
      /\ DOMAIN us = 1 .. Len(us) /\ DOMAIN ts = 1 .. Len(ts) /\ Len(ts) \in Nat
  BY AppendIs
<1> HIDE DEF us
<1>2. ASSUME NEW k \in DOMAIN us, us[k].kind = "operator"
      PROVE  Longest(us[k].at, us[k].to)
  <2>1. CASE k = Len(us)
    BY <1>1, <1>2, <2>1
  <2>2. CASE k # Len(us)
    <3>1. k \in DOMAIN ts /\ us[k] = ts[k]
      BY <1>1, <2>2
    <3> QED BY <1>2, <3>1 DEF Maximal
  <2> QED BY <2>1, <2>2
<1> QED BY <1>2 DEF Maximal, us

(* Whatever is pushed, the operators are the longest.                      *)
LEMMA MaximalNext ==
    ASSUME LexInv, LexInv', Maximal(tokens), [Next]_vars
    PROVE  Maximal(tokens)'
<1>1. text' = text
  BY DEF Next, vars, skip_white, lex_comment, lex_string, lex_interpolation,
         lex_number, lex_radix_int, lex_identifier, lex_operator, run, Read,
         Start, Continue, Push, PushInt, Report
<1>2. \A ts : Maximal(ts)' <=> Maximal(ts)
  BY <1>1 DEF Maximal, Longest
<1> SUFFICES Maximal(tokens')
  BY <1>2
<1>3. tokens \in Seq(TokenType)
  BY Known
<1>4. ASSUME NEW t, tokens' = Append(tokens, t),
             t.kind = "operator" => Longest(t.at, t.to)
      PROVE  Maximal(tokens')
  <2>1. t \in TokenType
    BY <1>1, <1>4, PushedTyped
  <2> QED BY <1>3, <1>4, <2>1, MaximalAppend
<1>5. \A kind, where, to : /\ Token(kind, where, to).kind = kind
                           /\ Token(kind, where, to).at = where.at
                           /\ Token(kind, where, to).to = to
  BY DEF Token
<1>6. ASSUME NEW kind, NEW where, NEW n, kind # "operator", Push(kind, where, n)
      PROVE  Maximal(tokens')
  BY <1>4, <1>5, <1>6 DEF Push, Read
<1>7. ASSUME tokens' = tokens
      PROVE  Maximal(tokens')
  BY <1>7
<1>8. CASE skip_white \/ lex_comment \/ lex_number \/ lex_radix_int \/ lex_identifier
  <2>1. \/ tokens' = tokens
        \/ \E kind, where, n : kind # "operator" /\ Push(kind, where, n)
    BY <1>8
    DEF skip_white, lex_comment, lex_number, lex_radix_int, lex_identifier,
        PushInt, Continue, Start, Report, Read
  <2> QED BY <1>6, <1>7, <2>1
<1>9. CASE lex_operator
  <2> DEFINE length == OperatorLength(peek, peek_at(1), peek_at(2))
  <2>1. CASE length = 0
    BY <1>7, <1>9, <2>1 DEF lex_operator, Report, Read
  <2>2. CASE length # 0
    <3>1. Longest(pos, pos + length)
      BY <1>9, <2>2, LongestRead DEF lex_operator
    <3>2. tokens' = Append(tokens, Token("operator", Here, pos + length))
      BY <1>9, <2>2 DEF lex_operator, Push, Read
    <3> DEFINE t == Token("operator", Here, pos + length)
    <3>3. t.at = pos /\ t.to = pos + length
      BY DEF Token, Here
    <3> HIDE DEF t, length
    <3>4. Longest(t.at, t.to)
      BY <3>1, <3>3
    <3>5. tokens' = Append(tokens, t)
      BY <3>2 DEF t
    <3> QED BY <1>4, <3>4, <3>5
  <2> QED BY <2>1, <2>2
<1>10. CASE lex_interpolation \/ run
  <2>1. \/ tokens' = tokens
        \/ \E t : t.kind # "operator" /\ tokens' = Append(tokens, t)
    <3>1. Token("interpolation", first, pos).kind # "operator"
      BY <1>5
    <3>2. Token("interpolation", first, pos + 1).kind # "operator"
      BY <1>5
    <3>3. Token("EOF", Here, pos).kind # "operator"
      BY <1>5
    <3> QED BY <1>10, <3>1, <3>2, <3>3, Zenon
            DEF lex_interpolation, run, Continue, Read
  <2> QED BY <1>4, <1>7, <2>1
<1>11. CASE lex_string
  <2>1. CASE mode = "next"
    <3>1. tokens' = Append(tokens, Token("start", Here, pos + 1))
      BY <1>11, <2>1 DEF lex_string, Read
    <3>2. Token("start", Here, pos + 1).kind # "operator"
      BY <1>5
    <3> QED BY <1>4, <3>1, <3>2
  <2>2. CASE mode = "string"
    <3>1. Maximal(WithContent) /\ WithContent \in Seq(TokenType)
      <4>1. CASE first.at = pos
        BY <1>3, <4>1 DEF WithContent
      <4>2. CASE first.at # pos
        <5>1. Token("content", first, pos) \in TokenType
          BY Known DEF Token, TokenType, Place, Kind, InString
        <5> QED BY <1>3, <1>5, <2>2, <4>2, <5>1, MaximalAppend, ContentRead
                DEF WithContent
      <4> QED BY <4>1, <4>2
    <3>2. CASE /\ tokens' = Append(WithContent, Token("end", Here, pos + 1))
               /\ peek # End
      <4>1. Token("end", Here, pos + 1) \in TokenType
        BY <3>2, PeekNext, Known DEF Token, TokenType, Place, Here, Kind, InString
      <4>2. Token("end", Here, pos + 1).kind # "operator"
        BY <1>5
      <4> QED BY <3>1, <3>2, <4>1, <4>2, MaximalAppend
    <3>3. \/ tokens' \in {tokens, WithContent}
          \/ tokens' = Append(WithContent, Token("end", Here, pos + 1)) /\ peek # End
      BY <1>11, <2>2, Zenon DEF lex_string, Continue, Read, End
    <3> QED BY <1>7, <3>1, <3>2, <3>3
  <2> QED BY <1>11, <2>1, <2>2 DEF lex_string
<1>12. CASE UNCHANGED vars
  BY <1>7, <1>12 DEF vars
<1> QED BY <1>2, <1>8, <1>9, <1>10, <1>11, <1>12 DEF Next

(* The lexer never splits an operator: what it takes for one is a spelling *)
(* of TokenKind, and no longer one stands there.                           *)
THEOREM OperatorsAreMaximal == Spec => []OperatorsMaximal
<1>1. Init => Maximal(tokens)
  BY DEF Init, Maximal
<1>2. LexInv /\ Maximal(tokens) => OperatorsMaximal
  <2> SUFFICES ASSUME LexInv, Maximal(tokens), NEW k \in DOMAIN tokens,
                      tokens[k].kind = "operator"
               PROVE  LET at == tokens[k].at + 1
                      IN /\ SubSeq(text, at, tokens[k].to) \in Spelling
                         /\ \A s \in Spelling :
                              (/\ at + Len(s) - 1 <= Len(text)
                               /\ SubSeq(text, at, at + Len(s) - 1) = s)
                                => Len(s) <= tokens[k].to - tokens[k].at
    BY DEF OperatorsMaximal
  <2>1. tokens[k].at \in Nat
    <3>1. tokens[k] \in TokenType
      BY Known
    <3> QED BY <3>1 DEF TokenType
  <2>2. Longest(tokens[k].at, tokens[k].to)
    BY DEF Maximal
  <2>3. \A s \in Spelling : Len(s) \in Nat
    BY SpellingIs DEF Pairs
  <2>4. \A s \in Spelling :
          tokens[k].at + 1 + Len(s) - 1 = tokens[k].at + Len(s)
    BY <2>1, <2>3
  <2> QED BY <2>2, <2>4 DEF Longest
<1> QED BY <1>1, <1>2, MaximalNext, LexerInvariant, PTL DEF Spec
=============================================================================
