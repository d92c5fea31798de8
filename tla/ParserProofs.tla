---------------------------- MODULE ParserProofs ----------------------------
(***************************************************************************)
(* The parser on any text, whatever its alphabet and however deep its      *)
(* calls nest: blocks, precedence and recovery.                            *)
(***************************************************************************)
EXTENDS Parser, Integers, FiniteSetTheorems, TLAPS

(* ---- The stack: sequences, whatever they hold. ---- *)
IsSeq(s) == \E S : s \in Seq(S)

(* What stands in one sequence behind another.                             *)
LEMMA Concat ==
    ASSUME NEW p, NEW q, IsSeq(p), IsSeq(q)
    PROVE  /\ IsSeq(p \o q) /\ Len(p) \in Nat /\ Len(q) \in Nat
           /\ Len(p \o q) = Len(p) + Len(q)
           /\ \A i \in 1 .. Len(p) : (p \o q)[i] = p[i]
           /\ \A i \in Len(p) + 1 .. Len(p) + Len(q) :
                (p \o q)[i] = q[i - Len(p)]
<1>1. PICK S : p \in Seq(S)
  BY DEF IsSeq
<1>2. PICK T : q \in Seq(T)
  BY DEF IsSeq
<1>3. p \in Seq(S \cup T) /\ q \in Seq(S \cup T)
  BY <1>1, <1>2
<1>4. p \o q \in Seq(S \cup T)
  BY <1>3
<1> QED BY <1>3, <1>4 DEF IsSeq

(* A sequence without its head.                                            *)
LEMMA TailOf ==
    ASSUME NEW s, IsSeq(s), s # <<>>
    PROVE  /\ IsSeq(Tail(s)) /\ Len(s) \in Nat \ {0} /\ Head(s) = s[1]
           /\ Len(Tail(s)) = Len(s) - 1
           /\ \A i \in 1 .. Len(s) - 1 : Tail(s)[i] = s[i + 1]
<1>1. PICK S : s \in Seq(S)
  BY DEF IsSeq
<1>2. /\ Tail(s) \in Seq(S) /\ Len(s) \in Nat \ {0} /\ Head(s) = s[1]
      /\ Len(Tail(s)) = Len(s) - 1
      /\ \A i \in 1 .. Len(s) - 1 : Tail(s)[i] = s[i + 1]
  BY <1>1
<1> QED BY <1>2 DEF IsSeq

(* Calls makes one call of every name.                                     *)
LEMMA CallsOf ==
    ASSUME NEW p, IsSeq(p)
    PROVE  /\ IsSeq(Calls(p)) /\ Len(Calls(p)) = Len(p) /\ Len(p) \in Nat
           /\ \A i \in 1 .. Len(p) : Calls(p)[i].op = p[i]
<1>1. PICK S : p \in Seq(S)
  BY DEF IsSeq
<1>2. DOMAIN p = 1 .. Len(p) /\ Len(p) \in Nat /\ \A i \in 1 .. Len(p) : p[i] \in S
  BY <1>1
<1>3. Calls(p) = [i \in 1 .. Len(p) |-> [op |-> p[i]]]
  BY <1>2 DEF Calls
<1>4. Calls(p) \in Seq([op : S])
  BY <1>2, <1>3
<1>5. Len(Calls(p)) = Len(p)
  BY <1>2, <1>3
<1>6. \A i \in 1 .. Len(p) : Calls(p)[i].op = p[i]
  <2>1. TAKE i \in 1 .. Len(p)
  <2>2. Calls(p)[i] = [op |-> p[i]]
    BY <1>3
  <2> QED BY <2>2
<1>7. IsSeq(Calls(p))
  BY <1>4 DEF IsSeq
<1> QED BY <1>2, <1>5, <1>6, <1>7

(* Moved changes the loops, at their places.                               *)
LEMMA MovedOf ==
    ASSUME NEW s, IsSeq(s)
    PROVE  /\ IsSeq(Moved(s)) /\ Len(Moved(s)) = Len(s) /\ Len(s) \in Nat
           /\ \A i \in 1 .. Len(s) :
                IF s[i].op = "again"
                THEN Moved(s)[i] = [s[i] EXCEPT !.moved = TRUE]
                ELSE Moved(s)[i] = s[i]
<1>1. PICK S : s \in Seq(S)
  BY DEF IsSeq
<1> DEFINE m(i) == IF s[i].op = "again" THEN [s[i] EXCEPT !.moved = TRUE] ELSE s[i]
<1>2. DOMAIN s = 1 .. Len(s) /\ Len(s) \in Nat
  BY <1>1
<1>3. Moved(s) = [i \in 1 .. Len(s) |-> m(i)]
  BY <1>2 DEF Moved
<1>4. Moved(s) \in Seq({m(i) : i \in 1 .. Len(s)}) /\ Len(Moved(s)) = Len(s)
  <2> HIDE DEF m
  <2> QED BY <1>2, <1>3
<1> QED BY <1>2, <1>3, <1>4 DEF IsSeq

(* What is written out is a sequence.                                      *)
LEMMA Literals ==
    /\ IsSeq(<<>>)
    /\ \A a : IsSeq(<<a>>)
    /\ \A a, b : IsSeq(<<a, b>>)
    /\ \A a, b, c : IsSeq(<<a, b, c>>)
    /\ \A a, b, c, d : IsSeq(<<a, b, c, d>>)
    /\ \A a, b, c, d, e : IsSeq(<<a, b, c, d, e>>)
<1>1. <<>> \in Seq({})
  OBVIOUS
<1>2. \A a : <<a>> \in Seq({a})
  OBVIOUS
<1>3. \A a, b : <<a, b>> \in Seq({a, b})
  OBVIOUS
<1>4. \A a, b, c : <<a, b, c>> \in Seq({a, b, c})
  OBVIOUS
<1>5. \A a, b, c, d : <<a, b, c, d>> \in Seq({a, b, c, d})
  OBVIOUS
<1>6. \A a, b, c, d, e : <<a, b, c, d, e>> \in Seq({a, b, c, d, e})
  OBVIOUS
<1> QED BY <1>1, <1>2, <1>3, <1>4, <1>5, <1>6 DEF IsSeq

(* ---- Counting the calls of a kind. ---- *)
(* Count is Pending, of any stack.                                         *)
Count(x, s) == Cardinality({i \in 1 .. Len(s) : s[i].op = x})

(* The calls of a kind in one stack on top of another.                     *)
LEMMA CountConcat ==
    ASSUME NEW p, NEW q, IsSeq(p), IsSeq(q), NEW x
    PROVE  /\ Count(x, p) \in Nat /\ Count(x, q) \in Nat
           /\ Count(x, p \o q) = Count(x, p) + Count(x, q)
<1> DEFINE m == Len(p)
           n == Len(q)
           r == p \o q
           P == {i \in 1 .. m : p[i].op = x}
           Q == {i \in 1 .. n : q[i].op = x}
           R == {i \in 1 .. Len(r) : r[i].op = x}
           T == {i \in m + 1 .. m + n : r[i].op = x}
           f == [i \in Q |-> m + i]
<1>1. /\ m \in Nat /\ n \in Nat /\ Len(r) = m + n
      /\ \A i \in 1 .. m : r[i] = p[i]
      /\ \A i \in m + 1 .. m + n : r[i] = q[i - m]
  BY Concat
<1> HIDE DEF m, n, r
<1>2. IsFiniteSet(P) /\ IsFiniteSet(Q) /\ IsFiniteSet(T)
  <2>1. IsFiniteSet(1 .. m) /\ IsFiniteSet(1 .. n) /\ IsFiniteSet(m + 1 .. m + n)
    BY <1>1, FS_Interval
  <2> QED BY <2>1, FS_Subset
<1>3. R = P \cup T /\ P \cap T = {}
  BY <1>1
<1>4. Cardinality(T) = Cardinality(Q)
  <2>1. \A i \in Q : i \in 1 .. n /\ m + i \in T
    <3>1. \A i \in 1 .. n : m + i \in m + 1 .. m + n /\ (m + i) - m = i
      BY <1>1
    <3> QED BY <1>1, <3>1
  <2>2. \A k \in T : k - m \in Q /\ m + (k - m) = k
    <3>1. \A k \in m + 1 .. m + n : k - m \in 1 .. n /\ m + (k - m) = k
      BY <1>1
    <3> QED BY <1>1, <3>1
  <2>3. \A i, j \in Q : m + i = m + j => i = j
    BY <1>1
  <2>4. f \in [Q -> T] /\ \A i \in Q : f[i] = m + i
    BY <2>1
  <2> HIDE DEF f, P, Q, R, T
  <2>5. f \in Injection(Q, T)
    BY <2>3, <2>4 DEF Injection, IsInjective
  <2>6. f \in Surjection(Q, T)
    <3>1. \A k \in T : \E i \in Q : f[i] = k
      BY <2>2, <2>4
    <3> QED BY <2>4, <3>1 DEF Surjection
  <2>7. ExistsBijection(Q, T)
    BY <2>5, <2>6 DEF ExistsBijection, Bijection
  <2> QED BY <1>2, <2>7, FS_Bijection
<1>5. Cardinality(P) \in Nat /\ Cardinality(Q) \in Nat
  BY <1>2, FS_CardinalityType
<1>6. Cardinality(R) = Cardinality(P) + Cardinality(T)
  <2> HIDE DEF P, Q, R, T
  <2>1. Cardinality(P \cup T) =
          Cardinality(P) + Cardinality(T) - Cardinality(P \cap T)
    BY <1>2, FS_Union
  <2>2. Cardinality(P \cap T) = 0
    BY <1>3, FS_EmptySet
  <2> QED BY <1>3, <1>4, <1>5, <2>1, <2>2
<1>7. Count(x, p) = Cardinality(P) /\ Count(x, q) = Cardinality(Q)
      /\ Count(x, r) = Cardinality(R)
  BY DEF Count, m, n
<1> QED BY <1>4, <1>5, <1>6, <1>7 DEF r

(* One call, or none, of the kind.                                         *)
LEMMA CountNone ==
    ASSUME NEW s, NEW x, \A i \in 1 .. Len(s) : s[i].op # x
    PROVE  Count(x, s) = 0
<1>1. {i \in 1 .. Len(s) : s[i].op = x} = {}
  OBVIOUS
<1> QED BY <1>1, FS_EmptySet DEF Count

(* Exactly one call of the kind.                                           *)
LEMMA CountOne ==
    ASSUME NEW s, NEW x, NEW i \in 1 .. Len(s), s[i].op = x,
           \A j \in 1 .. Len(s) : j # i => s[j].op # x
    PROVE  Count(x, s) = 1
<1>1. {j \in 1 .. Len(s) : s[j].op = x} = {i}
  OBVIOUS
<1> QED BY <1>1, FS_Singleton DEF Count

One(op, x) == IF op = x THEN 1 ELSE 0

(* What is at the head of the stack, and what is below it.                 *)
LEMMA CountHead ==
    ASSUME NEW s, IsSeq(s), s # <<>>, NEW x
    PROVE  /\ Count(x, Tail(s)) \in Nat
           /\ Count(x, s) = Count(x, Tail(s)) + One(Head(s).op, x)
<1> DEFINE h == <<Head(s)>>
<1>1. IsSeq(h) /\ IsSeq(Tail(s))
  BY Literals, TailOf
<1>2. s = h \o Tail(s)
  <2>1. PICK S : s \in Seq(S)
    BY DEF IsSeq
  <2> QED BY <2>1
<1>3. Len(h) = 1 /\ h[1] = Head(s)
  OBVIOUS
<1> HIDE DEF h
<1>4. Count(x, h) = IF Head(s).op = x THEN 1 ELSE 0
  <2>1. CASE Head(s).op = x
    BY <1>3, <2>1, CountOne, 1 \in 1 .. 1
  <2>2. CASE Head(s).op # x
    BY <1>3, <2>2, CountNone
  <2> QED BY <2>1, <2>2
<1>5. /\ Count(x, Tail(s)) \in Nat /\ Count(x, h) \in Nat
      /\ Count(x, h \o Tail(s)) = Count(x, h) + Count(x, Tail(s))
  BY <1>1, CountConcat
<1>6. Count(x, s) = Count(x, h) + Count(x, Tail(s))
  BY <1>2, <1>5
<1> QED
  <2>1. CASE Head(s).op = x
    BY <1>4, <1>5, <1>6, <2>1 DEF One
  <2>2. CASE Head(s).op # x
    BY <1>4, <1>5, <1>6, <2>2 DEF One
  <2> QED BY <2>1, <2>2

(* ---- The invariant. ---- *)
(* The calls that read a token, report, or lead to a call of these.        *)
Firm == {"top_level", "entity_item", "field", "variant", "extern_item",
         "mock_item", "stmt", "arm", "expr", "unary", "primary"}

(* What is on the stack: a left operand groups at the level of its         *)
(* operator or above.                                                      *)
Entry(c) ==
    /\ c.op = "combine" =>
         c.prec \in 1 .. 9 /\ c.left \in 1 .. Atom /\ c.left >= c.prec
    /\ c.op = "binary" => c.min \in 0 .. Atom
    /\ c.op = "again" =>
         c \in [op : {"again"}, loop : DOMAIN Item, moved : BOOLEAN]

(* What stands before what: the operators of an operand are looked for     *)
(* right behind it, those of a right operand one level up.                 *)
Link(a, b) ==
    /\ b.op = "binary" => \/ a.op \in {"unary", "postfix"}
                          \/ a.op = "combine" /\ b.min <= a.prec
    /\ b.op = "combine" => a.op = "binary" /\ a.min = b.prec + 1
    /\ b.op # "colons"

Sound(s) ==
    /\ IsSeq(s)
    /\ \A i \in 1 .. Len(s) : Entry(s[i])
    /\ \A i \in 1 .. Len(s) - 1 : Link(s[i], s[i + 1])

(* The operator that follows an expression binds no tighter than the       *)
(* expression groups; "::" is known to follow a declared name.             *)
TopOK ==
    /\ At("binary") =>
         /\ root >= Head(todo).min
         /\ tok \in Operator => Precedence[tok] <= root
    /\ At("combine") =>
         /\ root > Head(todo).prec
         /\ tok \in Operator => Precedence[tok] <= Head(todo).prec
    /\ At("colons") => tok \in {"::", "EOF"}

(* As long as the item of a loop has read nothing, a call that will is at  *)
(* the head.                                                               *)
Settled(s) == \A i \in 1 .. Len(s) : s[i].op = "again" => s[i].moved
FirmOrSettled ==
    errors \/ Settled(todo) \/ (todo # <<>> /\ Head(todo).op \in Firm)

Kinds ==
    /\ root \in 1 .. Atom /\ errors \in BOOLEAN /\ stray \in BOOLEAN
    /\ opened \in Int

Matching ==
    ~errors /\ ~stray => opened + Count("open", todo) = Count("close", todo)

ParserInv == Kinds /\ Sound(todo) /\ TopOK /\ FirmOrSettled /\ Matching

(* ---- The stack under a step. ---- *)
(* What is below the head of a sound stack is sound.                       *)
LEMMA SoundTail ==
    ASSUME NEW s, Sound(s), s # <<>>
    PROVE  /\ Sound(Tail(s)) /\ Entry(Head(s))
           /\ Tail(s) # <<>> => Link(Head(s), Head(Tail(s)))
<1>1. /\ IsSeq(s) /\ IsSeq(Tail(s)) /\ Len(s) \in Nat \ {0}
      /\ Head(s) = s[1] /\ Len(Tail(s)) = Len(s) - 1
      /\ \A i \in 1 .. Len(s) - 1 : Tail(s)[i] = s[i + 1]
  BY TailOf DEF Sound
<1>2. \A i \in 1 .. Len(s) - 1 : i \in 1 .. Len(s) /\ i + 1 \in 1 .. Len(s)
  BY <1>1
<1>3. \A i \in 1 .. Len(Tail(s)) : Entry(Tail(s)[i])
  BY <1>1, <1>2 DEF Sound
<1>4. \A i \in 1 .. Len(Tail(s)) - 1 : Link(Tail(s)[i], Tail(s)[i + 1])
  <2>1. \A i \in 1 .. Len(s) - 1 - 1 :
          /\ i \in 1 .. Len(s) - 1 /\ i + 1 \in 1 .. Len(s) - 1
          /\ Tail(s)[i] = s[i + 1] /\ Tail(s)[i + 1] = s[(i + 1) + 1]
    BY <1>1
  <2> QED BY <1>1, <2>1 DEF Sound
<1>5. Tail(s) # <<>> => Link(Head(s), Head(Tail(s)))
  <2>1. CASE Tail(s) # <<>>
    <3>1. Len(Tail(s)) \in Nat \ {0} /\ Head(Tail(s)) = Tail(s)[1]
      BY <1>1, <2>1, TailOf
    <3>2. 1 \in 1 .. Len(s) - 1 /\ Tail(s)[1] = s[1 + 1]
      BY <1>1, <3>1
    <3> QED BY <1>1, <3>1, <3>2 DEF Sound
  <2> QED BY <2>1
<1>6. Entry(Head(s))
  BY <1>1 DEF Sound
<1> QED BY <1>1, <1>3, <1>4, <1>5, <1>6 DEF Sound

(* A sound stack on a sound one, where they fit.                           *)
LEMMA SoundConcat ==
    ASSUME NEW p, NEW q, Sound(p), Sound(q),
           p # <<>> /\ q # <<>> => Link(p[Len(p)], Head(q))
    PROVE  Sound(p \o q)
<1> DEFINE m == Len(p)
           n == Len(q)
           r == p \o q
<1>1. /\ IsSeq(r) /\ m \in Nat /\ n \in Nat /\ Len(r) = m + n
      /\ \A i \in 1 .. m : r[i] = p[i]
      /\ \A i \in m + 1 .. m + n : r[i] = q[i - m]
  BY Concat DEF Sound
<1>2. /\ \A i \in 1 .. m : Entry(p[i])
      /\ \A i \in 1 .. n : Entry(q[i])
      /\ \A i \in 1 .. m - 1 : Link(p[i], p[i + 1])
      /\ \A i \in 1 .. n - 1 : Link(q[i], q[i + 1])
  BY DEF Sound
<1>3. m > 0 /\ n > 0 => Link(p[m], q[1])
  <2>1. m > 0 => p # <<>>
    <3>1. p = <<>> => m = 0
      OBVIOUS
    <3> QED BY <3>1
  <2>2. n > 0 => q # <<>> /\ Head(q) = q[1]
    <3>1. q = <<>> => n = 0
      OBVIOUS
    <3> QED BY <1>1, <3>1, TailOf DEF Sound
  <2> QED BY <2>1, <2>2
<1> HIDE DEF m, n, r
<1>4. \A i \in 1 .. m + n : Entry(r[i])
  <2>1. TAKE i \in 1 .. m + n
  <2>2. CASE i <= m
    <3>1. i \in 1 .. m
      BY <1>1, <2>2
    <3> QED BY <1>1, <1>2, <3>1
  <2>3. CASE i > m
    <3>1. i \in m + 1 .. m + n /\ i - m \in 1 .. n
      BY <1>1, <2>3
    <3> QED BY <1>1, <1>2, <3>1
  <2> QED BY <1>1, <2>2, <2>3
<1>5. \A i \in 1 .. m + n - 1 : Link(r[i], r[i + 1])
  <2>1. TAKE i \in 1 .. m + n - 1
  <2>2. CASE i < m
    <3>1. i \in 1 .. m - 1 /\ i \in 1 .. m /\ i + 1 \in 1 .. m
      BY <1>1, <2>2
    <3> QED BY <1>1, <1>2, <3>1
  <2>3. CASE i = m
    <3>1. m \in 1 .. m /\ m + 1 \in m + 1 .. m + n /\ (m + 1) - m = 1
          /\ m > 0 /\ n > 0
      BY <1>1, <2>3
    <3> QED BY <1>1, <1>3, <2>3, <3>1
  <2>4. CASE i > m
    <3>1. /\ i \in m + 1 .. m + n /\ i + 1 \in m + 1 .. m + n
          /\ i - m \in 1 .. n - 1 /\ (i + 1) - m = (i - m) + 1
      BY <1>1, <2>4
    <3> QED BY <1>1, <1>2, <3>1
  <2> QED BY <1>1, <2>2, <2>3, <2>4
<1> QED BY <1>1, <1>4, <1>5 DEF Sound, r

(* advance() disturbs the loops only.                                      *)
LEMMA SoundMoved ==
    ASSUME NEW s, Sound(s)
    PROVE  /\ Sound(Moved(s)) /\ Settled(Moved(s))
           /\ \A x : Count(x, Moved(s)) = Count(x, s)
           /\ s # <<>> =>
                /\ Moved(s) # <<>> /\ Head(Moved(s)).op = Head(s).op
                /\ Head(s).op # "again" => Head(Moved(s)) = Head(s)
<1> DEFINE r == Moved(s)
<1>1. /\ IsSeq(r) /\ Len(r) = Len(s) /\ Len(s) \in Nat
      /\ \A i \in 1 .. Len(s) :
           IF s[i].op = "again" THEN r[i] = [s[i] EXCEPT !.moved = TRUE]
           ELSE r[i] = s[i]
  BY MovedOf DEF Sound
<1> HIDE DEF r
<1>2. \A c : c.op = "again" /\ Entry(c) =>
        LET d == [c EXCEPT !.moved = TRUE]
        IN d.op = "again" /\ d.moved = TRUE /\ Entry(d)
  <2>1. TAKE c
  <2>2. HAVE c.op = "again" /\ Entry(c)
  <2>3. c \in [op : {"again"}, loop : DOMAIN Item, moved : BOOLEAN]
    BY <2>2 DEF Entry
  <2> DEFINE d == [c EXCEPT !.moved = TRUE]
  <2>4. /\ d \in [op : {"again"}, loop : DOMAIN Item, moved : BOOLEAN]
        /\ d.op = "again" /\ d.moved = TRUE
    BY <2>3
  <2> HIDE DEF d
  <2>5. Entry(d)
    BY <2>4 DEF Entry
  <2> QED BY <2>4, <2>5 DEF d
<1>3. \A i \in 1 .. Len(s) :
        /\ r[i].op = s[i].op /\ Entry(r[i])
        /\ r[i].op = "again" => r[i].moved
        /\ s[i].op # "again" => r[i] = s[i]
  <2>1. TAKE i \in 1 .. Len(s)
  <2>2. Entry(s[i])
    BY DEF Sound
  <2> QED BY <1>1, <1>2, <2>2
<1>4. \A i \in 1 .. Len(s) - 1 : Link(r[i], r[i + 1])
  <2>1. TAKE i \in 1 .. Len(s) - 1
  <2>2. i \in 1 .. Len(s) /\ i + 1 \in 1 .. Len(s)
    BY <1>1
  <2>3. Link(s[i], s[i + 1])
    BY DEF Sound
  <2> QED BY <1>3, <2>2, <2>3 DEF Link
<1>5. \A x : Count(x, r) = Count(x, s)
  <2>1. TAKE x
  <2>2. {i \in 1 .. Len(r) : r[i].op = x} = {i \in 1 .. Len(s) : s[i].op = x}
    BY <1>1, <1>3
  <2> QED BY <2>2 DEF Count
<1>6. s # <<>> => /\ r # <<>> /\ Head(r).op = Head(s).op
                  /\ Head(s).op # "again" => Head(r) = Head(s)
  <2>1. CASE s # <<>>
    <3>1. Len(s) # 0 /\ Head(s) = s[1]
      BY <2>1, TailOf DEF Sound
    <3>2. r # <<>>
      <4>1. r = <<>> => Len(r) = 0
        OBVIOUS
      <4> QED BY <1>1, <3>1, <4>1
    <3>3. Head(r) = r[1]
      BY <1>1, <3>2, TailOf
    <3>4. 1 \in 1 .. Len(s)
      BY <1>1, <3>1
    <3> QED BY <1>3, <3>1, <3>2, <3>3, <3>4
  <2> QED BY <2>1
<1> QED BY <1>1, <1>3, <1>4, <1>5, <1>6 DEF Sound, Settled, r

(* The calls of a plan, in place of the call that makes them.              *)
Plain(plan) ==
    /\ IsSeq(plan)
    /\ \A i \in 1 .. Len(plan) :
         /\ plan[i] \notin {"binary", "combine", "again"}
         /\ plan[i] = "colons" => i = 1

Fits(op, plan) ==
    /\ op \notin {"binary", "combine"}
    /\ op \in {"unary", "postfix"} =>
         plan = <<>> \/ plan[Len(plan)] \in {"unary", "postfix"}

(* A plan without operators and loops is a sound stack.                    *)
LEMMA PlanSound ==
    ASSUME NEW plan, Plain(plan)
    PROVE  Sound(Calls(plan)) /\ Settled(Calls(plan))
<1>1. /\ IsSeq(Calls(plan)) /\ Len(Calls(plan)) = Len(plan) /\ Len(plan) \in Nat
      /\ \A i \in 1 .. Len(plan) : Calls(plan)[i].op = plan[i]
  BY CallsOf DEF Plain
<1>2. \A i \in 1 .. Len(plan) : Entry(Calls(plan)[i]) /\ Calls(plan)[i].op # "again"
  BY <1>1 DEF Plain, Entry
<1>3. \A i \in 1 .. Len(plan) - 1 : Link(Calls(plan)[i], Calls(plan)[i + 1])
  <2>1. TAKE i \in 1 .. Len(plan) - 1
  <2>2. i \in 1 .. Len(plan) /\ i + 1 \in 1 .. Len(plan) /\ i + 1 # 1
    BY <1>1
  <2>3. Calls(plan)[i + 1].op \notin {"binary", "combine", "colons"}
    BY <1>1, <2>2 DEF Plain
  <2> QED BY <2>3 DEF Link
<1> QED BY <1>1, <1>2, <1>3 DEF Sound, Settled

(* A call at the head gives way to the calls of its plan.                  *)
LEMMA Rewrite ==
    ASSUME NEW s, Sound(s), s # <<>>, NEW plan, Plain(plan),
           Fits(Head(s).op, plan)
    PROVE  LET r == Calls(plan) \o Tail(s)
           IN /\ Sound(r)
              /\ Settled(s) => Settled(r)
              /\ r # <<>> => /\ Head(r).op # "combine"
                             /\ plan # <<>> => Head(r).op = plan[1]
                             /\ plan = <<>> => Head(r).op # "colons"
              /\ plan # <<>> => r # <<>>
              /\ \A x : /\ Count(x, s) \in Nat /\ Count(x, Calls(plan)) \in Nat
                        /\ Count(x, r) + One(Head(s).op, x)
                             = Count(x, Calls(plan)) + Count(x, s)
<1> DEFINE p == Calls(plan)
           q == Tail(s)
           r == p \o q
<1>1. Sound(p) /\ Settled(p) /\ Sound(q) /\ (q # <<>> => Link(Head(s), Head(q)))
  BY PlanSound, SoundTail
<1>2. /\ IsSeq(p) /\ IsSeq(q) /\ IsSeq(s) /\ IsSeq(r)
      /\ Len(p) = Len(plan) /\ Len(plan) \in Nat /\ Len(q) \in Nat
      /\ \A i \in 1 .. Len(plan) : p[i].op = plan[i]
  BY <1>1, CallsOf, Concat DEF Plain, Sound
<1>3. (plan = <<>> <=> Len(plan) = 0) /\ (p = <<>> <=> Len(p) = 0)
      /\ (q = <<>> <=> Len(q) = 0)
  <2>1. \A t : IsSeq(t) => (t = <<>> <=> Len(t) = 0)
    <3>1. \A t : IsSeq(t) /\ t # <<>> => Len(t) # 0
      BY TailOf
    <3>2. Len(<<>>) = 0
      OBVIOUS
    <3> QED BY <3>1, <3>2
  <2> QED BY <1>2, <2>1 DEF Plain
<1>4. p # <<>> /\ q # <<>> => Link(p[Len(p)], Head(q))
  <2>1. SUFFICES ASSUME p # <<>>, q # <<>> PROVE Link(p[Len(p)], Head(q))
    OBVIOUS
  <2>2. Len(plan) \in 1 .. Len(plan) /\ p[Len(p)].op = plan[Len(plan)] /\ plan # <<>>
    BY <1>2, <1>3, <2>1
  <2>3. Link(Head(s), Head(q))
    BY <1>1, <2>1
  <2>4. CASE Head(q).op = "binary"
    <3>1. Head(s).op \in {"unary", "postfix"}
      BY <2>3, <2>4 DEF Link, Fits
    <3>2. p[Len(p)].op \in {"unary", "postfix"}
      BY <2>2, <3>1 DEF Fits
    <3> QED BY <2>3, <2>4, <3>2 DEF Link
  <2>5. CASE Head(q).op # "binary"
    BY <2>3, <2>5 DEF Link, Fits
  <2> QED BY <2>4, <2>5
<1>5. Sound(r)
  BY <1>1, <1>4, SoundConcat
<1>6. /\ Len(r) = Len(p) + Len(q)
      /\ \A i \in 1 .. Len(p) : r[i] = p[i]
      /\ \A i \in Len(p) + 1 .. Len(p) + Len(q) : r[i] = q[i - Len(p)]
  BY <1>2, Concat
<1>7. Settled(s) => Settled(r)
  <2>1. SUFFICES ASSUME Settled(s), NEW i \in 1 .. Len(r), r[i].op = "again"
                 PROVE  r[i].moved
    BY DEF Settled
  <2>2. CASE i <= Len(p)
    <3>1. i \in 1 .. Len(p)
      BY <1>2, <1>6, <2>2
    <3> QED BY <1>1, <1>6, <2>1, <3>1 DEF Settled
  <2>3. CASE i > Len(p)
    <3>1. /\ i \in Len(p) + 1 .. Len(p) + Len(q) /\ i - Len(p) \in 1 .. Len(q)
      BY <1>2, <1>6, <2>3
    <3>2. /\ Len(q) = Len(s) - 1 /\ Len(s) \in Nat
          /\ \A k \in 1 .. Len(s) - 1 : q[k] = s[k + 1]
      BY <1>2, TailOf
    <3>3. (i - Len(p)) + 1 \in 1 .. Len(s) /\ q[i - Len(p)] = s[(i - Len(p)) + 1]
      BY <3>1, <3>2
    <3>4. r[i] = s[(i - Len(p)) + 1]
      BY <1>6, <3>1, <3>3
    <3> QED BY <2>1, <3>3, <3>4 DEF Settled
  <2> QED BY <1>2, <1>6, <2>2, <2>3
<1>8. plan # <<>> => r # <<>> /\ Head(r).op = plan[1]
  <2>1. SUFFICES ASSUME plan # <<>> PROVE r # <<>> /\ Head(r).op = plan[1]
    OBVIOUS
  <2>2. Len(r) # 0 /\ 1 \in 1 .. Len(p)
    BY <1>2, <1>3, <1>6, <2>1
  <2>3. r # <<>>
    <3>1. r = <<>> => Len(r) = 0
      BY Len(<<>>) = 0
    <3> QED BY <2>2, <3>1
  <2>4. Head(r) = r[1]
    BY <1>2, <2>3, TailOf
  <2> QED BY <1>2, <1>6, <2>2, <2>3, <2>4
<1>9. plan = <<>> /\ r # <<>> => Head(r).op \notin {"combine", "colons"}
  <2>1. SUFFICES ASSUME plan = <<>>, r # <<>>
                 PROVE  Head(r).op \notin {"combine", "colons"}
    OBVIOUS
  <2>2. Len(p) = 0 /\ Len(r) = Len(q) /\ Len(r) # 0
    <3>1. Len(r) # 0
      BY <1>2, <2>1, TailOf
    <3> QED BY <1>2, <1>3, <1>6, <2>1, <3>1
  <2>3. /\ q # <<>> /\ 1 \in Len(p) + 1 .. Len(p) + Len(q) /\ 1 - Len(p) = 1
    BY <1>2, <1>3, <2>2
  <2>4. Head(r) = r[1] /\ Head(q) = q[1] /\ r[1] = q[1]
    BY <1>2, <1>6, <2>1, <2>3, TailOf
  <2>5. Link(Head(s), Head(q))
    BY <1>1, <2>3
  <2> QED BY <2>4, <2>5 DEF Link, Fits
<1>10. plan # <<>> => plan[1] # "combine"
  <2>1. plan # <<>> => 1 \in 1 .. Len(plan)
    BY <1>2, <1>3
  <2> QED BY <2>1 DEF Plain
<1>11. \A x : /\ Count(x, s) \in Nat /\ Count(x, p) \in Nat
             /\ Count(x, r) + One(Head(s).op, x)
                  = Count(x, p) + Count(x, s)
  <2>1. TAKE x
  <2>2. /\ Count(x, p) \in Nat /\ Count(x, q) \in Nat
        /\ Count(x, r) = Count(x, p) + Count(x, q)
    BY <1>2, CountConcat
  <2>3. Count(x, s) = Count(x, q) + One(Head(s).op, x)
    BY <1>2, CountHead
  <2> HIDE DEF p, q, r
  <2>4. CASE Head(s).op = x
    BY <2>2, <2>3, <2>4 DEF One
  <2>5. CASE Head(s).op # x
    BY <2>2, <2>3, <2>5 DEF One
  <2> QED BY <2>4, <2>5
<1> QED BY <1>5, <1>7, <1>8, <1>9, <1>10, <1>11

(* ---- The steps. ---- *)
(* How many blocks a step opens in the text.                               *)
Mark1 == IF tok = ">>" THEN 1 ELSE IF tok = "<<" THEN 0 - 1 ELSE 0
Owed(op) == One(op, "close") - One(op, "open")

(* The sum of the blocks that the steps below come down to.                *)
LEMMA Balance ==
    \A o, m \in Int : \A O, C, Op, Cp, Or, Cr \in Nat : \A a, b \in {0, 1} :
      /\ o + O = C /\ Or + a = Op + O /\ Cr + b = Cp + C
      /\ m + Op + (b - a) = Cp
      => o + m + Or = Cr
OBVIOUS

(* A step that reads nothing.                                              *)
LEMMA StayInv ==
    ASSUME ParserInv, todo # <<>>, NEW plan, Plain(plan),
           Fits(Head(todo).op, plan), todo' = Calls(plan) \o Tail(todo),
           tok' = tok, opened' \in Int,
           ~errors' /\ ~stray' => opened' = opened, root' = Atom,
           errors' \in BOOLEAN, errors => errors', stray' = stray,
           plan # <<>> => plan[1] # "colons",
           ~errors' => Count("open", Calls(plan)) + Owed(Head(todo).op)
                         = Count("close", Calls(plan)),
           \/ errors' \/ Head(todo).op \notin Firm
           \/ plan # <<>> /\ plan[1] \in Firm
    PROVE  ParserInv'
<1> DEFINE r == Calls(plan) \o Tail(todo)
<1>1. /\ Sound(r)
      /\ Settled(todo) => Settled(r)
      /\ r # <<>> => /\ Head(r).op # "combine"
                     /\ plan # <<>> => Head(r).op = plan[1]
                     /\ plan = <<>> => Head(r).op # "colons"
      /\ plan # <<>> => r # <<>>
      /\ \A x : /\ Count(x, todo) \in Nat /\ Count(x, Calls(plan)) \in Nat
                /\ Count(x, r) + One(Head(todo).op, x)
                     = Count(x, Calls(plan)) + Count(x, todo)
  BY Rewrite DEF ParserInv
<1>2. todo' = r /\ tok' = tok
  OBVIOUS
<1> HIDE DEF r
<1>3. Kinds'
  BY <1>2 DEF Kinds, ParserInv, Atom
<1>4. Sound(todo)'
  BY <1>1, <1>2
<1>5. TopOK'
  <2>1. todo' # <<>> /\ Head(todo)'.op = "binary" =>
          /\ Head(todo)'.min \in 0 .. Atom
    <3>1. todo' # <<>> => Entry(Head(todo)')
      BY <1>1, <1>2, SoundTail
    <3> QED BY <3>1 DEF Entry
  <2>2. tok' \in Operator => Precedence[tok'] <= Atom
    BY DEF Operator, Precedence, Atom
  <2> QED BY <1>1, <1>2, <2>1, <2>2 DEF TopOK, At, Atom
<1>6. FirmOrSettled'
  BY <1>1, <1>2 DEF FirmOrSettled, ParserInv
<1>7. Matching'
  <2>1. SUFFICES ASSUME ~errors', ~stray'
                 PROVE  opened + Count("open", r) = Count("close", r)
    BY <1>2 DEF Matching, Count
  <2>2. opened + Count("open", todo) = Count("close", todo) /\ opened \in Int
    BY <2>1 DEF ParserInv, Matching, Kinds
  <2>3. /\ Count("open", r) + One(Head(todo).op, "open")
             = Count("open", Calls(plan)) + Count("open", todo)
        /\ Count("close", r) + One(Head(todo).op, "close")
             = Count("close", Calls(plan)) + Count("close", todo)
        /\ Count("open", todo) \in Nat /\ Count("close", todo) \in Nat
        /\ Count("open", Calls(plan)) \in Nat /\ Count("close", Calls(plan)) \in Nat
    BY <1>1
  <2>4. /\ Count("open", r) \in Nat /\ Count("close", r) \in Nat
    BY <1>1, CountConcat, Literals DEF Sound
  <2>5. 0 + Count("open", Calls(plan))
          + (One(Head(todo).op, "close") - One(Head(todo).op, "open"))
          = Count("close", Calls(plan))
    BY <2>1, <2>3 DEF Owed, One
  <2>6. /\ One(Head(todo).op, "close") \in {0, 1}
        /\ One(Head(todo).op, "open") \in {0, 1}
    BY DEF One
  <2>7. opened + 0 + Count("open", r) = Count("close", r)
    <3> DEFINE O == Count("open", todo)
               C == Count("close", todo)
               Op == Count("open", Calls(plan))
               Cp == Count("close", Calls(plan))
               Or == Count("open", r)
               Cr == Count("close", r)
               a == One(Head(todo).op, "open")
               b == One(Head(todo).op, "close")
    <3>1. /\ opened \in Int /\ 0 \in Int /\ O \in Nat /\ C \in Nat
          /\ Op \in Nat /\ Cp \in Nat /\ Or \in Nat /\ Cr \in Nat
          /\ a \in {0, 1} /\ b \in {0, 1}
      BY <2>2, <2>3, <2>4, <2>5, <2>6
    <3>2. /\ opened + O = C /\ Or + a = Op + O /\ Cr + b = Cp + C
          /\ 0 + Op + (b - a) = Cp
      BY <2>2, <2>3, <2>4, <2>5, <2>6
    <3> HIDE DEF O, C, Op, Cp, Or, Cr, a, b
    <3>3. opened + 0 + Or = Cr
      BY <3>1, <3>2, Balance
    <3> QED BY <3>3 DEF Or, Cr
  <2> QED BY <2>2, <2>4, <2>7
<1> QED BY <1>3, <1>4, <1>5, <1>6, <1>7 DEF ParserInv

(* A step that reads a token.                                              *)
LEMMA ReadInv ==
    ASSUME ParserInv, todo # <<>>, NEW plan, Plain(plan), tok # "EOF",
           Fits(Head(todo).op, plan), Advance(Calls(plan) \o Tail(todo)),
           root' = Atom, errors' \in BOOLEAN, errors => errors',
           stray' \in BOOLEAN, stray => stray',
           plan # <<>> /\ plan[1] = "colons" => tok = "decl",
           ~errors' /\ ~stray' =>
             Mark1 + Count("open", Calls(plan)) + Owed(Head(todo).op)
               = Count("close", Calls(plan))
    PROVE  ParserInv'
<1> DEFINE r == Calls(plan) \o Tail(todo)
<1>1. /\ Sound(r)
      /\ r # <<>> => /\ Head(r).op # "combine"
                     /\ plan # <<>> => Head(r).op = plan[1]
                     /\ plan = <<>> => Head(r).op # "colons"
      /\ \A x : /\ Count(x, todo) \in Nat /\ Count(x, Calls(plan)) \in Nat
                /\ Count(x, r) + One(Head(todo).op, x)
                     = Count(x, Calls(plan)) + Count(x, todo)
  BY Rewrite DEF ParserInv
<1>2. /\ todo' = Moved(r)
      /\ tok' \in IF Len(r) > MaxStack THEN {"EOF"} ELSE Following(tok)
      /\ opened' = IF errors' \/ stray' THEN 0
                   ELSE IF tok = ">>" THEN opened + 1
                   ELSE IF tok = "<<" THEN opened - 1 ELSE opened
  BY DEF Advance
<1> HIDE DEF r
<1>3. /\ Sound(Moved(r)) /\ Settled(Moved(r))
      /\ \A x : Count(x, Moved(r)) = Count(x, r)
      /\ r # <<>> =>
           /\ Moved(r) # <<>> /\ Head(Moved(r)).op = Head(r).op
           /\ Head(r).op # "again" => Head(Moved(r)) = Head(r)
  BY <1>1, SoundMoved
<1>4. r = <<>> => Moved(r) = <<>>
  <2>1. SUFFICES ASSUME r = <<>> PROVE Moved(r) = <<>>
    OBVIOUS
  <2>2. Len(Moved(r)) = 0 /\ IsSeq(Moved(r))
    BY <1>1, <2>1, MovedOf, Len(<<>>) = 0 DEF Sound
  <2> QED BY <2>2, TailOf
<1>5. Kinds'
  BY <1>2 DEF Kinds, ParserInv, Atom
<1>6. TopOK'
  <2>1. todo' # <<>> /\ Head(todo)'.op = "binary" =>
          /\ Head(todo)'.min \in 0 .. Atom
    <3>1. todo' # <<>> => Entry(Head(todo)')
      BY <1>2, <1>3, SoundTail
    <3> QED BY <3>1 DEF Entry
  <2>2. tok' \in Operator => Precedence[tok'] <= Atom
    BY DEF Operator, Precedence, Atom
  <2>3. todo' # <<>> => Head(todo)'.op # "combine"
    BY <1>1, <1>2, <1>3, <1>4
  <2>4. todo' # <<>> /\ Head(todo)'.op = "colons" => tok' \in {"::", "EOF"}
    <3>1. tok = "decl" => Following(tok) = {"::"}
      BY DEF Following
    <3> QED BY <1>1, <1>2, <1>3, <1>4, <3>1
  <2> QED BY <2>1, <2>2, <2>3, <2>4 DEF TopOK, At, Atom
<1>7. FirmOrSettled'
  BY <1>2, <1>3 DEF FirmOrSettled
<1>8. Matching'
  <2>1. SUFFICES ASSUME ~errors', ~stray'
                 PROVE  opened' + Count("open", r) = Count("close", r)
    <3>1. /\ Count("open", todo)' = Count("open", Moved(r))
          /\ Count("close", todo)' = Count("close", Moved(r))
      BY <1>2 DEF Count
    <3>2. /\ Count("open", Moved(r)) = Count("open", r)
          /\ Count("close", Moved(r)) = Count("close", r)
      BY <1>3
    <3> QED BY <3>1, <3>2 DEF Matching
  <2>2. opened + Count("open", todo) = Count("close", todo) /\ opened \in Int
    BY <2>1 DEF ParserInv, Matching, Kinds
  <2>3. /\ Count("open", r) + One(Head(todo).op, "open")
             = Count("open", Calls(plan)) + Count("open", todo)
        /\ Count("close", r) + One(Head(todo).op, "close")
             = Count("close", Calls(plan)) + Count("close", todo)
        /\ Count("open", todo) \in Nat /\ Count("close", todo) \in Nat
        /\ Count("open", Calls(plan)) \in Nat /\ Count("close", Calls(plan)) \in Nat
    BY <1>1
  <2>4. /\ Count("open", r) \in Nat /\ Count("close", r) \in Nat
    BY <1>1, CountConcat, Literals DEF Sound
  <2>5. /\ opened' = opened + Mark1 /\ Mark1 \in Int
        /\ Mark1 + Count("open", Calls(plan))
             + (One(Head(todo).op, "close") - One(Head(todo).op, "open"))
             = Count("close", Calls(plan))
    <3>1. opened' = opened + Mark1
      BY <1>2, <2>1, <2>2 DEF Mark1
    <3> QED BY <2>1, <3>1 DEF Mark1, Owed
  <2>6. /\ One(Head(todo).op, "close") \in {0, 1}
        /\ One(Head(todo).op, "open") \in {0, 1}
    BY DEF One
  <2>7. opened + Mark1 + Count("open", r) = Count("close", r)
    <3> DEFINE O == Count("open", todo)
               C == Count("close", todo)
               Op == Count("open", Calls(plan))
               Cp == Count("close", Calls(plan))
               Or == Count("open", r)
               Cr == Count("close", r)
               a == One(Head(todo).op, "open")
               b == One(Head(todo).op, "close")
    <3>1. /\ opened \in Int /\ Mark1 \in Int /\ O \in Nat /\ C \in Nat
          /\ Op \in Nat /\ Cp \in Nat /\ Or \in Nat /\ Cr \in Nat
          /\ a \in {0, 1} /\ b \in {0, 1}
      BY <2>2, <2>3, <2>4, <2>5, <2>6
    <3>2. /\ opened + O = C /\ Or + a = Op + O /\ Cr + b = Cp + C
          /\ Mark1 + Op + (b - a) = Cp
      BY <2>2, <2>3, <2>4, <2>5, <2>6
    <3> HIDE DEF O, C, Op, Cp, Or, Cr, a, b
    <3>3. opened + Mark1 + Or = Cr
      BY <3>1, <3>2, Balance
    <3> QED BY <3>3 DEF Or, Cr
  <2> QED BY <2>5, <2>7
<1> QED BY <1>2, <1>3, <1>5, <1>6, <1>7, <1>8 DEF ParserInv

(* ---- Plans. ---- *)
Good(plan) ==
    /\ Plain(plan) /\ (plan # <<>> => plan[1] # "colons")
    /\ Count("open", Calls(plan)) = Count("close", Calls(plan))

Ordinary(op) ==
    op \notin {"binary", "combine", "again", "colons", "open", "close"}

(* The empty plan.                                                         *)
LEMMA Empty == Good(<<>>) /\ \A s : IsSeq(s) => Calls(<<>>) \o s = s
<1>1. Len(<<>>) = 0 /\ IsSeq(<<>>)
  BY Literals
<1>2. Len(Calls(<<>>)) = 0 /\ IsSeq(Calls(<<>>))
  BY <1>1, CallsOf
<1>3. Calls(<<>>) = <<>>
  BY <1>2, TailOf
<1>4. \A x : Count(x, Calls(<<>>)) = 0
  BY <1>2, CountNone
<1>5. ASSUME NEW s, IsSeq(s) PROVE <<>> \o s = s
  <2>1. PICK S : s \in Seq(S)
    BY <1>5 DEF IsSeq
  <2> QED BY <2>1
<1>6. Plain(<<>>)
  BY <1>1 DEF Plain
<1>7. Good(<<>>)
  BY <1>4, <1>6 DEF Good
<1> QED BY <1>3, <1>5, <1>7

(* Plans without blocks, by their length.                                  *)
LEMMA OrdinaryPlan ==
    ASSUME NEW plan, IsSeq(plan), \A i \in 1 .. Len(plan) : Ordinary(plan[i])
    PROVE  Good(plan)
<1>1. /\ Len(Calls(plan)) = Len(plan) /\ Len(plan) \in Nat
      /\ \A i \in 1 .. Len(plan) : Calls(plan)[i].op = plan[i]
  BY CallsOf
<1>2. Count("open", Calls(plan)) = 0 /\ Count("close", Calls(plan)) = 0
  BY <1>1, CountNone DEF Ordinary
<1>3. plan # <<>> => 1 \in 1 .. Len(plan)
  BY <1>1, TailOf
<1> QED BY <1>2, <1>3 DEF Good, Plain, Ordinary

(* Plans with one block.                                                   *)
LEMMA BlockPlan ==
    ASSUME NEW plan, IsSeq(plan), NEW i \in 1 .. Len(plan), plan[i] = "open",
           NEW j \in 1 .. Len(plan), plan[j] = "close",
           \A k \in 1 .. Len(plan) : k # i /\ k # j => Ordinary(plan[k])
    PROVE  Good(plan)
<1>1. /\ Len(Calls(plan)) = Len(plan) /\ Len(plan) \in Nat
      /\ \A k \in 1 .. Len(plan) : Calls(plan)[k].op = plan[k]
  BY CallsOf
<1>2. Count("open", Calls(plan)) = 1
  BY <1>1, CountOne DEF Ordinary
<1>3. Count("close", Calls(plan)) = 1
  BY <1>1, CountOne DEF Ordinary
<1>4. plan # <<>> => 1 \in 1 .. Len(plan)
  BY <1>1, TailOf
<1> QED BY <1>2, <1>3, <1>4 DEF Good, Plain, Ordinary

(* One plan behind another.                                                *)
LEMMA GoodConcat ==
    ASSUME NEW p, NEW q, Good(p), Good(q)
    PROVE  Good(p \o q)
<1> DEFINE m == Len(p)
           n == Len(q)
           r == p \o q
<1>1. /\ IsSeq(p) /\ IsSeq(q) /\ IsSeq(r) /\ m \in Nat /\ n \in Nat
      /\ Len(r) = m + n
      /\ \A i \in 1 .. m : r[i] = p[i]
      /\ \A i \in m + 1 .. m + n : r[i] = q[i - m]
  BY Concat DEF Good, Plain
<1>2. \A i \in 1 .. m + n :
        /\ i <= m => r[i] = p[i] /\ i \in 1 .. m
        /\ i > m => r[i] = q[i - m] /\ i - m \in 1 .. n
  <2>1. \A i \in 1 .. m + n :
          /\ i <= m => i \in 1 .. m
          /\ i > m => i - m \in 1 .. n /\ i \in m + 1 .. m + n
    BY <1>1
  <2> QED BY <1>1, <2>1
<1>3. \A i \in 1 .. n : q[i] # "colons"
  <2>1. n > 0 => q # <<>>
    BY Len(<<>>) = 0
  <2> QED BY <1>1, <2>1 DEF Good, Plain
<1>4. Plain(r)
  <2>1. ASSUME NEW i \in 1 .. m + n
        PROVE  /\ r[i] \notin {"binary", "combine", "again"}
               /\ r[i] = "colons" => i = 1
    <3>1. CASE i <= m
      BY <1>2, <3>1 DEF Good, Plain
    <3>2. CASE i > m
      BY <1>2, <1>3, <3>2 DEF Good, Plain
    <3> QED BY <1>1, <3>1, <3>2
  <2> QED BY <1>1, <2>1 DEF Plain
<1>5. r # <<>> => r[1] # "colons"
  <2>1. SUFFICES ASSUME r # <<>> PROVE r[1] # "colons"
    OBVIOUS
  <2>2. 1 \in 1 .. m + n
    BY <1>1, <2>1, TailOf
  <2>3. CASE m >= 1
    <3>1. p # <<>>
      BY <2>3, Len(<<>>) = 0
    <3>2. 1 \in 1 .. m
      BY <1>1, <2>3
    <3>3. r[1] = p[1]
      BY <1>1, <3>2
    <3> HIDE DEF r
    <3> QED BY <3>1, <3>3 DEF Good
  <2> HIDE DEF m, n, r
  <2>4. CASE m < 1
    <3>1. r[1] = q[1 - m] /\ 1 - m \in 1 .. n
      BY <1>1, <1>2, <2>2, <2>4
    <3> QED BY <1>3, <3>1
  <2> QED BY <1>1, <2>3, <2>4
<1>6. /\ IsSeq(Calls(p)) /\ IsSeq(Calls(q)) /\ Len(Calls(p)) = m /\ Len(Calls(q)) = n
      /\ Len(Calls(r)) = m + n
      /\ \A i \in 1 .. m : Calls(p)[i].op = p[i]
      /\ \A i \in 1 .. n : Calls(q)[i].op = q[i]
      /\ \A i \in 1 .. m + n : Calls(r)[i].op = r[i]
  BY <1>1, CallsOf
<1> DEFINE c == Calls(p) \o Calls(q)
<1>7. /\ Len(c) = m + n
      /\ \A i \in 1 .. m : c[i] = Calls(p)[i]
      /\ \A i \in m + 1 .. m + n : c[i] = Calls(q)[i - m]
  BY <1>6, Concat
<1> HIDE DEF m, n, r, c
<1>8. \A i \in 1 .. m + n : c[i].op = Calls(r)[i].op
  <2>1. TAKE i \in 1 .. m + n
  <2>2. CASE i <= m
    BY <1>2, <1>6, <1>7, <2>2
  <2>3. CASE i > m
    <3>1. i \in m + 1 .. m + n
      BY <1>1, <2>3
    <3>2. c[i].op = q[i - m]
      BY <1>2, <1>6, <1>7, <2>3, <3>1
    <3>3. Calls(r)[i].op = q[i - m]
      BY <1>2, <1>6, <2>3
    <3> QED BY <3>2, <3>3
  <2> QED BY <1>1, <2>2, <2>3
<1>9. \A x : Count(x, Calls(r)) = Count(x, c)
  <2>1. TAKE x
  <2>2. {i \in 1 .. Len(Calls(r)) : Calls(r)[i].op = x}
          = {i \in 1 .. Len(c) : c[i].op = x}
    BY <1>6, <1>7, <1>8
  <2> QED BY <2>2 DEF Count
<1>10. \A x : Count(x, c) = Count(x, Calls(p)) + Count(x, Calls(q))
  BY <1>6, CountConcat DEF c
<1>11. Count("open", Calls(r)) = Count("close", Calls(r))
  BY <1>9, <1>10 DEF Good
<1> QED BY <1>4, <1>5, <1>11 DEF Good, r

(* The plans of the parser are of these shapes.                            *)
LEMMA Tuples ==
    /\ \A a : Ordinary(a) => Good(<<a>>)
    /\ \A a, b : Ordinary(a) /\ Ordinary(b) => Good(<<a, b>>)
    /\ \A a, b, c :
         Ordinary(a) /\ Ordinary(b) /\ Ordinary(c) => Good(<<a, b, c>>)
    /\ \A a, b, c, d :
         Ordinary(a) /\ Ordinary(b) /\ Ordinary(c) /\ Ordinary(d)
           => Good(<<a, b, c, d>>)
<1>1. ASSUME NEW a, Ordinary(a) PROVE Good(<<a>>)
  <2>1. \A i \in 1 .. Len(<<a>>) : Ordinary(<<a>>[i])
    BY <1>1
  <2> QED BY <2>1, Literals, OrdinaryPlan
<1>2. ASSUME NEW a, NEW b, Ordinary(a), Ordinary(b) PROVE Good(<<a, b>>)
  <2>1. \A i \in 1 .. Len(<<a, b>>) : Ordinary(<<a, b>>[i])
    BY <1>2
  <2> QED BY <2>1, Literals, OrdinaryPlan
<1>3. ASSUME NEW a, NEW b, NEW c, Ordinary(a), Ordinary(b), Ordinary(c)
      PROVE  Good(<<a, b, c>>)
  <2>1. \A i \in 1 .. Len(<<a, b, c>>) : Ordinary(<<a, b, c>>[i])
    BY <1>3
  <2> QED BY <2>1, Literals, OrdinaryPlan
<1>4. ASSUME NEW a, NEW b, NEW c, NEW d,
             Ordinary(a), Ordinary(b), Ordinary(c), Ordinary(d)
      PROVE  Good(<<a, b, c, d>>)
  <2>1. \A i \in 1 .. Len(<<a, b, c, d>>) : Ordinary(<<a, b, c, d>>[i])
    BY <1>4
  <2> QED BY <2>1, Literals, OrdinaryPlan
<1> QED BY <1>1, <1>2, <1>3, <1>4

(* The plans with one block that the functions make.                       *)
LEMMA Blocks ==
    /\ \A b : Ordinary(b) => Good(<<"open", b, "close">>)
    /\ \A a, b :
         Ordinary(a) /\ Ordinary(b) => Good(<<a, "open", b, "close">>)
    /\ \A a, b, c :
         Ordinary(a) /\ Ordinary(b) /\ Ordinary(c)
           => Good(<<a, b, "open", c, "close">>)
<1>1. ASSUME NEW b, Ordinary(b) PROVE Good(<<"open", b, "close">>)
  <2> DEFINE p == <<"open", b, "close">>
  <2>1. /\ 1 \in 1 .. Len(p) /\ 3 \in 1 .. Len(p)
        /\ p[1] = "open" /\ p[3] = "close"
        /\ \A k \in 1 .. Len(p) : k # 1 /\ k # 3 => Ordinary(p[k])
    BY <1>1
  <2>2. IsSeq(p)
    BY Literals
  <2> HIDE DEF p
  <2>3. Good(p)
    BY <2>1, <2>2, BlockPlan
  <2> QED BY <2>3 DEF p
<1>2. ASSUME NEW a, NEW b, Ordinary(a), Ordinary(b)
      PROVE  Good(<<a, "open", b, "close">>)
  <2> DEFINE p == <<a, "open", b, "close">>
  <2>1. /\ 2 \in 1 .. Len(p) /\ 4 \in 1 .. Len(p)
        /\ p[2] = "open" /\ p[4] = "close"
        /\ \A k \in 1 .. Len(p) : k # 2 /\ k # 4 => Ordinary(p[k])
    BY <1>2
  <2>2. IsSeq(p)
    BY Literals
  <2> HIDE DEF p
  <2>3. Good(p)
    BY <2>1, <2>2, BlockPlan
  <2> QED BY <2>3 DEF p
<1>3. ASSUME NEW a, NEW b, NEW c, Ordinary(a), Ordinary(b), Ordinary(c)
      PROVE  Good(<<a, b, "open", c, "close">>)
  <2> DEFINE p == <<a, b, "open", c, "close">>
  <2>1. /\ 3 \in 1 .. Len(p) /\ 5 \in 1 .. Len(p)
        /\ p[3] = "open" /\ p[5] = "close"
        /\ \A k \in 1 .. Len(p) : k # 3 /\ k # 5 => Ordinary(p[k])
    BY <1>3
  <2>2. IsSeq(p)
    BY Literals
  <2> HIDE DEF p
  <2>3. Good(p)
    BY <2>1, <2>2, BlockPlan
  <2> QED BY <2>3 DEF p
<1> QED BY <1>1, <1>2, <1>3

(* ---- One call of a plan, by the ways the source makes it. ---- *)
(* A call that reads nothing.                                              *)
LEMMA CallStep ==
    ASSUME ParserInv, todo # <<>>, NEW plan, Good(plan), Call(plan),
           Fits(Head(todo).op, plan), Head(todo).op \notin {"open", "close"},
           Head(todo).op \notin Firm \/ (plan # <<>> /\ plan[1] \in Firm)
    PROVE  ParserInv'
<1>1. /\ todo' = Calls(plan) \o Tail(todo) /\ tok' = tok /\ root' = Atom
      /\ opened' = (IF errors' \/ stray' THEN 0 ELSE opened)
      /\ errors' = errors /\ stray' = stray
  BY DEF Call, Frame, Stay
<1>2. opened' \in Int /\ errors' \in BOOLEAN
  BY <1>1 DEF ParserInv, Kinds
<1>3. Plain(plan) /\ (plan # <<>> => plan[1] # "colons")
  BY DEF Good
<1>4. Count("open", Calls(plan)) + Owed(Head(todo).op) = Count("close", Calls(plan))
  <2>1. Owed(Head(todo).op) = 0
    BY DEF Owed, One
  <2>2. Count("open", Calls(plan)) \in Nat
    BY <1>3, Rewrite DEF ParserInv
  <2> QED BY <2>1, <2>2 DEF Good
<1> QED BY <1>1, <1>2, <1>3, <1>4, StayInv

(* A call that reports.                                                    *)
LEMMA ReportStep ==
    ASSUME ParserInv, todo # <<>>, NEW plan, Good(plan), Report(plan),
           Fits(Head(todo).op, plan)
    PROVE  ParserInv'
<1>1. /\ todo' = Calls(plan) \o Tail(todo) /\ tok' = tok /\ root' = Atom
      /\ opened' = 0 /\ errors' = TRUE /\ stray' = stray
  BY DEF Report, Stay
<1>2. Plain(plan) /\ (plan # <<>> => plan[1] # "colons")
  BY DEF Good
<1>3. opened' \in Int /\ errors' \in BOOLEAN /\ ~(~errors')
  BY <1>1
<1> QED BY <1>1, <1>2, <1>3, StayInv

(* A call that reads a token which is no block mark.                       *)
LEMMA ReadStep ==
    ASSUME ParserInv, todo # <<>>, NEW plan, Good(plan), Read(plan),
           Fits(Head(todo).op, plan), Head(todo).op \notin {"open", "close"},
           tok \notin Mark \cup {"EOF"}
    PROVE  ParserInv'
<1>1. /\ Advance(Calls(plan) \o Tail(todo)) /\ root' = Atom
      /\ errors' = errors /\ stray' = stray
  BY DEF Read, Frame
<1>2. errors' \in BOOLEAN /\ stray' \in BOOLEAN
  BY <1>1 DEF ParserInv, Kinds
<1>3. Plain(plan) /\ (plan # <<>> => plan[1] # "colons")
  BY DEF Good
<1>4. Mark1 + Count("open", Calls(plan)) + Owed(Head(todo).op)
        = Count("close", Calls(plan))
  <2>1. Owed(Head(todo).op) = 0 /\ Mark1 = 0
    BY DEF Owed, One, Mark1, Mark
  <2>2. Count("open", Calls(plan)) \in Nat
    BY <1>3, Rewrite DEF ParserInv
  <2> QED BY <2>1, <2>2 DEF Good
<1>5. tok # "EOF"
  OBVIOUS
<1> QED BY <1>1, <1>2, <1>3, <1>4, <1>5, ReadInv

(* A token skipped: a block mark makes the reading a stray one, or there   *)
(* was an error before.                                                    *)
LEMMA SkipStep ==
    ASSUME ParserInv, todo # <<>>, NEW plan, Good(plan), Skip(plan),
           Fits(Head(todo).op, plan), Head(todo).op \notin {"open", "close"},
           tok # "EOF"
    PROVE  ParserInv'
<1>1. /\ Advance(Calls(plan) \o Tail(todo)) /\ root' = Atom
      /\ errors' = errors /\ stray' = (stray \/ (~errors /\ tok \in Mark))
  BY DEF Skip
<1>2. errors' \in BOOLEAN /\ stray' \in BOOLEAN /\ (stray => stray')
  BY <1>1 DEF ParserInv, Kinds
<1>3. Plain(plan) /\ (plan # <<>> => plan[1] # "colons")
  BY DEF Good
<1>4. ~errors' /\ ~stray' =>
        Mark1 + Count("open", Calls(plan)) + Owed(Head(todo).op)
          = Count("close", Calls(plan))
  <2>1. SUFFICES ASSUME ~errors', ~stray'
                 PROVE  Mark1 + Count("open", Calls(plan)) + Owed(Head(todo).op)
                          = Count("close", Calls(plan))
    OBVIOUS
  <2>2. tok \notin Mark
    BY <1>1, <2>1
  <2>3. Owed(Head(todo).op) = 0 /\ Mark1 = 0
    BY <2>2 DEF Owed, One, Mark1, Mark
  <2>4. Count("open", Calls(plan)) \in Nat
    BY <1>3, Rewrite DEF ParserInv
  <2> QED BY <2>3, <2>4 DEF Good
<1> QED BY <1>1, <1>2, <1>3, <1>4, ReadInv

(* Calls that are neither part of an operand nor mark a block.             *)
Usual(op) ==
    op \notin {"binary", "combine", "open", "close", "unary", "postfix"}

(* A call that reads a token it asks for, or reports.                      *)
LEMMA DemandStep ==
    ASSUME ParserInv, NEW op, NEW T, NEW plan, Demand(op, T, plan), Usual(op),
           Good(plan), T \cap (Mark \cup {"EOF"}) = {}
    PROVE  ParserInv'
<1>1. todo # <<>> /\ Head(todo).op = op
  BY DEF Demand, At
<1>2. /\ op \notin {"open", "close"} /\ \A p : Fits(op, p)
  BY DEF Usual, Fits
<1>3. CASE tok \in T
  <2>1. Read(plan) /\ tok \notin Mark \cup {"EOF"}
    BY <1>3 DEF Demand
  <2> QED BY <1>1, <1>2, <2>1, ReadStep
<1>4. CASE tok \notin T
  <2>1. Report(<<>>)
    BY <1>4 DEF Demand
  <2> QED BY <1>1, <1>2, <2>1, Empty, ReportStep
<1> QED BY <1>3, <1>4

(* A call that reads a token it may do without.                            *)
LEMMA AcceptStep ==
    ASSUME ParserInv, NEW op, NEW T, NEW plan, Accept(op, T, plan), Usual(op),
           op \notin Firm, Good(plan), T \cap (Mark \cup {"EOF"}) = {}
    PROVE  ParserInv'
<1>1. todo # <<>> /\ Head(todo).op = op
  BY DEF Accept, At
<1>2. /\ op \notin {"open", "close"} /\ \A p : Fits(op, p)
  BY DEF Usual, Fits
<1>3. CASE tok \in T
  <2>1. Read(plan) /\ tok \notin Mark \cup {"EOF"}
    BY <1>3 DEF Accept
  <2> QED BY <1>1, <1>2, <2>1, ReadStep
<1>4. CASE tok \notin T
  <2>1. Call(<<>>)
    BY <1>4 DEF Accept
  <2> QED BY <1>1, <1>2, <2>1, Empty, CallStep
<1> QED BY <1>3, <1>4

(* The four ways in which a call ends, of the calls that do not open or    *)
(* close a block.                                                          *)
LEMMA UsualStep ==
    ASSUME ParserInv, NEW op, At(op), Usual(op), NEW plan, Good(plan),
           \/ Call(plan) /\ op \notin Firm
           \/ Read(plan) /\ tok \notin Mark \cup {"EOF"}
           \/ Skip(plan) /\ tok # "EOF"
           \/ Report(plan)
    PROVE  ParserInv'
<1>1. /\ todo # <<>> /\ Head(todo).op = op /\ op \notin {"open", "close"}
      /\ \A p : Fits(op, p)
  BY DEF At, Usual, Fits
<1> QED BY <1>1, CallStep, ReadStep, SkipStep, ReportStep

(* advance() at the end of the text stays there.                           *)
LEMMA EndStep ==
    ASSUME ParserInv, NEW op, At(op), Usual(op), NEW plan, Good(plan),
           Read(plan), tok = "EOF", op \notin Firm
    PROVE  ParserInv'
<1>1. /\ todo' = Calls(plan) \o Tail(todo) /\ tok' = tok /\ root' = Atom
      /\ opened' = opened /\ errors' = errors /\ stray' = stray
  BY DEF Read, Frame, Advance
<1>2. opened' \in Int /\ errors' \in BOOLEAN
  BY <1>1 DEF ParserInv, Kinds
<1>3. Plain(plan) /\ (plan # <<>> => plan[1] # "colons")
  BY DEF Good
<1>4. /\ todo # <<>> /\ Head(todo).op = op /\ op \notin {"open", "close"}
      /\ Fits(op, plan)
  BY DEF At, Usual, Fits
<1>5. Count("open", Calls(plan)) + Owed(Head(todo).op) = Count("close", Calls(plan))
  <2>1. Owed(Head(todo).op) = 0
    BY <1>4 DEF Owed, One
  <2>2. Count("open", Calls(plan)) \in Nat
    BY <1>3, <1>4, Rewrite DEF ParserInv
  <2> QED BY <2>1, <2>2 DEF Good
<1> QED BY <1>1, <1>2, <1>3, <1>4, <1>5, StayInv

(* ---- The actions. ---- *)
(* An identifier is no block mark.                                         *)
LEMMA Names == Identifier \cap (Mark \cup {"EOF"}) = {}
BY DEF Identifier, Mark

(* The plan of a block is a good one.                                      *)
LEMMA GoodBlock == Good(Block)
BY Blocks DEF Block, Ordinary

(* The plans of the top level.                                             *)
LEMMA TopLevelPlans == \A t \in DOMAIN TopLevel :
    Good(TopLevel[t]) /\ t \notin Mark \cup {"EOF"}
<1>1. DOMAIN TopLevel = {"entity", "fn", "data", "kind", "import", "extern",
                         "test", "mock"}
  BY DEF TopLevel
<1>2. Good(TopLevel["entity"]) /\ Good(TopLevel["kind"]) /\ Good(TopLevel["mock"])
  BY Blocks DEF TopLevel, Ordinary
<1>3. Good(TopLevel["data"]) /\ Good(TopLevel["extern"])
  BY Blocks DEF TopLevel, Ordinary
<1>4. Good(TopLevel["import"])
  BY Tuples DEF TopLevel, Ordinary
<1>5. Good(TopLevel["fn"])
  <2>1. Good(<<"identifier", "generics", "params", "returns">>)
    BY Tuples DEF Ordinary
  <2>2. TopLevel["fn"] = <<"identifier", "generics", "params", "returns">> \o Block
    BY DEF TopLevel
  <2> QED BY <2>1, <2>2, GoodBlock, GoodConcat
<1>6. Good(TopLevel["test"])
  <2>1. Good(<<"string_literal">>)
    BY Tuples DEF Ordinary
  <2>2. TopLevel["test"] = <<"string_literal">> \o Block
    BY DEF TopLevel
  <2> QED BY <2>1, <2>2, GoodBlock, GoodConcat
<1>7. \A t \in DOMAIN TopLevel : t \notin Mark \cup {"EOF"}
  BY <1>1 DEF Mark
<1> QED BY <1>1, <1>2, <1>3, <1>4, <1>5, <1>6, <1>7

(* parse_top_level: every plan reads its keyword first.                    *)
LEMMA ParseTopLevelInv == ParserInv /\ parse_top_level => ParserInv'
<1> SUFFICES ASSUME ParserInv, parse_top_level PROVE ParserInv'
  OBVIOUS
<1>1. /\ todo # <<>> /\ Head(todo).op \in {"top_level", "item"}
  BY DEF parse_top_level, At
<1>2. \A p : Fits(Head(todo).op, p)
  BY <1>1 DEF Fits
<1>3. CASE tok = "async" /\ Read(<<"item">>)
  <2>1. Good(<<"item">>) /\ tok \notin Mark \cup {"EOF"}
    BY <1>3, Tuples DEF Ordinary, Mark
  <2> QED BY <1>1, <1>2, <1>3, <2>1, ReadStep
<1>4. CASE tok \in DOMAIN TopLevel /\ Read(TopLevel[tok])
  <2>1. Good(TopLevel[tok]) /\ tok \notin Mark \cup {"EOF"}
    BY <1>4, TopLevelPlans
  <2> QED BY <1>1, <1>2, <1>4, <2>1, ReadStep
<1>5. CASE Report(<<>>)
  BY <1>1, <1>2, <1>5, Empty, ReportStep
<1> QED BY <1>3, <1>4, <1>5 DEF parse_top_level

(* parse_import.                                                           *)
LEMMA ParseImportInv == ParserInv /\ parse_import => ParserInv'
<1>1. Good(<<"identifier", "path">>) /\ {"."} \cap (Mark \cup {"EOF"}) = {}
  BY Tuples DEF Ordinary, Mark
<1>2. Usual("path") /\ "path" \notin Firm
  BY DEF Usual, Firm
<1> QED BY <1>1, <1>2, AcceptStep DEF parse_import

(* parse_entity_item reads, or reports.                                    *)
LEMMA ParseEntityItemInv == ParserInv /\ parse_entity_item => ParserInv'
<1> SUFFICES ASSUME ParserInv, parse_entity_item PROVE ParserInv'
  OBVIOUS
<1>1. todo # <<>> /\ Head(todo).op \in {"entity_item", "member"}
  BY DEF parse_entity_item, At
<1>2. \A p : Fits(Head(todo).op, p)
  BY <1>1 DEF Fits
<1>3. CASE tok \in {"async", "shared"} /\ Read(<<"entity_item">>)
  <2>1. Good(<<"entity_item">>) /\ tok \notin Mark \cup {"EOF"}
    BY <1>3, Tuples DEF Ordinary, Mark
  <2> QED BY <1>1, <1>2, <1>3, <2>1, ReadStep
<1>4. CASE tok = "has" /\ Read(<<"identifier">>)
  <2>1. Good(<<"identifier">>) /\ tok \notin Mark \cup {"EOF"}
    BY <1>4, Tuples DEF Ordinary, Mark
  <2> QED BY <1>1, <1>2, <1>4, <2>1, ReadStep
<1>5. CASE tok = "when" /\ Read(<<"identifier", "params">> \o Block)
  <2>1. Good(<<"identifier", "params">>) /\ tok \notin Mark \cup {"EOF"}
    BY <1>5, Tuples DEF Ordinary, Mark
  <2>2. Good(<<"identifier", "params">> \o Block)
    BY <2>1, GoodBlock, GoodConcat
  <2> QED BY <1>1, <1>2, <1>5, <2>1, <2>2, ReadStep
<1>6. CASE tok \in Identifier /\ Read(<<"member">>)
  <2>1. Good(<<"member">>) /\ tok \notin Mark \cup {"EOF"}
    BY <1>6, Tuples, Names DEF Ordinary
  <2> QED BY <1>1, <1>2, <1>6, <2>1, ReadStep
<1>7. CASE Report(<<>>)
  BY <1>1, <1>2, <1>7, Empty, ReportStep
<1>8. CASE tok = "::" /\ Read(<<"typed_decl">>)
  <2>1. Good(<<"typed_decl">>) /\ tok \notin Mark \cup {"EOF"}
    BY <1>8, Tuples DEF Ordinary, Mark
  <2> QED BY <1>1, <1>2, <1>8, <2>1, ReadStep
<1>9. CASE Head(todo).op = "member" /\ Call(<<"params", "returns">> \o Block)
  <2>1. Good(<<"params", "returns">>) /\ Head(todo).op \notin Firm
    BY <1>9, Tuples DEF Ordinary, Firm
  <2>2. Good(<<"params", "returns">> \o Block)
    BY <2>1, GoodBlock, GoodConcat
  <2> QED BY <1>1, <1>2, <1>9, <2>1, <2>2, CallStep
<1> QED BY <1>3, <1>4, <1>5, <1>6, <1>7, <1>8, <1>9 DEF parse_entity_item, At

(* parse_typed_decl.                                                       *)
LEMMA ParseTypedDeclInv == ParserInv /\ parse_typed_decl => ParserInv'
<1> SUFFICES ASSUME ParserInv, parse_typed_decl PROVE ParserInv'
  OBVIOUS
<1>1. CASE At("typed_decl") /\ \E p \in {<<"type", "value">>, <<"expr">>} : Call(p)
  <2>1. PICK p \in {<<"type", "value">>, <<"expr">>} : Call(p)
    BY <1>1
  <2>2. Good(<<"type", "value">>) /\ Good(<<"expr">>)
    BY Tuples DEF Ordinary
  <2>3. todo # <<>> /\ Head(todo).op = "typed_decl"
    BY <1>1 DEF At
  <2>4. Fits(Head(todo).op, p) /\ Head(todo).op \notin {"open", "close"} \cup Firm
    BY <2>3 DEF Fits, Firm
  <2> QED BY <2>1, <2>2, <2>3, <2>4, CallStep
<1>2. CASE Accept("value", {"="}, <<"expr">>)
  <2>1. /\ Usual("value") /\ "value" \notin Firm /\ Good(<<"expr">>)
        /\ {"="} \cap (Mark \cup {"EOF"}) = {}
    BY Tuples DEF Usual, Firm, Ordinary, Mark
  <2> QED BY <1>2, <2>1, AcceptStep
<1> QED BY <1>1, <1>2 DEF parse_typed_decl

(* The type parameters are skipped whole: a block mark in them is stray.   *)
LEMMA SkipGenericsInv == ParserInv /\ skip_generics => ParserInv'
<1> SUFFICES ASSUME ParserInv, skip_generics PROVE ParserInv'
  OBVIOUS
<1>1. Good(<<"skip_generics">>) /\ Good(<<>>)
  BY Tuples, Empty DEF Ordinary
<1>2. CASE Accept("generics", {"["}, <<"skip_generics">>)
  <2>1. /\ Usual("generics") /\ "generics" \notin Firm
        /\ {"["} \cap (Mark \cup {"EOF"}) = {}
    BY DEF Usual, Firm, Mark
  <2> QED BY <1>1, <1>2, <2>1, AcceptStep
<1>3. CASE At("skip_generics")
  <2>1. todo # <<>> /\ Head(todo).op = "skip_generics"
    BY <1>3 DEF At
  <2>2. /\ \A p : Fits(Head(todo).op, p)
        /\ Head(todo).op \notin {"open", "close"} \cup Firm
    BY <2>1 DEF Fits, Firm
  <2>3. CASE Call(<<>>)
    BY <1>1, <2>1, <2>2, <2>3, CallStep
  <2>4. CASE tok # "EOF" /\ \E p \in {<<>>, <<"skip_generics">>} : Skip(p)
    <3>1. PICK p \in {<<>>, <<"skip_generics">>} : Skip(p)
      BY <2>4
    <3> QED BY <1>1, <2>1, <2>2, <2>4, <3>1, SkipStep
  <2> QED BY <1>3, <2>1, <2>3, <2>4 DEF skip_generics, Accept, At
<1> QED BY <1>2, <1>3 DEF skip_generics

(* parse_data.                                                             *)
LEMMA ParseDataInv == ParserInv /\ parse_data => ParserInv'
<1>1. /\ Good(<<"field_type">>) /\ Good(<<"typed_decl">>)
      /\ {"::"} \cap (Mark \cup {"EOF"}) = {}
      /\ Usual("field") /\ Usual("field_type")
  BY Tuples DEF Ordinary, Mark, Usual
<1> QED BY <1>1, Names, DemandStep DEF parse_data

(* parse_kind: a payload is skipped as the type parameters are.            *)
LEMMA ParseKindInv == ParserInv /\ parse_kind => ParserInv'
<1> SUFFICES ASSUME ParserInv, parse_kind PROVE ParserInv'
  OBVIOUS
<1>1. /\ Good(<<"payload_start">>) /\ Good(<<"payload">>) /\ Good(<<>>)
      /\ Good(<<"payload", "payload">>) /\ {"("} \cap (Mark \cup {"EOF"}) = {}
  BY Tuples, Empty DEF Ordinary, Mark
<1>2. /\ Usual("variant") /\ Usual("payload_start") /\ Usual("payload")
      /\ "payload_start" \notin Firm /\ "payload" \notin Firm
  BY DEF Usual, Firm
<1>3. CASE Demand("variant", Identifier, <<"payload_start">>)
  BY <1>1, <1>2, <1>3, Names, DemandStep
<1>4. CASE Accept("payload_start", {"("}, <<"payload">>)
  BY <1>1, <1>2, <1>4, AcceptStep
<1>5. CASE At("payload") /\ Call(<<>>)
  BY <1>1, <1>2, <1>5, UsualStep
<1>6. CASE /\ At("payload") /\ tok # "EOF"
           /\ \E p \in {<<>>, <<"payload">>, <<"payload", "payload">>} : Skip(p)
  BY <1>1, <1>2, <1>6, UsualStep
<1> QED BY <1>3, <1>4, <1>5, <1>6 DEF parse_kind

(* parse_extern.                                                           *)
LEMMA ParseExternInv == ParserInv /\ parse_extern => ParserInv'
<1>1. Good(<<"params", "returns">>) /\ Usual("extern_item")
  BY Tuples DEF Ordinary, Usual
<1> QED BY <1>1, Names, DemandStep DEF parse_extern

(* parse_mock.                                                             *)
LEMMA ParseMockInv == ParserInv /\ parse_mock => ParserInv'
<1>1. Good(<<"identifier", "params">>)
  BY Tuples DEF Ordinary
<1>2. Good(<<"identifier", "params">> \o Block)
  BY <1>1, GoodBlock, GoodConcat
<1>3. Usual("mock_item") /\ {"when"} \cap (Mark \cup {"EOF"}) = {}
  BY DEF Usual, Mark
<1> QED BY <1>2, <1>3, DemandStep DEF parse_mock

(* parse_string_literal.                                                   *)
LEMMA ParseStringLiteralInv == ParserInv /\ parse_string_literal => ParserInv'
<1> SUFFICES ASSUME ParserInv, parse_string_literal PROVE ParserInv'
  OBVIOUS
<1>1. /\ Good(<<"string_skip">>) /\ Good(<<>>)
      /\ {"string"} \cap (Mark \cup {"EOF"}) = {}
      /\ Usual("string_literal") /\ Usual("string_skip")
      /\ "string_skip" \notin Firm
  BY Tuples, Empty DEF Ordinary, Mark, Usual, Firm
<1>2. CASE Demand("string_literal", {"string"}, <<"string_skip">>)
  BY <1>1, <1>2, DemandStep
<1>3. CASE At("string_skip") /\ Call(<<>>)
  BY <1>1, <1>3, UsualStep
<1>4. CASE At("string_skip") /\ tok # "EOF" /\ \E p \in {<<>>, <<"string_skip">>} : Skip(p)
  BY <1>1, <1>4, UsualStep
<1> QED BY <1>2, <1>3, <1>4 DEF parse_string_literal

(* parse_params.                                                           *)
LEMMA ParseParamsInv == ParserInv /\ parse_params => ParserInv'
<1> SUFFICES ASSUME ParserInv, parse_params PROVE ParserInv'
  OBVIOUS
<1>1. /\ Good(<<"param", "params_end">>) /\ Good(<<>>) /\ Good(<<"param_comma">>)
      /\ Good(<<"param_type", "param_comma">>) /\ Good(<<"type">>)
      /\ Good(<<"param">>)
  BY Tuples, Empty DEF Ordinary
<1>2. /\ \A op \in {"params", "param", "param_type", "param_comma", "params_end"} :
           Usual(op) /\ op \notin Firm
      /\ {"("} \cap (Mark \cup {"EOF"}) = {}
      /\ {","} \cap (Mark \cup {"EOF"}) = {}
      /\ {")"} \cap (Mark \cup {"EOF"}) = {}
  BY DEF Usual, Firm, Mark
<1>3. CASE Accept("params", {"("}, <<"param", "params_end">>)
  BY <1>1, <1>2, <1>3, AcceptStep
<1>4. CASE At("param") /\ Call(<<>>)
  BY <1>1, <1>2, <1>4, UsualStep
<1>5. CASE At("param") /\ tok \in Identifier /\ Read(<<"param_type", "param_comma">>)
  BY <1>1, <1>2, <1>5, UsualStep, Names
<1>6. CASE At("param") /\ Report(<<"param_comma">>)
  BY <1>1, <1>2, <1>6, UsualStep
<1>7. CASE At("param_type") /\ tok = ":" /\ Read(<<"type">>)
  <2>1. tok \notin Mark \cup {"EOF"}
    BY <1>7 DEF Mark
  <2> QED BY <1>1, <1>2, <1>7, <2>1, UsualStep
<1>8. CASE At("param_type") /\ \E p \in {<<"type">>, <<>>} : Call(p)
  BY <1>1, <1>2, <1>8, UsualStep
<1>9. CASE Accept("param_comma", {","}, <<"param">>)
  BY <1>1, <1>2, <1>9, AcceptStep
<1>10. CASE Demand("params_end", {")"}, <<>>)
  BY <1>1, <1>2, <1>10, DemandStep
<1> QED BY <1>3, <1>4, <1>5, <1>6, <1>7, <1>8, <1>9, <1>10 DEF parse_params

(* The type behind an arrow.                                               *)
LEMMA ParseReturnsInv == ParserInv /\ parse_returns => ParserInv'
<1>1. /\ Good(<<"type">>) /\ Usual("returns") /\ "returns" \notin Firm
      /\ {"->"} \cap (Mark \cup {"EOF"}) = {}
  BY Tuples DEF Ordinary, Usual, Firm, Mark
<1> QED BY <1>1, AcceptStep DEF parse_returns

(* parse_identifier.                                                       *)
LEMMA ParseIdentifierInv == ParserInv /\ parse_identifier => ParserInv'
<1>1. Usual("identifier")
  BY DEF Usual
<1> QED BY <1>1, Empty, Names, DemandStep DEF parse_identifier

(* Statements: all but the declaration, whose :: is read in the next step. *)
LEMMA IfPlan == Good(<<"expr">> \o Block \o <<"else">>)
<1>1. Good(<<"expr">>) /\ Good(<<"else">>)
  BY Tuples DEF Ordinary
<1>2. Good(<<"expr">> \o Block)
  BY <1>1, GoodBlock, GoodConcat
<1> QED BY <1>1, <1>2, GoodConcat

(* The plans of the statements, but that of a declaration.                 *)
LEMMA StatementPlans == \A t \in DOMAIN Statement :
    (t # "decl" => Good(Statement[t])) /\ t \notin Mark \cup {"EOF"}
<1>1. DOMAIN Statement = {"fail", "result", "await", "if", "loop", "every",
                          "match", "task", "stop", "decl"}
  BY DEF Statement
<1>2. Good(<<"expr">>) /\ Good(<<"loop_head">>) /\ Good(<<"skip_to_open">>)
  BY Tuples DEF Ordinary
<1>3. /\ Statement["fail"] = <<"expr">> /\ Statement["result"] = <<"expr">>
      /\ Statement["await"] = <<"expr">> /\ Statement["loop"] = <<"loop_head">>
      /\ Statement["if"] = <<"expr">> \o Block \o <<"else">>
      /\ Statement["every"] = <<"expr">> \o Block
      /\ Statement["match"] = <<"expr", "open", "arms", "close">>
      /\ Statement["task"] = <<"skip_to_open">> \o Block
      /\ Statement["stop"] = <<>>
  BY DEF Statement
<1>4. Good(<<"expr">> \o Block) /\ Good(<<"skip_to_open">> \o Block)
  BY <1>2, GoodBlock, GoodConcat
<1>5. Good(<<"expr", "open", "arms", "close">>)
  BY Blocks DEF Ordinary
<1>6. \A t \in DOMAIN Statement : t # "decl" => Good(Statement[t])
  BY <1>1, <1>2, <1>3, <1>4, <1>5, IfPlan, Empty
<1>7. \A t \in DOMAIN Statement : t \notin Mark \cup {"EOF"}
  BY <1>1 DEF Mark
<1> QED BY <1>6, <1>7

(* The plan of a declaration: "::", which stands behind the name.          *)
LEMMA ColonsPlan ==
    /\ Plain(<<"colons">>) /\ Count("open", Calls(<<"colons">>)) = 0
    /\ Count("close", Calls(<<"colons">>)) = 0
<1> DEFINE p == <<"colons">>
<1>1. IsSeq(p) /\ Len(p) = 1 /\ p[1] = "colons"
  BY Literals
<1> HIDE DEF p
<1>2. Len(Calls(p)) = 1 /\ Calls(p)[1].op = "colons"
  BY <1>1, CallsOf
<1>3. \A i \in 1 .. 1 : i = 1
  OBVIOUS
<1>4. Count("open", Calls(p)) = 0 /\ Count("close", Calls(p)) = 0
  BY <1>2, <1>3, CountNone
<1>5. Plain(p)
  BY <1>1, <1>3 DEF Plain
<1> QED BY <1>4, <1>5 DEF p

(* parse_stmt: a statement that is no keyword is an expression.            *)
LEMMA ParseStmtInv == ParserInv /\ parse_stmt => ParserInv'
<1> SUFFICES ASSUME ParserInv, parse_stmt PROVE ParserInv'
  OBVIOUS
<1>1. CASE At("stmt") /\ tok \in DOMAIN Statement /\ Read(Statement[tok])
  <2>1. tok \notin Mark \cup {"EOF"} /\ Usual("stmt")
    BY <1>1, StatementPlans DEF Usual
  <2>2. CASE tok # "decl"
    BY <1>1, <2>1, <2>2, StatementPlans, UsualStep
  <2>3. CASE tok = "decl"
    <3>1. Advance(Calls(<<"colons">>) \o Tail(todo)) /\ root' = Atom
          /\ errors' = errors /\ stray' = stray
      BY <1>1, <2>3 DEF Read, Frame, Statement
    <3>2. errors' \in BOOLEAN /\ stray' \in BOOLEAN
      BY <3>1 DEF ParserInv, Kinds
    <3>3. todo # <<>> /\ Head(todo).op = "stmt" /\ Fits(Head(todo).op, <<"colons">>)
      BY <1>1 DEF At, Fits
    <3>4. Mark1 + Count("open", Calls(<<"colons">>)) + Owed(Head(todo).op)
            = Count("close", Calls(<<"colons">>))
      BY <2>3, <3>3, ColonsPlan DEF Mark1, Owed, One
    <3>5. tok # "EOF"
      BY <2>3
    <3> QED BY <2>3, <3>1, <3>2, <3>3, <3>4, <3>5, ColonsPlan, ReadInv
  <2> QED BY <2>2, <2>3
<1>2. CASE At("stmt") /\ Call(<<"expr", "assign">>)
  <2>1. Good(<<"expr", "assign">>) /\ <<"expr", "assign">>[1] \in Firm
    BY Tuples DEF Ordinary, Firm
  <2>2. todo # <<>> /\ Head(todo).op = "stmt" /\ Fits(Head(todo).op, <<"expr", "assign">>)
    BY <1>2 DEF At, Fits
  <2>3. <<"expr", "assign">> # <<>>
    OBVIOUS
  <2> QED BY <1>2, <2>1, <2>2, <2>3, CallStep
<1>3. CASE Accept("assign", {"=", "op="}, <<"expr">>)
  <2>1. /\ Usual("assign") /\ "assign" \notin Firm /\ Good(<<"expr">>)
        /\ {"=", "op="} \cap (Mark \cup {"EOF"}) = {}
    BY Tuples DEF Usual, Firm, Ordinary, Mark
  <2> QED BY <1>3, <2>1, AcceptStep
<1>4. CASE At("colons") /\ Read(<<"typed_decl">>)
  <2>1. /\ Usual("colons") /\ "colons" \notin Firm /\ Good(<<"typed_decl">>)
    BY Tuples DEF Usual, Firm, Ordinary
  <2>2. tok \in {"::", "EOF"}
    BY <1>4 DEF ParserInv, TopOK
  <2>3. CASE tok = "::"
    <3>1. tok \notin Mark \cup {"EOF"}
      BY <2>3 DEF Mark
    <3> QED BY <1>4, <2>1, <3>1, UsualStep
  <2>4. CASE tok = "EOF"
    BY <1>4, <2>1, <2>4, EndStep
  <2> QED BY <2>2, <2>3, <2>4
<1> QED BY <1>1, <1>2, <1>3, <1>4 DEF parse_stmt

(* parse_if_stmt.                                                          *)
LEMMA ParseIfStmtInv == ParserInv /\ parse_if_stmt => ParserInv'
<1> SUFFICES ASSUME ParserInv, parse_if_stmt PROVE ParserInv'
  OBVIOUS
<1>1. /\ Good(<<"else_body">>) /\ Usual("else") /\ "else" \notin Firm
      /\ Usual("else_body") /\ "else_body" \notin Firm
      /\ {"else"} \cap (Mark \cup {"EOF"}) = {}
  BY Tuples DEF Ordinary, Usual, Firm, Mark
<1>2. CASE Accept("else", {"else"}, <<"else_body">>)
  BY <1>1, <1>2, AcceptStep
<1>3. CASE At("else_body") /\ tok = "if" /\ Read(Statement["if"])
  <2>1. "if" \in DOMAIN Statement
    BY DEF Statement
  <2>2. Good(Statement["if"]) /\ tok \notin Mark \cup {"EOF"}
    BY <1>3, <2>1, StatementPlans
  <2> QED BY <1>1, <1>3, <2>2, UsualStep
<1>4. CASE At("else_body") /\ Call(Block)
  BY <1>1, <1>4, GoodBlock, UsualStep
<1> QED BY <1>2, <1>3, <1>4 DEF parse_if_stmt

(* parse_loop_stmt.                                                        *)
LEMMA ParseLoopStmtInv == ParserInv /\ parse_loop_stmt => ParserInv'
<1> SUFFICES ASSUME ParserInv, parse_loop_stmt PROVE ParserInv'
  OBVIOUS
<1>1. /\ Usual("loop_head") /\ "loop_head" \notin Firm
      /\ Usual("loop_kind") /\ "loop_kind" \notin Firm /\ Usual("to")
      /\ {"to"} \cap (Mark \cup {"EOF"}) = {}
  BY DEF Usual, Firm, Mark
<1>2. /\ Good(<<"expr">>) /\ Good(<<"identifier", "loop_kind">>)
      /\ Good(<<"expr", "to", "expr">>) /\ Good(<<"skip_to_open">>)
  BY Tuples DEF Ordinary
<1>3. /\ Good(<<"expr">> \o Block) /\ Good(<<"expr", "to", "expr">> \o Block)
      /\ Good(<<"skip_to_open">> \o Block)
  BY <1>2, GoodBlock, GoodConcat
<1>4. tok \in {"while", "from", "in"} => tok \notin Mark \cup {"EOF"}
  BY DEF Mark
<1>5. CASE At("loop_head") /\ tok = "while" /\ Read(<<"expr">> \o Block)
  BY <1>1, <1>3, <1>4, <1>5, UsualStep
<1>6. CASE At("loop_head") /\ (Call(Block) \/ Call(<<"identifier", "loop_kind">>))
  BY <1>1, <1>2, <1>6, GoodBlock, UsualStep
<1>7. CASE At("loop_kind") /\ tok = "from" /\ Read(<<"expr", "to", "expr">> \o Block)
  BY <1>1, <1>3, <1>4, <1>7, UsualStep
<1>8. CASE At("loop_kind") /\ tok = "in" /\ Read(<<"expr">> \o Block)
  BY <1>1, <1>3, <1>4, <1>8, UsualStep
<1>9. CASE At("loop_kind") /\ Report(<<"skip_to_open">> \o Block)
  BY <1>1, <1>3, <1>9, UsualStep
<1>10. CASE Demand("to", {"to"}, <<>>)
  BY <1>1, <1>10, Empty, DemandStep
<1> QED BY <1>5, <1>6, <1>7, <1>8, <1>9, <1>10 DEF parse_loop_stmt

(* The head of a task is skipped up to its block.                          *)
LEMMA SkipToOpenInv == ParserInv /\ skip_to_open => ParserInv'
<1>1. /\ Good(<<"skip_to_open">>) /\ Usual("skip_to_open")
      /\ "skip_to_open" \notin Firm
  BY Tuples DEF Ordinary, Usual, Firm
<1> QED BY <1>1, Empty, UsualStep DEF skip_to_open

(* An arm opens its block without expect_open_block.                       *)
LEMMA ArmBlockPlan ==
    /\ Plain(<<"stmts", "close">>)
    /\ Count("open", Calls(<<"stmts", "close">>)) = 0
    /\ Count("close", Calls(<<"stmts", "close">>)) = 1
<1> DEFINE p == <<"stmts", "close">>
<1>1. IsSeq(p) /\ Len(p) = 2 /\ p[1] = "stmts" /\ p[2] = "close"
  BY Literals
<1> HIDE DEF p
<1>2. Len(Calls(p)) = 2 /\ Calls(p)[1].op = "stmts" /\ Calls(p)[2].op = "close"
  BY <1>1, CallsOf
<1>3. (\A i \in 1 .. 2 : i = 1 \/ i = 2) /\ 2 \in 1 .. 2
  OBVIOUS
<1>4. Count("open", Calls(p)) = 0
  BY <1>2, <1>3, CountNone
<1>5. Count("close", Calls(p)) = 1
  BY <1>2, <1>3, CountOne
<1>6. Plain(p)
  BY <1>1, <1>3 DEF Plain
<1> QED BY <1>4, <1>5, <1>6 DEF p

(* parse_match_arm.                                                        *)
LEMMA ParseMatchArmInv == ParserInv /\ parse_match_arm => ParserInv'
<1> SUFFICES ASSUME ParserInv, parse_match_arm PROVE ParserInv'
  OBVIOUS
<1>1. /\ Usual("arm") /\ Usual("arm_body") /\ Good(<<"arm_body">>)
      /\ Good(<<"stmt">>) /\ Good(<<"expr", "arm_body">>)
      /\ tok \in {"_", "->"} => tok \notin Mark \cup {"EOF"}
  BY Tuples DEF Ordinary, Usual, Mark
<1>2. CASE At("arm") /\ tok = "_" /\ Read(<<"arm_body">>)
  BY <1>1, <1>2, UsualStep
<1>3. CASE At("arm") /\ Call(<<"expr", "arm_body">>)
  <2>1. <<"expr", "arm_body">> # <<>> /\ <<"expr", "arm_body">>[1] \in Firm
    BY DEF Firm
  <2>2. todo # <<>> /\ Head(todo).op = "arm" /\ Fits(Head(todo).op, <<"expr", "arm_body">>)
    BY <1>3 DEF At, Fits
  <2> QED BY <1>1, <1>3, <2>1, <2>2, CallStep
<1>4. CASE At("arm_body") /\ tok = "->" /\ Read(<<"stmt">>)
  BY <1>1, <1>4, UsualStep
<1>5. CASE At("arm_body") /\ tok = ">>" /\ Read(<<"stmts", "close">>)
  <2>1. /\ Advance(Calls(<<"stmts", "close">>) \o Tail(todo)) /\ root' = Atom
        /\ errors' = errors /\ stray' = stray
    BY <1>5 DEF Read, Frame
  <2>2. errors' \in BOOLEAN /\ stray' \in BOOLEAN
    BY <2>1 DEF ParserInv, Kinds
  <2>3. /\ todo # <<>> /\ Head(todo).op = "arm_body"
        /\ Fits(Head(todo).op, <<"stmts", "close">>)
    BY <1>5 DEF At, Fits
  <2>4. Mark1 + Count("open", Calls(<<"stmts", "close">>)) + Owed(Head(todo).op)
          = Count("close", Calls(<<"stmts", "close">>))
    BY <1>5, <2>3, ArmBlockPlan DEF Mark1, Owed, One
  <2>5. tok # "EOF" /\ <<"stmts", "close">>[1] # "colons"
    BY <1>5
  <2> QED BY <2>1, <2>2, <2>3, <2>4, <2>5, ArmBlockPlan, ReadInv
<1>6. CASE At("arm_body") /\ Report(<<>>)
  BY <1>1, <1>6, Empty, UsualStep
<1> QED BY <1>2, <1>3, <1>4, <1>5, <1>6 DEF parse_match_arm

(* The marks of a block.                                                   *)
LEMMA OpenInv == ParserInv /\ expect_open_block => ParserInv'
<1> SUFFICES ASSUME ParserInv, expect_open_block PROVE ParserInv'
  OBVIOUS
<1>1. todo # <<>> /\ Head(todo).op = "open" /\ \A p : Fits(Head(todo).op, p)
  BY DEF expect_open_block, Demand, At, Fits
<1>2. CASE tok = ">>" /\ Read(<<>>)
  <2>1. /\ Advance(Calls(<<>>) \o Tail(todo)) /\ root' = Atom
        /\ errors' = errors /\ stray' = stray
    BY <1>2 DEF Read, Frame
  <2>2. errors' \in BOOLEAN /\ stray' \in BOOLEAN
    BY <2>1 DEF ParserInv, Kinds
  <2>3. Plain(<<>>) /\ Count("open", Calls(<<>>)) = Count("close", Calls(<<>>))
    BY Empty DEF Good
  <2>4. Count("open", Calls(<<>>)) \in Nat
    BY <1>1, <2>3, Rewrite DEF ParserInv
  <2>5. Mark1 + Count("open", Calls(<<>>)) + Owed(Head(todo).op)
          = Count("close", Calls(<<>>))
    BY <1>1, <1>2, <2>3, <2>4 DEF Mark1, Owed, One
  <2>6. tok # "EOF"
    BY <1>2
  <2> QED BY <1>1, <2>1, <2>2, <2>3, <2>5, <2>6, ReadInv
<1>3. CASE Report(<<>>)
  BY <1>1, <1>3, Empty, ReportStep
<1> QED BY <1>2, <1>3 DEF expect_open_block, Demand

(* consume_close counts the << it reads, and stops its label at a mark.    *)
LEMMA CloseInv == ParserInv /\ consume_close => ParserInv'
<1> SUFFICES ASSUME ParserInv, consume_close PROVE ParserInv'
  OBVIOUS
<1>1. Good(<<"label">>) /\ Good(<<>>) /\ Usual("label") /\ "label" \notin Firm
  BY Tuples, Empty DEF Ordinary, Usual, Firm
<1>2. CASE Demand("close", {"<<"}, <<"label">>)
  <2>1. todo # <<>> /\ Head(todo).op = "close" /\ \A p : Fits(Head(todo).op, p)
    BY <1>2 DEF Demand, At, Fits
  <2>2. CASE tok = "<<" /\ Read(<<"label">>)
    <3>1. /\ Advance(Calls(<<"label">>) \o Tail(todo)) /\ root' = Atom
          /\ errors' = errors /\ stray' = stray
      BY <2>2 DEF Read, Frame
    <3>2. errors' \in BOOLEAN /\ stray' \in BOOLEAN
      BY <3>1 DEF ParserInv, Kinds
    <3>3. /\ Plain(<<"label">>) /\ <<"label">>[1] # "colons"
          /\ Count("open", Calls(<<"label">>)) = Count("close", Calls(<<"label">>))
      BY <1>1 DEF Good
    <3>4. Count("open", Calls(<<"label">>)) \in Nat
      BY <2>1, <3>3, Rewrite DEF ParserInv
    <3>5. Mark1 + Count("open", Calls(<<"label">>)) + Owed(Head(todo).op)
            = Count("close", Calls(<<"label">>))
      BY <2>1, <2>2, <3>3, <3>4 DEF Mark1, Owed, One
    <3>6. tok # "EOF"
      BY <2>2
    <3> QED BY <2>1, <3>1, <3>2, <3>3, <3>5, <3>6, ReadInv
  <2>3. CASE Report(<<>>)
    BY <1>1, <2>1, <2>3, ReportStep
  <2> QED BY <1>2, <2>2, <2>3 DEF Demand
<1>3. CASE At("label") /\ Call(<<>>)
  BY <1>1, <1>3, UsualStep
<1>4. CASE At("label") /\ tok \notin Mark \cup {"EOF"} /\ Read(<<"label">>)
  BY <1>1, <1>4, UsualStep
<1> QED BY <1>2, <1>3, <1>4 DEF consume_close

(* ---- Operands. ---- *)
(* parse_unary: the operators stay behind their operand.                   *)
LEMMA ParseUnaryInv == ParserInv /\ parse_unary => ParserInv'
<1> SUFFICES ASSUME ParserInv, parse_unary PROVE ParserInv'
  OBVIOUS
<1>1. todo # <<>> /\ Head(todo).op = "unary"
  BY DEF parse_unary, At
<1>2. CASE tok \in {"minus", "not"} /\ Read(<<"unary">>)
  <2>1. Good(<<"unary">>) /\ tok \notin Mark \cup {"EOF"}
    BY <1>2, Tuples DEF Ordinary, Mark
  <2>2. Fits("unary", <<"unary">>)
    BY DEF Fits
  <2> QED BY <1>1, <1>2, <2>1, <2>2, ReadStep
<1>3. CASE Call(<<"primary", "postfix">>)
  <2>1. /\ Good(<<"primary", "postfix">>) /\ <<"primary", "postfix">> # <<>>
        /\ <<"primary", "postfix">>[1] \in Firm
    BY Tuples DEF Ordinary, Firm
  <2>2. Fits("unary", <<"primary", "postfix">>)
    BY DEF Fits
  <2> QED BY <1>1, <1>3, <2>1, <2>2, CallStep
<1> QED BY <1>2, <1>3 DEF parse_unary

(* parse_postfix.                                                          *)
LEMMA ParsePostfixInv == ParserInv /\ parse_postfix => ParserInv'
<1> SUFFICES ASSUME ParserInv, parse_postfix PROVE ParserInv'
  OBVIOUS
<1>1. CASE At("postfix")
  <2>1. /\ todo # <<>> /\ Head(todo).op = "postfix" /\ "postfix" \notin Firm
    BY <1>1 DEF At, Firm
  <2>2. tok \in {".", "(", "[", "exists"} => tok \notin Mark \cup {"EOF"}
    BY DEF Mark
  <2>3. /\ Good(<<"identifier", "postfix">>) /\ Good(<<"args", "rparen", "postfix">>)
        /\ Good(<<"expr", "rbracket", "postfix">>) /\ Good(<<"postfix">>)
    BY Tuples DEF Ordinary
  <2>4. /\ Fits("postfix", <<"identifier", "postfix">>)
        /\ Fits("postfix", <<"args", "rparen", "postfix">>)
        /\ Fits("postfix", <<"expr", "rbracket", "postfix">>)
        /\ Fits("postfix", <<"postfix">>) /\ Fits("postfix", <<>>)
    BY DEF Fits
  <2>5. CASE tok = "." /\ Read(<<"identifier", "postfix">>)
    BY <2>1, <2>2, <2>3, <2>4, <2>5, ReadStep
  <2>6. CASE tok = "(" /\ Read(<<"args", "rparen", "postfix">>)
    BY <2>1, <2>2, <2>3, <2>4, <2>6, ReadStep
  <2>7. CASE tok = "[" /\ Read(<<"expr", "rbracket", "postfix">>)
    BY <2>1, <2>2, <2>3, <2>4, <2>7, ReadStep
  <2>8. CASE tok = "exists" /\ Read(<<"postfix">>)
    BY <2>1, <2>2, <2>3, <2>4, <2>8, ReadStep
  <2>9. CASE Call(<<>>)
    BY <2>1, <2>4, <2>9, Empty, CallStep
  <2> QED BY <1>1, <2>1, <2>5, <2>6, <2>7, <2>8, <2>9
          DEF parse_postfix, Accept, At
<1>2. CASE At("args") /\ \E p \in {<<>>, <<"expr", "arg_comma">>} : Call(p)
  <2>1. /\ Good(<<"expr", "arg_comma">>) /\ Usual("args") /\ "args" \notin Firm
    BY Tuples DEF Ordinary, Usual, Firm
  <2> QED BY <1>2, <2>1, Empty, UsualStep
<1>3. CASE \/ Accept("arg_comma", {","}, <<"args">>)
           \/ Accept("rparen", {")"}, <<>>) \/ Accept("rbracket", {"]"}, <<>>)
  <2>1. /\ Good(<<"args">>) /\ Good(<<>>)
        /\ \A op \in {"arg_comma", "rparen", "rbracket"} : Usual(op) /\ op \notin Firm
        /\ {","} \cap (Mark \cup {"EOF"}) = {}
        /\ {")"} \cap (Mark \cup {"EOF"}) = {}
        /\ {"]"} \cap (Mark \cup {"EOF"}) = {}
    BY Tuples, Empty DEF Ordinary, Usual, Firm, Mark
  <2> QED BY <1>3, <2>1, AcceptStep
<1> QED BY <1>1, <1>2, <1>3 DEF parse_postfix

(* A token that starts no operand is read, or is the end, with an error.   *)
LEMMA UnexpectedInv ==
    ASSUME ParserInv, At("primary"), Unexpected
    PROVE  ParserInv'
<1>1. todo # <<>> /\ Head(todo).op = "primary" /\ Fits(Head(todo).op, <<>>)
  BY DEF At, Fits
<1>2. IsSeq(Tail(todo)) /\ Calls(<<>>) \o Tail(todo) = Tail(todo)
  BY <1>1, TailOf, Empty DEF ParserInv, Sound
<1>3. /\ errors' = TRUE /\ stray' = stray /\ root' = Atom
      /\ Advance(Calls(<<>>) \o Tail(todo))
  BY <1>2 DEF Unexpected
<1>4. /\ errors' \in BOOLEAN /\ stray' \in BOOLEAN /\ ~(~errors')
      /\ Plain(<<>>)
  BY <1>3, Empty DEF ParserInv, Kinds, Good
<1>5. CASE tok = "EOF"
  <2>1. /\ todo' = Calls(<<>>) \o Tail(todo) /\ tok' = tok /\ opened' = opened
    BY <1>3, <1>5 DEF Advance
  <2>2. opened' \in Int
    BY <2>1 DEF ParserInv, Kinds
  <2> QED BY <1>1, <1>3, <1>4, <2>1, <2>2, StayInv
<1>6. CASE tok # "EOF"
  BY <1>1, <1>3, <1>4, <1>6, ReadInv
<1> QED BY <1>5, <1>6

(* parse_primary reads, or reports.                                        *)
LEMMA ParsePrimaryInv == ParserInv /\ parse_primary => ParserInv'
<1> SUFFICES ASSUME ParserInv, parse_primary PROVE ParserInv'
  OBVIOUS
<1>1. \A op \in {"primary", "string_parts", "arrow"} : Usual(op)
  BY DEF Usual
<1>2. /\ Good(<<>>) /\ Good(<<"string_parts">>) /\ Good(<<"expr", "rparen">>)
      /\ Good(<<"list">>) /\ Good(<<"arrow">>) /\ Good(<<"expr">>)
  BY Tuples, Empty DEF Ordinary
<1>3. tok \in Identifier \cup InString
                  \cup {"literal", "native", "string", "(", "[", "->", "await"}
        => tok \notin Mark \cup {"EOF"}
  BY Names DEF Mark, InString
<1>4. CASE At("primary") /\ tok \in Identifier \cup {"literal", "native"} /\ Read(<<>>)
  BY <1>1, <1>2, <1>3, <1>4, UsualStep
<1>5. CASE At("primary") /\ tok = "string" /\ Read(<<"string_parts">>)
  BY <1>1, <1>2, <1>3, <1>5, UsualStep
<1>6. CASE At("primary") /\ tok = "(" /\ Read(<<"expr", "rparen">>)
  BY <1>1, <1>2, <1>3, <1>6, UsualStep
<1>7. CASE At("primary") /\ tok = "[" /\ Read(<<"list">>)
  BY <1>1, <1>2, <1>3, <1>7, UsualStep
<1>8. CASE At("primary") /\ tok = "->" /\ Read(<<"arrow">>)
  BY <1>1, <1>2, <1>3, <1>8, UsualStep
<1>9. CASE At("primary") /\ tok = "await" /\ Read(<<"expr">>)
  BY <1>1, <1>2, <1>3, <1>9, UsualStep
<1>10. CASE At("primary") /\ Unexpected
  BY <1>10, UnexpectedInv
<1>11. CASE At("string_parts")
  <2>1. "string_parts" \notin Firm
    BY DEF Firm
  <2>2. CASE tok \in InString /\ (Read(<<>>) \/ Read(<<"string_parts">>))
    BY <1>1, <1>2, <1>3, <1>11, <2>2, UsualStep
  <2>3. CASE Call(<<>>)
    BY <1>1, <1>2, <1>11, <2>1, <2>3, UsualStep
  <2>4. "quote" \in InString
    BY DEF InString
  <2> QED BY <1>11, <2>2, <2>3, <2>4 DEF parse_primary, At
<1>12. CASE At("arrow")
  <2>1. "arrow" \notin Firm
    BY DEF Firm
  <2>2. CASE tok = "await" /\ Read(<<"expr">>)
    BY <1>1, <1>2, <1>3, <1>12, <2>2, UsualStep
  <2>3. CASE Call(<<"expr">>)
    BY <1>1, <1>2, <1>12, <2>1, <2>3, UsualStep
  <2> QED BY <1>12, <2>2, <2>3 DEF parse_primary, At
<1> QED BY <1>4, <1>5, <1>6, <1>7, <1>8, <1>9, <1>10, <1>11, <1>12 DEF parse_primary

(* The list and the map literals.                                          *)
LEMMA ListLiteralInv == ParserInv /\ list_literal => ParserInv'
<1> SUFFICES ASSUME ParserInv, list_literal PROVE ParserInv'
  OBVIOUS
<1>1. \A op \in {"list", "list_kind", "items", "next_item", "pairs", "next_pair",
                 "pair_arrow"} : Usual(op) /\ op \notin Firm
  BY DEF Usual, Firm
<1>2. /\ Good(<<>>) /\ Good(<<"expr", "list_kind">>) /\ Good(<<"expr", "pairs">>)
      /\ Good(<<"items">>) /\ Good(<<"next_item">>) /\ Good(<<"rbracket">>)
      /\ Good(<<"expr", "items">>) /\ Good(<<"next_pair">>)
      /\ Good(<<"expr", "pair_arrow", "expr", "pairs">>)
  BY Tuples, Empty DEF Ordinary
<1>3. /\ tok \in {"]", "->", ","} => tok \notin Mark \cup {"EOF"}
      /\ {"->"} \cap (Mark \cup {"EOF"}) = {}
  BY DEF Mark
<1>4. CASE At("list") /\ tok = "]" /\ Read(<<>>)
  BY <1>1, <1>2, <1>3, <1>4, UsualStep
<1>5. CASE At("list") /\ Call(<<"expr", "list_kind">>)
  BY <1>1, <1>2, <1>5, UsualStep
<1>6. CASE At("list_kind") /\ tok = "->" /\ Read(<<"expr", "pairs">>)
  BY <1>1, <1>2, <1>3, <1>6, UsualStep
<1>7. CASE At("list_kind") /\ Call(<<"items">>)
  BY <1>1, <1>2, <1>7, UsualStep
<1>8. CASE At("items") /\ tok = "," /\ Read(<<"next_item">>)
  BY <1>1, <1>2, <1>3, <1>8, UsualStep
<1>9. CASE At("items") /\ Call(<<"rbracket">>)
  BY <1>1, <1>2, <1>9, UsualStep
<1>10. CASE At("next_item") /\ \E p \in {<<"rbracket">>, <<"expr", "items">>} : Call(p)
  BY <1>1, <1>2, <1>10, UsualStep
<1>11. CASE At("pairs") /\ tok = "," /\ Read(<<"next_pair">>)
  BY <1>1, <1>2, <1>3, <1>11, UsualStep
<1>12. CASE At("pairs") /\ Call(<<"rbracket">>)
  BY <1>1, <1>2, <1>12, UsualStep
<1>13. CASE At("next_pair") /\ Call(<<"rbracket">>)
  BY <1>1, <1>2, <1>13, UsualStep
<1>14. CASE At("next_pair") /\ Call(<<"expr", "pair_arrow", "expr", "pairs">>)
  BY <1>1, <1>2, <1>14, UsualStep
<1>15. CASE Accept("pair_arrow", {"->"}, <<>>)
  BY <1>1, <1>2, <1>3, <1>15, AcceptStep
<1> QED BY <1>4, <1>5, <1>6, <1>7, <1>8, <1>9, <1>10, <1>11, <1>12, <1>13, <1>14,
           <1>15 DEF list_literal

(* parse_type.                                                             *)
LEMMA ParseTypeInv == ParserInv /\ parse_type => ParserInv'
<1> SUFFICES ASSUME ParserInv, parse_type PROVE ParserInv'
  OBVIOUS
<1>1. \A op \in {"type", "result_arg", "type_args", "more_types"} :
        Usual(op) /\ op \notin Firm
  BY DEF Usual, Firm
<1>2. /\ Good(<<>>) /\ Good(<<"type">>) /\ Good(<<"result_arg">>)
      /\ Good(<<"type_args">>) /\ Good(<<"type", "rbracket">>)
      /\ Good(<<"type", "more_types">>) /\ Good(<<"rbracket">>)
  BY Tuples, Empty DEF Ordinary
<1>3. /\ tok \in Identifier \cup {"maybe", "result", "native", ","}
           => tok \notin Mark \cup {"EOF"}
      /\ {"["} \cap (Mark \cup {"EOF"}) = {}
  BY Names DEF Mark
<1>4. CASE At("type") /\ tok = "maybe" /\ Read(<<"type">>)
  BY <1>1, <1>2, <1>3, <1>4, UsualStep
<1>5. CASE At("type") /\ tok = "result" /\ Read(<<"result_arg">>)
  BY <1>1, <1>2, <1>3, <1>5, UsualStep
<1>6. CASE At("type") /\ tok = "native" /\ Read(<<>>)
  BY <1>1, <1>2, <1>3, <1>6, UsualStep
<1>7. CASE At("type") /\ tok \in Identifier /\ Read(<<"type_args">>)
  BY <1>1, <1>2, <1>3, <1>7, UsualStep
<1>8. CASE At("type") /\ Report(<<>>)
  BY <1>1, <1>2, <1>8, UsualStep
<1>9. CASE Accept("result_arg", {"["}, <<"type", "rbracket">>)
  BY <1>1, <1>2, <1>3, <1>9, AcceptStep
<1>10. CASE Accept("type_args", {"["}, <<"type", "more_types">>)
  BY <1>1, <1>2, <1>3, <1>10, AcceptStep
<1>11. CASE At("more_types") /\ tok = "," /\ Read(<<"type", "more_types">>)
  BY <1>1, <1>2, <1>3, <1>11, UsualStep
<1>12. CASE At("more_types") /\ Call(<<"rbracket">>)
  BY <1>1, <1>2, <1>12, UsualStep
<1> QED BY <1>4, <1>5, <1>6, <1>7, <1>8, <1>9, <1>10, <1>11, <1>12 DEF parse_type

(* ---- The loops and the expressions, which push more than calls. ---- *)
(* A firm call is pushed with what is to follow it, above the rest q of    *)
(* the stack; a token is read or not.                                      *)
LEMMA PushInv ==
    ASSUME ParserInv, NEW f, NEW q, Sound(f), Sound(q), f # <<>>,
           Head(f).op \in Firm, q # <<>> => Link(f[Len(f)], Head(q)),
           Count("open", f) = 0, Count("close", f) = 0,
           Count("open", q) = Count("open", todo),
           Count("close", q) = Count("close", todo),
           \/ Stay(f \o q)
           \/ Advance(f \o q) /\ tok \notin Mark \cup {"EOF"},
           root' = Atom, errors' = errors, stray' = stray
    PROVE  ParserInv'
<1> DEFINE r == f \o q
<1>1. IsSeq(f) /\ IsSeq(q)
  BY DEF Sound
<1>2. Sound(r)
  BY SoundConcat
<1>3. r # <<>> /\ Head(r) = Head(f)
  <2>1. /\ Len(f) \in Nat \ {0} /\ Head(f) = f[1] /\ 1 \in 1 .. Len(f)
    BY <1>1, TailOf
  <2>2. r[1] = f[1] /\ Len(r) = Len(f) + Len(q) /\ Len(q) \in Nat
    BY <1>1, <2>1, Concat
  <2>3. r # <<>>
    <3>1. Len(r) # 0
      BY <2>1, <2>2
    <3> QED BY <3>1, Len(<<>>) = 0
  <2> HIDE DEF r
  <2>4. Head(r) = r[1]
    BY <1>2, <2>3, TailOf DEF Sound
  <2> QED BY <2>1, <2>2, <2>3, <2>4
<1>4. /\ Count("open", r) = Count("open", todo)
      /\ Count("close", r) = Count("close", todo)
  <2>1. /\ Count("open", r) = Count("open", f) + Count("open", q)
        /\ Count("close", r) = Count("close", f) + Count("close", q)
        /\ Count("open", q) \in Nat /\ Count("close", q) \in Nat
    BY <1>1, CountConcat
  <2> HIDE DEF r
  <2> QED BY <2>1
<1> HIDE DEF r
<1>5. PICK s \in {r, Moved(r)} :
        /\ todo' = s
        /\ opened' = IF errors' \/ stray' THEN 0 ELSE opened
  BY DEF Stay, Advance, Mark, r
<1>6. /\ Sound(s) /\ s # <<>> /\ Head(s).op = Head(f).op
      /\ Count("open", s) = Count("open", r)
      /\ Count("close", s) = Count("close", r)
  BY <1>2, <1>3, SoundMoved
<1>7. Kinds'
  BY <1>5 DEF Kinds, ParserInv, Atom
<1>8. TopOK' /\ FirmOrSettled'
  BY <1>5, <1>6 DEF TopOK, FirmOrSettled, At, Firm
<1>9. Matching'
  <2>1. /\ Count("open", todo)' = Count("open", todo)
        /\ Count("close", todo)' = Count("close", todo)
    BY <1>4, <1>5, <1>6 DEF Count
  <2> QED BY <1>5, <2>1 DEF ParserInv, Matching
<1> QED BY <1>5, <1>6, <1>7, <1>8, <1>9 DEF ParserInv

(* A loop begins an item: the call of the item will read or report.        *)
LEMMA LoopTestInv == ParserInv /\ LoopTest => ParserInv'
<1> SUFFICES ASSUME ParserInv, NEW loop \in DOMAIN Item, At(loop),
                    IF tok = "EOF" \/ (tok = "<<" /\ loop # "program")
                    THEN Call(<<>>)
                    ELSE /\ Frame
                         /\ Stay(Calls(<<Item[loop]>>)
                               \o <<[op |-> "again", loop |-> loop, moved |-> FALSE]>>
                               \o Tail(todo))
             PROVE  ParserInv'
  BY DEF LoopTest
<1>1. DOMAIN Item = {"program", "entity_body", "fields", "variants", "externs",
                     "mocks", "stmts", "arms"}
  BY DEF Item
<1>2. Usual(loop) /\ loop \notin Firm
  BY <1>1 DEF Usual, Firm
<1>3. CASE Call(<<>>)
  BY <1>2, <1>3, Empty, UsualStep
<1> DEFINE a == [op |-> "again", loop |-> loop, moved |-> FALSE]
           c == Calls(<<Item[loop]>>)
           f == c \o <<a>>
<1>4. CASE Frame /\ Stay(f \o Tail(todo))
  <2>1. Item[loop] \in Firm /\ Ordinary(Item[loop])
    BY <1>1 DEF Item, Firm, Ordinary
  <2>2. Good(<<Item[loop]>>)
    BY <2>1, Tuples
  <2>3. Sound(c) /\ IsSeq(c) /\ Len(c) = 1 /\ c[1].op = Item[loop]
    <3>1. /\ IsSeq(<<Item[loop]>>) /\ Len(<<Item[loop]>>) = 1
          /\ <<Item[loop]>>[1] = Item[loop]
      BY Literals
    <3>2. Sound(c)
      BY <2>2, PlanSound DEF Good
    <3> QED BY <3>1, <3>2, CallsOf DEF Sound
  <2>4. /\ a.op = "again"
        /\ a \in [op : {"again"}, loop : DOMAIN Item, moved : BOOLEAN]
    OBVIOUS
  <2> HIDE DEF a, c
  <2>5. /\ IsSeq(<<a>>) /\ Len(<<a>>) = 1 /\ <<a>>[1] = a /\ Head(<<a>>) = a
        /\ <<a>> # <<>>
    BY Literals
  <2>6. Sound(<<a>>)
    <3>1. Entry(a)
      BY <2>4 DEF Entry
    <3> QED BY <2>5, <3>1 DEF Sound
  <2>7. Sound(f) /\ IsSeq(f) /\ Len(f) = 2 /\ f[1] = c[1] /\ f[2] = a
    <3>1. Link(c[Len(c)], Head(<<a>>))
      BY <2>4, <2>5 DEF Link
    <3>2. Sound(f)
      BY <2>3, <2>6, <3>1, SoundConcat
    <3>3. Len(f) = Len(c) + Len(<<a>>)
          /\ (\A i \in 1 .. Len(c) : f[i] = c[i])
          /\ (\A i \in Len(c) + 1 .. Len(c) + Len(<<a>>) : f[i] = <<a>>[i - Len(c)])
      BY <2>3, <2>5, Concat
    <3>4. Len(f) = 2 /\ f[1] = c[1] /\ f[2] = a
      BY <2>3, <2>5, <3>3
    <3> QED BY <3>2, <3>4 DEF Sound
  <2> HIDE DEF f
  <2>8. f # <<>> /\ Head(f) = f[1]
    <3>1. f # <<>>
      BY <2>7, Len(<<>>) = 0
    <3> QED BY <2>7, <3>1, TailOf
  <2>9. /\ Count("open", f) = 0 /\ Count("close", f) = 0
    <3>1. \A i \in 1 .. Len(f) : f[i].op \notin {"open", "close"}
      BY <2>1, <2>3, <2>4, <2>7 DEF Ordinary
    <3> QED BY <3>1, CountNone
  <2>10. todo # <<>> /\ Head(todo).op = loop
    BY DEF At
  <2>11. /\ Sound(Tail(todo))
         /\ Tail(todo) # <<>> => Link(Head(todo), Head(Tail(todo)))
    BY <2>10, SoundTail DEF ParserInv
  <2>12. Tail(todo) # <<>> => Link(f[Len(f)], Head(Tail(todo)))
    BY <1>2, <2>4, <2>7, <2>10, <2>11 DEF Link, Usual
  <2>13. /\ Count("open", Tail(todo)) = Count("open", todo)
         /\ Count("close", Tail(todo)) = Count("close", todo)
    <3>1. \A x \in {"open", "close"} : One(loop, x) = 0
      BY <1>2 DEF One, Usual
    <3> QED BY <2>10, <3>1, CountHead DEF ParserInv, Sound
  <2>14. Stay(f \o Tail(todo)) /\ root' = Atom /\ errors' = errors /\ stray' = stray
    BY <1>4 DEF Frame
  <2>15. Head(f).op \in Firm
    BY <2>1, <2>3, <2>7, <2>8
  <2> QED BY <2>7, <2>8, <2>9, <2>11, <2>12, <2>13, <2>14, <2>15, PushInv
<1> QED BY <1>3, <1>4 DEF f, c, a

(* Nothing was read: there has been an error, as no firm call is left.     *)
LEMMA AgainInv == ParserInv /\ Again => ParserInv'
<1> SUFFICES ASSUME ParserInv, Again PROVE ParserInv'
  OBVIOUS
<1>1. /\ todo # <<>> /\ Head(todo).op = "again" /\ Usual("again")
      /\ "again" \notin Firm /\ At("again")
  BY DEF Again, At, Usual, Firm
<1>2. Head(todo).loop \in DOMAIN Item
  <2>1. Entry(Head(todo))
    BY <1>1, SoundTail DEF ParserInv
  <2> QED BY <1>1, <2>1 DEF Entry
<1>3. Good(<<Head(todo).loop>>)
  <2>1. Ordinary(Head(todo).loop)
    BY <1>2 DEF Item, Ordinary
  <2> QED BY <2>1, Tuples
<1>4. CASE Head(todo).moved /\ Call(<<Head(todo).loop>>)
  BY <1>1, <1>3, <1>4, UsualStep
<1>5. CASE ~Head(todo).moved /\ Read(<<Head(todo).loop>>)
  <2>1. errors
    <3>1. ~Settled(todo)
      <4>1. Head(todo) = todo[1] /\ 1 \in 1 .. Len(todo)
        BY <1>1, TailOf DEF ParserInv, Sound
      <4> QED BY <1>1, <1>5, <4>1 DEF Settled
    <3> QED BY <1>1, <3>1 DEF ParserInv, FirmOrSettled
  <2>2. CASE tok = "EOF"
    BY <1>1, <1>3, <1>5, <2>2, EndStep
  <2>3. CASE tok # "EOF"
    <3>1. /\ Advance(Calls(<<Head(todo).loop>>) \o Tail(todo)) /\ root' = Atom
          /\ errors' = errors /\ stray' = stray
      BY <1>5 DEF Read, Frame
    <3>2. errors' \in BOOLEAN /\ stray' \in BOOLEAN /\ ~(~errors')
      BY <2>1, <3>1 DEF ParserInv, Kinds
    <3>3. Fits(Head(todo).op, <<Head(todo).loop>>)
      BY <1>1 DEF Fits
    <3>4. /\ Plain(<<Head(todo).loop>>)
          /\ (<<Head(todo).loop>> # <<>> => <<Head(todo).loop>>[1] # "colons")
      BY <1>3 DEF Good
    <3> QED BY <1>1, <2>3, <3>1, <3>2, <3>3, <3>4, ReadInv
  <2> QED BY <2>2, <2>3
<1> QED BY <1>4, <1>5 DEF Again

(* An operand, and behind it operators of the level least and up.          *)
LEMMA ExprSound ==
    ASSUME NEW least \in 0 .. Atom
    PROVE  /\ Sound(Expr(least)) /\ Len(Expr(least)) = 2
           /\ Expr(least)[1].op = "unary"
           /\ Expr(least)[2] = [op |-> "binary", min |-> least]
<1> DEFINE u == [op |-> "unary"]
           b == [op |-> "binary", min |-> least]
           e == <<u, b>>
<1>1. u.op = "unary" /\ b.op = "binary" /\ b.min = least
  OBVIOUS
<1> HIDE DEF u, b
<1>2. IsSeq(e) /\ Len(e) = 2 /\ e[1] = u /\ e[2] = b
  BY Literals
<1> HIDE DEF e
<1>3. Entry(u) /\ Entry(b) /\ Link(u, b)
  BY <1>1 DEF Entry, Link
<1>4. \A i \in 1 .. Len(e) : Entry(e[i])
  BY <1>2, <1>3
<1>5. \A i \in 1 .. Len(e) - 1 : Link(e[i], e[i + 1])
  <2>1. \A i \in 1 .. Len(e) - 1 : i = 1 /\ i + 1 = 2
    BY <1>2
  <2> QED BY <1>2, <1>3, <2>1
<1>6. Expr(least) = e
  BY DEF Expr, e, u, b
<1> QED BY <1>1, <1>2, <1>4, <1>5, <1>6 DEF Sound, b

(* parse_expr reads operators of every level.                              *)
LEMMA ParseExprInv == ParserInv /\ parse_expr => ParserInv'
<1> SUFFICES ASSUME ParserInv, parse_expr PROVE ParserInv'
  OBVIOUS
<1> DEFINE f == Expr(0)
<1>1. todo # <<>> /\ Head(todo).op = "expr"
  BY DEF parse_expr, At
<1>2. /\ Sound(f) /\ IsSeq(f) /\ Len(f) = 2 /\ f[1].op = "unary"
      /\ f[2].op = "binary" /\ f[2].min = 0
  BY ExprSound, 0 \in 0 .. Atom DEF Sound, Atom
<1>3. Stay(f \o Tail(todo)) /\ root' = Atom /\ errors' = errors /\ stray' = stray
  BY DEF parse_expr, Frame
<1> HIDE DEF f
<1>4. f # <<>> /\ Head(f).op = "unary"
  <2>1. f # <<>>
    BY <1>2, Len(<<>>) = 0
  <2> QED BY <1>2, <2>1, TailOf
<1>5. Count("open", f) = 0 /\ Count("close", f) = 0
  <2>1. \A i \in 1 .. Len(f) : f[i].op \notin {"open", "close"}
    BY <1>2
  <2> QED BY <2>1, CountNone
<1>6. /\ Sound(Tail(todo))
      /\ Tail(todo) # <<>> => Link(Head(todo), Head(Tail(todo)))
  BY <1>1, SoundTail DEF ParserInv
<1>7. Tail(todo) # <<>> => Link(f[Len(f)], Head(Tail(todo)))
  BY <1>1, <1>2, <1>6 DEF Link
<1>8. /\ Count("open", Tail(todo)) = Count("open", todo)
      /\ Count("close", Tail(todo)) = Count("close", todo)
  <2>1. \A x \in {"open", "close"} : One("expr", x) = 0
    BY DEF One
  <2> QED BY <1>1, <2>1, CountHead DEF ParserInv, Sound
<1> QED BY <1>2, <1>3, <1>4, <1>5, <1>6, <1>7, <1>8, PushInv DEF Firm

(* An operator is taken: its right operand is read one level up.           *)
LEMMA TakenInv ==
    ASSUME ParserInv, At("binary"), tok \in Operator,
           Precedence[tok] >= Head(todo).min, root' = Atom,
           errors' = errors, stray' = stray,
           Advance(Expr(Precedence[tok] + 1)
                     \o <<[op |-> "combine", prec |-> Precedence[tok],
                           left |-> root]>>
                     \o todo)
    PROVE  ParserInv'
<1> DEFINE prec == Precedence[tok]
           e == Expr(prec + 1)
           k == [op |-> "combine", prec |-> prec, left |-> root]
           f == e \o <<k>>
<1>1. /\ todo # <<>> /\ Head(todo).op = "binary" /\ Head(todo).min <= prec
      /\ prec \in 1 .. 9 /\ prec + 1 \in 0 .. Atom
      /\ Head(todo).min \in 0 .. Atom
  <2>1. prec \in 1 .. 9
    BY DEF Operator, Precedence
  <2>2. todo # <<>> /\ Head(todo).op = "binary"
    BY DEF At
  <2>3. Entry(Head(todo))
    BY <2>2, SoundTail DEF ParserInv
  <2> HIDE DEF prec
  <2>4. Head(todo).min \in 0 .. Atom
    BY <2>2, <2>3 DEF Entry
  <2> QED BY <2>1, <2>2, <2>4 DEF Atom, prec
<1>2. /\ root >= prec /\ root \in 1 .. Atom
  BY DEF ParserInv, TopOK, Kinds
<1>3. k.op = "combine" /\ k.prec = prec /\ k.left = root
  OBVIOUS
<1>4. tok \notin Mark \cup {"EOF"}
  BY DEF Operator, Precedence, Mark
<1> HIDE DEF prec
<1>5. /\ Sound(e) /\ IsSeq(e) /\ Len(e) = 2 /\ e[1].op = "unary"
      /\ e[2].op = "binary" /\ e[2].min = prec + 1
  <2> DEFINE b == [op |-> "binary", min |-> prec + 1]
  <2>1. Sound(e) /\ Len(e) = 2 /\ e[1].op = "unary" /\ e[2] = b
    BY <1>1, ExprSound
  <2>2. b.op = "binary" /\ b.min = prec + 1
    OBVIOUS
  <2> HIDE DEF b, e
  <2> QED BY <2>1, <2>2 DEF Sound
<1> HIDE DEF e, k
<1>6. /\ IsSeq(<<k>>) /\ Len(<<k>>) = 1 /\ <<k>>[1] = k /\ Head(<<k>>) = k
      /\ <<k>> # <<>>
  BY Literals
<1>7. Sound(<<k>>)
  <2>1. Entry(k)
    BY <1>1, <1>2, <1>3 DEF Entry
  <2> QED BY <1>6, <2>1 DEF Sound
<1>8. Sound(f)
  <2>1. Link(e[Len(e)], Head(<<k>>))
    BY <1>3, <1>5, <1>6 DEF Link
  <2> QED BY <1>5, <1>7, <2>1, SoundConcat
<1>9. IsSeq(f) /\ Len(f) = 3 /\ f[1] = e[1] /\ f[2] = e[2] /\ f[3] = k
  <2>1. /\ Len(f) = Len(e) + Len(<<k>>)
        /\ \A i \in 1 .. Len(e) : f[i] = e[i]
        /\ \A i \in Len(e) + 1 .. Len(e) + Len(<<k>>) : f[i] = <<k>>[i - Len(e)]
    BY <1>5, <1>6, Concat
  <2>2. Len(f) = 3 /\ f[1] = e[1] /\ f[2] = e[2] /\ f[3] = k
    BY <1>5, <1>6, <2>1
  <2> QED BY <1>8, <2>2 DEF Sound
<1>10. Advance(f \o todo)
  BY DEF f, e, k, prec
<1> HIDE DEF f
<1>11. f # <<>> /\ Head(f).op = "unary"
  <2>1. f # <<>>
    BY <1>9, Len(<<>>) = 0
  <2> QED BY <1>5, <1>9, <2>1, TailOf
<1>12. Count("open", f) = 0 /\ Count("close", f) = 0
  <2>1. \A i \in 1 .. 3 : i = 1 \/ i = 2 \/ i = 3
    OBVIOUS
  <2>2. \A i \in 1 .. Len(f) : f[i].op \notin {"open", "close"}
    BY <1>3, <1>5, <1>9, <2>1
  <2> QED BY <2>2, CountNone
<1>13. Link(f[Len(f)], Head(todo))
  BY <1>1, <1>3, <1>9 DEF Link
<1>14. Sound(todo) /\ Head(f).op \in Firm
  BY <1>11 DEF ParserInv, Firm
<1> QED BY <1>4, <1>8, <1>10, <1>11, <1>12, <1>13, <1>14, PushInv

(* The head of the stack is done with, and the expression stays.           *)
LEMMA PopInv ==
    ASSUME ParserInv, At("binary") \/ At("combine"), Stay(Tail(todo)),
           errors' = errors, stray' = stray, TopOK', root' \in 1 .. Atom
    PROVE  ParserInv'
<1>1. todo # <<>> /\ Head(todo).op \in {"binary", "combine"}
  BY DEF At
<1>2. todo' = Tail(todo) /\ opened' = IF errors' \/ stray' THEN 0 ELSE opened
  BY DEF Stay
<1>3. Kinds'
  BY <1>2 DEF Kinds, ParserInv
<1>4. Sound(todo)'
  BY <1>1, <1>2, SoundTail DEF ParserInv
<1>5. FirmOrSettled'
  <2>1. CASE errors
    BY <2>1 DEF FirmOrSettled
  <2>2. CASE ~errors
    <3>1. Settled(todo)
      BY <1>1, <2>2 DEF ParserInv, FirmOrSettled, Firm
    <3>2. /\ Len(Tail(todo)) = Len(todo) - 1 /\ Len(todo) \in Nat
          /\ \A i \in 1 .. Len(todo) - 1 : Tail(todo)[i] = todo[i + 1]
      BY <1>1, TailOf DEF ParserInv, Sound
    <3>3. \A i \in 1 .. Len(todo) - 1 : i + 1 \in 1 .. Len(todo)
      BY <3>2
    <3>4. Settled(Tail(todo))
      BY <3>1, <3>2, <3>3 DEF Settled
    <3> QED BY <1>2, <3>4 DEF FirmOrSettled
  <2> QED BY <2>1, <2>2
<1>6. Matching'
  <2>1. \A x \in {"open", "close"} : One(Head(todo).op, x) = 0
    BY <1>1 DEF One
  <2>2. /\ Count("open", Tail(todo)) = Count("open", todo)
        /\ Count("close", Tail(todo)) = Count("close", todo)
    BY <1>1, <2>1, CountHead DEF ParserInv, Sound
  <2>3. /\ Count("open", todo)' = Count("open", Tail(todo))
        /\ Count("close", todo)' = Count("close", Tail(todo))
    BY <1>2 DEF Count
  <2> QED BY <1>2, <2>2, <2>3 DEF ParserInv, Matching
<1> QED BY <1>3, <1>4, <1>5, <1>6 DEF ParserInv

(* parse_expr_prec: what an operator leaves is at its own level.           *)
LEMMA ParseExprPrecInv == ParserInv /\ parse_expr_prec => ParserInv'
<1> SUFFICES ASSUME ParserInv, parse_expr_prec PROVE ParserInv'
  OBVIOUS
<1>0. /\ todo # <<>> /\ errors' = errors /\ stray' = stray
      /\ At("binary") \/ At("combine")
  BY DEF parse_expr_prec, At
<1>1. CASE /\ At("binary") /\ tok \in Operator /\ Precedence[tok] >= Head(todo).min
           /\ root' = Atom
           /\ Advance(Expr(RightLevel(Precedence[tok]))
                        \o <<[op |-> "combine", prec |-> Precedence[tok],
                              left |-> root]>>
                        \o todo)
  BY <1>0, <1>1, TakenInv DEF RightLevel
<1> DEFINE q == Tail(todo)
<1>2. /\ Sound(q) /\ Entry(Head(todo)) /\ (q # <<>> => Link(Head(todo), Head(q)))
      /\ q # <<>> => Entry(Head(q))
  BY <1>0, SoundTail DEF ParserInv
<1>3. tok \in Operator => Precedence[tok] \in 1 .. 9
  BY DEF Operator, Precedence
<1>4. CASE /\ At("binary") /\ ~(tok \in Operator /\ Precedence[tok] >= Head(todo).min)
           /\ root' = root /\ Stay(Tail(todo))
  <2>1. todo' = q /\ tok' = tok
    BY <1>4 DEF Stay
  <2>2. root >= Head(todo).min /\ root \in 1 .. Atom /\ Head(todo).min \in 0 .. Atom
    BY <1>2, <1>4 DEF ParserInv, TopOK, Kinds, Entry, At
  <2>3. tok \in Operator => Precedence[tok] < Head(todo).min
    BY <1>3, <1>4, <2>2 DEF Atom
  <2>4. q # <<>> => Head(q).op \notin {"binary", "colons"}
    BY <1>2, <1>4 DEF Link, At
  <2>5. q # <<>> /\ Head(q).op = "combine" =>
          root > Head(q).prec /\ (tok \in Operator => Precedence[tok] <= Head(q).prec)
    <3>1. SUFFICES ASSUME q # <<>>, Head(q).op = "combine"
                   PROVE  /\ root > Head(q).prec
                          /\ tok \in Operator => Precedence[tok] <= Head(q).prec
      OBVIOUS
    <3>2. Head(todo).min = Head(q).prec + 1 /\ Head(q).prec \in 1 .. 9
      BY <1>2, <3>1 DEF Link, Entry
    <3> DEFINE c == Head(q).prec
               m == Head(todo).min
               p == Precedence[tok]
    <3>3. m = c + 1 /\ c \in 1 .. 9 /\ root >= m /\ root \in 1 .. 10
      BY <2>2, <3>2 DEF Atom
    <3>4. tok \in Operator => p \in 1 .. 9 /\ p < m
      BY <1>3, <2>3
    <3> HIDE DEF c, m, p
    <3>5. root > c /\ (tok \in Operator => p <= c)
      BY <3>3, <3>4
    <3> QED BY <3>5 DEF c, p
  <2>6. TopOK'
    BY <1>4, <2>1, <2>4, <2>5 DEF TopOK, At
  <2> QED BY <1>0, <1>4, <2>2, <2>6, PopInv
<1>5. CASE At("combine") /\ root' = Head(todo).prec /\ Stay(Tail(todo))
  <2>1. todo' = q /\ tok' = tok
    BY <1>5 DEF Stay
  <2>2. /\ Head(todo).prec \in 1 .. 9
        /\ tok \in Operator => Precedence[tok] <= Head(todo).prec
    BY <1>2, <1>5 DEF ParserInv, TopOK, Entry, At
  <2>3. q # <<>> => Head(q).op \notin {"combine", "colons"}
    BY <1>2, <1>5 DEF Link, At
  <2>4. q # <<>> /\ Head(q).op = "binary" => Head(q).min \in 0 .. Atom
                                             /\ Head(q).min <= Head(todo).prec
    BY <1>2, <1>5 DEF Link, Entry, At
  <2>5. TopOK'
    <3>1. At("binary")' => root' >= Head(todo)'.min
      BY <1>5, <2>1, <2>2, <2>4 DEF At, Atom
    <3> QED BY <1>5, <2>1, <2>2, <2>3, <3>1 DEF TopOK, At
  <2>6. root' \in 1 .. Atom
    BY <1>5, <2>2 DEF Atom
  <2> QED BY <1>0, <1>5, <2>5, <2>6, PopInv
<1> QED BY <1>1, <1>4, <1>5 DEF parse_expr_prec

(* ---- The theorems. ---- *)
(* A text begins with the loop over the top level, in no block.            *)
LEMMA InitInv == Init => ParserInv
<1> SUFFICES ASSUME Init PROVE ParserInv
  OBVIOUS
<1> DEFINE p == <<"program">>
           c == Calls(p)
<1>1. Good(p)
  <2>1. Ordinary("program")
    BY DEF Ordinary
  <2> QED BY <2>1, Tuples
<1>2. Sound(c) /\ Settled(c)
  BY <1>1, PlanSound DEF Good
<1>3. IsSeq(p) /\ Len(p) = 1 /\ p[1] = "program"
  BY Literals
<1> HIDE DEF p
<1>4. IsSeq(c) /\ Len(c) = 1 /\ c[1].op = "program"
  BY <1>3, CallsOf
<1>5. todo = c
  BY DEF Init, p
<1> HIDE DEF c
<1>6. todo # <<>> /\ Head(todo).op = "program"
  <2>1. c # <<>>
    BY <1>4, Len(<<>>) = 0
  <2> QED BY <1>4, <1>5, <2>1, TailOf
<1>7. Count("open", todo) = 0 /\ Count("close", todo) = 0
  <2>1. \A i \in 1 .. Len(c) : c[i].op \notin {"open", "close"}
    BY <1>4
  <2> QED BY <1>5, <2>1, CountNone
<1>8. Kinds
  <2>1. root \in 1 .. Atom /\ opened \in Int
    BY DEF Init, Atom
  <2>2. errors = FALSE /\ stray = FALSE
    BY DEF Init
  <2> QED BY <2>1, <2>2, Zenon DEF Kinds
<1>9. TopOK
  BY <1>6 DEF TopOK, At
<1>10. FirmOrSettled
  BY <1>2, <1>5 DEF FirmOrSettled
<1>11. Matching
  BY <1>7 DEF Matching, Init
<1> QED BY <1>2, <1>5, <1>8, <1>9, <1>10, <1>11 DEF ParserInv

(* Every function keeps the invariant.                                     *)
LEMMA NextInv == ParserInv /\ [Next]_vars => ParserInv'
<1> SUFFICES ASSUME ParserInv, [Next]_vars PROVE ParserInv'
  OBVIOUS
<1>1. CASE LoopTest
  BY <1>1, LoopTestInv
<1>2. CASE Again
  BY <1>2, AgainInv
<1>3. CASE expect_open_block
  BY <1>3, OpenInv
<1>4. CASE consume_close
  BY <1>4, CloseInv
<1>5. CASE parse_identifier
  BY <1>5, ParseIdentifierInv
<1>6. CASE parse_top_level
  BY <1>6, ParseTopLevelInv
<1>7. CASE parse_import
  BY <1>7, ParseImportInv
<1>8. CASE parse_entity_item
  BY <1>8, ParseEntityItemInv
<1>9. CASE parse_typed_decl
  BY <1>9, ParseTypedDeclInv
<1>10. CASE skip_generics
  BY <1>10, SkipGenericsInv
<1>11. CASE parse_data
  BY <1>11, ParseDataInv
<1>12. CASE parse_kind
  BY <1>12, ParseKindInv
<1>13. CASE parse_extern
  BY <1>13, ParseExternInv
<1>14. CASE parse_mock
  BY <1>14, ParseMockInv
<1>15. CASE parse_string_literal
  BY <1>15, ParseStringLiteralInv
<1>16. CASE parse_params
  BY <1>16, ParseParamsInv
<1>17. CASE parse_returns
  BY <1>17, ParseReturnsInv
<1>18. CASE parse_stmt
  BY <1>18, ParseStmtInv
<1>19. CASE parse_if_stmt
  BY <1>19, ParseIfStmtInv
<1>20. CASE parse_loop_stmt
  BY <1>20, ParseLoopStmtInv
<1>21. CASE skip_to_open
  BY <1>21, SkipToOpenInv
<1>22. CASE parse_match_arm
  BY <1>22, ParseMatchArmInv
<1>23. CASE parse_expr
  BY <1>23, ParseExprInv
<1>24. CASE parse_expr_prec
  BY <1>24, ParseExprPrecInv
<1>25. CASE parse_unary
  BY <1>25, ParseUnaryInv
<1>26. CASE parse_postfix
  BY <1>26, ParsePostfixInv
<1>27. CASE parse_primary
  BY <1>27, ParsePrimaryInv
<1>28. CASE list_literal
  BY <1>28, ListLiteralInv
<1>29. CASE parse_type
  BY <1>29, ParseTypeInv
<1>30. CASE UNCHANGED vars
  <2>1. /\ tok' = tok /\ todo' = todo /\ root' = root /\ errors' = errors
        /\ opened' = opened /\ stray' = stray
    BY <1>30 DEF vars
  <2>2. Kinds'
    BY <2>1 DEF ParserInv, Kinds
  <2>3. Sound(todo)'
    BY <2>1 DEF ParserInv
  <2>4. TopOK'
    BY <2>1 DEF ParserInv, TopOK, At
  <2>5. FirmOrSettled'
    BY <2>1 DEF ParserInv, FirmOrSettled
  <2>6. Matching'
    <3>1. /\ Count("open", todo)' = Count("open", todo)
          /\ Count("close", todo)' = Count("close", todo)
      BY <2>1 DEF Count
    <3> QED BY <2>1, <3>1 DEF ParserInv, Matching
  <2> QED BY <2>2, <2>3, <2>4, <2>5, <2>6 DEF ParserInv
<1> QED
  BY <1>1, <1>2, <1>3, <1>4, <1>5, <1>6, <1>7, <1>8, <1>9, <1>10,
     <1>11, <1>12, <1>13, <1>14, <1>15, <1>16, <1>17, <1>18, <1>19,
     <1>20, <1>21, <1>22, <1>23, <1>24, <1>25, <1>26, <1>27, <1>28,
     <1>29, <1>30
     DEF Next

(* The stack is sound, and what is on it agrees with the text read and the *)
(* errors reported, whatever the text.                                     *)
THEOREM ParserInvariant == Spec => []ParserInv
<1> QED BY InitInv, NextInv, PTL DEF Spec

(* As long as there is no error, the blocks the parser thinks it is in are *)
(* those the text has opened, unless a mark was passed over unseen.        *)
THEOREM BlocksAlwaysMatch == Spec => []BlocksMatch
<1>1. ParserInv => BlocksMatch
  BY DEF ParserInv, Matching, BlocksMatch, Pending, Count
<1> QED BY <1>1, ParserInvariant, PTL

(* An operator binds its operands: what stands left of it groups at its    *)
(* own level or above, what stands right strictly above.                   *)
THEOREM OperandsBind == Spec => []OperandsBindTighter
<1>1. ParserInv => OperandsBindTighter
  <2> SUFFICES ASSUME ParserInv, At("combine")
               PROVE  Head(todo).left >= Head(todo).prec /\ root > Head(todo).prec
    BY DEF OperandsBindTighter
  <2>1. Entry(Head(todo)) /\ Head(todo).op = "combine"
    BY SoundTail DEF ParserInv, At
  <2> QED BY <2>1 DEF Entry, ParserInv, TopOK
<1> QED BY <1>1, ParserInvariant, PTL

(* Where a loop asks whether its item has read a token, nothing else is    *)
(* done.                                                                   *)
LEMMA OnlyAgain == At("again") /\ Next => Again
<1> SUFFICES ASSUME At("again"), Next, ~Again PROVE FALSE
  OBVIOUS
<1>0. Head(todo).op = "again"
  BY DEF At
<1>1. ~LoopTest
  BY <1>0 DEF LoopTest, At, Demand, Accept, Item
<1>2. ~expect_open_block
  BY <1>0 DEF expect_open_block, At, Demand, Accept
<1>3. ~consume_close
  BY <1>0 DEF consume_close, At, Demand, Accept
<1>4. ~parse_identifier
  BY <1>0 DEF parse_identifier, At, Demand, Accept
<1>5. ~parse_top_level
  BY <1>0 DEF parse_top_level, At, Demand, Accept
<1>6. ~parse_import
  BY <1>0 DEF parse_import, At, Demand, Accept
<1>7. ~parse_entity_item
  BY <1>0 DEF parse_entity_item, At, Demand, Accept
<1>8. ~parse_typed_decl
  BY <1>0 DEF parse_typed_decl, At, Demand, Accept
<1>9. ~skip_generics
  BY <1>0 DEF skip_generics, At, Demand, Accept
<1>10. ~parse_data
  BY <1>0 DEF parse_data, At, Demand, Accept
<1>11. ~parse_kind
  BY <1>0 DEF parse_kind, At, Demand, Accept
<1>12. ~parse_extern
  BY <1>0 DEF parse_extern, At, Demand, Accept
<1>13. ~parse_mock
  BY <1>0 DEF parse_mock, At, Demand, Accept
<1>14. ~parse_string_literal
  BY <1>0 DEF parse_string_literal, At, Demand, Accept
<1>15. ~parse_params
  BY <1>0 DEF parse_params, At, Demand, Accept
<1>16. ~parse_returns
  BY <1>0 DEF parse_returns, At, Demand, Accept
<1>17. ~parse_stmt
  BY <1>0 DEF parse_stmt, At, Demand, Accept
<1>18. ~parse_if_stmt
  BY <1>0 DEF parse_if_stmt, At, Demand, Accept
<1>19. ~parse_loop_stmt
  BY <1>0 DEF parse_loop_stmt, At, Demand, Accept
<1>20. ~skip_to_open
  BY <1>0 DEF skip_to_open, At, Demand, Accept
<1>21. ~parse_match_arm
  BY <1>0 DEF parse_match_arm, At, Demand, Accept
<1>22. ~parse_expr
  BY <1>0 DEF parse_expr, At, Demand, Accept
<1>23. ~parse_expr_prec
  BY <1>0 DEF parse_expr_prec, At, Demand, Accept
<1>24. ~parse_unary
  BY <1>0 DEF parse_unary, At, Demand, Accept
<1>25. ~parse_postfix
  BY <1>0 DEF parse_postfix, At, Demand, Accept
<1>26. ~parse_primary
  BY <1>0 DEF parse_primary, At, Demand, Accept
<1>27. ~list_literal
  BY <1>0 DEF list_literal, At, Demand, Accept
<1>28. ~parse_type
  BY <1>0 DEF parse_type, At, Demand, Accept
<1> QED
  BY <1>1, <1>2, <1>3, <1>4, <1>5, <1>6, <1>7, <1>8, <1>9, <1>10,
     <1>11, <1>12, <1>13, <1>14, <1>15, <1>16, <1>17, <1>18, <1>19,
     <1>20, <1>21, <1>22, <1>23, <1>24, <1>25, <1>26, <1>27, <1>28
     DEF Next

(* A token thrown away because an item could not start with it is never    *)
(* thrown away in silence.                                                 *)
THEOREM NothingThrownAwayInSilence == Spec => ThrownAwayWithError
<1>1. ParserInv /\ [Next]_vars => [At("again") /\ moved' => errors]_vars
  <2> SUFFICES ASSUME ParserInv, Next, At("again"), moved' PROVE errors
    OBVIOUS
  <2>1. Again
    BY OnlyAgain
  <2>2. ~Head(todo).moved
    BY <2>1 DEF Again, Call, Stay
  <2>3. ~Settled(todo)
    <3>1. todo # <<>> /\ Head(todo).op = "again"
      BY DEF At
    <3>2. Head(todo) = todo[1] /\ 1 \in 1 .. Len(todo)
      BY <3>1, TailOf DEF ParserInv, Sound
    <3> QED BY <2>2, <3>1, <3>2 DEF Settled
  <2> QED BY <2>3 DEF ParserInv, FirmOrSettled, Firm, At
<1>2. Spec => []ParserInv /\ [][Next]_vars
  BY ParserInvariant, PTL DEF Spec
<1> QED BY <1>1, <1>2, PTL DEF ThrownAwayWithError

(* ---- How high the stack grows. ---- *)
(* The entries that a call may come to before a token is read, itself      *)
(* included: what it calls first stands on what it calls after that.       *)
Height(op) ==
    IF op \in {"member", "else_body", "loop_head", "loop_kind", "next_pair"} THEN 6
    ELSE IF op \in DOMAIN Item \cup {"again"} THEN 5
    ELSE IF op \in {"stmt", "arm", "args", "list", "next_item"} THEN 4
    ELSE IF op \in {"typed_decl", "colons", "expr", "arrow"} THEN 3
    ELSE IF op = "unary" THEN 2 ELSE 1

(* No call of s comes to a stack higher than h; and a block to be opened   *)
(* will be closed, behind what it holds.                                   *)
Fitting(s, h) ==
    \A i \in 1 .. Len(s) :
      /\ Len(s) - i + Height(s[i].op) <= h
      /\ s[i].op = "open" => i + 2 <= Len(s) /\ s[i + 2].op = "close"

(* At the end of the text the calls left have what the last token read     *)
(* brought, and what they come to without one.                             *)
Limit == MaxStack + (IF tok = "EOF" THEN 12 ELSE 5)

StackInv ==
    /\ letters \in Alphabets /\ tok \in letters
    /\ fresh \in BOOLEAN /\ moved \in BOOLEAN /\ opened \in Nat
    /\ Fitting(todo, Limit)

(* Every call has a height.                                                *)
LEMMA HeightRange == \A op : Height(op) \in 1 .. 6
BY DEF Height

(* A stack without its head is one lower.                                  *)
LEMMA FittingTail ==
    ASSUME NEW s, IsSeq(s), s # <<>>, NEW h \in Nat, Fitting(s, h)
    PROVE  /\ Fitting(Tail(s), h) /\ Len(Tail(s)) \in Nat
           /\ Len(Tail(s)) + Height(Head(s).op) <= h
<1>1. /\ Len(s) \in Nat \ {0} /\ Head(s) = s[1] /\ Len(Tail(s)) = Len(s) - 1
      /\ \A i \in 1 .. Len(s) - 1 : Tail(s)[i] = s[i + 1]
  BY TailOf
<1>2. Len(s) - 1 + Height(s[1].op) <= h
  BY <1>1 DEF Fitting
<1>3. ASSUME NEW i \in 1 .. Len(Tail(s))
      PROVE  /\ Len(Tail(s)) - i + Height(Tail(s)[i].op) <= h
             /\ Tail(s)[i].op = "open" => i + 2 <= Len(Tail(s))
                                          /\ Tail(s)[i + 2].op = "close"
  <2>1. i \in 1 .. Len(s) - 1 /\ i + 1 \in 1 .. Len(s) /\ Tail(s)[i] = s[i + 1]
    BY <1>1
  <2>2. Len(s) - (i + 1) + Height(s[i + 1].op) <= h
    BY <2>1 DEF Fitting
  <2>3. ASSUME s[i + 1].op = "open"
        PROVE  i + 2 <= Len(s) - 1 /\ Tail(s)[i + 2].op = "close"
    <3>1. (i + 1) + 2 <= Len(s) /\ s[(i + 1) + 2].op = "close"
      BY <2>1, <2>3 DEF Fitting
    <3>2. i + 2 \in 1 .. Len(s) - 1 /\ (i + 1) + 2 = (i + 2) + 1
      BY <1>1, <3>1
    <3>3. Tail(s)[i + 2] = s[(i + 2) + 1]
      BY <1>1, <3>2
    <3> QED BY <3>1, <3>2, <3>3
  <2>4. Len(Tail(s)) - i + Height(Tail(s)[i].op) <= h
    BY <1>1, <2>1, <2>2, HeightRange
  <2> QED BY <1>1, <2>1, <2>3, <2>4
<1>4. Fitting(Tail(s), h)
  BY <1>3 DEF Fitting
<1> QED BY <1>1, <1>2, <1>4

(* A stack on a stack.                                                     *)
LEMMA FittingConcat ==
    ASSUME NEW p, NEW q, IsSeq(p), IsSeq(q), NEW m \in Nat, NEW h \in Nat,
           Fitting(p, m), Fitting(q, h), Len(q) + m <= h
    PROVE  Fitting(p \o q, h)
<1> DEFINE r == p \o q
<1>1. /\ IsSeq(r) /\ Len(p) \in Nat /\ Len(q) \in Nat
      /\ Len(r) = Len(p) + Len(q)
      /\ \A i \in 1 .. Len(p) : r[i] = p[i]
      /\ \A i \in Len(p) + 1 .. Len(p) + Len(q) : r[i] = q[i - Len(p)]
  BY Concat
<1> HIDE DEF r
<1>2. ASSUME NEW i \in 1 .. Len(p)
      PROVE  /\ Len(r) - i + Height(r[i].op) <= h
             /\ r[i].op = "open" => i + 2 <= Len(r) /\ r[i + 2].op = "close"
  <2>1. /\ Len(p) - i + Height(p[i].op) <= m
        /\ p[i].op = "open" => i + 2 <= Len(p) /\ p[i + 2].op = "close"
    BY <1>2 DEF Fitting
  <2>2. Height(p[i].op) \in 1 .. 6 /\ r[i] = p[i]
    BY <1>1, HeightRange
  <2>3. Len(r) - i + Height(p[i].op) <= h
    BY <1>1, <2>1, <2>2
  <2>4. i + 2 <= Len(p) => i + 2 \in 1 .. Len(p) /\ i + 2 <= Len(r)
    BY <1>1
  <2> QED BY <1>1, <2>1, <2>2, <2>3, <2>4
<1>3. ASSUME NEW i \in Len(p) + 1 .. Len(p) + Len(q)
      PROVE  /\ Len(r) - i + Height(r[i].op) <= h
             /\ r[i].op = "open" => i + 2 <= Len(r) /\ r[i + 2].op = "close"
  <2> DEFINE j == i - Len(p)
  <2>1. j \in 1 .. Len(q) /\ r[i] = q[j] /\ Len(r) - i = Len(q) - j
    BY <1>1
  <2> HIDE DEF j
  <2>2. /\ Len(q) - j + Height(q[j].op) <= h
        /\ q[j].op = "open" => j + 2 <= Len(q) /\ q[j + 2].op = "close"
    BY <2>1 DEF Fitting
  <2>3. ASSUME j + 2 <= Len(q)
        PROVE  i + 2 <= Len(r) /\ r[i + 2] = q[j + 2]
    <3>1. i + 2 \in Len(p) + 1 .. Len(p) + Len(q) /\ (i + 2) - Len(p) = j + 2
      BY <1>1, <2>3 DEF j
    <3>2. r[i + 2] = q[(i + 2) - Len(p)]
      BY <1>1, <3>1
    <3> QED BY <1>1, <3>1, <3>2
  <2> QED BY <2>1, <2>2, <2>3
<1>4. \A i \in 1 .. Len(r) :
        i \in 1 .. Len(p) \/ i \in Len(p) + 1 .. Len(p) + Len(q)
  BY <1>1
<1> QED BY <1>2, <1>3, <1>4 DEF Fitting, r

(* What fits under h fits under more; and under five more than its length. *)
LEMMA FittingHigher ==
    ASSUME NEW s, IsSeq(s), NEW h \in Nat, Fitting(s, h), NEW k \in Nat,
           h <= k \/ Len(s) + 5 <= k
    PROVE  Fitting(s, k)
<1>1. Len(s) \in Nat /\ \A i \in 1 .. Len(s) : Height(s[i].op) \in 1 .. 6
  BY HeightRange, TailOf, Len(<<>>) = 0
<1>2. ASSUME NEW i \in 1 .. Len(s)
      PROVE  Len(s) - i + Height(s[i].op) <= k
  <2>1. Len(s) - i + Height(s[i].op) <= h
    BY DEF Fitting
  <2>2. CASE h <= k
    BY <1>1, <2>1, <2>2
  <2>3. CASE Len(s) + 5 <= k
    BY <1>1, <2>3
  <2> QED BY <2>2, <2>3
<1> QED BY <1>2 DEF Fitting

(* The loops on a stack bear their name.                                   *)
Named(s) == \A i \in 1 .. Len(s) : s[i].op = "again" => "op" \in DOMAIN s[i]

(* A token read changes no call's name, and so no height.                  *)
LEMMA FittingMoved ==
    ASSUME NEW s, IsSeq(s), NEW h, Fitting(s, h), Named(s)
    PROVE  Fitting(Moved(s), h)
<1>1. /\ Len(Moved(s)) = Len(s) /\ Len(s) \in Nat
      /\ \A i \in 1 .. Len(s) :
           IF s[i].op = "again" THEN Moved(s)[i] = [s[i] EXCEPT !.moved = TRUE]
           ELSE Moved(s)[i] = s[i]
  BY MovedOf
<1>2. ASSUME NEW i \in 1 .. Len(s)
      PROVE  Moved(s)[i].op = s[i].op
  <2>1. CASE s[i].op = "again"
    BY <1>1, <2>1 DEF Named
  <2> QED BY <1>1, <2>1
<1> QED BY <1>1, <1>2 DEF Fitting

(* The blocks still to be opened are no more than those to be closed.      *)
LEMMA OpenClose ==
    ASSUME NEW s, IsSeq(s), NEW h, Fitting(s, h)
    PROVE  /\ Count("open", s) \in Nat /\ Count("close", s) \in Nat
           /\ Count("open", s) <= Count("close", s)
<1> DEFINE O == {i \in 1 .. Len(s) : s[i].op = "open"}
           C == {i \in 1 .. Len(s) : s[i].op = "close"}
           f == [i \in O |-> i + 2]
<1>1. Len(s) \in Nat
  BY TailOf, Len(<<>>) = 0
<1>2. IsFiniteSet(C) /\ IsFiniteSet(O)
  <2>1. IsFiniteSet(1 .. Len(s))
    BY <1>1, FS_Interval
  <2> QED BY <2>1, FS_Subset
<1>3. \A i \in O : i \in Nat /\ i + 2 \in C
  BY <1>1 DEF Fitting
<1>4. \A i, j \in O : i + 2 = j + 2 => i = j
  BY <1>1
<1>5. f \in [O -> C] /\ \A i \in O : f[i] = i + 2
  BY <1>3
<1> HIDE DEF O, C, f
<1>6. f \in Injection(O, C)
  BY <1>4, <1>5 DEF Injection, IsInjective
<1>7. Cardinality(O) <= Cardinality(C)
  BY <1>2, <1>6, FS_Injection
<1> QED BY <1>2, <1>7, FS_CardinalityType DEF O, C, Count

(* A step replaces the call at the head by calls that fit under its        *)
(* height, or under seven more if it reads a token.                        *)
Grows ==
    /\ todo # <<>>
    /\ \E p :
         /\ IsSeq(p) /\ Named(p)
         /\ \/ /\ Stay(p \o Tail(todo)) \/ (tok = "EOF" /\ Advance(p \o Tail(todo)))
               /\ Fitting(p, Height(Head(todo).op))
            \/ /\ Advance(p \o Tail(todo)) /\ tok # "EOF"
               /\ Fitting(p, Height(Head(todo).op) + 7)

(* One stack named behind another.                                         *)
LEMMA NamedTail ==
    ASSUME NEW s, Sound(s), s # <<>>, NEW p, IsSeq(p), Named(p)
    PROVE  Named(p \o Tail(s)) /\ IsSeq(p \o Tail(s))
<1>1. /\ IsSeq(s) /\ IsSeq(Tail(s)) /\ Len(s) \in Nat \ {0}
      /\ Len(Tail(s)) = Len(s) - 1
      /\ \A i \in 1 .. Len(s) - 1 : Tail(s)[i] = s[i + 1]
  BY TailOf DEF Sound
<1>2. ASSUME NEW i \in 1 .. Len(Tail(s)), Tail(s)[i].op = "again"
      PROVE  "op" \in DOMAIN Tail(s)[i]
  <2>1. i + 1 \in 1 .. Len(s) /\ Tail(s)[i] = s[i + 1]
    BY <1>1
  <2>2. s[i + 1] \in [op : {"again"}, loop : DOMAIN Item, moved : BOOLEAN]
    BY <1>2, <2>1 DEF Sound, Entry
  <2> QED BY <2>1, <2>2
<1> DEFINE q == Tail(s)
           r == p \o q
<1>3. /\ IsSeq(r) /\ Len(p) \in Nat /\ Len(q) \in Nat
      /\ Len(r) = Len(p) + Len(q)
      /\ \A i \in 1 .. Len(p) : r[i] = p[i]
      /\ \A i \in Len(p) + 1 .. Len(p) + Len(q) : r[i] = q[i - Len(p)]
  BY <1>1, Concat
<1> HIDE DEF q, r
<1>4. ASSUME NEW i \in 1 .. Len(r), r[i].op = "again"
      PROVE  "op" \in DOMAIN r[i]
  <2>1. CASE i \in 1 .. Len(p)
    BY <1>3, <1>4, <2>1 DEF Named
  <2>2. CASE i \notin 1 .. Len(p)
    <3>1. i \in Len(p) + 1 .. Len(p) + Len(q) /\ i - Len(p) \in 1 .. Len(q)
      BY <1>3, <2>2
    <3> QED BY <1>2, <1>3, <1>4, <3>1 DEF q
  <2> QED BY <2>1, <2>2
<1> QED BY <1>3, <1>4 DEF Named, r, q

(* The token that is read next is one of the text.                         *)
LEMMA FollowingTyped ==
    ASSUME letters \in Alphabets, tok \in letters
    PROVE  Following(tok) \subseteq letters /\ "EOF" \in letters
<1>1. /\ "EOF" \in letters
      /\ "decl" \in letters => "::" \in letters
  BY ParserAssumption
<1>2. CASE tok = "decl"
  BY <1>1, <1>2 DEF Following
<1>3. CASE tok # "decl" /\ tok \in Identifier
  BY <1>1, <1>3 DEF Following
<1>4. CASE tok \notin Identifier
  BY <1>1, <1>4 DEF Following, Identifier
<1> QED BY <1>1, <1>2, <1>3, <1>4

(* The blocks read are not more than those to be closed.                   *)
LEMMA OpenedTyped ==
    ASSUME ParserInv', NEW h, Fitting(todo', h), opened \in Nat,
           opened' = 0 \/ opened' = opened \/ (~errors' /\ ~stray')
    PROVE  opened' \in Nat
<1>1. /\ Count("open", todo') \in Nat /\ Count("close", todo') \in Nat
      /\ Count("open", todo') <= Count("close", todo')
  BY OpenClose DEF ParserInv, Sound
<1>2. opened' \in Int
  BY DEF ParserInv, Kinds
<1>3. CASE ~errors' /\ ~stray'
  <2>1. opened' + Count("open", todo') = Count("close", todo')
    BY <1>3 DEF ParserInv, Matching, Count
  <2> QED BY <1>1, <1>2, <2>1
<1> QED BY <1>3

(* Such a step keeps to the limit.                                         *)
LEMMA GrowsTyped ==
    ASSUME ParserInv, ParserInv', StackInv, Grows
    PROVE  StackInv'
<1>1. PICK p :
        /\ IsSeq(p) /\ Named(p)
        /\ \/ /\ Stay(p \o Tail(todo)) \/ (tok = "EOF" /\ Advance(p \o Tail(todo)))
              /\ Fitting(p, Height(Head(todo).op))
           \/ /\ Advance(p \o Tail(todo)) /\ tok # "EOF"
              /\ Fitting(p, Height(Head(todo).op) + 7)
  BY DEF Grows
<1> DEFINE H == Height(Head(todo).op)
           q == Tail(todo)
           r == p \o q
<1>2. /\ todo # <<>> /\ IsSeq(todo) /\ Limit \in Nat /\ Fitting(todo, Limit)
      /\ MaxStack \in Nat /\ H \in 1 .. 6 /\ Sound(todo)
  BY ParserAssumption, HeightRange
     DEF Grows, ParserInv, Sound, StackInv, Limit
<1>3. /\ Fitting(q, Limit) /\ Len(q) \in Nat /\ Len(q) + H <= Limit /\ IsSeq(q)
  BY <1>2, FittingTail, TailOf
<1>4. Named(r) /\ IsSeq(r)
  BY <1>1, <1>2, NamedTail
<1>5. letters' = letters /\ letters \in Alphabets /\ tok \in letters
  BY <1>1 DEF Stay, Advance, StackInv
<1>6. fresh' \in BOOLEAN /\ moved' \in BOOLEAN
  BY <1>1 DEF Stay, Advance, StackInv
<1>7. opened' = 0 \/ opened' = opened \/ (~errors' /\ ~stray')
  BY <1>1 DEF Stay, Advance
<1>8. CASE /\ Stay(r) \/ (tok = "EOF" /\ Advance(r))
           /\ Fitting(p, H)
  <2>1. todo' = r /\ tok' = tok
    BY <1>8 DEF Stay, Advance
  <2>2. Fitting(r, Limit)
    <3> HIDE DEF H, q
    <3> QED BY <1>1, <1>2, <1>3, <1>8, FittingConcat
  <2>3. Fitting(todo', Limit)
    BY <2>1, <2>2
  <2>4. Limit' = Limit
    BY <2>1 DEF Limit
  <2>5. opened' \in Nat
    BY <1>7, <2>3, OpenedTyped DEF StackInv
  <2> QED BY <1>5, <1>6, <2>1, <2>3, <2>4, <2>5 DEF StackInv
<1>9. CASE Advance(r) /\ tok # "EOF" /\ Fitting(p, H + 7)
  <2>1. /\ todo' = Moved(r)
        /\ tok' \in IF Len(r) > MaxStack THEN {"EOF"} ELSE Following(tok)
    BY <1>9 DEF Advance
  <2>2. tok' \in letters
    BY <1>5, <2>1, FollowingTyped
  <2>3. Limit = MaxStack + 5
    BY <1>9 DEF Limit
  <2>4. Fitting(r, MaxStack + 12)
    <3>1. /\ H + 7 \in Nat /\ MaxStack + 12 \in Nat
          /\ Len(q) + (H + 7) <= MaxStack + 12 /\ Limit <= MaxStack + 12
      BY <1>2, <1>3, <2>3
    <3>2. Fitting(q, MaxStack + 12)
      BY <1>2, <1>3, <3>1, FittingHigher
    <3> HIDE DEF H, q
    <3> QED BY <1>1, <1>3, <1>9, <3>1, <3>2, FittingConcat
  <2>5. Fitting(r, Limit')
    <3>1. CASE tok' = "EOF"
      BY <2>4, <3>1 DEF Limit
    <3>2. CASE tok' # "EOF"
      <4>1. ~(Len(r) > MaxStack)
        BY <2>1, <3>2
      <4>2. Len(r) \in Nat
        BY <1>4, TailOf, Len(<<>>) = 0
      <4>3. Len(r) + 5 <= MaxStack + 5 /\ MaxStack + 5 \in Nat
            /\ MaxStack + 12 \in Nat
        BY <1>2, <4>1, <4>2
      <4>4. Fitting(r, MaxStack + 5)
        <5> HIDE DEF r
        <5> QED BY <1>4, <2>4, <4>3, FittingHigher
      <4>5. Limit' = MaxStack + 5
        BY <3>2 DEF Limit
      <4> QED BY <4>4, <4>5
    <3> QED BY <3>1, <3>2
  <2>6. Fitting(todo', Limit')
    <3>1. Fitting(Moved(r), Limit')
      <4> HIDE DEF r
      <4> QED BY <1>4, <2>5, FittingMoved
    <3> QED BY <2>1, <3>1
  <2>7. opened' \in Nat
    BY <1>7, <2>6, OpenedTyped DEF StackInv
  <2> QED BY <1>5, <1>6, <2>2, <2>6, <2>7 DEF StackInv
<1> QED BY <1>1, <1>8, <1>9

(* A named stack on a named stack.                                         *)
LEMMA NamedConcat ==
    ASSUME NEW p, NEW q, IsSeq(p), IsSeq(q), Named(p), Named(q)
    PROVE  IsSeq(p \o q) /\ Named(p \o q)
<1> DEFINE r == p \o q
<1>1. /\ IsSeq(r) /\ Len(p) \in Nat /\ Len(q) \in Nat
      /\ Len(r) = Len(p) + Len(q)
      /\ \A i \in 1 .. Len(p) : r[i] = p[i]
      /\ \A i \in Len(p) + 1 .. Len(p) + Len(q) : r[i] = q[i - Len(p)]
  BY Concat
<1> HIDE DEF r
<1>2. ASSUME NEW i \in 1 .. Len(r), r[i].op = "again"
      PROVE  "op" \in DOMAIN r[i]
  <2>1. CASE i \in 1 .. Len(p)
    BY <1>1, <1>2, <2>1 DEF Named
  <2>2. CASE i \notin 1 .. Len(p)
    <3>1. i \in Len(p) + 1 .. Len(p) + Len(q) /\ i - Len(p) \in 1 .. Len(q)
      BY <1>1, <2>2
    <3> QED BY <1>1, <1>2, <3>1 DEF Named
  <2> QED BY <2>1, <2>2
<1> QED BY <1>1, <1>2 DEF Named, r

(* Stacks are put together in either order.                                *)
LEMMA ConcatAssoc ==
    ASSUME NEW a, NEW b, NEW c, IsSeq(a), IsSeq(b), IsSeq(c)
    PROVE  a \o (b \o c) = (a \o b) \o c
<1>1. PICK A : a \in Seq(A)
  BY DEF IsSeq
<1>2. PICK B : b \in Seq(B)
  BY DEF IsSeq
<1>3. PICK C : c \in Seq(C)
  BY DEF IsSeq
<1> DEFINE S == A \cup B \cup C
<1>4. a \in Seq(S) /\ b \in Seq(S) /\ c \in Seq(S)
  BY <1>1, <1>2, <1>3
<1> HIDE DEF S
<1> QED BY <1>4

(* A plan fits as the stack of its calls does.                             *)
Within(plan, h) == IsSeq(plan) /\ Fitting(Calls(plan), h)

(* Call by call.                                                           *)
LEMMA WithinIs ==
    ASSUME NEW plan, IsSeq(plan), NEW h \in Nat,
           \A i \in 1 .. Len(plan) :
             /\ Len(plan) - i + Height(plan[i]) <= h
             /\ plan[i] = "open" => i + 2 <= Len(plan) /\ plan[i + 2] = "close"
    PROVE  Within(plan, h)
<1>1. /\ Len(Calls(plan)) = Len(plan) /\ Len(plan) \in Nat
      /\ \A i \in 1 .. Len(plan) : Calls(plan)[i].op = plan[i]
  BY CallsOf
<1>2. ASSUME NEW i \in 1 .. Len(plan)
      PROVE  /\ Len(plan) - i + Height(Calls(plan)[i].op) <= h
             /\ Calls(plan)[i].op = "open" => i + 2 <= Len(plan)
                                              /\ Calls(plan)[i + 2].op = "close"
  <2>1. i + 2 <= Len(plan) => i + 2 \in 1 .. Len(plan)
    BY <1>1
  <2> QED BY <1>1, <2>1
<1> QED BY <1>1, <1>2 DEF Within, Fitting

(* The plans without a block.                                              *)
LEMMA WithinTuples ==
    /\ \A h \in Nat : Within(<<>>, h)
    /\ \A h \in Nat : \A a : a # "open" /\ Height(a) <= h => Within(<<a>>, h)
    /\ \A h \in Nat : \A a, b :
         "open" \notin {a, b} /\ 1 + Height(a) <= h /\ Height(b) <= h
           => Within(<<a, b>>, h)
    /\ \A h \in Nat : \A a, b, c :
         /\ "open" \notin {a, b, c} /\ 2 + Height(a) <= h
         /\ 1 + Height(b) <= h /\ Height(c) <= h
         => Within(<<a, b, c>>, h)
    /\ \A h \in Nat : \A a, b, c, d :
         /\ "open" \notin {a, b, c, d} /\ 3 + Height(a) <= h
         /\ 2 + Height(b) <= h /\ 1 + Height(c) <= h /\ Height(d) <= h
         => Within(<<a, b, c, d>>, h)
<1>1. ASSUME NEW h \in Nat PROVE Within(<<>>, h)
  <2>1. IsSeq(<<>>) /\ Len(<<>>) = 0
    BY Literals
  <2> QED BY <2>1, WithinIs
<1>2. ASSUME NEW h \in Nat, NEW a, a # "open", Height(a) <= h
      PROVE  Within(<<a>>, h)
  <2> DEFINE p == <<a>>
  <2>1. IsSeq(p) /\ Len(p) = 1 /\ p[1] = a
    BY Literals
  <2> HIDE DEF p
  <2>2. \A i \in 1 .. 1 : i = 1
    OBVIOUS
  <2>3. \A i \in 1 .. Len(p) :
          /\ Len(p) - i + Height(p[i]) <= h
          /\ p[i] = "open" => i + 2 <= Len(p) /\ p[i + 2] = "close"
    BY <1>2, <2>1, <2>2, HeightRange
  <2>4. Within(p, h)
    BY <2>1, <2>3, WithinIs
  <2> QED BY <2>4 DEF p
<1>3. ASSUME NEW h \in Nat, NEW a, NEW b, "open" \notin {a, b},
             1 + Height(a) <= h, Height(b) <= h
      PROVE  Within(<<a, b>>, h)
  <2> DEFINE p == <<a, b>>
  <2>1. IsSeq(p) /\ Len(p) = 2 /\ p[1] = a /\ p[2] = b
    BY Literals
  <2> HIDE DEF p
  <2>2. \A i \in 1 .. 2 : i = 1 \/ i = 2
    OBVIOUS
  <2>3. \A i \in 1 .. Len(p) :
          /\ Len(p) - i + Height(p[i]) <= h
          /\ p[i] = "open" => i + 2 <= Len(p) /\ p[i + 2] = "close"
    BY <1>3, <2>1, <2>2, HeightRange
  <2>4. Within(p, h)
    BY <2>1, <2>3, WithinIs
  <2> QED BY <2>4 DEF p
<1>4. ASSUME NEW h \in Nat, NEW a, NEW b, NEW c, "open" \notin {a, b, c},
             2 + Height(a) <= h, 1 + Height(b) <= h, Height(c) <= h
      PROVE  Within(<<a, b, c>>, h)
  <2> DEFINE p == <<a, b, c>>
  <2>1. IsSeq(p) /\ Len(p) = 3 /\ p[1] = a /\ p[2] = b /\ p[3] = c
    BY Literals
  <2> HIDE DEF p
  <2>2. \A i \in 1 .. 3 : i = 1 \/ i = 2 \/ i = 3
    OBVIOUS
  <2>3. \A i \in 1 .. Len(p) :
          /\ Len(p) - i + Height(p[i]) <= h
          /\ p[i] = "open" => i + 2 <= Len(p) /\ p[i + 2] = "close"
    BY <1>4, <2>1, <2>2, HeightRange
  <2>4. Within(p, h)
    BY <2>1, <2>3, WithinIs
  <2> QED BY <2>4 DEF p
<1>5. ASSUME NEW h \in Nat, NEW a, NEW b, NEW c, NEW d,
             "open" \notin {a, b, c, d}, 3 + Height(a) <= h,
             2 + Height(b) <= h, 1 + Height(c) <= h, Height(d) <= h
      PROVE  Within(<<a, b, c, d>>, h)
  <2> DEFINE p == <<a, b, c, d>>
  <2>1. /\ IsSeq(p) /\ Len(p) = 4
        /\ p[1] = a /\ p[2] = b /\ p[3] = c /\ p[4] = d
    BY Literals
  <2> HIDE DEF p
  <2>2. \A i \in 1 .. 4 : i = 1 \/ i = 2 \/ i = 3 \/ i = 4
    OBVIOUS
  <2>3. \A i \in 1 .. Len(p) :
          /\ Len(p) - i + Height(p[i]) <= h
          /\ p[i] = "open" => i + 2 <= Len(p) /\ p[i + 2] = "close"
    BY <1>5, <2>1, <2>2, HeightRange
  <2>4. Within(p, h)
    BY <2>1, <2>3, WithinIs
  <2> QED BY <2>4 DEF p
<1> QED BY <1>1, <1>2, <1>3, <1>4, <1>5

(* Short plans are within what a token read allows.                        *)
LEMMA ShortPlans ==
    /\ Within(<<>>, 8)
    /\ \A a : a # "open" => Within(<<a>>, 8)
    /\ \A a, b : "open" \notin {a, b} => Within(<<a, b>>, 8)
    /\ \A a, b, c : "open" \notin {a, b, c} => Within(<<a, b, c>>, 8)
<1>1. \A a : Height(a) <= 8 /\ 1 + Height(a) <= 8 /\ 2 + Height(a) <= 8
  BY HeightRange
<1> QED BY <1>1, WithinTuples

(* One plan behind another.                                                *)
LEMMA WithinConcat ==
    ASSUME NEW p, NEW q, NEW m \in Nat, NEW h \in Nat,
           Within(p, m), Within(q, h), Len(q) + m <= h
    PROVE  Within(p \o q, h)
<1> DEFINE r == p \o q
           c == Calls(p) \o Calls(q)
<1>1. /\ IsSeq(p) /\ IsSeq(q) /\ IsSeq(r) /\ Len(p) \in Nat /\ Len(q) \in Nat
      /\ Len(r) = Len(p) + Len(q)
      /\ \A i \in 1 .. Len(p) : r[i] = p[i]
      /\ \A i \in Len(p) + 1 .. Len(p) + Len(q) : r[i] = q[i - Len(p)]
  BY Concat DEF Within
<1>2. /\ IsSeq(Calls(p)) /\ Len(Calls(p)) = Len(p)
      /\ \A i \in 1 .. Len(p) : Calls(p)[i].op = p[i]
      /\ IsSeq(Calls(q)) /\ Len(Calls(q)) = Len(q)
      /\ \A i \in 1 .. Len(q) : Calls(q)[i].op = q[i]
      /\ Len(Calls(r)) = Len(r)
      /\ \A i \in 1 .. Len(r) : Calls(r)[i].op = r[i]
  BY <1>1, CallsOf
<1>3. Fitting(c, h)
  BY <1>1, <1>2, FittingConcat DEF Within
<1>4. /\ Len(c) = Len(p) + Len(q)
      /\ \A i \in 1 .. Len(p) : c[i] = Calls(p)[i]
      /\ \A i \in Len(p) + 1 .. Len(p) + Len(q) : c[i] = Calls(q)[i - Len(p)]
  <2> DEFINE P == Calls(p)
             Q == Calls(q)
  <2>1. /\ Len(c) = Len(P) + Len(Q)
        /\ \A i \in 1 .. Len(P) : c[i] = P[i]
        /\ \A i \in Len(P) + 1 .. Len(P) + Len(Q) : c[i] = Q[i - Len(P)]
    BY <1>2, Concat
  <2>2. Len(P) = Len(p) /\ Len(Q) = Len(q)
    BY <1>2
  <2> HIDE DEF P, Q, c
  <2> QED BY <2>1, <2>2 DEF P, Q
<1> HIDE DEF r, c
<1>5. ASSUME NEW i \in 1 .. Len(r)
      PROVE  Calls(r)[i].op = c[i].op
  <2>1. CASE i \in 1 .. Len(p)
    BY <1>1, <1>2, <1>4, <2>1
  <2>2. CASE i \notin 1 .. Len(p)
    <3>1. i \in Len(p) + 1 .. Len(p) + Len(q) /\ i - Len(p) \in 1 .. Len(q)
      BY <1>1, <2>2
    <3>2. c[i].op = q[i - Len(p)] /\ r[i] = q[i - Len(p)]
      BY <1>1, <1>2, <1>4, <3>1
    <3> QED BY <1>2, <3>2
  <2> QED BY <2>1, <2>2
<1>6. Fitting(Calls(r), h)
  <2>1. ASSUME NEW i \in 1 .. Len(r)
        PROVE  /\ Len(r) - i + Height(Calls(r)[i].op) <= h
               /\ Calls(r)[i].op = "open" => i + 2 <= Len(r)
                                             /\ Calls(r)[i + 2].op = "close"
    <3>1. /\ Len(r) - i + Height(c[i].op) <= h
          /\ c[i].op = "open" => i + 2 <= Len(r) /\ c[i + 2].op = "close"
      BY <1>1, <1>3, <1>4 DEF Fitting
    <3>2. i + 2 <= Len(r) => i + 2 \in 1 .. Len(r)
      BY <1>1
    <3> QED BY <1>5, <3>1, <3>2
  <2> QED BY <1>2, <2>1 DEF Fitting
<1> QED BY <1>1, <1>6 DEF Within, r

(* A block, of whatever items.                                             *)
LEMMA WithinBlocks ==
    /\ Within(Block, 6) /\ Len(Block) = 3
    /\ \A loop \in DOMAIN Item :
         /\ \A a : a # "open" /\ Height(a) <= 5
                     => Within(<<a, "open", loop, "close">>, 8)
         /\ \A a, b : "open" \notin {a, b} /\ Height(a) <= 4 /\ Height(b) <= 5
                     => Within(<<a, b, "open", loop, "close">>, 8)
<1>1. DOMAIN Item = {"program", "entity_body", "fields", "variants", "externs",
                     "mocks", "stmts", "arms"}
  BY DEF Item
<1>2. /\ Height("open") = 1 /\ Height("close") = 1
      /\ \A loop \in DOMAIN Item : Height(loop) = 5 /\ loop # "open"
  BY <1>1 DEF Height
<1>3. Within(Block, 6) /\ Len(Block) = 3
  <2>1. /\ IsSeq(Block) /\ Len(Block) = 3
        /\ Block[1] = "open" /\ Block[2] = "stmts" /\ Block[3] = "close"
    BY Literals DEF Block
  <2>2. \A i \in 1 .. 3 : i = 1 \/ i = 2 \/ i = 3
    OBVIOUS
  <2>3. "stmts" \in DOMAIN Item
    BY <1>1
  <2> DEFINE p == Block
  <2> HIDE DEF p
  <2>4. \A i \in 1 .. Len(p) :
          /\ Len(p) - i + Height(p[i]) <= 6
          /\ p[i] = "open" => i + 2 <= Len(p) /\ p[i + 2] = "close"
    BY <1>2, <2>1, <2>2, <2>3 DEF p
  <2>5. Within(p, 6)
    BY <2>1, <2>4, WithinIs DEF p
  <2> QED BY <2>1, <2>5 DEF p
<1>4. ASSUME NEW loop \in DOMAIN Item, NEW a, a # "open", Height(a) <= 5
      PROVE  Within(<<a, "open", loop, "close">>, 8)
  <2> DEFINE p == <<a, "open", loop, "close">>
  <2>1. /\ IsSeq(p) /\ Len(p) = 4
        /\ p[1] = a /\ p[2] = "open" /\ p[3] = loop /\ p[4] = "close"
    BY Literals
  <2> HIDE DEF p
  <2>2. \A i \in 1 .. 4 : i = 1 \/ i = 2 \/ i = 3 \/ i = 4
    OBVIOUS
  <2>3. \A i \in 1 .. Len(p) :
          /\ Len(p) - i + Height(p[i]) <= 8
          /\ p[i] = "open" => i + 2 <= Len(p) /\ p[i + 2] = "close"
    BY <1>2, <1>4, <2>1, <2>2, HeightRange
  <2>4. Within(p, 8)
    BY <2>1, <2>3, WithinIs
  <2> QED BY <2>4 DEF p
<1>5. ASSUME NEW loop \in DOMAIN Item, NEW a, NEW b, "open" \notin {a, b},
             Height(a) <= 4, Height(b) <= 5
      PROVE  Within(<<a, b, "open", loop, "close">>, 8)
  <2> DEFINE p == <<a, b, "open", loop, "close">>
  <2>1. /\ IsSeq(p) /\ Len(p) = 5 /\ p[1] = a /\ p[2] = b
        /\ p[3] = "open" /\ p[4] = loop /\ p[5] = "close"
    BY Literals
  <2> HIDE DEF p
  <2>2. \A i \in 1 .. 5 : i = 1 \/ i = 2 \/ i = 3 \/ i = 4 \/ i = 5
    OBVIOUS
  <2>3. \A i \in 1 .. Len(p) :
          /\ Len(p) - i + Height(p[i]) <= 8
          /\ p[i] = "open" => i + 2 <= Len(p) /\ p[i + 2] = "close"
    BY <1>2, <1>5, <2>1, <2>2, HeightRange
  <2>4. Within(p, 8)
    BY <2>1, <2>3, WithinIs
  <2> QED BY <2>4 DEF p
<1> QED BY <1>3, <1>4, <1>5

(* ---- The steps, by the ways the source makes them. ---- *)
(* A plan is a stack.                                                      *)
LEMMA CallsNamed ==
    ASSUME NEW plan, IsSeq(plan)
    PROVE  IsSeq(Calls(plan)) /\ Named(Calls(plan))
<1>1. PICK S : plan \in Seq(S)
  BY DEF IsSeq
<1>2. \A i \in DOMAIN plan : Calls(plan)[i] = [op |-> plan[i]]
  BY DEF Calls
<1>3. DOMAIN plan = 1 .. Len(plan) /\ Len(Calls(plan)) = Len(plan)
  BY <1>1, CallsOf
<1>4. ASSUME NEW i \in 1 .. Len(Calls(plan))
      PROVE  "op" \in DOMAIN Calls(plan)[i]
  <2>1. Calls(plan)[i] = [op |-> plan[i]]
    BY <1>2, <1>3
  <2>2. "op" \in DOMAIN [op |-> plan[i]]
    OBVIOUS
  <2> QED BY <2>1, <2>2
<1>5. Named(Calls(plan))
  BY <1>4 DEF Named
<1> QED BY <1>5, CallsOf

(* A call that reads nothing.                                              *)
LEMMA CallGrows ==
    ASSUME NEW op, At(op), NEW plan, Within(plan, Height(op)),
           Call(plan) \/ Report(plan) \/ (tok = "EOF" /\ Read(plan))
    PROVE  Grows
<1>1. todo # <<>> /\ Head(todo).op = op
  BY DEF At
<1>2. IsSeq(Calls(plan)) /\ Named(Calls(plan)) /\ Fitting(Calls(plan), Height(op))
  BY CallsNamed DEF Within
<1>3. \/ Stay(Calls(plan) \o Tail(todo))
      \/ tok = "EOF" /\ Advance(Calls(plan) \o Tail(todo))
  BY DEF Call, Report, Read
<1> QED BY <1>1, <1>2, <1>3 DEF Grows

(* A call that reads a token.                                              *)
LEMMA ReadGrows ==
    ASSUME NEW op, At(op), NEW plan, Within(plan, 8), tok # "EOF",
           Read(plan) \/ Skip(plan)
    PROVE  Grows
<1>1. todo # <<>> /\ Head(todo).op = op
  BY DEF At
<1>2. IsSeq(Calls(plan)) /\ Named(Calls(plan)) /\ Fitting(Calls(plan), 8)
  BY CallsNamed DEF Within
<1>3. Fitting(Calls(plan), Height(op) + 7)
  <2>1. Height(op) + 7 \in Nat /\ 8 <= Height(op) + 7
    BY HeightRange
  <2> QED BY <1>2, <2>1, FittingHigher
<1>4. Advance(Calls(plan) \o Tail(todo))
  BY DEF Read, Skip
<1> QED BY <1>1, <1>2, <1>3, <1>4 DEF Grows

(* Nothing more to call.                                                   *)
LEMMA NothingWithin == \A op : Within(<<>>, Height(op))
BY HeightRange, WithinTuples

(* A call that reads a token of a set, or else returns.                    *)
LEMMA DemandGrows ==
    ASSUME NEW op, NEW T, NEW plan, Demand(op, T, plan) \/ Accept(op, T, plan),
           "EOF" \notin T, Within(plan, 8)
    PROVE  Grows
<1>1. CASE tok \in T
  <2>1. At(op) /\ Read(plan) /\ tok # "EOF"
    BY <1>1 DEF Demand, Accept
  <2> QED BY <2>1, ReadGrows
<1>2. CASE tok \notin T
  <2>1. At(op) /\ (Call(<<>>) \/ Report(<<>>))
    BY <1>2 DEF Demand, Accept
  <2> QED BY <2>1, NothingWithin, CallGrows
<1> QED BY <1>1, <1>2

(* A plan in front of the block of a statement.                            *)
LEMMA OnBlock ==
    ASSUME NEW p, NEW m \in Nat, Within(p, m), NEW h \in Nat, 3 + m <= h, 6 <= h
    PROVE  Within(p \o Block, h)
<1> DEFINE b == Block
<1>1. Within(b, 6) /\ Len(b) = 3
  BY WithinBlocks
<1> HIDE DEF b
<1>2. IsSeq(b) /\ Fitting(Calls(b), 6)
  BY <1>1 DEF Within
<1>3. IsSeq(Calls(b))
  BY <1>2, CallsOf
<1>4. Fitting(Calls(b), h)
  BY <1>2, <1>3, FittingHigher
<1>5. Within(b, h) /\ Len(b) + m <= h
  BY <1>1, <1>2, <1>4 DEF Within
<1>6. Within(p \o b, h)
  BY <1>5, WithinConcat
<1> QED BY <1>6 DEF b

(* The plans of calls that read nothing, each under the height of its      *)
(* call.                                                                   *)
LEMMA CallPlans ==
    /\ \A loop \in DOMAIN Item : Within(<<loop>>, Height("again"))
    /\ Within(<<"params", "returns">> \o Block, Height("member"))
    /\ Within(<<"type", "value">>, Height("typed_decl"))
    /\ Within(<<"expr">>, Height("typed_decl"))
    /\ Within(<<"param_comma">>, Height("param"))
    /\ Within(<<"type">>, Height("param_type"))
    /\ Within(<<"expr", "assign">>, Height("stmt"))
    /\ Within(<<"typed_decl">>, Height("colons"))
    /\ Within(Block, Height("else_body")) /\ Within(Block, Height("loop_head"))
    /\ Within(<<"identifier", "loop_kind">>, Height("loop_head"))
    /\ Within(<<"skip_to_open">> \o Block, Height("loop_kind"))
    /\ Within(<<"expr", "arm_body">>, Height("arm"))
    /\ Within(<<"primary", "postfix">>, Height("unary"))
    /\ Within(<<"expr", "arg_comma">>, Height("args"))
    /\ Within(<<"expr">>, Height("arrow"))
    /\ Within(<<"expr", "list_kind">>, Height("list"))
    /\ Within(<<"items">>, Height("list_kind"))
    /\ Within(<<"rbracket">>, Height("items"))
    /\ Within(<<"rbracket">>, Height("next_item"))
    /\ Within(<<"expr", "items">>, Height("next_item"))
    /\ Within(<<"rbracket">>, Height("pairs"))
    /\ Within(<<"rbracket">>, Height("next_pair"))
    /\ Within(<<"expr", "pair_arrow", "expr", "pairs">>, Height("next_pair"))
    /\ Within(<<"rbracket">>, Height("more_types"))
<1>1. DOMAIN Item = {"program", "entity_body", "fields", "variants", "externs",
                     "mocks", "stmts", "arms"}
  BY DEF Item
<1>2. /\ \A op \in {"member", "else_body", "loop_head", "loop_kind", "next_pair"} :
           Height(op) = 6
      /\ \A op \in DOMAIN Item \cup {"again"} : Height(op) = 5
      /\ \A op \in {"stmt", "arm", "args", "list", "next_item"} : Height(op) = 4
      /\ \A op \in {"typed_decl", "colons", "expr", "arrow"} : Height(op) = 3
      /\ Height("unary") = 2
  BY <1>1 DEF Height
<1>3. \A op \in {"params", "returns", "type", "value", "param_comma", "param",
                 "param_type", "assign", "identifier", "skip_to_open",
                 "arm_body", "primary", "postfix", "arg_comma", "list_kind",
                 "items", "rbracket", "pairs", "pair_arrow", "more_types"} :
        Height(op) = 1
  BY <1>1 DEF Height
<1>4. \A loop \in DOMAIN Item : Within(<<loop>>, 5)
  <2>1. \A loop \in DOMAIN Item : loop # "open" /\ Height(loop) <= 5
    BY <1>1, <1>2
  <2> QED BY <2>1, WithinTuples
<1>5. Within(<<"params", "returns">> \o Block, 6)
  <2> DEFINE p == <<"params", "returns">>
  <2>1. Within(p, 2)
    BY <1>3, WithinTuples
  <2> HIDE DEF p
  <2>2. Within(p \o Block, 6)
    BY <2>1, OnBlock
  <2> QED BY <2>2 DEF p
<1>6. Within(<<"skip_to_open">> \o Block, 6)
  <2> DEFINE p == <<"skip_to_open">>
  <2>1. Within(p, 1)
    BY <1>3, WithinTuples
  <2> HIDE DEF p
  <2>2. Within(p \o Block, 6)
    BY <2>1, OnBlock
  <2> QED BY <2>2 DEF p
<1>7. /\ Within(<<"param_comma">>, 1) /\ Within(<<"type">>, 1)
      /\ Within(<<"items">>, 1) /\ Within(<<"rbracket">>, 1)
      /\ Within(<<"primary", "postfix">>, 2)
  BY <1>3, WithinTuples
<1>8. /\ Within(<<"type", "value">>, 3) /\ Within(<<"expr">>, 3)
      /\ Within(<<"typed_decl">>, 3)
  BY <1>2, <1>3, WithinTuples
<1>9. /\ Within(<<"expr", "assign">>, 4) /\ Within(<<"expr", "arm_body">>, 4)
      /\ Within(<<"expr", "arg_comma">>, 4) /\ Within(<<"expr", "list_kind">>, 4)
      /\ Within(<<"rbracket">>, 4) /\ Within(<<"expr", "items">>, 4)
  BY <1>2, <1>3, WithinTuples
<1>10. /\ Within(<<"identifier", "loop_kind">>, 6) /\ Within(<<"rbracket">>, 6)
  BY <1>2, <1>3, WithinTuples
<1>11. Within(<<"expr", "pair_arrow", "expr", "pairs">>, 6)
  BY <1>2, <1>3, WithinTuples
<1>12. Within(Block, 6)
  BY WithinBlocks
<1> QED BY <1>2, <1>3, <1>4, <1>5, <1>6, <1>7, <1>8, <1>9, <1>10, <1>11, <1>12

(* Plans with the block of a statement at their end.                       *)
LEMMA BlockPlans ==
    /\ \A a : a # "open" /\ Height(a) <= 3 => Within(<<a>> \o Block, 8)
    /\ Within(<<"identifier", "params">> \o Block, 8)
    /\ Within(<<"expr", "to", "expr">> \o Block, 8)
    /\ Within(<<"identifier", "generics", "params", "returns">> \o Block, 8)
    /\ Within(<<"expr">> \o Block \o <<"else">>, 8)
<1>1. DOMAIN Item = {"program", "entity_body", "fields", "variants", "externs",
                     "mocks", "stmts", "arms"}
  BY DEF Item
<1>2. /\ \A op \in {"identifier", "params", "to", "generics", "returns", "else"} :
           Height(op) = 1
      /\ Height("expr") = 3
  BY <1>1 DEF Height
<1>3. ASSUME NEW a, a # "open", Height(a) <= 3
      PROVE  Within(<<a>> \o Block, 8)
  <2> DEFINE p == <<a>>
  <2>1. Within(p, 3)
    BY <1>3, WithinTuples
  <2> HIDE DEF p
  <2>2. Within(p \o Block, 8)
    BY <2>1, OnBlock
  <2> QED BY <2>2 DEF p
<1>4. Within(<<"identifier", "params">> \o Block, 8)
  <2> DEFINE p == <<"identifier", "params">>
  <2>1. Within(p, 2)
    BY <1>2, WithinTuples
  <2> HIDE DEF p
  <2>2. Within(p \o Block, 8)
    BY <2>1, OnBlock
  <2> QED BY <2>2 DEF p
<1>5. Within(<<"expr", "to", "expr">> \o Block, 8)
  <2> DEFINE p == <<"expr", "to", "expr">>
  <2>1. Within(p, 5)
    BY <1>2, WithinTuples
  <2> HIDE DEF p
  <2>2. Within(p \o Block, 8)
    BY <2>1, OnBlock
  <2> QED BY <2>2 DEF p
<1>6. Within(<<"identifier", "generics", "params", "returns">> \o Block, 8)
  <2> DEFINE p == <<"identifier", "generics", "params", "returns">>
  <2>1. Within(p, 4)
    BY <1>2, WithinTuples
  <2> HIDE DEF p
  <2>2. Within(p \o Block, 8)
    BY <2>1, OnBlock
  <2> QED BY <2>2 DEF p
<1>7. Within(<<"expr">> \o Block \o <<"else">>, 8)
  <2> DEFINE p == <<"expr">>
             b == p \o Block
             e == <<"else">>
  <2>1. Within(p, 3) /\ Within(e, 8) /\ Len(e) = 1
    BY <1>2, WithinTuples, Literals
  <2> HIDE DEF p
  <2>2. Within(b, 6)
    BY <2>1, OnBlock
  <2> HIDE DEF b, e
  <2>3. \A q, r : Within(q, 6) /\ Within(r, 8) /\ Len(r) = 1 => Within(q \o r, 8)
    <3>1. SUFFICES ASSUME NEW q, NEW r, Within(q, 6), Within(r, 8), Len(r) = 1
                   PROVE  Within(q \o r, 8)
      OBVIOUS
    <3>2. Len(r) + 6 <= 8
      BY <3>1
    <3> QED BY <3>1, <3>2, WithinConcat
  <2>4. Within(b \o e, 8)
    BY ONLY <2>1, <2>2, <2>3, Zenon
  <2> QED BY <2>4 DEF b, e, p
<1> QED BY <1>3, <1>4, <1>5, <1>6, <1>7

(* Names that are never the end of the text.                               *)
LEMMA NotEnd == "EOF" \notin Identifier
BY Names

(* parse_top_level.                                                        *)
LEMMA TopLevelGrows == parse_top_level => Grows
<1> SUFFICES ASSUME parse_top_level PROVE Grows
  OBVIOUS
<1>1. PICK op \in {"top_level", "item"} : At(op)
  BY DEF parse_top_level
<1>2. DOMAIN TopLevel = {"entity", "fn", "data", "kind", "import", "extern",
                         "test", "mock"}
  BY DEF TopLevel
<1>3. CASE tok = "async" /\ Read(<<"item">>)
  <2>1. tok # "EOF" /\ Within(<<"item">>, 8)
    BY <1>3, ShortPlans
  <2> QED BY <1>1, <1>3, <2>1, ReadGrows
<1>4. CASE tok \in DOMAIN TopLevel /\ Read(TopLevel[tok])
  <2>1. DOMAIN Item = {"program", "entity_body", "fields", "variants", "externs",
                       "mocks", "stmts", "arms"}
    BY DEF Item
  <2>2. /\ Height("identifier") = 1 /\ Height("generics") = 1
        /\ Height("string_literal") = 1
    BY <2>1 DEF Height
  <2>3. /\ Within(<<"identifier", "open", "entity_body", "close">>, 8)
        /\ Within(<<"identifier", "open", "variants", "close">>, 8)
        /\ Within(<<"identifier", "open", "mocks", "close">>, 8)
    BY <2>1, <2>2, WithinBlocks
  <2>4. /\ Within(<<"identifier", "generics", "open", "fields", "close">>, 8)
        /\ Within(<<"string_literal", "identifier", "open", "externs", "close">>, 8)
    BY <2>1, <2>2, WithinBlocks
  <2>5. /\ Within(<<"identifier", "generics", "params", "returns">> \o Block, 8)
        /\ Within(<<"string_literal">> \o Block, 8)
    BY <2>2, BlockPlans
  <2>6. Within(<<"identifier", "path">>, 8)
    BY ShortPlans
  <2>7. /\ Within(TopLevel["entity"], 8) /\ Within(TopLevel["kind"], 8)
        /\ Within(TopLevel["mock"], 8)
    BY <2>3 DEF TopLevel
  <2>8. Within(TopLevel["data"], 8) /\ Within(TopLevel["extern"], 8)
    BY <2>4 DEF TopLevel
  <2>9. Within(TopLevel["fn"], 8) /\ Within(TopLevel["test"], 8)
    <3>1. /\ TopLevel["fn"] = <<"identifier", "generics", "params", "returns">> \o Block
          /\ TopLevel["test"] = <<"string_literal">> \o Block
      BY DEF TopLevel
    <3> QED BY <2>5, <3>1
  <2>10. Within(TopLevel["import"], 8)
    BY <2>6 DEF TopLevel
  <2>11. Within(TopLevel[tok], 8) /\ tok # "EOF"
    BY <1>2, <1>4, <2>7, <2>8, <2>9, <2>10
  <2> QED BY <1>1, <1>4, <2>11, ReadGrows
<1>5. CASE Report(<<>>)
  BY <1>1, <1>5, NothingWithin, CallGrows
<1> QED BY <1>3, <1>4, <1>5 DEF parse_top_level

(* parse_entity_item.                                                      *)
LEMMA EntityItemGrows == parse_entity_item => Grows
<1> SUFFICES ASSUME parse_entity_item PROVE Grows
  OBVIOUS
<1>1. PICK op \in {"entity_item", "member"} : At(op)
  BY DEF parse_entity_item
<1>2. CASE tok # "EOF" /\ \E a \in {"entity_item", "identifier", "member",
                                    "typed_decl"} : Read(<<a>>)
  <2>1. PICK a \in {"entity_item", "identifier", "member", "typed_decl"} :
          Read(<<a>>)
    BY <1>2
  <2>2. Within(<<a>>, 8)
    BY <2>1, ShortPlans
  <2> QED BY <1>1, <1>2, <2>1, <2>2, ReadGrows
<1>3. CASE tok = "when" /\ Read(<<"identifier", "params">> \o Block)
  <2>1. tok # "EOF"
    BY <1>3
  <2> QED BY <1>1, <1>3, <2>1, BlockPlans, ReadGrows
<1>4. CASE Report(<<>>)
  BY <1>1, <1>4, NothingWithin, CallGrows
<1>5. CASE At("member") /\ Call(<<"params", "returns">> \o Block)
  BY <1>5, CallPlans, CallGrows
<1> QED BY <1>2, <1>3, <1>4, <1>5, NotEnd DEF parse_entity_item

(* parse_typed_decl.                                                       *)
LEMMA TypedDeclGrows == parse_typed_decl => Grows
<1> SUFFICES ASSUME parse_typed_decl PROVE Grows
  OBVIOUS
<1>1. CASE At("typed_decl") /\ Call(<<"type", "value">>)
  BY <1>1, CallPlans, CallGrows
<1>2. CASE At("typed_decl") /\ Call(<<"expr">>)
  BY <1>2, CallPlans, CallGrows
<1>3. CASE Accept("value", {"="}, <<"expr">>)
  BY <1>3, ShortPlans, DemandGrows
<1> QED BY <1>1, <1>2, <1>3 DEF parse_typed_decl

(* skip_generics.                                                          *)
LEMMA SkipGenericsGrows == skip_generics => Grows
<1> SUFFICES ASSUME skip_generics PROVE Grows
  OBVIOUS
<1>1. Within(<<"skip_generics">>, 8) /\ Within(<<>>, 8)
  BY ShortPlans
<1>2. CASE Accept("generics", {"["}, <<"skip_generics">>)
  BY <1>1, <1>2, DemandGrows
<1>3. CASE At("skip_generics") /\ Call(<<>>)
  BY <1>3, NothingWithin, CallGrows
<1>4. CASE At("skip_generics") /\ tok # "EOF"
           /\ \E p \in {<<>>, <<"skip_generics">>} : Skip(p)
  BY <1>1, <1>4, ReadGrows
<1> QED BY <1>2, <1>3, <1>4 DEF skip_generics

(* parse_data, parse_import, parse_extern, parse_returns,                  *)
(* parse_identifier and expect_open_block.                                 *)
LEMMA DemandsGrow ==
    \/ parse_data \/ parse_import \/ parse_extern \/ parse_returns
    \/ parse_identifier \/ expect_open_block
    => Grows
<1>1. /\ Within(<<"field_type">>, 8) /\ Within(<<"typed_decl">>, 8)
      /\ Within(<<"identifier", "path">>, 8) /\ Within(<<"params", "returns">>, 8)
      /\ Within(<<"type">>, 8) /\ Within(<<>>, 8)
  BY ShortPlans
<1>2. parse_data => Grows
  BY <1>1, NotEnd, DemandGrows DEF parse_data
<1>3. parse_import => Grows
  BY <1>1, DemandGrows DEF parse_import
<1>4. parse_extern => Grows
  BY <1>1, NotEnd, DemandGrows DEF parse_extern
<1>5. parse_returns => Grows
  BY <1>1, DemandGrows DEF parse_returns
<1>6. parse_identifier => Grows
  BY <1>1, NotEnd, DemandGrows DEF parse_identifier
<1>7. expect_open_block => Grows
  BY <1>1, DemandGrows DEF expect_open_block
<1> QED BY <1>2, <1>3, <1>4, <1>5, <1>6, <1>7

(* parse_kind.                                                             *)
LEMMA KindGrows == parse_kind => Grows
<1> SUFFICES ASSUME parse_kind PROVE Grows
  OBVIOUS
<1>1. /\ Within(<<"payload_start">>, 8) /\ Within(<<"payload">>, 8)
      /\ Within(<<"payload", "payload">>, 8) /\ Within(<<>>, 8)
  BY ShortPlans
<1>2. CASE Demand("variant", Identifier, <<"payload_start">>)
  BY <1>1, <1>2, NotEnd, DemandGrows
<1>3. CASE Accept("payload_start", {"("}, <<"payload">>)
  BY <1>1, <1>3, DemandGrows
<1>4. CASE At("payload") /\ Call(<<>>)
  BY <1>4, NothingWithin, CallGrows
<1>5. CASE At("payload") /\ tok # "EOF"
           /\ \E p \in {<<>>, <<"payload">>, <<"payload", "payload">>} : Skip(p)
  BY <1>1, <1>5, ReadGrows
<1> QED BY <1>2, <1>3, <1>4, <1>5 DEF parse_kind

(* parse_mock.                                                             *)
LEMMA MockGrows == parse_mock => Grows
BY BlockPlans, DemandGrows DEF parse_mock

(* parse_string_literal.                                                   *)
LEMMA StringLiteralGrows == parse_string_literal => Grows
<1> SUFFICES ASSUME parse_string_literal PROVE Grows
  OBVIOUS
<1>1. Within(<<"string_skip">>, 8) /\ Within(<<>>, 8)
  BY ShortPlans
<1>2. CASE Demand("string_literal", {"string"}, <<"string_skip">>)
  BY <1>1, <1>2, DemandGrows
<1>3. CASE At("string_skip") /\ Call(<<>>)
  BY <1>3, NothingWithin, CallGrows
<1>4. CASE At("string_skip") /\ tok # "EOF"
           /\ \E p \in {<<>>, <<"string_skip">>} : Skip(p)
  BY <1>1, <1>4, ReadGrows
<1> QED BY <1>2, <1>3, <1>4 DEF parse_string_literal

(* parse_params.                                                           *)
LEMMA ParamsGrows == parse_params => Grows
<1> SUFFICES ASSUME parse_params PROVE Grows
  OBVIOUS
<1>1. /\ Within(<<"param", "params_end">>, 8) /\ Within(<<>>, 8)
      /\ Within(<<"param_type", "param_comma">>, 8) /\ Within(<<"type">>, 8)
      /\ Within(<<"param">>, 8)
  BY ShortPlans
<1>2. CASE Accept("params", {"("}, <<"param", "params_end">>)
  BY <1>1, <1>2, DemandGrows
<1>3. CASE (At("param") \/ At("param_type")) /\ Call(<<>>)
  BY <1>3, NothingWithin, CallGrows
<1>4. CASE At("param") /\ tok \in Identifier /\ Read(<<"param_type", "param_comma">>)
  BY <1>1, <1>4, NotEnd, ReadGrows
<1>5. CASE At("param") /\ Report(<<"param_comma">>)
  BY <1>5, CallPlans, CallGrows
<1>6. CASE At("param_type") /\ tok = ":" /\ Read(<<"type">>)
  <2>1. tok # "EOF"
    BY <1>6
  <2> QED BY <1>1, <1>6, <2>1, ReadGrows
<1>7. CASE At("param_type") /\ Call(<<"type">>)
  BY <1>7, CallPlans, CallGrows
<1>8. CASE Accept("param_comma", {","}, <<"param">>)
  BY <1>1, <1>8, DemandGrows
<1>9. CASE Demand("params_end", {")"}, <<>>)
  BY <1>1, <1>9, DemandGrows
<1> QED BY <1>2, <1>3, <1>4, <1>5, <1>6, <1>7, <1>8, <1>9 DEF parse_params

(* consume_close.                                                          *)
LEMMA CloseGrows == consume_close => Grows
<1> SUFFICES ASSUME consume_close PROVE Grows
  OBVIOUS
<1>1. Within(<<"label">>, 8)
  BY ShortPlans
<1>2. CASE Demand("close", {"<<"}, <<"label">>)
  BY <1>1, <1>2, DemandGrows
<1>3. CASE At("label") /\ Call(<<>>)
  BY <1>3, NothingWithin, CallGrows
<1>4. CASE At("label") /\ tok # "EOF" /\ Read(<<"label">>)
  BY <1>1, <1>4, ReadGrows
<1> QED BY <1>2, <1>3, <1>4 DEF consume_close

(* The statements that begin with a keyword, and declarations.             *)
LEMMA StatementWithin ==
    \A t \in DOMAIN Statement : Within(Statement[t], 8) /\ t # "EOF"
<1>1. DOMAIN Statement = {"fail", "result", "await", "if", "loop", "every",
                          "match", "task", "stop", "decl"}
  BY DEF Statement
<1>2. DOMAIN Item = {"program", "entity_body", "fields", "variants", "externs",
                     "mocks", "stmts", "arms"}
  BY DEF Item
<1>3. Height("expr") = 3 /\ Height("skip_to_open") = 1
  BY <1>2 DEF Height
<1>4. /\ Within(<<"expr">>, 8) /\ Within(<<"loop_head">>, 8) /\ Within(<<>>, 8)
      /\ Within(<<"colons">>, 8)
  BY ShortPlans
<1>5. /\ Within(<<"expr">> \o Block, 8) /\ Within(<<"skip_to_open">> \o Block, 8)
      /\ Within(<<"expr">> \o Block \o <<"else">>, 8)
  BY <1>3, BlockPlans
<1>6. Within(<<"expr", "open", "arms", "close">>, 8)
  BY <1>2, <1>3, WithinBlocks
<1>7. /\ Within(Statement["fail"], 8) /\ Within(Statement["result"], 8)
      /\ Within(Statement["await"], 8) /\ Within(Statement["loop"], 8)
      /\ Within(Statement["stop"], 8) /\ Within(Statement["decl"], 8)
  BY <1>4 DEF Statement
<1>8. /\ Within(Statement["if"], 8) /\ Within(Statement["every"], 8)
      /\ Within(Statement["task"], 8)
  <2>1. /\ Statement["if"] = <<"expr">> \o Block \o <<"else">>
        /\ Statement["every"] = <<"expr">> \o Block
        /\ Statement["task"] = <<"skip_to_open">> \o Block
    BY DEF Statement
  <2> QED BY <1>5, <2>1
<1>9. Within(Statement["match"], 8)
  BY <1>6 DEF Statement
<1> QED BY <1>1, <1>7, <1>8, <1>9

(* parse_stmt.                                                             *)
LEMMA StmtGrows == parse_stmt => Grows
<1> SUFFICES ASSUME parse_stmt PROVE Grows
  OBVIOUS
<1>1. Within(<<"expr">>, 8) /\ Within(<<"typed_decl">>, 8)
  BY ShortPlans
<1>2. CASE At("stmt") /\ tok \in DOMAIN Statement /\ Read(Statement[tok])
  BY <1>2, StatementWithin, ReadGrows
<1>3. CASE At("stmt") /\ Call(<<"expr", "assign">>)
  BY <1>3, CallPlans, CallGrows
<1>4. CASE Accept("assign", {"=", "op="}, <<"expr">>)
  BY <1>1, <1>4, DemandGrows
<1>5. CASE At("colons") /\ Read(<<"typed_decl">>)
  <2>1. CASE tok = "EOF"
    BY <1>5, <2>1, CallPlans, CallGrows
  <2>2. CASE tok # "EOF"
    BY <1>1, <1>5, <2>2, ReadGrows
  <2> QED BY <2>1, <2>2
<1> QED BY <1>2, <1>3, <1>4, <1>5 DEF parse_stmt

(* parse_if_stmt.                                                          *)
LEMMA IfStmtGrows == parse_if_stmt => Grows
<1> SUFFICES ASSUME parse_if_stmt PROVE Grows
  OBVIOUS
<1>1. Within(<<"else_body">>, 8)
  BY ShortPlans
<1>2. CASE Accept("else", {"else"}, <<"else_body">>)
  BY <1>1, <1>2, DemandGrows
<1>3. CASE At("else_body") /\ tok = "if" /\ Read(Statement["if"])
  <2>1. "if" \in DOMAIN Statement /\ tok # "EOF"
    BY <1>3 DEF Statement
  <2> QED BY <1>3, <2>1, StatementWithin, ReadGrows
<1>4. CASE At("else_body") /\ Call(Block)
  BY <1>4, CallPlans, CallGrows
<1> QED BY <1>2, <1>3, <1>4 DEF parse_if_stmt

(* parse_loop_stmt.                                                        *)
LEMMA LoopStmtGrows == parse_loop_stmt => Grows
<1> SUFFICES ASSUME parse_loop_stmt PROVE Grows
  OBVIOUS
<1>1. Within(<<"expr">> \o Block, 8) /\ Within(<<>>, 8)
  <2>1. Height("expr") = 3
    BY DEF Height, Item
  <2> QED BY <2>1, BlockPlans, ShortPlans
<1>2. CASE /\ At("loop_head") \/ At("loop_kind")
           /\ tok # "EOF" /\ Read(<<"expr">> \o Block)
  BY <1>1, <1>2, ReadGrows
<1>3. CASE At("loop_head") /\ Call(Block)
  BY <1>3, CallPlans, CallGrows
<1>4. CASE At("loop_head") /\ Call(<<"identifier", "loop_kind">>)
  BY <1>4, CallPlans, CallGrows
<1>5. CASE At("loop_kind") /\ tok = "from" /\ Read(<<"expr", "to", "expr">> \o Block)
  <2>1. tok # "EOF"
    BY <1>5
  <2> QED BY <1>5, <2>1, BlockPlans, ReadGrows
<1>6. CASE At("loop_kind") /\ Report(<<"skip_to_open">> \o Block)
  BY <1>6, CallPlans, CallGrows
<1>7. CASE Demand("to", {"to"}, <<>>)
  BY <1>1, <1>7, DemandGrows
<1> QED BY <1>2, <1>3, <1>4, <1>5, <1>6, <1>7 DEF parse_loop_stmt

(* skip_to_open.                                                           *)
LEMMA SkipToOpenGrows == skip_to_open => Grows
<1> SUFFICES ASSUME skip_to_open PROVE Grows
  OBVIOUS
<1>1. CASE At("skip_to_open") /\ Call(<<>>)
  BY <1>1, NothingWithin, CallGrows
<1>2. CASE At("skip_to_open") /\ tok # "EOF" /\ Skip(<<"skip_to_open">>)
  BY <1>2, ShortPlans, ReadGrows
<1> QED BY <1>1, <1>2 DEF skip_to_open

(* parse_match_arm.                                                        *)
LEMMA MatchArmGrows == parse_match_arm => Grows
<1> SUFFICES ASSUME parse_match_arm PROVE Grows
  OBVIOUS
<1>1. /\ Within(<<"arm_body">>, 8) /\ Within(<<"stmt">>, 8)
      /\ Within(<<"stmts", "close">>, 8)
  BY ShortPlans
<1>2. CASE At("arm") /\ tok # "EOF" /\ Read(<<"arm_body">>)
  BY <1>1, <1>2, ReadGrows
<1>3. CASE At("arm") /\ Call(<<"expr", "arm_body">>)
  BY <1>3, CallPlans, CallGrows
<1>4. CASE At("arm_body") /\ tok # "EOF"
           /\ (Read(<<"stmt">>) \/ Read(<<"stmts", "close">>))
  BY <1>1, <1>4, ReadGrows
<1>5. CASE At("arm_body") /\ Report(<<>>)
  BY <1>5, NothingWithin, CallGrows
<1> QED BY <1>2, <1>3, <1>4, <1>5 DEF parse_match_arm

(* parse_unary.                                                            *)
LEMMA UnaryGrows == parse_unary => Grows
<1> SUFFICES ASSUME parse_unary PROVE Grows
  OBVIOUS
<1>1. CASE At("unary") /\ tok # "EOF" /\ Read(<<"unary">>)
  BY <1>1, ShortPlans, ReadGrows
<1>2. CASE At("unary") /\ Call(<<"primary", "postfix">>)
  BY <1>2, CallPlans, CallGrows
<1> QED BY <1>1, <1>2 DEF parse_unary

(* parse_postfix.                                                          *)
LEMMA PostfixGrows == parse_postfix => Grows
<1> SUFFICES ASSUME parse_postfix PROVE Grows
  OBVIOUS
<1>1. /\ Within(<<"identifier", "postfix">>, 8) /\ Within(<<"postfix">>, 8)
      /\ Within(<<"args", "rparen", "postfix">>, 8)
      /\ Within(<<"expr", "rbracket", "postfix">>, 8)
      /\ Within(<<"args">>, 8) /\ Within(<<>>, 8)
  BY ShortPlans
<1>2. CASE At("postfix") /\ tok # "EOF"
           /\ \E p \in {<<"identifier", "postfix">>, <<"postfix">>,
                        <<"args", "rparen", "postfix">>,
                        <<"expr", "rbracket", "postfix">>} : Read(p)
  BY <1>1, <1>2, ReadGrows
<1>3. CASE (At("postfix") \/ At("args")) /\ Call(<<>>)
  BY <1>3, NothingWithin, CallGrows
<1>4. CASE At("args") /\ Call(<<"expr", "arg_comma">>)
  BY <1>4, CallPlans, CallGrows
<1>5. CASE Accept("arg_comma", {","}, <<"args">>)
  BY <1>1, <1>5, DemandGrows
<1>6. CASE Accept("rparen", {")"}, <<>>)
  BY <1>1, <1>6, DemandGrows
<1>7. CASE Accept("rbracket", {"]"}, <<>>)
  BY <1>1, <1>7, DemandGrows
<1>8. tok \in {".", "(", "[", "exists"} => tok # "EOF"
  OBVIOUS
<1> QED BY <1>2, <1>3, <1>4, <1>5, <1>6, <1>7, <1>8 DEF parse_postfix

(* Unexpected reads its token, and nothing is left of the call.            *)
LEMMA UnexpectedGrows ==
    ASSUME IsSeq(todo), todo # <<>>, Unexpected \/ Stay(Tail(todo))
    PROVE  Grows
<1>1. IsSeq(<<>>) /\ Len(<<>>) = 0 /\ <<>> \o Tail(todo) = Tail(todo)
  <2>1. IsSeq(Tail(todo))
    BY TailOf
  <2>2. PICK S : Tail(todo) \in Seq(S)
    BY <2>1 DEF IsSeq
  <2> QED BY <2>2, Literals
<1>2. Named(<<>>) /\ \A h : Fitting(<<>>, h)
  BY <1>1 DEF Named, Fitting
<1>3. Stay(<<>> \o Tail(todo)) \/ Advance(<<>> \o Tail(todo))
  BY <1>1 DEF Unexpected
<1> QED BY <1>1, <1>2, <1>3 DEF Grows

(* parse_primary.                                                          *)
LEMMA PrimaryGrows == IsSeq(todo) /\ parse_primary => Grows
<1> SUFFICES ASSUME IsSeq(todo), parse_primary PROVE Grows
  OBVIOUS
<1>1. /\ Within(<<>>, 8) /\ Within(<<"string_parts">>, 8)
      /\ Within(<<"expr", "rparen">>, 8) /\ Within(<<"list">>, 8)
      /\ Within(<<"arrow">>, 8) /\ Within(<<"expr">>, 8)
  BY ShortPlans
<1>2. CASE /\ At("primary") \/ At("string_parts") \/ At("arrow")
           /\ tok # "EOF"
           /\ \E p \in {<<>>, <<"string_parts">>, <<"expr", "rparen">>, <<"list">>,
                        <<"arrow">>, <<"expr">>} : Read(p)
  BY <1>1, <1>2, ReadGrows
<1>3. CASE At("primary") /\ Unexpected
  BY <1>3, UnexpectedGrows DEF At
<1>4. CASE At("string_parts") /\ Call(<<>>)
  BY <1>4, NothingWithin, CallGrows
<1>5. CASE At("arrow") /\ Call(<<"expr">>)
  BY <1>5, CallPlans, CallGrows
<1>6. tok \in Identifier \cup {"literal", "native", "string", "(", "[", "->",
                               "await", "quote"} \cup InString
        => tok # "EOF"
  BY NotEnd DEF InString
<1> QED BY <1>2, <1>3, <1>4, <1>5, <1>6 DEF parse_primary

(* list_literal.                                                           *)
LEMMA ListLiteralGrows == list_literal => Grows
<1> SUFFICES ASSUME list_literal PROVE Grows
  OBVIOUS
<1>1. /\ Within(<<>>, 8) /\ Within(<<"expr", "pairs">>, 8)
      /\ Within(<<"next_item">>, 8) /\ Within(<<"next_pair">>, 8)
  BY ShortPlans
<1>2. CASE /\ At("list") \/ At("list_kind") \/ At("items") \/ At("pairs")
           /\ tok # "EOF"
           /\ \E p \in {<<>>, <<"expr", "pairs">>, <<"next_item">>,
                        <<"next_pair">>} : Read(p)
  BY <1>1, <1>2, ReadGrows
<1>3. CASE At("list") /\ Call(<<"expr", "list_kind">>)
  BY <1>3, CallPlans, CallGrows
<1>4. CASE At("list_kind") /\ Call(<<"items">>)
  BY <1>4, CallPlans, CallGrows
<1>5. CASE At("items") /\ Call(<<"rbracket">>)
  BY <1>5, CallPlans, CallGrows
<1>6. CASE At("next_item") /\ (Call(<<"rbracket">>) \/ Call(<<"expr", "items">>))
  BY <1>6, CallPlans, CallGrows
<1>7. CASE At("pairs") /\ Call(<<"rbracket">>)
  BY <1>7, CallPlans, CallGrows
<1>8. CASE At("next_pair") /\ (Call(<<"rbracket">>)
             \/ Call(<<"expr", "pair_arrow", "expr", "pairs">>))
  BY <1>8, CallPlans, CallGrows
<1>9. CASE Accept("pair_arrow", {"->"}, <<>>)
  BY <1>1, <1>9, DemandGrows
<1>10. tok \in {"]", "->", ","} => tok # "EOF"
  OBVIOUS
<1> QED BY <1>2, <1>3, <1>4, <1>5, <1>6, <1>7, <1>8, <1>9, <1>10 DEF list_literal

(* parse_type.                                                             *)
LEMMA TypeGrows == parse_type => Grows
<1> SUFFICES ASSUME parse_type PROVE Grows
  OBVIOUS
<1>1. /\ Within(<<"type">>, 8) /\ Within(<<"result_arg">>, 8) /\ Within(<<>>, 8)
      /\ Within(<<"type_args">>, 8) /\ Within(<<"type", "rbracket">>, 8)
      /\ Within(<<"type", "more_types">>, 8)
  BY ShortPlans
<1>2. CASE /\ At("type") \/ At("more_types")
           /\ tok # "EOF"
           /\ \E p \in {<<>>, <<"type">>, <<"result_arg">>, <<"type_args">>,
                        <<"type", "more_types">>} : Read(p)
  BY <1>1, <1>2, ReadGrows
<1>3. CASE At("type") /\ Report(<<>>)
  BY <1>3, NothingWithin, CallGrows
<1>4. CASE Accept("result_arg", {"["}, <<"type", "rbracket">>)
  BY <1>1, <1>4, DemandGrows
<1>5. CASE Accept("type_args", {"["}, <<"type", "more_types">>)
  BY <1>1, <1>5, DemandGrows
<1>6. CASE At("more_types") /\ Call(<<"rbracket">>)
  BY <1>6, CallPlans, CallGrows
<1>7. tok \in Identifier \cup {"maybe", "result", "native", ","} => tok # "EOF"
  BY NotEnd
<1> QED BY <1>2, <1>3, <1>4, <1>5, <1>6, <1>7 DEF parse_type

(* A loop begins an item, to be followed by the next turn, or ends.        *)
LEMMA LoopTestGrows == LoopTest => Grows
<1> SUFFICES ASSUME NEW loop \in DOMAIN Item, At(loop),
                    IF tok = "EOF" \/ (tok = "<<" /\ loop # "program")
                    THEN Call(<<>>)
                    ELSE /\ Frame
                         /\ Stay(Calls(<<Item[loop]>>)
                               \o <<[op |-> "again", loop |-> loop, moved |-> FALSE]>>
                               \o Tail(todo))
             PROVE  Grows
  BY DEF LoopTest
<1>1. DOMAIN Item = {"program", "entity_body", "fields", "variants", "externs",
                     "mocks", "stmts", "arms"}
  BY DEF Item
<1>2. CASE Call(<<>>)
  BY <1>2, NothingWithin, CallGrows
<1> DEFINE a == [op |-> "again", loop |-> loop, moved |-> FALSE]
           c == Calls(<<Item[loop]>>)
           f == c \o <<a>>
<1>3. CASE Frame /\ Stay(f \o Tail(todo))
  <2>1. /\ Item[loop] \in {"top_level", "entity_item", "field", "variant",
                           "extern_item", "mock_item", "stmt", "arm"}
        /\ Height(loop) = 5 /\ Height("again") = 5
    BY <1>1 DEF Item, Height
  <2>2. Item[loop] # "open" /\ Height(Item[loop]) <= 4
    <3>1. \A op \in {"top_level", "entity_item", "field", "variant",
                     "extern_item", "mock_item", "stmt", "arm"} :
            op # "open" /\ Height(op) <= 4
      BY <1>1 DEF Height
    <3> QED BY <2>1, <3>1
  <2>3. Within(<<Item[loop]>>, 4)
    BY <2>2, WithinTuples
  <2>4. IsSeq(c) /\ Named(c) /\ Fitting(c, 4)
    BY <2>3, CallsNamed DEF Within
  <2>5. a.op = "again" /\ "op" \in DOMAIN a
    OBVIOUS
  <2> HIDE DEF a, c
  <2>6. IsSeq(<<a>>) /\ Len(<<a>>) = 1 /\ <<a>>[1] = a
    BY Literals
  <2> DEFINE k == <<a>>
  <2>7. IsSeq(k) /\ Len(k) = 1 /\ k[1] = a
    BY <2>6
  <2> HIDE DEF k
  <2>8. Fitting(k, 5) /\ Named(k)
    <3>1. \A i \in 1 .. Len(k) : i = 1
      BY <2>7
    <3> QED BY <2>1, <2>5, <2>7, <3>1 DEF Fitting, Named
  <2>9. Fitting(c \o k, 5)
    <3>1. Len(k) + 4 <= 5
      BY <2>7
    <3> QED BY <2>4, <2>7, <2>8, <3>1, FittingConcat
  <2>10. IsSeq(c \o k) /\ Named(c \o k)
    BY <2>4, <2>7, <2>8, NamedConcat
  <2>11. f = c \o k
    BY DEF k
  <2> HIDE DEF f
  <2>12. todo # <<>> /\ Head(todo).op = loop
    BY DEF At
  <2>13. Stay(f \o Tail(todo)) /\ Fitting(f, Height(Head(todo).op))
    BY <1>3, <2>1, <2>9, <2>11, <2>12
  <2> QED BY <2>10, <2>11, <2>12, <2>13 DEF Grows
<1> QED BY <1>2, <1>3 DEF f, c, a

(* The next turn of a loop.                                                *)
LEMMA AgainGrows == ParserInv /\ Again => Grows
<1> SUFFICES ASSUME ParserInv, Again PROVE Grows
  OBVIOUS
<1>1. todo # <<>> /\ Head(todo).op = "again" /\ At("again")
  BY DEF Again, At
<1> DEFINE loop == Head(todo).loop
<1>2. loop \in DOMAIN Item
  <2>1. Entry(Head(todo))
    BY <1>1, SoundTail DEF ParserInv
  <2> QED BY <1>1, <2>1 DEF Entry
<1>3. Within(<<loop>>, Height("again")) /\ Within(<<loop>>, 8)
  <2>1. loop # "open"
    BY <1>2 DEF Item
  <2> HIDE DEF loop
  <2> QED BY <1>2, <2>1, CallPlans, ShortPlans
<1>4. Call(<<loop>>) \/ Read(<<loop>>)
  BY DEF Again
<1> HIDE DEF loop
<1>5. CASE Call(<<loop>>) \/ (tok = "EOF" /\ Read(<<loop>>))
  BY <1>1, <1>3, <1>5, CallGrows
<1>6. CASE tok # "EOF" /\ Read(<<loop>>)
  BY <1>1, <1>3, <1>6, ReadGrows
<1> QED BY <1>4, <1>5, <1>6

(* An operand, and the loop over the operators behind it.                  *)
LEMMA ExprFits ==
    ASSUME NEW least
    PROVE  /\ IsSeq(Expr(least)) /\ Len(Expr(least)) = 2
           /\ Named(Expr(least)) /\ Fitting(Expr(least), 3)
<1> DEFINE u == [op |-> "unary"]
           b == [op |-> "binary", min |-> least]
           e == <<u, b>>
<1>1. u.op = "unary" /\ b.op = "binary"
  OBVIOUS
<1> HIDE DEF u, b
<1>2. IsSeq(e) /\ Len(e) = 2 /\ e[1] = u /\ e[2] = b
  BY Literals
<1> HIDE DEF e
<1>3. \A i \in 1 .. Len(e) : i = 1 \/ i = 2
  BY <1>2
<1>4. Height("unary") = 2 /\ Height("binary") = 1
  BY DEF Height, Item
<1>5. Fitting(e, 3)
  BY <1>1, <1>2, <1>3, <1>4 DEF Fitting
<1>6. Named(e)
  BY <1>1, <1>2, <1>3 DEF Named
<1>7. Expr(least) = e
  BY DEF Expr, e, u, b
<1> QED BY <1>2, <1>5, <1>6, <1>7

(* parse_expr.                                                             *)
LEMMA ExprGrows == parse_expr => Grows
<1> SUFFICES ASSUME parse_expr PROVE Grows
  OBVIOUS
<1>1. todo # <<>> /\ Head(todo).op = "expr" /\ Height("expr") = 3
  BY DEF parse_expr, At, Height, Item
<1>2. IsSeq(Expr(0)) /\ Named(Expr(0)) /\ Fitting(Expr(0), 3)
  BY ExprFits
<1>3. Stay(Expr(0) \o Tail(todo))
  BY DEF parse_expr
<1> QED BY <1>1, <1>2, <1>3 DEF Grows

(* The operator read puts its right operand and itself before the loop     *)
(* that has read it.                                                       *)
LEMMA TakenGrows ==
    ASSUME IsSeq(todo), At("binary"), tok # "EOF", NEW least, NEW k,
           k.op = "combine",
           Advance(Expr(least) \o <<k>> \o todo)
    PROVE  Grows
<1> DEFINE e == Expr(least)
           s == <<k>>
           h == <<Head(todo)>>
           t == Tail(todo)
<1>1. todo # <<>> /\ Head(todo).op = "binary"
  BY DEF At
<1>2. IsSeq(e) /\ Len(e) = 2 /\ Named(e) /\ Fitting(e, 3)
  BY ExprFits
<1>3. /\ IsSeq(s) /\ Len(s) = 1 /\ s[1] = k
      /\ IsSeq(h) /\ Len(h) = 1 /\ h[1] = Head(todo)
  BY Literals
<1>4. IsSeq(t)
  BY <1>1, TailOf
<1>5. h \o t = todo
  <2>1. PICK S : todo \in Seq(S)
    BY DEF IsSeq
  <2> QED BY <1>1, <2>1
<1> HIDE DEF e, s, h, t
<1>6. Fitting(s, 1) /\ Named(s) /\ Fitting(h, 1) /\ Named(h)
  <2>1. Height("combine") = 1 /\ Height("binary") = 1
    BY DEF Height, Item
  <2>2. (\A i \in 1 .. Len(s) : i = 1) /\ (\A i \in 1 .. Len(h) : i = 1)
    BY <1>3
  <2> QED BY <1>1, <1>3, <2>1, <2>2 DEF Fitting, Named
<1>7. IsSeq(s \o h) /\ Named(s \o h) /\ Len(s \o h) = 2
  <2>1. IsSeq(s \o h) /\ Named(s \o h)
    BY <1>3, <1>6, NamedConcat
  <2>2. Len(s \o h) = Len(s) + Len(h)
    BY <1>3, Concat
  <2> QED BY <1>3, <2>1, <2>2
<1>8. Fitting(s \o h, 2)
  <2>1. Fitting(h, 2)
    BY <1>3, <1>6, FittingHigher
  <2>2. Len(h) + 1 <= 2
    BY <1>3
  <2> QED BY <1>3, <1>6, <2>1, <2>2, FittingConcat
<1> DEFINE r == s \o h
<1>9. IsSeq(r) /\ Named(r) /\ Len(r) = 2 /\ Fitting(r, 8)
  <2>1. Fitting(s \o h, 8)
    BY <1>7, <1>8, FittingHigher
  <2> QED BY <1>7, <2>1
<1> HIDE DEF r
<1>10. IsSeq(e \o r) /\ Named(e \o r)
  BY <1>2, <1>9, NamedConcat
<1>11. Fitting(e \o r, 8)
  <2>1. Len(r) + 3 <= 8
    BY <1>9
  <2> QED BY <1>2, <1>9, <2>1, FittingConcat
<1>12. (e \o r) \o t = e \o s \o todo
  <2>1. IsSeq(e) /\ IsSeq(s) /\ IsSeq(h) /\ IsSeq(t)
    BY <1>2, <1>3, <1>4
  <2>2. e \o (s \o h) = (e \o s) \o h
    BY ONLY <2>1, ConcatAssoc
  <2>3. IsSeq(e \o s)
    BY ONLY <2>1, Concat
  <2>4. ((e \o s) \o h) \o t = (e \o s) \o (h \o t)
    BY ONLY <2>1, <2>3, ConcatAssoc
  <2> QED BY <1>5, <2>2, <2>4 DEF r
<1>13. Advance((e \o r) \o t)
  BY <1>12 DEF e, s
<1>14. Fitting(e \o r, Height(Head(todo).op) + 7)
  <2>1. Height("binary") = 1
    BY DEF Height, Item
  <2> QED BY <1>1, <1>11, <2>1
<1> QED BY <1>1, <1>10, <1>13, <1>14 DEF Grows, t

(* parse_expr_prec.                                                        *)
LEMMA ExprPrecGrows == IsSeq(todo) /\ parse_expr_prec => Grows
<1> SUFFICES ASSUME IsSeq(todo), parse_expr_prec PROVE Grows
  OBVIOUS
<1>1. CASE /\ At("binary") /\ tok \in Operator
           /\ Advance(Expr(RightLevel(Precedence[tok]))
                        \o <<[op |-> "combine", prec |-> Precedence[tok],
                              left |-> root]>>
                        \o todo)
  <2>1. tok # "EOF"
    BY <1>1 DEF Operator, Precedence
  <2> QED BY <1>1, <2>1, TakenGrows
<1>2. CASE (At("binary") \/ At("combine")) /\ Stay(Tail(todo))
  BY <1>2, UnexpectedGrows DEF At
<1> QED BY <1>1, <1>2 DEF parse_expr_prec

(* Every function grows the stack in this way.                             *)
LEMMA NextGrows == ParserInv /\ Next => Grows
<1> SUFFICES ASSUME ParserInv, Next PROVE Grows
  OBVIOUS
<1>1. IsSeq(todo)
  BY DEF ParserInv, Sound
<1>2. CASE \/ LoopTest \/ Again \/ expect_open_block \/ consume_close
           \/ parse_identifier \/ parse_top_level \/ parse_import
           \/ parse_entity_item \/ parse_typed_decl \/ skip_generics
           \/ parse_data
  BY <1>2, LoopTestGrows, AgainGrows, DemandsGrow, CloseGrows, TopLevelGrows,
     EntityItemGrows, TypedDeclGrows, SkipGenericsGrows
<1>3. CASE \/ parse_kind \/ parse_extern \/ parse_mock \/ parse_string_literal
           \/ parse_params \/ parse_returns \/ parse_stmt \/ parse_if_stmt
           \/ parse_loop_stmt \/ skip_to_open \/ parse_match_arm
  BY <1>3, KindGrows, DemandsGrow, MockGrows, StringLiteralGrows, ParamsGrows,
     StmtGrows, IfStmtGrows, LoopStmtGrows, SkipToOpenGrows, MatchArmGrows
<1>4. CASE \/ parse_expr \/ parse_expr_prec \/ parse_unary \/ parse_postfix
           \/ parse_primary \/ list_literal \/ parse_type
  BY <1>1, <1>4, ExprGrows, ExprPrecGrows, UnaryGrows, PostfixGrows,
     PrimaryGrows, ListLiteralGrows, TypeGrows
<1> QED BY <1>2, <1>3, <1>4 DEF Next

(* The stack of a text that begins.                                        *)
LEMMA InitStack == Init => StackInv
<1> SUFFICES ASSUME Init PROVE StackInv
  OBVIOUS
<1>1. /\ letters \in Alphabets /\ tok \in letters /\ fresh \in BOOLEAN
      /\ moved \in BOOLEAN /\ opened \in Nat
  BY DEF Init
<1>2. Fitting(todo, 5)
  <2>1. Height("program") = 5
    BY DEF Height, Item
  <2>2. Within(<<"program">>, 5)
    BY <2>1, WithinTuples
  <2> QED BY <2>2 DEF Within, Init
<1>3. IsSeq(todo)
  BY InitInv DEF ParserInv, Sound
<1>4. Limit \in Nat /\ 5 <= Limit
  BY ParserAssumption DEF Limit
<1>5. Fitting(todo, Limit)
  BY <1>2, <1>3, <1>4, FittingHigher
<1> QED BY <1>1, <1>5 DEF StackInv

(* The stack keeps to its limit, whatever the step.                        *)
LEMMA NextStack == ParserInv /\ StackInv /\ [Next]_vars => StackInv'
<1> SUFFICES ASSUME ParserInv, StackInv, [Next]_vars PROVE StackInv'
  OBVIOUS
<1>1. CASE Next
  BY <1>1, NextGrows, NextInv, GrowsTyped
<1>2. CASE UNCHANGED vars
  <2>1. /\ letters' = letters /\ tok' = tok /\ fresh' = fresh /\ todo' = todo
        /\ opened' = opened /\ moved' = moved
    BY <1>2 DEF vars
  <2>2. Limit' = Limit
    BY <2>1 DEF Limit
  <2> QED BY <2>1, <2>2 DEF StackInv
<1> QED BY <1>1, <1>2

(* What the variables are, whatever the text: the calls nest no deeper     *)
(* than the bound and what a call comes to before the text ends, and the   *)
(* parser is in as many blocks as the text has opened or more.             *)
THEOREM ParserTyped == Spec => []TypeOK
<1>1. ParserInv /\ StackInv => TypeOK
  <2> SUFFICES ASSUME ParserInv, StackInv PROVE TypeOK
    OBVIOUS
  <2>1. /\ letters \in Alphabets /\ tok \in letters
        /\ root \in 1 .. Atom /\ opened \in Nat
    BY DEF StackInv, ParserInv, Kinds
  <2>2. {fresh, errors, stray, moved} \subseteq BOOLEAN
    <3>1. /\ fresh \in BOOLEAN /\ errors \in BOOLEAN /\ stray \in BOOLEAN
          /\ moved \in BOOLEAN
      BY DEF StackInv, ParserInv, Kinds
    <3> QED BY ONLY <3>1, Zenon
  <2>3. Len(todo) <= MaxStack + 12
    <3>1. IsSeq(todo) /\ Fitting(todo, Limit) /\ MaxStack \in Nat
      BY ParserAssumption DEF ParserInv, Sound, StackInv
    <3>2. CASE todo = <<>>
      BY <3>1, <3>2, Len(<<>>) = 0
    <3>3. CASE todo # <<>>
      <4>1. Len(todo) \in Nat \ {0}
        BY <3>1, <3>3, TailOf
      <4>2. Len(todo) - 1 + Height(todo[1].op) <= Limit
        BY <3>1, <4>1 DEF Fitting
      <4>3. Limit <= MaxStack + 12 /\ Limit \in Nat
        BY <3>1 DEF Limit
      <4>4. Height(todo[1].op) \in 1 .. 6
        BY HeightRange
      <4> QED BY <3>1, <4>1, <4>2, <4>3, <4>4
    <3> QED BY <3>2, <3>3
  <2> QED BY <2>1, <2>2, <2>3 DEF TypeOK
<1> QED BY <1>1, InitInv, NextInv, InitStack, NextStack, PTL DEF Spec
=============================================================================
