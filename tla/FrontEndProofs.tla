--------------------------- MODULE FrontEndProofs ---------------------------
(***************************************************************************)
(* The two passes over any program: the names they know, the blocks that   *)
(* codegen makes and the annotations that it lowers, for any identifiers,  *)
(* game-native types and nesting.                                          *)
(***************************************************************************)
EXTENDS FrontEnd, Integers, FiniteSetTheorems, WellFoundedInduction, TLAPS

(* ---- Maxima and sequences. ---- *)
(* A set of naturals has a least element.                                  *)
LEMMA LeastOf ==
    ASSUME NEW T \in SUBSET Nat, T # {}
    PROVE  \E x \in T : \A y \in T : x <= y
<1> DEFINE R == OpToRel(<, Nat)
<1>1. IsWellFoundedOn(R, Nat)
  BY NatLessThanWellFounded
<1>2. \A x, y \in Nat : x < y => <<x, y>> \in R
  BY DEF OpToRel
<1> HIDE DEF R
<1>3. PICK x \in T : \A y \in T : ~ (<<y, x>> \in R)
  BY <1>1, WFMin
<1>4. \A y \in T : ~ (y < x) /\ y \in Nat /\ x \in Nat
  BY <1>2, <1>3
<1>5. \A y \in T : x <= y
  BY <1>4
<1> QED BY <1>5

(* A bounded one has a maximum.                                            *)
LEMMA MaxOf ==
    ASSUME NEW n \in Nat, NEW T \in SUBSET (0 .. n), T # {}
    PROVE  Max(T) \in T /\ \A y \in T : Max(T) >= y
<1> DEFINE U == {n - t : t \in T}
<1>1. \A t \in T : t \in Nat /\ n - t \in Nat /\ t = n - (n - t)
  OBVIOUS
<1>2. U \in SUBSET Nat /\ U # {}
  BY <1>1
<1>3. PICK u \in U : \A y \in U : u <= y
  <2> HIDE DEF U
  <2> QED BY <1>2, LeastOf
<1>4. PICK t \in T : u = n - t
  OBVIOUS
<1>5. \A y \in T : n - t <= n - y
  BY <1>3, <1>4
<1>6. \A y \in T : t >= y
  BY <1>1, <1>5
<1> QED BY <1>6 DEF Max

(* The last element of a sequence and what is before it.                   *)
LEMMA FrontOf ==
    ASSUME NEW S, NEW s \in Seq(S), s # <<>>
    PROVE  /\ Front(s) \in Seq(S) /\ Len(s) \in Nat \ {0}
           /\ Len(Front(s)) = Len(s) - 1 /\ Last(s) = s[Len(s)] /\ Last(s) \in S
           /\ \A i \in 1 .. Len(s) - 1 : Front(s)[i] = s[i]
<1> DEFINE n == Len(s) - 1
           f == [i \in 1 .. n |-> s[i]]
<1>1. n \in Nat /\ Len(s) \in Nat \ {0}
  OBVIOUS
<1>2. \A i \in 1 .. n : i \in 1 .. Len(s) /\ s[i] \in S
  BY <1>1
<1>3. Front(s) = f
  BY <1>1 DEF Front
<1>4. Last(s) = s[Len(s)] /\ Last(s) \in S
  BY DEF Last
<1> HIDE DEF n
<1>5. f \in Seq(S) /\ Len(f) = n
  BY <1>1, <1>2
<1> QED BY <1>1, <1>3, <1>4, <1>5 DEF n

(* One element more.                                                       *)
LEMMA AppendOf ==
    ASSUME NEW S, NEW s \in Seq(S), NEW x \in S
    PROVE  /\ Append(s, x) \in Seq(S) /\ Len(s) \in Nat
           /\ Len(Append(s, x)) = Len(s) + 1 /\ Append(s, x)[Len(s) + 1] = x
           /\ \A i \in 1 .. Len(s) : Append(s, x)[i] = s[i]
OBVIOUS

(* Every element.                                                          *)
LEMMA ElementOf ==
    ASSUME NEW S, NEW s \in Seq(S), NEW i \in 1 .. Len(s)
    PROVE  s[i] \in S
OBVIOUS

(* Its length does not depend on what the element is.                      *)
LEMMA LengthOf ==
    ASSUME NEW S, NEW s \in Seq(S), NEW x
    PROVE  Len(Append(s, x)) = Len(s) + 1
OBVIOUS

(* One element replaced.                                                   *)
LEMMA ExceptOf ==
    ASSUME NEW S, NEW s \in Seq(S), NEW k \in 1 .. Len(s), NEW x \in S
    PROVE  /\ [s EXCEPT ![k] = x] \in Seq(S) /\ Len([s EXCEPT ![k] = x]) = Len(s)
           /\ [s EXCEPT ![k] = x][k] = x
           /\ \A i \in 1 .. Len(s) : i # k => [s EXCEPT ![k] = x][i] = s[i]
OBVIOUS


(* Two or three elements more.                                             *)
LEMMA TwoBehind ==
    ASSUME NEW S, NEW s \in Seq(S), NEW x \in S, NEW y \in S
    PROVE  /\ s \o <<x, y>> \in Seq(S) /\ Len(s \o <<x, y>>) = Len(s) + 2
           /\ \A i \in 1 .. Len(s) : (s \o <<x, y>>)[i] = s[i]
           /\ (s \o <<x, y>>)[Len(s) + 1] = x /\ (s \o <<x, y>>)[Len(s) + 2] = y
           /\ s \o <<x, y>> \o <<>> = s \o <<x, y>>
<1>1. <<x, y>> \in Seq(S) /\ Len(<<x, y>>) = 2 /\ <<x, y>>[1] = x /\ <<x, y>>[2] = y
  OBVIOUS
<1>2. Len(s) \in Nat
  OBVIOUS
<1> DEFINE t == <<x, y>>
<1> HIDE DEF t
<1>3. /\ s \o t \in Seq(S) /\ Len(s \o t) = Len(s) + 2
      /\ \A i \in 1 .. Len(s) : (s \o t)[i] = s[i]
      /\ (s \o t)[Len(s) + 1] = t[1] /\ (s \o t)[Len(s) + 2] = t[2]
  BY <1>1, <1>2 DEF t
<1>4. s \o t \o <<>> = s \o t
  BY <1>3
<1> QED BY <1>1, <1>3, <1>4 DEF t

(* Three elements more, as an if with an else pushes its blocks.           *)
LEMMA ThreeBehind ==
    ASSUME NEW S, NEW s \in Seq(S), NEW x \in S, NEW y \in S, NEW z \in S
    PROVE  /\ s \o <<x, y>> \o <<z>> \in Seq(S)
           /\ Len(s \o <<x, y>> \o <<z>>) = Len(s) + 3
           /\ \A i \in 1 .. Len(s) : (s \o <<x, y>> \o <<z>>)[i] = s[i]
           /\ (s \o <<x, y>> \o <<z>>)[Len(s) + 1] = x
           /\ (s \o <<x, y>> \o <<z>>)[Len(s) + 2] = y
           /\ (s \o <<x, y>> \o <<z>>)[Len(s) + 3] = z
<1> DEFINE u == s \o <<x, y>>
<1>1. /\ u \in Seq(S) /\ Len(u) = Len(s) + 2 /\ Len(s) \in Nat
      /\ \A i \in 1 .. Len(s) : u[i] = s[i]
      /\ u[Len(s) + 1] = x /\ u[Len(s) + 2] = y
  BY TwoBehind
<1> HIDE DEF u
<1>2. u \o <<z>> = Append(u, z)
  BY <1>1
<1>3. /\ Append(u, z) \in Seq(S) /\ Len(Append(u, z)) = Len(u) + 1
      /\ Append(u, z)[Len(u) + 1] = z
      /\ \A i \in 1 .. Len(u) : Append(u, z)[i] = u[i]
  BY <1>1, AppendOf
<1>4. /\ Len(s) + 1 \in 1 .. Len(u) /\ Len(s) + 2 \in 1 .. Len(u)
      /\ \A i \in 1 .. Len(s) : i \in 1 .. Len(u)
      /\ Len(u) + 1 = Len(s) + 3
  BY <1>1
<1>5. u \o <<z>> \in Seq(S) /\ Len(u \o <<z>>) = Len(s) + 3
  BY <1>2, <1>3, <1>4
<1>6. /\ \A i \in 1 .. Len(s) : (u \o <<z>>)[i] = s[i]
      /\ (u \o <<z>>)[Len(s) + 1] = x
      /\ (u \o <<z>>)[Len(s) + 2] = y
      /\ (u \o <<z>>)[Len(s) + 3] = z
  BY <1>1, <1>2, <1>3, <1>4
<1> QED BY <1>5, <1>6 DEF u

(* Two, and under a condition a third.                                     *)
LEMMA MoreBehind ==
    ASSUME NEW S, NEW s \in Seq(S), NEW x \in S, NEW y \in S, NEW more \in {2, 3},
           NEW t, t = s \o <<x, y>> \o (IF more = 3 THEN <<x>> ELSE <<>>)
    PROVE  /\ t \in Seq(S) /\ Len(t) = Len(s) + more
           /\ \A i \in 1 .. Len(s) : t[i] = s[i]
           /\ t[Len(s) + 1] = x /\ t[Len(s) + 2] = y
           /\ more = 3 => t[Len(s) + 3] = x
<1>1. CASE more = 3
  <2>1. t = s \o <<x, y>> \o <<x>>
    BY <1>1
  <2>2. /\ s \o <<x, y>> \o <<x>> \in Seq(S)
        /\ Len(s \o <<x, y>> \o <<x>>) = Len(s) + 3
        /\ \A i \in 1 .. Len(s) : (s \o <<x, y>> \o <<x>>)[i] = s[i]
        /\ (s \o <<x, y>> \o <<x>>)[Len(s) + 1] = x
        /\ (s \o <<x, y>> \o <<x>>)[Len(s) + 2] = y
        /\ (s \o <<x, y>> \o <<x>>)[Len(s) + 3] = x
    BY ThreeBehind
  <2>3. t \in Seq(S) /\ Len(t) = Len(s) + 3 /\ t[Len(s) + 1] = x
        /\ t[Len(s) + 2] = y /\ t[Len(s) + 3] = x
        /\ \A i \in 1 .. Len(s) : t[i] = s[i]
    BY ONLY <2>1, <2>2, Zenon
  <2> QED BY ONLY <1>1, <2>3
<1>2. CASE more = 2
  <2>1. t = s \o <<x, y>> \o <<>>
    BY <1>2
  <2>2. /\ s \o <<x, y>> \in Seq(S) /\ Len(s \o <<x, y>>) = Len(s) + 2
        /\ \A i \in 1 .. Len(s) : (s \o <<x, y>>)[i] = s[i]
        /\ (s \o <<x, y>>)[Len(s) + 1] = x
        /\ (s \o <<x, y>>)[Len(s) + 2] = y
        /\ s \o <<x, y>> \o <<>> = s \o <<x, y>>
    BY TwoBehind
  <2>3. t \in Seq(S) /\ Len(t) = Len(s) + 2 /\ t[Len(s) + 1] = x
        /\ t[Len(s) + 2] = y /\ \A i \in 1 .. Len(s) : t[i] = s[i]
    BY ONLY <2>1, <2>2, Zenon
  <2> QED BY ONLY <1>2, <2>3
<1> QED BY <1>1, <1>2
(* ---- The scopes of the two passes. ---- *)
InFunction == stage \in {"signature", "body"}

(* How many scopes there are around the body: the global one, and that of  *)
(* the entity.                                                             *)
Base ==
    IF stage \in {"top", "extern", "end"} THEN 1
    ELSE IF stage = "entity" THEN 2
    ELSE IF item = "fn" THEN 1 ELSE 2

(* A body of codegen has the locals the typechecker has in its scope, but  *)
(* the outermost one lacks the parameters that the LLVM function lacks.    *)
(* That of a method or an event handler has self besides.                  *)
Known(n, i) ==
    scopes[Base + i][n] = "Local" \/ (i = 1 /\ Base = 2 /\ n = Self)

Alike(n, i) ==
    /\ scopes[Base + i][n] \in {"Local", None}
    /\ n \in locals[i] => Known(n, i)
    /\ i # 1 \/ signature = "full" => (Known(n, i) => n \in locals[i])

(* Every open body has a scope in each pass, and they are alike; no local  *)
(* is in a scope around the body, and every function of the global one is  *)
(* declared.                                                               *)
ScopesAgree ==
    /\ Len(scopes) = Base + Len(locals)
    /\ Len(locals) = IF InFunction THEN Len(frames) + 1 ELSE 0
    /\ \A n \in Name :
         /\ scopes[1][n] \in {"Entity", "Function", None}
         /\ scopes[1][n] = "Function" => n \in functions
         /\ Base = 2 => scopes[2][n] \in {"Property", None}
         /\ \A i \in 1 .. Len(locals) : Alike(n, i)

(* ---- The blocks of a function. ---- *)
BlockType ==
    [shape : {"open", "closed", "tail", "twice"}, first : {None, "br", "ret"},
     join : BOOLEAN, nested : BOOLEAN]
FrameType ==
    [kind : Construct, own : Nat \cup {None}, join : Nat \cup {None}]

Types ==
    /\ stage \in {"top", "entity", "signature", "body", "finished",
                  "extern", "end"}
    /\ item \in {"fn", "member", None}
    /\ errors \in BOOLEAN /\ functions \subseteq Name
    /\ signature \in {"full", "short", "spent"}
    /\ scopes \in Seq([Name -> SymbolKind \cup {None}])
    /\ locals \in Seq(SUBSET Name)
    /\ blocks \in Seq(BlockType) /\ Len(blocks) <= MaxBlocks
    /\ frames \in Seq(FrameType) /\ Len(frames) <= MaxNesting
    /\ cur \in 0 .. Len(blocks)
    /\ InFunction \/ stage = "finished" => cur # 0
    /\ ~InFunction => frames = <<>>
    /\ stage = "signature" => frames = <<>>

(* The block the body of a construct began in, and those it will go on in  *)
(* and has not touched yet.                                                *)
Began(f) == IF f.kind = "plain" THEN {} ELSE {f.own}
Ahead(f) ==
    IF f.kind = "plain" THEN {}
    ELSE IF f.kind = "if" THEN {f.join, f.join + 1} ELSE {f.join}

Untouched(b) == b.shape = "open" /\ b.first = None

(* The block each body began in and those ahead of it are there and are    *)
(* different blocks, and nobody has written in those ahead.                *)
FramesApart ==
    \A i \in 1 .. Len(frames) :
      /\ Began(frames[i]) \subseteq 1 .. Len(blocks)
      /\ \A b \in Ahead(frames[i]) :
           /\ b \in 1 .. Len(blocks) /\ Untouched(blocks[b]) /\ b # cur
           /\ \A j \in 1 .. Len(frames) :
                /\ b \notin Began(frames[j])
                /\ b \in Ahead(frames[j]) => i = j

(* A join knows whether it is inside another branching construct.          *)
BranchingAbove(k) == \E i \in 1 .. k : frames[i].kind \in Branching

JoinsNested ==
    \A i \in 1 .. Len(frames) : frames[i].kind \in Branching =>
      /\ blocks[frames[i].join].join
      /\ BranchingAbove(i - 1) => blocks[frames[i].join].nested

(* A block has a terminator, or will get one: it is where the builder      *)
(* stands, where an open body began, or still ahead; or it is a nested     *)
(* join, whom nobody closes.                                               *)
OpenJoin(b) == b.join /\ b.nested
Accounted(k) ==
    \/ get_terminator(blocks[k]) \/ OpenJoin(blocks[k]) \/ k = cur
    \/ \E i \in 1 .. Len(frames) : k \in Began(frames[i]) \cup Ahead(frames[i])

BlocksAccounted ==
    /\ InFunction => \A k \in 1 .. Len(blocks) : Accounted(k)
    /\ InFunction /\ BranchingAbove(Len(frames)) =>
         \/ OpenJoin(blocks[cur])
         \/ \E i \in 1 .. Len(frames) : cur \in Began(frames[i])

(* A block that is written to has no branch in it: a branch leaves it.     *)
Written(b) ==
    /\ b.shape = "open" <=> b.first = None
    /\ b.shape \in {"tail", "twice"} => b.first = "ret"

BranchesLeave ==
    /\ \A k \in 1 .. Len(blocks) : Written(blocks[k])
    /\ InFunction => blocks[cur].first # "br"

FrontEndInv ==
    /\ Types /\ ScopesAgree /\ FramesApart /\ JoinsNested /\ BlocksAccounted
    /\ BranchesLeave /\ OnlyNestedJoinsOpen
    /\ reached \subseteq Position

(* ---- Scopes. ---- *)
(* Both passes leave the scopes as they are.                               *)
LEMMA ScopesQuiet ==
    ASSUME ScopesAgree, UNCHANGED <<scopes, locals, functions>>,
           Len(frames)' = Len(frames), Base' = Base, InFunction' = InFunction,
           signature' = signature \/ ~InFunction
    PROVE  ScopesAgree'
<1>1. ~InFunction => 1 .. Len(locals) = {}
  BY DEF ScopesAgree
<1> QED BY <1>1 DEF ScopesAgree, Alike, Known

(* The verdict on a name is not no verdict.                                *)
LEMMA LocalIsSymbol == None # "Local"
BY TypecheckerAssumption DEF SymbolKind

(* Both passes define a local in the innermost scope.                      *)
LEMMA ScopesDeclare ==
    ASSUME Types, ScopesAgree, InFunction, NEW n \in Name,
           scopes' = define(scopes, n, "Local"),
           \/ locals' = [locals EXCEPT ![Len(locals)] = @ \cup {n}]
           \/ locals' = locals /\ signature' # "full" /\ frames = <<>>,
           signature' = "full" => signature = "full",
           UNCHANGED <<functions, frames, stage, item>>
    PROVE  ScopesAgree'
<1> DEFINE top == Len(scopes)
           last == Len(locals)
<1>1. /\ scopes \in Seq([Name -> SymbolKind \cup {None}])
      /\ locals \in Seq(SUBSET Name) /\ frames \in Seq(FrameType)
      /\ top \in Nat /\ last \in Nat /\ Len(frames) \in Nat
  BY DEF Types
<1>2. /\ top = Base + last /\ last = Len(frames) + 1 /\ Base \in {1, 2}
      /\ last \in 1 .. last /\ top \in 1 .. top
      /\ 1 \in 1 .. top /\ 1 # top
      /\ Base = 2 => 2 \in 1 .. top /\ 2 # top
  BY <1>1 DEF ScopesAgree, Base
<1>3. /\ Base' = Base /\ InFunction' /\ Len(frames)' = Len(frames)
  BY DEF Base, InFunction
<1>4. /\ Len(scopes)' = top
      /\ \A i \in 1 .. top : i # top => scopes'[i] = scopes[i]
      /\ \A m \in Name : scopes'[top][m] = IF m = n THEN "Local" ELSE scopes[top][m]
  <2>1. scopes[top] \in [Name -> SymbolKind \cup {None}]
    BY <1>1, <1>2
  <2> QED BY <1>1, <1>2, <2>1 DEF define
<1>5. /\ Len(locals)' = last
      /\ \A i \in 1 .. last : i # last => locals'[i] = locals[i]
      /\ \/ locals'[last] = locals[last] \cup {n}
         \/ locals'[last] = locals[last] /\ signature' # "full" /\ last = 1
  BY <1>1, <1>2
<1> HIDE DEF top, last
<1>6. \A m \in Name :
        /\ scopes'[1][m] = scopes[1][m]
        /\ Base = 2 => scopes'[2][m] = scopes[2][m]
  BY <1>1, <1>2, <1>4
<1>7. ASSUME NEW m \in Name, NEW i \in 1 .. last
      PROVE  Alike(m, i)'
  <2>1. Alike(m, i)
    BY DEF ScopesAgree, last
  <2>2. CASE i = last
    BY <1>2, <1>3, <1>4, <1>5, <2>1, <2>2 DEF Alike, Known
  <2>3. CASE i # last
    <3>1. Base + i \in 1 .. top /\ Base + i # top
      BY <1>1, <1>2, <2>3
    <3> QED BY <1>3, <1>4, <1>5, <2>1, <2>3, <3>1 DEF Alike, Known
  <2> QED BY <2>2, <2>3
<1>8. /\ Len(scopes)' = Base' + Len(locals)'
      /\ Len(locals)' = Len(frames)' + 1
  BY <1>2, <1>3, <1>4, <1>5
<1> QED BY <1>3, <1>5, <1>6, <1>7, <1>8 DEF ScopesAgree

(* Both passes open a scope.                                               *)
LEMMA ScopesOpen ==
    ASSUME Types, ScopesAgree, InFunction, scopes' = push_scope(scopes),
           locals' = Append(locals, {}), Len(frames)' = Len(frames) + 1,
           UNCHANGED <<functions, signature, stage, item>>
    PROVE  ScopesAgree'
<1> DEFINE top == Len(scopes)
           last == Len(locals)
<1>1. /\ scopes \in Seq([Name -> SymbolKind \cup {None}])
      /\ locals \in Seq(SUBSET Name) /\ frames \in Seq(FrameType)
      /\ top \in Nat /\ last \in Nat /\ Len(frames) \in Nat
  BY DEF Types
<1>2. /\ top = Base + last /\ last = Len(frames) + 1 /\ Base \in {1, 2}
  BY <1>1 DEF ScopesAgree, Base
<1>3. Base' = Base /\ InFunction'
  BY DEF Base, InFunction
<1>4. /\ Len(scopes)' = top + 1
      /\ \A i \in 1 .. top : scopes'[i] = scopes[i]
      /\ \A m \in Name : scopes'[top + 1][m] = None
  <2>1. /\ NoSymbols \in [Name -> SymbolKind \cup {None}]
        /\ \A m \in Name : NoSymbols[m] = None
    BY DEF NoSymbols
  <2> QED BY <1>1, <2>1, AppendOf DEF push_scope
<1>5. /\ Len(locals)' = last + 1
      /\ \A i \in 1 .. last : locals'[i] = locals[i]
      /\ locals'[last + 1] = {}
  <2>1. {} \in SUBSET Name
    OBVIOUS
  <2> QED BY <1>1, <2>1, AppendOf
<1> HIDE DEF top, last
<1>6. \A m \in Name :
        /\ scopes'[1][m] = scopes[1][m]
        /\ Base = 2 => scopes'[2][m] = scopes[2][m]
  <2>1. 1 \in 1 .. top /\ (Base = 2 => 2 \in 1 .. top)
    BY ONLY <1>1, <1>2
  <2>2. scopes'[1] = scopes[1] /\ (Base = 2 => scopes'[2] = scopes[2])
    BY ONLY <1>4, <2>1
  <2> QED BY ONLY <2>2, Zenon
<1>7. ASSUME NEW m \in Name, NEW i \in 1 .. last + 1
      PROVE  Alike(m, i)'
  <2>1. CASE i = last + 1
    <3>1. Base + i = top + 1 /\ i # 1
      BY <1>1, <1>2, <2>1
    <3> QED BY <1>3, <1>4, <1>5, <2>1, <3>1, LocalIsSymbol DEF Alike, Known
  <2>2. CASE i # last + 1
    <3>1. i \in 1 .. last /\ Base + i \in 1 .. top
      BY <1>1, <1>2, <2>2
    <3>2. Alike(m, i)
      BY <3>1 DEF ScopesAgree, last
    <3> QED BY <1>3, <1>4, <1>5, <3>1, <3>2 DEF Alike, Known
  <2> QED BY <2>1, <2>2
<1>8. /\ Len(scopes)' = Base' + Len(locals)'
      /\ Len(locals)' = Len(frames)' + 1
  BY <1>1, <1>2, <1>3, <1>4, <1>5
<1> QED BY <1>3, <1>5, <1>6, <1>7, <1>8 DEF ScopesAgree

(* Both passes close a scope, the last one of the function among them.     *)
LEMMA ScopesClose ==
    ASSUME Types, ScopesAgree, InFunction, scopes' = pop_scope(scopes),
           locals' = Front(locals), Base' = Base, functions' = functions,
           signature' = signature,
           Len(locals)' = IF InFunction' THEN Len(frames)' + 1 ELSE 0
    PROVE  ScopesAgree'
<1> DEFINE top == Len(scopes)
           last == Len(locals)
<1>1. /\ scopes \in Seq([Name -> SymbolKind \cup {None}])
      /\ locals \in Seq(SUBSET Name) /\ frames \in Seq(FrameType)
      /\ top \in Nat /\ last \in Nat /\ Len(frames) \in Nat
  BY DEF Types
<1>2. /\ top = Base + last /\ last = Len(frames) + 1 /\ Base \in {1, 2}
      /\ top > 1 /\ scopes # <<>> /\ locals # <<>>
      /\ 1 \in 1 .. top - 1 /\ Base = 2 => 2 \in 1 .. top - 1
  BY <1>1 DEF ScopesAgree, Base
<1>3. /\ Len(scopes)' = top - 1
      /\ \A i \in 1 .. top - 1 : scopes'[i] = scopes[i]
  BY <1>1, <1>2, FrontOf DEF pop_scope
<1>4. /\ Len(locals)' = last - 1
      /\ \A i \in 1 .. last - 1 : locals'[i] = locals[i]
  BY <1>1, <1>2, FrontOf
<1> HIDE DEF top, last
<1>5. \A m \in Name :
        /\ scopes'[1][m] = scopes[1][m]
        /\ Base = 2 => scopes'[2][m] = scopes[2][m]
  BY <1>1, <1>2, <1>3
<1>6. ASSUME NEW m \in Name, NEW i \in 1 .. last - 1
      PROVE  Alike(m, i)'
  <2>1. i \in 1 .. last /\ Base + i \in 1 .. top - 1
    BY <1>1, <1>2
  <2>2. Alike(m, i)
    BY <2>1 DEF ScopesAgree, last
  <2> QED BY <1>3, <1>4, <2>1, <2>2 DEF Alike, Known
<1>7. Len(scopes)' = Base' + Len(locals)'
  BY <1>1, <1>2, <1>3, <1>4
<1> QED BY <1>4, <1>5, <1>6, <1>7 DEF ScopesAgree

(* Both passes close a scope and open one: the else body.                  *)
LEMMA ScopesNext ==
    ASSUME Types, ScopesAgree, InFunction,
           scopes' = push_scope(pop_scope(scopes)),
           locals' = Append(Front(locals), {}), Len(frames)' = Len(frames),
           frames # <<>>, UNCHANGED <<functions, signature, stage, item>>
    PROVE  ScopesAgree'
<1> DEFINE top == Len(scopes)
           last == Len(locals)
<1>1. /\ scopes \in Seq([Name -> SymbolKind \cup {None}])
      /\ locals \in Seq(SUBSET Name) /\ frames \in Seq(FrameType)
      /\ top \in Nat /\ last \in Nat /\ Len(frames) \in Nat /\ Len(frames) # 0
  BY DEF Types
<1>2. /\ top = Base + last /\ last = Len(frames) + 1 /\ Base \in {1, 2}
      /\ top > 1 /\ scopes # <<>> /\ locals # <<>>
      /\ 1 \in 1 .. top - 1 /\ Base = 2 => 2 \in 1 .. top - 1
  BY <1>1 DEF ScopesAgree, Base
<1>3. /\ Len(scopes)' = top /\ \A i \in 1 .. top - 1 : scopes'[i] = scopes[i]
      /\ \A m \in Name : scopes'[top][m] = None
  <2>1. /\ NoSymbols \in [Name -> SymbolKind \cup {None}]
        /\ \A m \in Name : NoSymbols[m] = None
    BY DEF NoSymbols
  <2>2. /\ Front(scopes) \in Seq([Name -> SymbolKind \cup {None}])
        /\ Len(Front(scopes)) = top - 1
        /\ \A i \in 1 .. top - 1 : Front(scopes)[i] = scopes[i]
    BY <1>1, <1>2, FrontOf
  <2>3. scopes' = Append(Front(scopes), NoSymbols)
    BY <1>2 DEF push_scope, pop_scope
  <2> HIDE DEF top
  <2>4. /\ Len(scopes)' = (top - 1) + 1 /\ scopes'[(top - 1) + 1] = NoSymbols
        /\ \A i \in 1 .. top - 1 : scopes'[i] = Front(scopes)[i]
    BY <2>1, <2>2, <2>3, AppendOf
  <2>5. (top - 1) + 1 = top
    BY <1>1
  <2> QED BY <2>1, <2>2, <2>4, <2>5
<1>4. /\ Len(locals)' = last /\ \A i \in 1 .. last - 1 : locals'[i] = locals[i]
      /\ locals'[last] = {}
  <2>1. {} \in SUBSET Name
    OBVIOUS
  <2>2. /\ Front(locals) \in Seq(SUBSET Name) /\ Len(Front(locals)) = last - 1
        /\ \A i \in 1 .. last - 1 : Front(locals)[i] = locals[i]
    BY <1>1, <1>2, FrontOf
  <2> HIDE DEF last
  <2>3. /\ Len(locals)' = (last - 1) + 1 /\ locals'[(last - 1) + 1] = {}
        /\ \A i \in 1 .. last - 1 : locals'[i] = Front(locals)[i]
    BY <2>1, <2>2, AppendOf
  <2>4. (last - 1) + 1 = last
    BY <1>1
  <2> QED BY <2>2, <2>3, <2>4
<1>5. Base' = Base /\ InFunction'
  BY DEF Base, InFunction
<1> HIDE DEF top, last
<1>6. \A m \in Name :
        /\ scopes'[1][m] = scopes[1][m]
        /\ Base = 2 => scopes'[2][m] = scopes[2][m]
  BY <1>1, <1>2, <1>3
<1>7. ASSUME NEW m \in Name, NEW i \in 1 .. last
      PROVE  Alike(m, i)'
  <2>1. CASE i = last
    <3>1. i # 1
      BY <1>1, <1>2, <2>1
    <3> QED BY <1>2, <1>3, <1>4, <1>5, <2>1, <3>1, LocalIsSymbol DEF Alike, Known
  <2>2. CASE i # last
    <3>1. i \in 1 .. last /\ i \in 1 .. last - 1 /\ Base + i \in 1 .. top - 1
      BY <1>1, <1>2, <2>2
    <3>2. Alike(m, i)
      BY <3>1 DEF ScopesAgree, last
    <3> QED BY <1>3, <1>4, <1>5, <3>1, <3>2 DEF Alike, Known
  <2> QED BY <2>1, <2>2
<1>8. /\ Len(scopes)' = Base' + Len(locals)'
      /\ Len(locals)' = Len(frames)' + 1
  BY <1>2, <1>3, <1>4, <1>5
<1> QED BY <1>4, <1>5, <1>6, <1>7, <1>8 DEF ScopesAgree

(* Outside of functions: there are no locals, and one or two scopes.       *)
LEMMA ScopesOutside ==
    ASSUME Types, ScopesAgree, ~InFunction
    PROVE  /\ locals = <<>> /\ Len(scopes) = Base
           /\ scopes \in Seq([Name -> SymbolKind \cup {None}])
<1>1. Len(locals) = 0 /\ locals \in Seq(SUBSET Name) /\ Len(scopes) \in Nat
  BY DEF ScopesAgree, Types
<1>2. locals = <<>>
  BY <1>1
<1> QED BY <1>1, <1>2 DEF ScopesAgree, Types, Base

(* The scope of an entity is opened.                                       *)
LEMMA ScopesEntity ==
    ASSUME Types, ScopesAgree, Entity
    PROVE  ScopesAgree'
<1>1. /\ stage = "top" /\ stage' = "entity" /\ scopes' = push_scope(scopes)
      /\ locals' = locals /\ functions' = functions
  BY DEF Entity, At, Goto, check_open, functionVars
<1>2. /\ ~InFunction /\ ~InFunction' /\ Base = 1 /\ Base' = 2
  BY <1>1 DEF InFunction, Base
<1>3. /\ locals = <<>> /\ Len(scopes) = 1 /\ Len(locals') = 0
      /\ scopes \in Seq([Name -> SymbolKind \cup {None}])
  BY <1>1, <1>2, ScopesOutside
<1>4. /\ NoSymbols \in [Name -> SymbolKind \cup {None}]
      /\ \A m \in Name : NoSymbols[m] = None
  BY DEF NoSymbols
<1>5. /\ Len(scopes') = 2 /\ scopes'[1] = scopes[1] /\ scopes'[2] = NoSymbols
  <2>1. scopes' = Append(scopes, NoSymbols)
    BY <1>1 DEF push_scope
  <2>2. /\ Len(scopes') = Len(scopes) + 1
        /\ scopes'[Len(scopes) + 1] = NoSymbols
        /\ \A i \in 1 .. Len(scopes) : scopes'[i] = scopes[i]
    <3>1. scopes \in Seq([Name -> SymbolKind \cup {None}])
      BY <1>3
    <3> QED BY <1>4, <2>1, <3>1, AppendOf
  <2>3. Len(scopes) + 1 = 2 /\ 1 \in 1 .. Len(scopes)
    BY <1>3
  <2> QED BY <2>2, <2>3
<1> QED BY <1>1, <1>2, <1>3, <1>4, <1>5 DEF ScopesAgree

(* A property is defined in it.                                            *)
LEMMA ScopesProperty ==
    ASSUME Types, ScopesAgree, NEW n \in Name, NEW t, Property(n, t)
    PROVE  ScopesAgree'
<1>1. /\ stage = "entity" /\ stage' = stage /\ item' = item
      /\ scopes' = define(scopes, n, "Property")
      /\ locals' = locals /\ functions' = functions
  BY DEF Property, At, check_declaration, functionVars
<1>2. /\ ~InFunction /\ ~InFunction' /\ Base = 2 /\ Base' = 2
  BY <1>1 DEF InFunction, Base
<1>3. /\ locals = <<>> /\ Len(scopes) = 2 /\ Len(locals') = 0
      /\ scopes \in Seq([Name -> SymbolKind \cup {None}])
  BY <1>1, <1>2, ScopesOutside
<1>4. /\ Len(scopes') = 2 /\ scopes'[1] = scopes[1]
      /\ \A m \in Name : scopes'[2][m] = IF m = n THEN "Property" ELSE scopes[2][m]
  <2>1. 2 \in 1 .. Len(scopes) /\ 1 \in 1 .. Len(scopes)
    BY <1>3
  <2>2. scopes[2] \in [Name -> SymbolKind \cup {None}]
    <3>1. scopes \in Seq([Name -> SymbolKind \cup {None}])
      BY <1>3
    <3> QED BY <2>1, <3>1, ElementOf
  <2>3. scopes' = [scopes EXCEPT ![2][n] = "Property"]
    BY <1>1, <1>3 DEF define
  <2> QED BY <1>3, <2>1, <2>2, <2>3
<1> QED BY <1>1, <1>2, <1>3, <1>4 DEF ScopesAgree

(* It is closed.                                                           *)
LEMMA ScopesEndEntity ==
    ASSUME Types, ScopesAgree, EndEntity
    PROVE  ScopesAgree'
<1>1. /\ stage = "entity" /\ stage' = "top" /\ scopes' = pop_scope(scopes)
      /\ locals' = locals /\ functions' = functions
  BY DEF EndEntity, At, Goto, check_close, functionVars
<1>2. /\ ~InFunction /\ ~InFunction' /\ Base = 2 /\ Base' = 1
  BY <1>1 DEF InFunction, Base
<1>3. /\ locals = <<>> /\ Len(scopes) = 2 /\ Len(locals') = 0
      /\ scopes \in Seq([Name -> SymbolKind \cup {None}])
  BY <1>1, <1>2, ScopesOutside
<1>4. Len(scopes') = 1 /\ scopes'[1] = scopes[1]
  <2>1. scopes # <<>> /\ scopes' = Front(scopes)
    BY <1>1, <1>3 DEF pop_scope
  <2>2. /\ Len(Front(scopes)) = Len(scopes) - 1
        /\ \A i \in 1 .. Len(scopes) - 1 : Front(scopes)[i] = scopes[i]
    BY <1>3, <2>1, FrontOf
  <2>3. Len(scopes) - 1 = 1 /\ 1 \in 1 .. 1
    BY <1>3
  <2> QED BY <2>1, <2>2, <2>3
<1> QED BY <1>1, <1>2, <1>3, <1>4 DEF ScopesAgree

(* A function, a method or an event handler begins.                        *)
LEMMA ScopesHead ==
    ASSUME Types, ScopesAgree, stage \in {"top", "entity"},
           stage' = "signature", item' = IF stage = "top" THEN "fn" ELSE "member",
           scopes' = push_scope(scopes), functions' = functions,
           frames' = <<>>,
           locals' = <<IF stage = "entity" /\ signature' # "spent"
                       THEN {Self} ELSE {}>>
    PROVE  ScopesAgree'
<1>1. /\ Len(locals') = 1 /\ Len(frames') = 0
      /\ locals'[1] =
           IF stage = "entity" /\ signature' # "spent" THEN {Self} ELSE {}
  OBVIOUS
<1>2. /\ ~InFunction /\ InFunction' /\ Base' = Base /\ Base \in {1, 2}
      /\ stage = "entity" <=> Base = 2
  BY DEF InFunction, Base
<1>3. Len(scopes) = Base /\ scopes \in Seq([Name -> SymbolKind \cup {None}])
  BY <1>2, ScopesOutside
<1>4. /\ NoSymbols \in [Name -> SymbolKind \cup {None}]
      /\ \A m \in Name : NoSymbols[m] = None
  BY DEF NoSymbols
<1>5. /\ Len(scopes') = Base + 1 /\ scopes'[Base + 1] = NoSymbols
      /\ \A i \in 1 .. Base : scopes'[i] = scopes[i]
  BY <1>3, <1>4, AppendOf DEF push_scope
<1>6. scopes'[1] = scopes[1] /\ (Base = 2 => scopes'[2] = scopes[2])
  BY <1>2, <1>5
<1>7. \A i \in 1 .. 1 : i = 1
  OBVIOUS
<1>8. \A m \in Name : Alike(m, 1)'
  BY <1>1, <1>2, <1>4, <1>5, LocalIsSymbol DEF Alike, Known
<1> QED BY <1>1, <1>2, <1>5, <1>6, <1>7, <1>8 DEF ScopesAgree

(* Every step keeps the scopes of the passes in agreement.                 *)
LEMMA ScopesNextStep ==
    ASSUME Types, ScopesAgree, Next
    PROVE  ScopesAgree'
<1>1. CASE Entity
  BY <1>1, ScopesEntity
<1>2. CASE EndEntity
  BY <1>2, ScopesEndEntity
<1>3. CASE When
  <2>1. /\ stage = "entity" /\ stage' = "signature" /\ item' = "member"
        /\ scopes' = push_scope(scopes) /\ functions' = functions
        /\ frames' = <<>> /\ locals' = <<IF signature' # "spent" THEN {Self} ELSE {}>>
    BY <1>3 DEF When, At, check_open, compile_fn_entry
  <2> QED BY <2>1, ScopesHead
<1>4. CASE Body
  BY <1>4, ScopesQuiet
     DEF Body, At, Goto, functionVars, Base, InFunction
<1>5. CASE EndFunction
  <2>1. /\ stage = "body" /\ stage' = "finished" /\ item' = item
        /\ frames = <<>> /\ scopes' = pop_scope(scopes)
        /\ locals' = Front(locals) /\ UNCHANGED <<functions, signature>>
    BY <1>5 DEF EndFunction, At, Goto, check_close, PopLocals, compile_fn_exit
  <2>2. InFunction /\ ~InFunction' /\ Base' = Base
    BY <2>1 DEF InFunction, Base
  <2>3. Len(locals) = 1 /\ locals \in Seq(SUBSET Name) /\ locals # <<>>
    <3>1. Len(frames) = 0 /\ locals \in Seq(SUBSET Name)
      BY <2>1 DEF Types
    <3>2. Len(locals) = Len(frames) + 1
      BY <2>2 DEF ScopesAgree
    <3> QED BY <3>1, <3>2
  <2>4. Len(Front(locals)) = 1 - 1
    BY <2>3, FrontOf
  <2>5. Len(locals)' = 0
    BY <2>1, <2>4
  <2> QED BY <2>1, <2>2, <2>5, ScopesClose
<1>6. CASE NextItem
  BY <1>6, ScopesQuiet DEF NextItem, At, Base, InFunction
<1>7. CASE Return
  BY <1>7, ScopesQuiet
     DEF Return, InBody, At, compile_return, Base, InFunction
<1>8. CASE Else
  <2>1. /\ stage = "body" /\ stage' = stage /\ item' = item /\ frames # <<>>
        /\ scopes' = push_scope(pop_scope(scopes))
        /\ locals' = Append(Front(locals), {})
        /\ UNCHANGED <<functions, signature>>
    BY <1>8 DEF Else, InBody, At, check_next, compile_else
  <2>2. PICK f : frames' = Append(Front(frames), f)
    BY <1>8 DEF Else, compile_else
  <2>3. /\ Front(frames) \in Seq(FrameType)
        /\ Len(Front(frames)) = Len(frames) - 1 /\ Len(frames) \in Nat
    BY <2>1, FrontOf DEF Types
  <2>4. Len(frames)' = Len(frames)
    BY <2>2, <2>3, LengthOf
  <2> QED BY <2>1, <2>4, ScopesNext DEF InFunction
<1>9. ASSUME NEW f, Push(f), scopes' = push_scope(scopes), InBody,
             UNCHANGED <<functions, signature>>
      PROVE  ScopesAgree'
  <2>1. /\ stage = "body" /\ stage' = stage /\ item' = item
        /\ frames' = Append(frames, f) /\ locals' = Append(locals, {})
    BY <1>9 DEF InBody, At, Push
  <2>2. Len(frames)' = Len(frames) + 1
    BY <2>1, LengthOf DEF Types
  <2> QED BY <1>9, <2>1, <2>2, ScopesOpen DEF InFunction
<1>10. CASE Loop
  BY <1>9, <1>10 DEF Loop, check_open, compile_loop
<1>11. CASE Plain
  BY <1>9, <1>11 DEF Plain, check_open, compile_plain
<1>12. ASSUME NEW else_ \in BOOLEAN, If(else_)
       PROVE  ScopesAgree'
  BY <1>9, <1>12 DEF If, check_open, compile_if
<1>13. CASE Close
  <2>1. /\ stage = "body" /\ stage' = stage /\ item' = item /\ frames # <<>>
        /\ scopes' = pop_scope(scopes) /\ locals' = Front(locals)
        /\ frames' = Front(frames) /\ UNCHANGED <<functions, signature>>
    BY <1>13 DEF Close, InBody, At, check_close, PopLocals, compile_close
  <2>2. InFunction /\ InFunction' /\ Base' = Base
    BY <2>1 DEF InFunction, Base
  <2>3. /\ Len(frames)' = Len(frames) - 1 /\ Len(frames) \in Nat
        /\ Len(locals) = Len(frames) + 1 /\ locals \in Seq(SUBSET Name)
    BY <2>1, <2>2, FrontOf DEF Types, ScopesAgree
  <2>4. locals # <<>>
    BY <2>3
  <2>5. Len(locals)' = Len(locals) - 1
    BY <2>1, <2>3, <2>4, FrontOf
  <2>6. Len(locals)' = Len(frames)' + 1
    BY <2>3, <2>5
  <2> QED BY <2>1, <2>2, <2>6, ScopesClose
<1>14. CASE EndProgram
  <2>1. /\ stage' = "end" /\ scopes' = <<NoSymbols>> /\ locals' = <<>>
        /\ ~InFunction' /\ Base' = 1 /\ Len(scopes') = 1 /\ Len(locals') = 0
    BY <1>14 DEF EndProgram, InFunction, Base
  <2>2. \A m \in Name : scopes'[1][m] = None
    BY <2>1 DEF NoSymbols
  <2>3. None # "Function"
    BY TypecheckerAssumption DEF SymbolKind
  <2> QED BY <2>1, <2>2, <2>3 DEF ScopesAgree
<1>15. ASSUME NEW t, DataField(t)
       PROVE  ScopesAgree'
  BY <1>15, ScopesQuiet
     DEF DataField, check_field, functionVars, Base, InFunction
<1>16. ASSUME NEW t, ExternType(t)
       PROVE  ScopesAgree'
  BY <1>16, ScopesQuiet
     DEF ExternType, At, Goto, functionVars, Base, InFunction
<1>17. ASSUME NEW t, Function(t)
       PROVE  ScopesAgree'
  <2>1. /\ stage = "top" /\ stage' = "signature" /\ item' = "fn"
        /\ scopes' = push_scope(scopes) /\ functions' = functions
        /\ frames' = <<>> /\ locals' = <<{}>>
    BY <1>17 DEF Function, At, compile_fn_entry
  <2> QED BY <2>1, ScopesHead
<1>18. ASSUME NEW t, Method(t)
       PROVE  ScopesAgree'
  <2>1. /\ stage = "entity" /\ stage' = "signature" /\ item' = "member"
        /\ scopes' = push_scope(scopes) /\ functions' = functions
        /\ frames' = <<>> /\ locals' = <<IF signature' # "spent" THEN {Self} ELSE {}>>
    BY <1>18 DEF Method, At, check_open, compile_fn_entry
  <2> QED BY <2>1, ScopesHead
<1>19. ASSUME NEW n \in Name, NEW o \in Name,
              Use(n) \/ Assign(n) \/ Call(n) \/ CallField(o, n)
       PROVE  ScopesAgree'
  BY <1>19, ScopesQuiet
     DEF Use, Assign, Call, CallField, InBody, type_of_identifier,
         compile_identifier, compile_assign, compile_call, Instruction, Base,
         InFunction
<1>20. ASSUME NEW n \in Name, NEW t, Property(n, t)
       PROVE  ScopesAgree'
  BY <1>20, ScopesProperty
<1>21. ASSUME NEW n \in Name, NEW t, Parameter(n, t) \/ VarDecl(n, t)
       PROVE  ScopesAgree'
  <2>1. /\ stage \in {"signature", "body"} /\ UNCHANGED <<stage, item>>
        /\ scopes' = define(scopes, n, "Local")
        /\ UNCHANGED <<functions, frames>>
        /\ signature' = "full" => signature = "full"
    BY <1>21 DEF Parameter, VarDecl, InBody, At, check_declaration,
                compile_variable, compile_parameter
  <2>2. \/ locals' = [locals EXCEPT ![Len(locals)] = @ \cup {n}]
        \/ locals' = locals /\ signature' = "spent" /\ stage = "signature"
    BY <1>21 DEF Parameter, VarDecl, At, compile_variable, compile_parameter,
                Declare
  <2>3. stage = "signature" => frames = <<>>
    BY DEF Types
  <2> QED BY <2>1, <2>2, <2>3, ScopesDeclare DEF InFunction
<1> QED
  BY <1>1, <1>2, <1>3, <1>4, <1>5, <1>6, <1>7, <1>8, <1>10, <1>11, <1>12,
     <1>13, <1>14, <1>15, <1>16, <1>17, <1>18, <1>19, <1>20, <1>21 DEF Next

(* ---- Blocks. ---- *)
(* What codegen does to a block changes neither whether it is a join nor   *)
(* whether it is nested, and takes no terminator away from its end but by  *)
(* an instruction behind it.                                               *)
Same(b, c) == c \in BlockType /\ c.join = b.join /\ c.nested = b.nested

(* An instruction more behind a block whose terminator is no branch.       *)
LEMMA EmitOf ==
    ASSUME NEW b \in BlockType, Written(b), b.first # "br"
    PROVE  /\ Same(b, Emit(b)) /\ Written(Emit(b)) /\ Emit(b).first = b.first
<1>1. b.shape = "open" \/ b.first = "ret"
  BY DEF BlockType, Written
<1>2. /\ Emit(b).shape = (IF b.shape = "open" THEN "open" ELSE "tail")
      /\ Emit(b).first = b.first /\ Emit(b).join = b.join
      /\ Emit(b).nested = b.nested /\ Emit(b) \in BlockType
  BY DEF Emit, BlockType
<1> QED BY <1>1, <1>2 DEF Written, Same

(* A terminator, where there is no branch.                                 *)
LEMMA TerminatorOf ==
    ASSUME NEW b \in BlockType, Written(b), b.first # "br",
           NEW kind \in {"br", "ret"}
    PROVE  /\ Same(b, EmitTerminator(b, kind)) /\ Written(EmitTerminator(b, kind))
           /\ get_terminator(EmitTerminator(b, kind))
           /\ kind = "ret" => EmitTerminator(b, kind).first = "ret"
<1> DEFINE c == EmitTerminator(b, kind)
<1>1. /\ b.shape = "open" => b.first = None
      /\ b.shape # "open" => b.first = "ret"
  BY DEF BlockType, Written
<1>2. /\ c.shape = (IF b.shape = "open" THEN "closed" ELSE "twice")
      /\ c.first = (IF b.first = None THEN kind ELSE b.first)
      /\ c.join = b.join /\ c.nested = b.nested /\ c \in BlockType
  BY DEF EmitTerminator, BlockType
<1>3. None # "ret" /\ None # "br"
  BY CodegenAssumption
<1> HIDE DEF c
<1>4. /\ Same(b, c) /\ Written(c) /\ get_terminator(c)
      /\ kind = "ret" => c.first = "ret"
  BY <1>1, <1>2, <1>3 DEF Written, Same, get_terminator
<1> QED BY <1>4 DEF c

(* A block the builder comes to is new.                                    *)
LEMMA BlockOf ==
    ASSUME NEW join \in BOOLEAN, frames \in Seq(FrameType)
    PROVE  /\ Block(join) \in BlockType /\ Block(join).join = join
           /\ Untouched(Block(join)) /\ Written(Block(join))
           /\ Block(join).nested = BranchingAbove(Len(frames))
BY DEF Block, BlockType, Untouched, Written, BranchingAbove

(* The blocks but one stay, and that one is the same block.                *)
Changed(bs, k, cs) ==
    /\ cs \in Seq(BlockType) /\ Len(cs) = Len(bs) /\ Same(bs[k], cs[k])
    /\ \A i \in 1 .. Len(bs) : i # k => cs[i] = bs[i]
    /\ \A i \in 1 .. Len(bs) : Written(cs[i])

(* The list of blocks with one of them written to.                         *)
LEMMA ChangedOf ==
    ASSUME NEW bs \in Seq(BlockType), NEW k \in 1 .. Len(bs), NEW c,
           Same(bs[k], c), Written(c), \A i \in 1 .. Len(bs) : Written(bs[i])
    PROVE  Changed(bs, k, [bs EXCEPT ![k] = c]) /\ [bs EXCEPT ![k] = c][k] = c
<1>1. c \in BlockType
  BY DEF Same
<1> QED BY <1>1, ExceptOf DEF Changed

(* A branch that is only made if there is none closes a block.             *)
LEMMA BranchedOf ==
    ASSUME NEW bs \in Seq(BlockType), NEW k \in 1 .. Len(bs),
           \A i \in 1 .. Len(bs) : Written(bs[i])
    PROVE  Changed(bs, k, Branched(bs, k)) /\ get_terminator(Branched(bs, k)[k])
<1>1. bs[k] \in BlockType /\ Written(bs[k])
  BY ElementOf
<1>2. CASE get_terminator(bs[k])
  BY <1>1, <1>2 DEF Branched, Changed, Same
<1>3. CASE ~get_terminator(bs[k])
  <2>1. bs[k].first # "br"
    BY <1>1, <1>3, CodegenAssumption DEF BlockType, Written, get_terminator
  <2>2. /\ Same(bs[k], EmitTerminator(bs[k], "br"))
        /\ Written(EmitTerminator(bs[k], "br"))
        /\ get_terminator(EmitTerminator(bs[k], "br"))
    BY <1>1, <2>1, TerminatorOf
  <2> QED BY <1>3, <2>2, ChangedOf DEF Branched
<1> QED BY <1>2, <1>3

(* The join of a branching construct is one of the blocks ahead.           *)
LEMMA JoinThere ==
    ASSUME FramesApart, NEW i \in 1 .. Len(frames),
           frames[i].kind \in Branching
    PROVE  /\ frames[i].join \in 1 .. Len(blocks)
           /\ frames[i].join \in Ahead(frames[i])
<1>1. frames[i].join \in Ahead(frames[i])
  BY DEF Ahead, Branching
<1> QED BY <1>1 DEF FramesApart

(* ---- The steps of codegen, on the blocks. ---- *)
BlocksInv ==
    /\ Types /\ FramesApart /\ JoinsNested /\ BlocksAccounted
    /\ BranchesLeave /\ OnlyNestedJoinsOpen

(* What a step has to establish of the blocks and the frames.              *)
BlocksKept ==
    /\ blocks' \in Seq(BlockType) /\ frames' \in Seq(FrameType)
    /\ cur' \in 0 .. Len(blocks')
    /\ InFunction' \/ stage' = "finished" => cur' # 0
    /\ Len(blocks') <= MaxBlocks /\ Len(frames') <= MaxNesting
    /\ ~InFunction' => frames' = <<>>
    /\ FramesApart' /\ JoinsNested' /\ BlocksAccounted' /\ BranchesLeave'
    /\ OnlyNestedJoinsOpen'

(* An instruction or a return where the builder stands.                    *)
LEMMA BlocksWrite ==
    ASSUME BlocksInv, InFunction, InFunction', stage' # "finished",
           UNCHANGED <<cur, frames>>,
           \/ blocks' = blocks
           \/ blocks' = [blocks EXCEPT ![cur] = Emit(@)]
           \/ blocks' = [blocks EXCEPT ![cur] = EmitTerminator(@, "ret")]
    PROVE  BlocksKept
<1>1. /\ blocks \in Seq(BlockType) /\ frames \in Seq(FrameType)
      /\ cur \in 1 .. Len(blocks) /\ Len(frames) \in Nat /\ Len(blocks) \in Nat
      /\ Len(blocks) <= MaxBlocks /\ Len(frames) <= MaxNesting
  BY DEF BlocksInv, Types
<1>2. /\ \A i \in 1 .. Len(blocks) : Written(blocks[i])
      /\ blocks[cur].first # "br"
  BY DEF BlocksInv, BranchesLeave
<1>3. blocks[cur] \in BlockType /\ Written(blocks[cur])
  BY <1>1, <1>2, ElementOf
<1>4. Changed(blocks, cur, blocks') /\ blocks'[cur].first # "br"
  <2>1. CASE blocks' = blocks
    BY <1>1, <1>2, <1>3, <2>1 DEF Changed, Same
  <2>2. CASE blocks' = [blocks EXCEPT ![cur] = Emit(@)]
    BY <1>1, <1>2, <1>3, <2>2, EmitOf, ChangedOf
  <2>3. CASE blocks' = [blocks EXCEPT ![cur] = EmitTerminator(@, "ret")]
    BY <1>1, <1>2, <1>3, <2>3, TerminatorOf, ChangedOf
  <2> QED BY <2>1, <2>2, <2>3
<1>5. /\ blocks' \in Seq(BlockType) /\ Len(blocks') = Len(blocks)
      /\ \A i \in 1 .. Len(blocks) :
           /\ Written(blocks'[i])
           /\ i # cur => blocks'[i] = blocks[i]
           /\ blocks'[i].join = blocks[i].join
           /\ blocks'[i].nested = blocks[i].nested
  BY <1>4 DEF Changed, Same
<1>6. FramesApart'
  <2>1. FramesApart
    BY DEF BlocksInv
  <2>2. \A i \in 1 .. Len(frames) : \A b \in Ahead(frames[i]) :
           /\ b \in 1 .. Len(blocks) /\ b # cur
           /\ blocks'[b] = blocks[b] /\ Untouched(blocks[b])
    BY <1>5, <2>1 DEF FramesApart
  <2>3. \A i \in 1 .. Len(frames) : \A b \in Ahead(frames[i]) :
           Untouched(blocks'[b])
    BY <2>2
  <2> QED BY <1>5, <2>1, <2>2, <2>3 DEF FramesApart, Began, Ahead, Untouched
<1>7. JoinsNested'
  <2>1. ASSUME NEW i \in 1 .. Len(frames), frames[i].kind \in Branching
        PROVE  /\ frames[i].join \in 1 .. Len(blocks)
               /\ blocks[frames[i].join].join
               /\ BranchingAbove(i - 1) => blocks[frames[i].join].nested
    BY <2>1, JoinThere DEF BlocksInv, JoinsNested
  <2> QED BY <1>5, <2>1 DEF JoinsNested, BranchingAbove
<1>8. BlocksAccounted'
  <2>1. BlocksAccounted
    BY DEF BlocksInv
  <2>2. ASSUME NEW k \in 1 .. Len(blocks)
        PROVE  Accounted(k)'
    BY <1>5, <2>1, <2>2 DEF BlocksAccounted, Accounted, OpenJoin, Began, Ahead
  <2>3. OpenJoin(blocks[cur]) => OpenJoin(blocks'[cur])
    BY <1>1, <1>5 DEF OpenJoin
  <2> QED
    BY <1>5, <2>1, <2>2, <2>3
       DEF BlocksAccounted, BranchingAbove, Began
<1>9. BranchesLeave'
  <2>1. \A i \in 1 .. Len(blocks') : Written(blocks'[i])
    BY <1>5
  <2>2. blocks'[cur'].first # "br"
    BY <1>4
  <2> QED BY <2>1, <2>2 DEF BranchesLeave, Written
<1> QED
  BY <1>1, <1>5, <1>6, <1>7, <1>8, <1>9 DEF BlocksKept, OnlyNestedJoinsOpen

(* A branching construct is entered.  Its blocks come behind all there are, *)
(* so that they are apart from those of the constructs around it.          *)
LEMMA BlocksEnter ==
    ASSUME BlocksInv, InFunction, InFunction', stage' # "finished",
           NEW more \in {2, 3}, NEW f \in FrameType,
           Len(blocks) + more <= MaxBlocks, Len(frames) < MaxNesting,
           f.kind \in {"if", "then", "loop"}, f.kind = "if" <=> more = 3,
           f.own = Len(blocks) + 1, f.join = Len(blocks) + 2,
           frames' = Append(frames, f), cur' = Len(blocks) + 1,
           blocks' = [blocks EXCEPT ![cur] = EmitTerminator(@, "br")]
                       \o <<Block(FALSE), Block(TRUE)>>
                       \o (IF more = 3 THEN <<Block(FALSE)>> ELSE <<>>)
    PROVE  BlocksKept
<1> DEFINE n == Len(blocks)
           m == Len(frames)
<1>1. /\ blocks \in Seq(BlockType) /\ frames \in Seq(FrameType)
      /\ cur \in 1 .. n /\ m \in Nat /\ n \in Nat
  BY DEF BlocksInv, Types
<1>2. /\ \A i \in 1 .. n : Written(blocks[i])
      /\ blocks[cur].first # "br" /\ blocks[cur] \in BlockType
  BY <1>1, ElementOf DEF BlocksInv, BranchesLeave
<1> DEFINE c == EmitTerminator(blocks[cur], "br")
           B == [blocks EXCEPT ![cur] = c]
<1>3. Changed(blocks, cur, B) /\ get_terminator(B[cur])
  <2>1. Same(blocks[cur], c) /\ Written(c) /\ get_terminator(c)
    BY <1>2, <1>1, TerminatorOf
  <2> HIDE DEF c
  <2>2. Changed(blocks, cur, B) /\ B[cur] = c
    BY ONLY <1>1, <1>2, <2>1, ChangedOf
  <2> QED BY <2>1, <2>2
<1>4. /\ Block(FALSE) \in BlockType /\ Block(TRUE) \in BlockType
      /\ Block(TRUE).join
      /\ \A join \in BOOLEAN :
           /\ Untouched(Block(join)) /\ Written(Block(join))
           /\ Block(join).nested = BranchingAbove(m)
  <2>1. \A join \in BOOLEAN :
           /\ Block(join) \in BlockType /\ Block(join).join = join
           /\ Untouched(Block(join)) /\ Written(Block(join))
           /\ Block(join).nested = BranchingAbove(m)
    BY <1>1, BlockOf
  <2> QED BY <2>1
<1>5. /\ blocks' \in Seq(BlockType) /\ Len(blocks') = n + more
      /\ \A i \in 1 .. n : blocks'[i] = B[i]
      /\ blocks'[n + 1] = Block(FALSE) /\ blocks'[n + 2] = Block(TRUE)
      /\ more = 3 => blocks'[n + 3] = Block(FALSE)
  <2>1. B \in Seq(BlockType) /\ Len(B) = n
    BY <1>3 DEF Changed
  <2>2. blocks' = B \o <<Block(FALSE), Block(TRUE)>>
                     \o (IF more = 3 THEN <<Block(FALSE)>> ELSE <<>>)
    OBVIOUS
  <2> HIDE DEF B, n
  <2> DEFINE x == Block(FALSE)
             y == Block(TRUE)
  <2>3. /\ x \in BlockType /\ y \in BlockType /\ more \in {2, 3}
        /\ blocks' = B \o <<x, y>> \o (IF more = 3 THEN <<x>> ELSE <<>>)
    BY <1>4, <2>2
  <2> HIDE DEF x, y
  <2>4. /\ blocks' \in Seq(BlockType) /\ Len(blocks') = Len(B) + more
        /\ \A i \in 1 .. Len(B) : blocks'[i] = B[i]
        /\ blocks'[Len(B) + 1] = x /\ blocks'[Len(B) + 2] = y
        /\ more = 3 => blocks'[Len(B) + 3] = x
    BY ONLY <2>1, <2>3, MoreBehind
  <2> QED BY <2>1, <2>4 DEF x, y
<1> HIDE DEF B, c, n
<1>6. /\ frames' \in Seq(FrameType) /\ Len(frames') = m + 1
      /\ frames'[m + 1] = f /\ \A i \in 1 .. m : frames'[i] = frames[i]
  BY ONLY <1>1, f \in FrameType, frames' = Append(frames, f), AppendOf
<1> HIDE DEF m
<1>7. /\ \A i \in 1 .. n :
           /\ i # cur => blocks'[i] = blocks[i]
           /\ blocks'[i].join = blocks[i].join
           /\ blocks'[i].nested = blocks[i].nested
           /\ Written(blocks'[i])
      /\ get_terminator(blocks'[cur])
  BY <1>1, <1>3, <1>5 DEF Changed, Same, n
<1>8. \A k \in n + 1 .. n + more : Untouched(blocks'[k]) /\ Written(blocks'[k])
  <2>1. \A k \in n + 1 .. n + more :
           k = n + 1 \/ k = n + 2 \/ (k = n + 3 /\ more = 3)
    BY ONLY <1>1, more \in {2, 3}
  <2>2. \A join \in BOOLEAN : Untouched(Block(join)) /\ Written(Block(join))
    BY <1>4
  <2> QED BY ONLY <1>5, <2>1, <2>2
<1>9. /\ cur' = n + 1 /\ Began(f) = {n + 1} /\ n + 2 \in Ahead(f)
      /\ Ahead(f) = IF more = 3 THEN {n + 2, n + 3} ELSE {n + 2}
      /\ f.join = n + 2
  BY DEF Began, Ahead, n
<1>10. /\ FramesApart /\ JoinsNested /\ BlocksAccounted
  BY DEF BlocksInv
<1>11. \A i \in 1 .. m :
          /\ Began(frames[i]) \subseteq 1 .. n
          /\ \A b \in Ahead(frames[i]) :
               b \in 1 .. n /\ Untouched(blocks'[b]) /\ b # cur'
  <2>1. \A i \in 1 .. m : \A b \in Ahead(frames[i]) :
           b \in 1 .. n /\ b # cur /\ Untouched(blocks[b])
    BY <1>10 DEF FramesApart, m, n
  <2>2. \A b \in 1 .. n : b # n + 1
    BY <1>1
  <2>3. \A i \in 1 .. m : Began(frames[i]) \subseteq 1 .. n
    BY <1>10 DEF FramesApart, m, n
  <2> QED BY <1>7, <1>9, <2>1, <2>2, <2>3
<1>12. /\ n + 1 \in 1 .. n + more
       /\ \A b \in Ahead(f) :
            /\ b \in 1 .. n + more /\ Untouched(blocks'[b]) /\ b # n + 1
            /\ b \notin 1 .. n
  <2>1. /\ \A b \in {n + 2, n + 3} : b # n + 1 /\ b \notin 1 .. n
        /\ n + 1 \in 1 .. n + more
        /\ n + 2 \in n + 1 .. n + more /\ n + 2 \in 1 .. n + more
        /\ more = 3 => n + 3 \in n + 1 .. n + more /\ n + 3 \in 1 .. n + more
    BY ONLY <1>1, more \in {2, 3}
  <2> QED BY ONLY <1>8, <1>9, <2>1
<1>13. FramesApart'
  <2>1. ASSUME NEW i \in 1 .. m + 1
        PROVE  Began(frames'[i]) \subseteq 1 .. n + more
    <3>1. CASE i = m + 1
      BY <1>6, <1>9, <1>12, <3>1
    <3>2. CASE i # m + 1
      <4>1. i \in 1 .. m /\ 1 .. n \subseteq 1 .. n + more
        BY <1>1, <3>2
      <4> QED BY <1>6, <1>11, <4>1
    <3> QED BY <3>1, <3>2
  <2>2. ASSUME NEW i \in 1 .. m + 1, NEW b \in Ahead(frames'[i])
        PROVE  b \in 1 .. n + more /\ Untouched(blocks'[b]) /\ b # cur'
    <3>1. CASE i = m + 1
      BY <1>6, <1>9, <1>12, <3>1
    <3>2. CASE i # m + 1
      <4>1. i \in 1 .. m /\ 1 .. n \subseteq 1 .. n + more
        BY <1>1, <3>2
      <4> QED BY <1>6, <1>11, <4>1
    <3> QED BY <3>1, <3>2
  <2>3. ASSUME NEW i \in 1 .. m + 1, NEW b \in Ahead(frames'[i]),
               NEW j \in 1 .. m + 1
        PROVE  b \notin Began(frames'[j]) /\ (b \in Ahead(frames'[j]) => i = j)
    <3>1. CASE i = m + 1 /\ j = m + 1
      BY <1>6, <1>9, <1>12, <3>1
    <3>2. CASE i = m + 1 /\ j # m + 1
      <4>1. j \in 1 .. m
        BY <1>1, <3>2
      <4> QED BY <1>6, <1>11, <1>12, <3>2, <4>1
    <3>3. CASE i # m + 1 /\ j = m + 1
      <4>1. i \in 1 .. m /\ n + 1 \notin 1 .. n
        BY <1>1, <3>3
      <4>2. frames'[i] = frames[i] /\ frames'[j] = f /\ i # j
        BY <1>6, <3>3, <4>1
      <4>3. b \in 1 .. n
        BY <1>11, <2>3, <4>1, <4>2
      <4> QED BY ONLY <1>9, <1>12, <4>1, <4>2, <4>3
    <3>4. CASE i # m + 1 /\ j # m + 1
      <4>1. i \in 1 .. m /\ j \in 1 .. m
        BY <1>1, <3>4
      <4>2. frames'[i] = frames[i] /\ frames'[j] = frames[j]
        BY <1>6, <4>1
      <4> QED BY <1>10, <4>1, <4>2 DEF FramesApart, m
    <3> QED BY <3>1, <3>2, <3>3, <3>4
  <2>4. Len(frames') = m + 1 /\ Len(blocks') = n + more
    BY <1>5, <1>6
  <2> QED
    BY ONLY <2>1, <2>2, <2>3, <2>4 DEF FramesApart
<1>14. \A i \in 0 .. m : BranchingAbove(i)' <=> BranchingAbove(i)
  BY <1>1, <1>6 DEF BranchingAbove
<1>15. JoinsNested'
  <2>1. ASSUME NEW i \in 1 .. m + 1, frames'[i].kind \in Branching
        PROVE  /\ blocks'[frames'[i].join].join
               /\ BranchingAbove(i - 1)' => blocks'[frames'[i].join].nested
    <3>1. CASE i = m + 1
      <4>1. i - 1 = m /\ m \in 0 .. m
        BY <1>1, <3>1
      <4>2. /\ frames'[i].join = n + 2 /\ blocks'[n + 2].join
            /\ blocks'[n + 2].nested = BranchingAbove(m)
        BY <1>4, <1>5, <1>6, <1>9, <3>1
      <4> QED BY ONLY <1>14, <4>1, <4>2
    <3>2. CASE i # m + 1
      <4>1. i \in 1 .. m /\ i - 1 \in 0 .. m
        BY <1>1, <3>2
      <4>2. frames'[i] = frames[i] /\ frames[i].join \in 1 .. n
        BY <1>6, <1>10, <2>1, <4>1, JoinThere DEF m, n
      <4> QED BY <1>7, <1>10, <1>14, <2>1, <4>1, <4>2 DEF JoinsNested, m
    <3> QED BY <3>1, <3>2
  <2> QED BY <1>6, <2>1 DEF JoinsNested
<1>16. BlocksAccounted'
  <2>1. ASSUME NEW k \in 1 .. n + more
        PROVE  Accounted(k)'
    <3>1. CASE k = n + 1
      BY <1>9, <3>1 DEF Accounted
    <3>2. CASE k \notin 1 .. n /\ k # n + 1
      <4>1. k \in Ahead(f) /\ m + 1 \in 1 .. m + 1
        BY <1>1, <1>9, <3>2
      <4>2. k \in Ahead(frames'[m + 1]) /\ m + 1 \in 1 .. Len(frames')
        BY <1>6, <4>1
      <4> QED BY <4>2 DEF Accounted, Began, Ahead
    <3>3. CASE k = cur
      BY <1>7, <3>3 DEF Accounted
    <3>4. CASE k \in 1 .. n /\ k # cur
      <4>1. Accounted(k) /\ blocks'[k] = blocks[k]
        BY <1>7, <1>10, <3>4 DEF BlocksAccounted, n
      <4>2. \A i \in 1 .. m : i \in 1 .. Len(frames') /\ frames'[i] = frames[i]
        BY <1>1, <1>6
      <4> QED BY <3>4, <4>1, <4>2 DEF Accounted, Began, Ahead, m
    <3> QED BY <3>1, <3>2, <3>3, <3>4
  <2>2. /\ m + 1 \in 1 .. Len(frames') /\ cur' \in Began(frames'[m + 1])
        /\ Len(blocks') = n + more
    <3>1. m + 1 \in 1 .. m + 1
      BY ONLY <1>1
    <3> QED BY ONLY <1>5, <1>6, <1>9, <3>1
  <2> QED BY <2>1, <2>2 DEF BlocksAccounted, Began
<1>17. BranchesLeave'
  <2>1. \A i \in 1 .. n + more : i \in 1 .. n \/ i \in n + 1 .. n + more
    BY <1>1
  <2>2. \A i \in 1 .. Len(blocks') : Written(blocks'[i])
    BY <1>5, <1>7, <1>8, <2>1
  <2>3. blocks'[cur'].first # "br"
    <3>1. Untouched(blocks'[n + 1]) /\ None # "br"
      BY ONLY <1>1, <1>8, more \in {2, 3}, CodegenAssumption
    <3> QED BY ONLY <1>9, <3>1 DEF Untouched
  <2> QED BY <2>2, <2>3 DEF BranchesLeave, Written
<1>18. cur' \in 0 .. Len(blocks') /\ cur' # 0
  BY <1>1, <1>5, <1>9
<1>19. Len(blocks') <= MaxBlocks /\ Len(frames') <= MaxNesting
  <2>1. n + more <= MaxBlocks /\ m < MaxNesting
    BY DEF n, m
  <2> QED BY ONLY <1>1, <1>5, <1>6, <2>1, FrontEndAssumption
<1> QED
  BY <1>5, <1>6, <1>13, <1>15, <1>16, <1>17, <1>18, <1>19
     DEF BlocksKept, OnlyNestedJoinsOpen

(* A branching construct leaves the block its body began in, which then    *)
(* has a terminator.  What remains without one is a nested join, a block   *)
(* ahead, or one of the constructs around it.                              *)
LEMMA LeaveOf ==
    ASSUME BlocksInv, InFunction, frames # <<>>,
           Last(frames).kind \in Branching,
           blocks' = Branched(blocks, Last(frames).own)
    PROVE  LET m == Len(frames)
               f == frames[m]
           IN /\ m \in Nat \ {0} /\ Last(frames) = f /\ f \in FrameType
              /\ blocks' \in Seq(BlockType) /\ Len(blocks') = Len(blocks)
              /\ \A k \in 1 .. Len(blocks) :
                   /\ blocks'[k].join = blocks[k].join
                   /\ blocks'[k].nested = blocks[k].nested
                   /\ Written(blocks'[k])
                   /\ \/ get_terminator(blocks'[k]) \/ OpenJoin(blocks'[k])
                      \/ k \in Ahead(f)
                      \/ \E i \in 1 .. m - 1 :
                           k \in Began(frames[i]) \cup Ahead(frames[i])
              /\ \A b \in Ahead(f) : b \in 1 .. Len(blocks) /\ Untouched(blocks'[b])
              /\ \A i \in 1 .. m - 1 :
                   /\ i \in 1 .. m
                   /\ \A b \in Ahead(frames[i]) :
                        /\ b \in 1 .. Len(blocks) /\ Untouched(blocks'[b])
                        /\ b \notin Ahead(f)
<1> DEFINE n == Len(blocks)
           m == Len(frames)
           f == frames[m]
<1>1. /\ blocks \in Seq(BlockType) /\ frames \in Seq(FrameType)
      /\ n \in Nat /\ cur \in 1 .. n
  BY DEF BlocksInv, Types
<1>2. m \in Nat \ {0} /\ Last(frames) = f /\ f \in FrameType
  BY <1>1, FrontOf
<1>3. /\ FramesApart /\ BlocksAccounted /\ \A k \in 1 .. n : Written(blocks[k])
      /\ f.kind \in Branching
  BY <1>2 DEF BlocksInv, BranchesLeave
<1>4. Began(f) = {f.own}
  BY <1>3 DEF Began, Branching
<1> HIDE DEF n, m, f
<1>5. m \in 1 .. m /\ \A i \in 1 .. m - 1 : i \in 1 .. m /\ i # m
  BY <1>2
<1>6. f.own \in 1 .. n
  <2>1. Began(f) \subseteq 1 .. n
    BY <1>3, <1>5 DEF FramesApart, n, m, f
  <2> QED BY <1>4, <2>1
<1>7. Changed(blocks, f.own, blocks') /\ get_terminator(blocks'[f.own])
  <2>1. blocks' = Branched(blocks, f.own)
    BY <1>2
  <2> QED BY <1>1, <1>3, <1>6, <2>1, BranchedOf DEF n
<1>8. /\ blocks' \in Seq(BlockType) /\ Len(blocks') = n
      /\ \A k \in 1 .. n :
           /\ blocks'[k].join = blocks[k].join
           /\ blocks'[k].nested = blocks[k].nested
           /\ Written(blocks'[k])
           /\ k # f.own => blocks'[k] = blocks[k]
  BY <1>7 DEF Changed, Same, n
<1>9. /\ \A i \in 1 .. m : \A b \in Ahead(frames[i]) :
            /\ b \in 1 .. n /\ Untouched(blocks[b])
            /\ b \notin Began(f)
            /\ b \in Ahead(f) => i = m
  BY <1>3, <1>5 DEF FramesApart, m, n, f
<1>10. \A i \in 1 .. m : \A b \in Ahead(frames[i]) :
          b \in 1 .. n /\ Untouched(blocks'[b]) /\ (b \in Ahead(f) => i = m)
  <2>1. \A i \in 1 .. m : \A b \in Ahead(frames[i]) :
           b \in 1 .. n /\ b # f.own /\ Untouched(blocks[b])
    BY <1>4, <1>9
  <2> QED BY <1>8, <1>9, <2>1
<1>11. ASSUME NEW k \in 1 .. n
       PROVE  \/ get_terminator(blocks'[k]) \/ OpenJoin(blocks'[k])
              \/ k \in Ahead(f)
              \/ \E i \in 1 .. m - 1 :
                   k \in Began(frames[i]) \cup Ahead(frames[i])
  <2>1. CASE k = f.own
    BY <1>7, <2>1
  <2>2. CASE k # f.own
    <3>1. blocks'[k] = blocks[k]
      BY <1>8, <2>2
    <3>2. BranchingAbove(m)
      BY <1>3, <1>5 DEF BranchingAbove, f
    <3>3. \/ get_terminator(blocks[k]) \/ OpenJoin(blocks[k])
          \/ \E i \in 1 .. m : k \in Began(frames[i]) \cup Ahead(frames[i])
      <4>1. CASE k = cur
        BY <1>3, <3>2, <4>1 DEF BlocksAccounted, m
      <4>2. CASE k # cur
        BY <1>3, <4>2 DEF BlocksAccounted, Accounted, m, n
      <4> QED BY <4>1, <4>2
    <3>4. \A i \in 1 .. m : i \in 1 .. m - 1 \/ i = m
      BY <1>2
    <3>5. k \notin Began(f)
      BY <1>4, <2>2
    <3>6. CASE \E i \in 1 .. m : k \in Began(frames[i]) \cup Ahead(frames[i])
      <4>1. PICK i \in 1 .. m : k \in Began(frames[i]) \cup Ahead(frames[i])
        BY <3>6
      <4> QED BY <3>4, <3>5, <4>1 DEF f
    <3> QED BY <3>1, <3>3, <3>6
  <2> QED BY <2>1, <2>2
<1>12. frames[m] = f
  BY DEF f
<1>13. \A b \in Ahead(f) : b \in 1 .. n /\ Untouched(blocks'[b])
  BY <1>5, <1>10, <1>12
<1>14. \A i \in 1 .. m - 1 :
          /\ i \in 1 .. m
          /\ \A b \in Ahead(frames[i]) :
               b \in 1 .. n /\ Untouched(blocks'[b]) /\ b \notin Ahead(f)
  BY <1>5, <1>10
<1> QED BY ONLY <1>2, <1>8, <1>11, <1>13, <1>14 DEF m, n, f

(* The then body ends and the else body begins.                            *)
LEMMA BlocksElse ==
    ASSUME BlocksInv, InFunction, InFunction', stage' # "finished",
           frames # <<>>, Last(frames).kind = "if",
           blocks' = Branched(blocks, Last(frames).own),
           cur' = Last(frames).join + 1,
           frames' = Append(Front(frames),
                       [Last(frames) EXCEPT !.kind = "else",
                                            !.own = Last(frames).join + 1])
    PROVE  BlocksKept
<1> DEFINE n == Len(blocks)
           m == Len(frames)
           f == frames[m]
           g == [f EXCEPT !.kind = "else", !.own = f.join + 1]
<1>1. Last(frames).kind \in Branching
  BY DEF Branching
<1>2. /\ m \in Nat \ {0} /\ Last(frames) = f /\ f \in FrameType
      /\ blocks' \in Seq(BlockType) /\ Len(blocks') = Len(blocks)
      /\ \A k \in 1 .. n :
           /\ blocks'[k].join = blocks[k].join
           /\ blocks'[k].nested = blocks[k].nested
           /\ Written(blocks'[k])
           /\ \/ get_terminator(blocks'[k]) \/ OpenJoin(blocks'[k])
              \/ k \in Ahead(f)
              \/ \E i \in 1 .. m - 1 :
                   k \in Began(frames[i]) \cup Ahead(frames[i])
      /\ \A b \in Ahead(f) : b \in 1 .. n /\ Untouched(blocks'[b])
      /\ \A i \in 1 .. m - 1 :
           /\ i \in 1 .. m
           /\ \A b \in Ahead(frames[i]) :
                b \in 1 .. n /\ Untouched(blocks'[b]) /\ b \notin Ahead(f)
  BY <1>1, LeaveOf
<1>3. /\ frames \in Seq(FrameType) /\ n \in Nat /\ frames # <<>>
      /\ FramesApart /\ JoinsNested
      /\ Len(blocks) <= MaxBlocks /\ m <= MaxNesting
  BY DEF BlocksInv, Types
<1>4. /\ f.kind = "if" /\ frames' = Append(Front(frames), g) /\ cur' = f.join + 1
  BY <1>2
<1> HIDE DEF n, m, f, g
<1>5. Ahead(f) = {f.join, f.join + 1} /\ f.join \in 1 .. n /\ f.join \in Nat
  BY <1>2, <1>4 DEF Ahead
<1>6. /\ g \in FrameType /\ g.kind = "else" /\ g.own = f.join + 1
      /\ g.join = f.join
  <2>1. f.join + 1 \in Nat \cup {None} /\ f \in FrameType
    BY ONLY <1>2, <1>5
  <2> QED BY ONLY <2>1 DEF g, FrameType, Construct
<1>7. /\ Began(g) = {cur'} /\ Ahead(g) = {f.join} /\ cur' \in Ahead(f)
      /\ f.join # cur'
  BY <1>4, <1>5, <1>6 DEF Began, Ahead
<1>8. /\ frames' \in Seq(FrameType) /\ Len(frames') = m /\ frames'[m] = g
      /\ \A i \in 1 .. m - 1 : frames'[i] = frames[i]
  <2>1. /\ Front(frames) \in Seq(FrameType) /\ Len(Front(frames)) = m - 1
        /\ \A i \in 1 .. m - 1 : Front(frames)[i] = frames[i]
    BY <1>3, FrontOf DEF m
  <2>2. /\ Append(Front(frames), g) \in Seq(FrameType)
        /\ Len(Append(Front(frames), g)) = (m - 1) + 1
        /\ Append(Front(frames), g)[(m - 1) + 1] = g
        /\ \A i \in 1 .. m - 1 : Append(Front(frames), g)[i] = Front(frames)[i]
    BY ONLY <1>6, <2>1, AppendOf
  <2>3. (m - 1) + 1 = m
    BY ONLY <1>2
  <2> QED BY ONLY <1>4, <2>1, <2>2, <2>3
<1>9. \A i \in 1 .. m : i = m \/ i \in 1 .. m - 1
  BY ONLY <1>2
<1>10. /\ \A i \in 1 .. m - 1 :
            /\ i # m /\ Began(frames[i]) \subseteq 1 .. n
            /\ cur' \notin Ahead(frames[i]) /\ cur' \notin Began(frames[i])
            /\ f.join \notin Ahead(frames[i]) /\ f.join \notin Began(frames[i])
            /\ \A j \in 1 .. m - 1 : \A b \in Ahead(frames[i]) :
                 /\ b \notin Began(frames[j])
                 /\ b \in Ahead(frames[j]) => i = j
  <2>1. \A i \in 1 .. m - 1 : i \in 1 .. m /\ i # m /\ m \in 1 .. m
    BY ONLY <1>2
  <2>2. \A i \in 1 .. m : Began(frames[i]) \subseteq 1 .. n
    BY <1>3 DEF FramesApart, m, n
  <2>3. \A i, j \in 1 .. m : \A b \in Ahead(frames[i]) :
           b \notin Began(frames[j]) /\ (b \in Ahead(frames[j]) => i = j)
    BY <1>3 DEF FramesApart, m
  <2>4. frames[m] = f /\ f.join \in Ahead(f) /\ cur' \in Ahead(f)
    BY <1>5, <1>7 DEF f
  <2> QED BY ONLY <2>1, <2>2, <2>3, <2>4
<1>11. FramesApart'
  <2>1. ASSUME NEW i \in 1 .. m
        PROVE  /\ Began(frames'[i]) \subseteq 1 .. n
               /\ \A b \in Ahead(frames'[i]) :
                    b \in 1 .. n /\ Untouched(blocks'[b]) /\ b # cur'
    <3>1. CASE i = m
      <4>1. cur' \in Ahead(f) /\ f.join \in Ahead(f)
        BY <1>5, <1>7
      <4> QED BY <1>2, <1>7, <1>8, <3>1, <4>1
    <3>2. CASE i \in 1 .. m - 1
      BY <1>2, <1>8, <1>10, <3>2
    <3> QED BY <1>9, <3>1, <3>2
  <2>2. ASSUME NEW i \in 1 .. m, NEW b \in Ahead(frames'[i]), NEW j \in 1 .. m
        PROVE  b \notin Began(frames'[j]) /\ (b \in Ahead(frames'[j]) => i = j)
    <3>1. CASE i = m /\ j = m
      BY <1>7, <1>8, <3>1
    <3>2. CASE i = m /\ j \in 1 .. m - 1
      BY <1>7, <1>8, <1>10, <3>2
    <3>3. CASE i \in 1 .. m - 1 /\ j = m
      BY <1>7, <1>8, <1>10, <3>3
    <3>4. CASE i \in 1 .. m - 1 /\ j \in 1 .. m - 1
      BY <1>8, <1>10, <3>4
    <3> QED BY <1>9, <3>1, <3>2, <3>3, <3>4
  <2>3. Len(frames') = m /\ Len(blocks') = n
    BY <1>2, <1>8 DEF n
  <2> QED BY ONLY <2>1, <2>2, <2>3 DEF FramesApart
<1>12. \A i \in 1 .. m : BranchingAbove(i - 1)' <=> BranchingAbove(i - 1)
  <2>1. \A i \in 1 .. m : \A j \in 1 .. i - 1 : j \in 1 .. m - 1
    BY ONLY <1>2
  <2> QED BY ONLY <1>8, <2>1 DEF BranchingAbove
<1>13. JoinsNested'
  <2>1. ASSUME NEW i \in 1 .. m, frames'[i].kind \in Branching
        PROVE  /\ blocks'[frames'[i].join].join
               /\ BranchingAbove(i - 1)' => blocks'[frames'[i].join].nested
    <3>1. frames[i].kind \in Branching /\ frames'[i].join = frames[i].join
      <4>1. CASE i = m
        BY <1>4, <1>6, <1>8, <4>1 DEF f, Branching
      <4>2. CASE i \in 1 .. m - 1
        BY <1>8, <2>1, <4>2
      <4> QED BY <1>9, <4>1, <4>2
    <3>2. frames[i].join \in 1 .. n
      BY <1>3, <3>1, JoinThere DEF m, n
    <3> QED BY <1>2, <1>3, <1>12, <3>1, <3>2 DEF JoinsNested, m
  <2> QED BY <1>8, <2>1 DEF JoinsNested
<1>14. m \in 1 .. m /\ Len(frames') = m /\ cur' \in Began(frames'[m])
  BY <1>2, <1>7, <1>8
<1>15. BlocksAccounted'
  <2>1. ASSUME NEW k \in 1 .. n
        PROVE  Accounted(k)'
    <3>1. CASE k \in Ahead(f)
      <4>1. k = cur' \/ k \in Ahead(frames'[m])
        BY <1>4, <1>5, <1>7, <1>8, <3>1
      <4> QED BY <1>14, <4>1 DEF Accounted, Ahead, Began
    <3>2. CASE \E i \in 1 .. m - 1 :
                  k \in Began(frames[i]) \cup Ahead(frames[i])
      <4>1. \E i \in 1 .. Len(frames') :
               k \in Began(frames'[i]) \cup Ahead(frames'[i])
        BY <1>2, <1>8, <3>2
      <4> QED BY <4>1 DEF Accounted, Ahead, Began
    <3>3. CASE get_terminator(blocks'[k]) \/ OpenJoin(blocks'[k])
      BY <3>3 DEF Accounted, get_terminator, OpenJoin
    <3> QED BY <1>2, <3>1, <3>2, <3>3
  <2>2. Len(blocks') = n
    BY <1>2 DEF n
  <2> QED BY <1>14, <2>1, <2>2 DEF BlocksAccounted, Began
<1>16. BranchesLeave'
  <2>1. \A i \in 1 .. Len(blocks') : Written(blocks'[i])
    BY <1>2 DEF n
  <2>2. Untouched(blocks'[cur']) /\ None # "br"
    BY <1>2, <1>7, CodegenAssumption
  <2> QED BY <2>1, <2>2 DEF BranchesLeave, Untouched
<1>17. cur' \in 1 .. n
  BY <1>2, <1>7
<1>18. cur' \in 0 .. Len(blocks') /\ cur' # 0
  BY <1>2, <1>3, <1>17 DEF n
<1>19. Len(blocks') <= MaxBlocks /\ Len(frames') <= MaxNesting
  BY <1>2, <1>3, <1>8
<1> QED
  BY <1>19, <1>2, <1>8, <1>11, <1>13, <1>15, <1>16, <1>18
     DEF BlocksKept, OnlyNestedJoinsOpen

(* A then, else or loop body ends: the builder goes on in the join.        *)
LEMMA BlocksClose ==
    ASSUME BlocksInv, InFunction, InFunction', stage' # "finished",
           frames # <<>>, Last(frames).kind \in {"then", "else", "loop"},
           blocks' = Branched(blocks, Last(frames).own),
           cur' = Last(frames).join, frames' = Front(frames)
    PROVE  BlocksKept
<1> DEFINE n == Len(blocks)
           m == Len(frames)
           f == frames[m]
<1>1. Last(frames).kind \in Branching
  BY DEF Branching
<1>2. /\ m \in Nat \ {0} /\ Last(frames) = f /\ f \in FrameType
      /\ blocks' \in Seq(BlockType) /\ Len(blocks') = Len(blocks)
      /\ \A k \in 1 .. n :
           /\ blocks'[k].join = blocks[k].join
           /\ blocks'[k].nested = blocks[k].nested
           /\ Written(blocks'[k])
           /\ \/ get_terminator(blocks'[k]) \/ OpenJoin(blocks'[k])
              \/ k \in Ahead(f)
              \/ \E i \in 1 .. m - 1 :
                   k \in Began(frames[i]) \cup Ahead(frames[i])
      /\ \A b \in Ahead(f) : b \in 1 .. n /\ Untouched(blocks'[b])
      /\ \A i \in 1 .. m - 1 :
           /\ i \in 1 .. m
           /\ \A b \in Ahead(frames[i]) :
                b \in 1 .. n /\ Untouched(blocks'[b]) /\ b \notin Ahead(f)
  BY <1>1, LeaveOf
<1>3. /\ frames \in Seq(FrameType) /\ n \in Nat /\ frames # <<>>
      /\ FramesApart /\ JoinsNested
      /\ Len(blocks) <= MaxBlocks /\ m <= MaxNesting
  BY DEF BlocksInv, Types
<1>4. /\ f.kind \in {"then", "else", "loop"} /\ frames' = Front(frames)
      /\ cur' = f.join
  BY <1>2
<1> HIDE DEF n, m, f
<1>5. Ahead(f) = {cur'} /\ cur' \in 1 .. n /\ Untouched(blocks'[cur'])
  <2>1. Ahead(f) = {f.join}
    BY <1>4 DEF Ahead
  <2> QED BY <1>2, <1>4, <2>1
<1>6. /\ frames' \in Seq(FrameType) /\ Len(frames') = m - 1
      /\ \A i \in 1 .. m - 1 : frames'[i] = frames[i]
  BY <1>3, <1>4, FrontOf DEF m
<1>7. FramesApart'
  <2>1. ASSUME NEW i \in 1 .. m - 1
        PROVE  /\ Began(frames'[i]) \subseteq 1 .. n
               /\ \A b \in Ahead(frames'[i]) :
                    b \in 1 .. n /\ Untouched(blocks'[b]) /\ b # cur'
    <3>1. Began(frames[i]) \subseteq 1 .. n
      BY <1>2, <1>3 DEF FramesApart, m, n
    <3> QED BY <1>2, <1>5, <1>6, <3>1
  <2>2. ASSUME NEW i \in 1 .. m - 1, NEW b \in Ahead(frames'[i]),
               NEW j \in 1 .. m - 1
        PROVE  b \notin Began(frames'[j]) /\ (b \in Ahead(frames'[j]) => i = j)
    <3>1. \A k, l \in 1 .. m : \A c \in Ahead(frames[k]) :
           c \notin Began(frames[l]) /\ (c \in Ahead(frames[l]) => k = l)
      BY <1>3 DEF FramesApart, m
    <3>2. i \in 1 .. m /\ j \in 1 .. m
      BY <1>2
    <3> QED BY <1>6, <3>1, <3>2
  <2>3. Len(frames') = m - 1 /\ Len(blocks') = n
    BY <1>2, <1>6 DEF n
  <2> QED BY ONLY <2>1, <2>2, <2>3 DEF FramesApart
<1>8. \A i \in 1 .. m : BranchingAbove(i - 1)' <=> BranchingAbove(i - 1)
  <2>1. \A i \in 1 .. m : \A j \in 1 .. i - 1 : j \in 1 .. m - 1
    BY ONLY <1>2
  <2> QED BY ONLY <1>6, <2>1 DEF BranchingAbove
<1>9. JoinsNested'
  <2>1. ASSUME NEW i \in 1 .. m - 1, frames'[i].kind \in Branching
        PROVE  /\ blocks'[frames'[i].join].join
               /\ BranchingAbove(i - 1)' => blocks'[frames'[i].join].nested
    <3>1. frames'[i] = frames[i] /\ i \in 1 .. m
      BY <1>2, <1>6
    <3>2. frames[i].join \in 1 .. n
      BY <1>3, <2>1, <3>1, JoinThere DEF m, n
    <3> QED BY <1>2, <1>3, <1>8, <2>1, <3>1, <3>2 DEF JoinsNested, m
  <2> QED BY <1>6, <2>1 DEF JoinsNested
<1>10. BlocksAccounted'
  <2>1. ASSUME NEW k \in 1 .. n
        PROVE  Accounted(k)'
    <3>1. CASE k \in Ahead(f)
      BY <1>5, <3>1 DEF Accounted
    <3>2. CASE \E i \in 1 .. m - 1 :
                  k \in Began(frames[i]) \cup Ahead(frames[i])
      <4>1. \E i \in 1 .. Len(frames') :
               k \in Began(frames'[i]) \cup Ahead(frames'[i])
        BY <1>2, <1>6, <3>2
      <4> QED BY <4>1 DEF Accounted, Ahead, Began
    <3>3. CASE get_terminator(blocks'[k]) \/ OpenJoin(blocks'[k])
      BY <3>3 DEF Accounted, get_terminator, OpenJoin
    <3> QED BY <1>2, <3>1, <3>2, <3>3
  <2>2. ASSUME NEW i \in 1 .. m - 1, frames'[i].kind \in Branching
        PROVE  OpenJoin(blocks'[cur'])
    <3>1. m \in 1 .. m /\ frames[m].kind \in Branching
      <4>1. m \in 1 .. m /\ frames[m] = f
        BY <1>2 DEF f
      <4> QED BY ONLY <1>4, <4>1 DEF Branching
    <3>2. BranchingAbove(m - 1)
      BY <1>6, <2>2 DEF BranchingAbove
    <3>3. blocks[cur'].join /\ blocks[cur'].nested
      BY <1>3, <1>4, <3>1, <3>2 DEF JoinsNested, m, f
    <3> QED BY <1>2, <1>5, <3>3 DEF OpenJoin
  <2>3. Len(blocks') = n /\ Len(frames') = m - 1
    BY <1>2, <1>6 DEF n
  <2>4. BranchingAbove(Len(frames))' => OpenJoin(blocks'[cur'])
    BY ONLY <2>2, <2>3 DEF BranchingAbove
  <2> QED BY ONLY <2>1, <2>3, <2>4 DEF BlocksAccounted, OpenJoin
<1>11. BranchesLeave'
  <2>1. \A i \in 1 .. Len(blocks') : Written(blocks'[i])
    BY <1>2 DEF n
  <2>2. Untouched(blocks'[cur']) /\ None # "br"
    BY <1>5, CodegenAssumption
  <2> QED BY <2>1, <2>2 DEF BranchesLeave, Untouched
<1>12. cur' \in 0 .. Len(blocks') /\ cur' # 0
  BY <1>2, <1>3, <1>5 DEF n
<1>13. Len(blocks') <= MaxBlocks /\ Len(frames') <= MaxNesting
  BY <1>2, <1>3, <1>6, FrontEndAssumption
<1> QED
  BY <1>13, <1>2, <1>6, <1>7, <1>9, <1>10, <1>11, <1>12
     DEF BlocksKept, OnlyNestedJoinsOpen

(* A construct that makes no blocks is entered or left.                    *)
LEMMA BlocksPlain ==
    ASSUME BlocksInv, InFunction, InFunction', stage' # "finished",
           UNCHANGED <<blocks, cur>>,
           \/ /\ Len(frames) < MaxNesting
              /\ \E f \in FrameType :
                   f.kind = "plain" /\ frames' = Append(frames, f)
           \/ /\ frames # <<>> /\ Last(frames).kind = "plain"
              /\ frames' = Front(frames)
    PROVE  BlocksKept
<1>1. /\ blocks \in Seq(BlockType) /\ frames \in Seq(FrameType)
      /\ cur \in 0 .. Len(blocks) /\ cur # 0 /\ Len(frames) \in Nat
      /\ FramesApart /\ JoinsNested /\ BlocksAccounted /\ BranchesLeave
      /\ Len(blocks) <= MaxBlocks /\ Len(frames) <= MaxNesting
  BY DEF BlocksInv, Types
<1>2. PICK k \in Nat :
        /\ frames' \in Seq(FrameType) /\ Len(frames) \in {k, k + 1}
        /\ Len(frames') \in {k, k + 1} /\ Len(frames') <= MaxNesting
        /\ \A i \in 1 .. k : frames'[i] = frames[i]
        /\ k + 1 = Len(frames) => frames[k + 1].kind = "plain"
        /\ k + 1 = Len(frames') => frames'[k + 1].kind = "plain"
  <2>1. CASE /\ Len(frames) < MaxNesting
             /\ \E f \in FrameType :
                  f.kind = "plain" /\ frames' = Append(frames, f)
    <3>1. PICK f \in FrameType : f.kind = "plain" /\ frames' = Append(frames, f)
      BY <2>1
    <3>3. Len(frames) < MaxNesting
      BY <2>1
    <3>2. /\ frames' \in Seq(FrameType) /\ Len(frames') = Len(frames) + 1
          /\ frames'[Len(frames) + 1] = f
          /\ \A i \in 1 .. Len(frames) : frames'[i] = frames[i]
      BY ONLY <1>1, <3>1, AppendOf
    <3> WITNESS Len(frames) \in Nat
    <3> QED BY ONLY <1>1, <3>1, <3>2, <3>3, FrontEndAssumption
  <2>2. CASE /\ frames # <<>> /\ Last(frames).kind = "plain"
             /\ frames' = Front(frames)
    <3>1. /\ frames' \in Seq(FrameType) /\ Len(frames') = Len(frames) - 1
          /\ frames[Len(frames)].kind = "plain" /\ Len(frames) \in Nat \ {0}
          /\ \A i \in 1 .. Len(frames) - 1 : frames'[i] = frames[i]
      BY <1>1, <2>2, FrontOf
    <3>2. Len(frames) - 1 \in Nat /\ (Len(frames) - 1) + 1 = Len(frames)
      BY <3>1
    <3> WITNESS Len(frames) - 1 \in Nat
    <3> QED BY ONLY <1>1, <3>1, <3>2, FrontEndAssumption
  <2> QED BY <2>1, <2>2
<1>3. /\ \A i \in 1 .. Len(frames) :
           i \in 1 .. k \/ frames[i].kind = "plain"
      /\ \A i \in 1 .. Len(frames') :
           i \in 1 .. k \/ frames'[i].kind = "plain"
      /\ 1 .. k \subseteq 1 .. Len(frames) /\ 1 .. k \subseteq 1 .. Len(frames')
  <2>1. /\ \A i \in 1 .. k + 1 : i \in 1 .. k \/ i = k + 1
        /\ 1 .. k \subseteq 1 .. k + 1
    OBVIOUS
  <2> QED BY ONLY <1>2, <2>1
<1>4. \A f : f.kind = "plain" => Began(f) = {} /\ Ahead(f) = {}
  BY DEF Began, Ahead
<1>5. FramesApart'
  <2>1. \A i \in 1 .. Len(frames') :
          \/ Began(frames'[i]) = {} /\ Ahead(frames'[i]) = {}
          \/ i \in 1 .. Len(frames) /\ frames'[i] = frames[i]
    BY ONLY <1>2, <1>3, <1>4
  <2> QED BY ONLY <1>1, <2>1, UNCHANGED <<blocks, cur>> DEF FramesApart
<1>6. JoinsNested'
  <2>1. ASSUME NEW i \in 1 .. Len(frames'), frames'[i].kind \in Branching
        PROVE  /\ blocks'[frames'[i].join].join
               /\ BranchingAbove(i - 1)' => blocks'[frames'[i].join].nested
    <3>1. i \in 1 .. k
      BY ONLY <1>3, <2>1 DEF Branching
    <3>2. i \in 1 .. Len(frames) /\ frames[i] = frames'[i]
      BY ONLY <1>2, <1>3, <3>1
    <3>3. \A j \in 1 .. i - 1 : j \in 1 .. k
      BY ONLY <3>1, k \in Nat
    <3>4. BranchingAbove(i - 1)' <=> BranchingAbove(i - 1)
      BY ONLY <1>2, <3>3 DEF BranchingAbove
    <3> QED BY <1>1, <2>1, <3>2, <3>4 DEF JoinsNested
  <2> QED BY <2>1 DEF JoinsNested
<1>7. BlocksAccounted'
  <2>1. \A i \in 1 .. Len(frames) :
           \/ Began(frames[i]) = {} /\ Ahead(frames[i]) = {}
           \/ i \in 1 .. Len(frames') /\ frames'[i] = frames[i]
    BY ONLY <1>2, <1>3, <1>4
  <2>2. BranchingAbove(Len(frames))' => BranchingAbove(Len(frames))
    <3>1. ASSUME NEW i \in 1 .. Len(frames'), frames'[i].kind \in Branching
          PROVE  i \in 1 .. Len(frames) /\ frames[i].kind \in Branching
      BY ONLY <1>2, <1>3, <3>1 DEF Branching
    <3> QED BY ONLY <3>1 DEF BranchingAbove
  <2>3. ASSUME NEW x,
               \E i \in 1 .. Len(frames) :
                 x \in Began(frames[i]) \cup Ahead(frames[i])
        PROVE  \E i \in 1 .. Len(frames') :
                 x \in Began(frames'[i]) \cup Ahead(frames'[i])
    BY ONLY <2>1, <2>3
  <2>4. ASSUME NEW x, \E i \in 1 .. Len(frames) : x \in Began(frames[i])
        PROVE  \E i \in 1 .. Len(frames') : x \in Began(frames'[i])
    BY ONLY <2>1, <2>4
  <2>5. ASSUME NEW x \in 1 .. Len(blocks)
        PROVE  Accounted(x)'
    <3>1. Accounted(x)
      BY <1>1 DEF BlocksAccounted
    <3> QED
      BY ONLY <2>3, <3>1, UNCHANGED <<blocks, cur>> DEF Accounted
  <2>6. BranchingAbove(Len(frames))' =>
          \/ OpenJoin(blocks'[cur'])
          \/ \E i \in 1 .. Len(frames') : cur' \in Began(frames'[i])
    <3>1. BranchingAbove(Len(frames)) =>
            \/ OpenJoin(blocks[cur])
            \/ \E i \in 1 .. Len(frames) : cur \in Began(frames[i])
      BY <1>1 DEF BlocksAccounted
    <3> QED BY ONLY <2>2, <2>4, <3>1, UNCHANGED <<blocks, cur>>
  <2> QED
    BY ONLY <2>5, <2>6, UNCHANGED <<blocks, cur>> DEF BlocksAccounted
<1>8. BranchesLeave'
  BY <1>1 DEF BranchesLeave
<1> QED
  BY <1>1, <1>2, <1>5, <1>6, <1>7, <1>8 DEF BlocksKept, OnlyNestedJoinsOpen

(* Nothing happens to the blocks.                                          *)
LEMMA BlocksQuiet ==
    ASSUME BlocksInv, InFunction' = InFunction, stage' # "finished",
           UNCHANGED <<blocks, cur, frames>>
    PROVE  BlocksKept
<1>1. /\ blocks \in Seq(BlockType) /\ frames \in Seq(FrameType)
      /\ cur \in 0 .. Len(blocks) /\ (InFunction => cur # 0)
      /\ FramesApart /\ JoinsNested /\ BlocksAccounted /\ BranchesLeave
      /\ Len(blocks) <= MaxBlocks /\ Len(frames) <= MaxNesting
      /\ ~InFunction => frames = <<>>
  BY DEF BlocksInv, Types
<1>2. FramesApart'
  BY <1>1 DEF FramesApart
<1>3. JoinsNested'
  BY <1>1 DEF JoinsNested, BranchingAbove
<1>4. BlocksAccounted'
  BY <1>1 DEF BlocksAccounted, BranchingAbove, Accounted
<1>5. BranchesLeave'
  BY <1>1 DEF BranchesLeave
<1> QED
  BY <1>1, <1>2, <1>3, <1>4, <1>5 DEF BlocksKept, OnlyNestedJoinsOpen

(* The blocks of a function are done with.                                 *)
LEMMA BlocksClear ==
    ASSUME ~InFunction', stage' # "finished",
           blocks' = <<>>, cur' = 0, frames' = <<>>
    PROVE  BlocksKept
<1>1. Len(blocks') = 0 /\ Len(frames') = 0 /\ 1 .. 0 = {}
  OBVIOUS
<1>2. blocks' \in Seq(BlockType) /\ frames' \in Seq(FrameType)
  OBVIOUS
<1>3. FramesApart' /\ JoinsNested'
  BY <1>1 DEF FramesApart, JoinsNested
<1>4. BlocksAccounted' /\ BranchesLeave' /\ OnlyNestedJoinsOpen'
  BY <1>1 DEF BlocksAccounted, BranchesLeave, OnlyNestedJoinsOpen
<1> QED BY <1>1, <1>2, <1>3, <1>4, FrontEndAssumption DEF BlocksKept

(* A function begins, with one block.                                      *)
LEMMA BlocksHead ==
    ASSUME NEW has_self, compile_fn_entry(has_self), stage' = "signature"
    PROVE  BlocksKept
<1> DEFINE b == [shape |-> "open", first |-> None, join |-> FALSE,
                 nested |-> FALSE]
<1>1. /\ b \in BlockType /\ Written(b) /\ b.first # "br"
      /\ b.shape \notin {"tail", "twice"}
  BY CodegenAssumption DEF BlockType, Written
<1>2. blocks' = <<b>> /\ cur' = 1 /\ frames' = <<>>
  BY DEF compile_fn_entry
<1> HIDE DEF b
<1>3. /\ blocks' \in Seq(BlockType) /\ Len(blocks') = 1 /\ blocks'[1] = b
      /\ frames' \in Seq(FrameType) /\ Len(frames') = 0
  BY <1>1, <1>2
<1>4. 1 .. 0 = {} /\ \A i \in 1 .. 1 : i = 1
  OBVIOUS
<1>5. FramesApart' /\ JoinsNested'
  BY <1>3, <1>4 DEF FramesApart, JoinsNested
<1>6. BlocksAccounted'
  <2>1. \A k \in 1 .. Len(blocks') : Accounted(k)'
    BY <1>2, <1>3, <1>4 DEF Accounted
  <2>2. ~BranchingAbove(Len(frames))'
    BY <1>3, <1>4 DEF BranchingAbove
  <2> QED BY <2>1, <2>2 DEF BlocksAccounted
<1>7. BranchesLeave'
  BY <1>1, <1>2, <1>3, <1>4 DEF BranchesLeave
<1> QED
  BY <1>2, <1>3, <1>5, <1>6, <1>7, FrontEndAssumption
     DEF BlocksKept, OnlyNestedJoinsOpen, InFunction

(* A function ends, with a return in the last block.                       *)
LEMMA BlocksExit ==
    ASSUME BlocksInv, InFunction, ~InFunction', frames = <<>>,
           blocks' = [blocks EXCEPT ![cur] = emit_default_return(@)],
           UNCHANGED <<cur, frames>>
    PROVE  BlocksKept
<1>1. /\ blocks \in Seq(BlockType) /\ frames \in Seq(FrameType)
      /\ cur \in 1 .. Len(blocks) /\ Len(frames) = 0 /\ 1 .. 0 = {}
      /\ BlocksAccounted /\ BranchesLeave
      /\ Len(blocks) <= MaxBlocks /\ Len(frames) <= MaxNesting
  BY DEF BlocksInv, Types
<1>2. /\ blocks[cur] \in BlockType /\ Written(blocks[cur])
      /\ blocks[cur].first # "br"
  BY <1>1 DEF BranchesLeave
<1> DEFINE c == emit_default_return(blocks[cur])
<1>3. Same(blocks[cur], c) /\ Written(c) /\ get_terminator(c)
  <2>1. CASE get_terminator(blocks[cur])
    BY <1>2, <2>1 DEF emit_default_return, Same
  <2>2. CASE ~get_terminator(blocks[cur])
    BY <1>2, <2>2, TerminatorOf DEF emit_default_return
  <2> QED BY <2>1, <2>2
<1>4. blocks' = [blocks EXCEPT ![cur] = c]
  OBVIOUS
<1> HIDE DEF c
<1>5. Changed(blocks, cur, blocks') /\ blocks'[cur] = c
  <2>1. \A i \in 1 .. Len(blocks) : Written(blocks[i])
    BY <1>1 DEF BranchesLeave
  <2> QED BY ONLY <1>1, <1>3, <1>4, <2>1, ChangedOf
<1>6. /\ blocks' \in Seq(BlockType) /\ Len(blocks') = Len(blocks)
      /\ \A k \in 1 .. Len(blocks) :
           /\ Written(blocks'[k])
           /\ k # cur => blocks'[k] = blocks[k]
  BY ONLY <1>5 DEF Changed
<1>7. \A k \in 1 .. Len(blocks) :
        get_terminator(blocks'[k]) \/ OpenJoin(blocks'[k])
  <2>1. \A k \in 1 .. Len(blocks) :
          get_terminator(blocks[k]) \/ OpenJoin(blocks[k]) \/ k = cur
    BY <1>1 DEF BlocksAccounted, Accounted
  <2> QED BY ONLY <1>3, <1>5, <1>6, <2>1
<1>8. FramesApart' /\ JoinsNested' /\ BlocksAccounted'
  BY <1>1 DEF FramesApart, JoinsNested, BlocksAccounted
<1>9. BranchesLeave'
  BY <1>6 DEF BranchesLeave
<1>10. OnlyNestedJoinsOpen'
  BY <1>6, <1>7 DEF OnlyNestedJoinsOpen, OpenJoin, get_terminator
<1> QED BY <1>1, <1>6, <1>8, <1>9, <1>10 DEF BlocksKept

(* Every step keeps the blocks in order.                                   *)
LEMMA BlocksNextStep ==
    ASSUME BlocksInv, Next
    PROVE  BlocksKept
<1>1. CASE Entity \/ EndEntity
  BY <1>1, BlocksQuiet DEF Entity, EndEntity, At, Goto, functionVars, InFunction
<1>2. CASE Body
  BY <1>2, BlocksQuiet DEF Body, At, Goto, functionVars, InFunction
<1>3. CASE When
  BY <1>3, BlocksHead DEF When
<1>4. CASE EndFunction
  BY <1>4, BlocksExit
     DEF EndFunction, At, Goto, compile_fn_exit, InFunction
<1>5. CASE NextItem
  <2>1. frames = <<>>
    BY <1>5 DEF NextItem, At, BlocksInv, Types, InFunction
  <2> QED BY <1>5, <2>1, BlocksClear DEF NextItem, InFunction
<1>6. CASE Return
  BY <1>6, BlocksWrite DEF Return, InBody, At, compile_return, InFunction
<1>7. CASE Else
  BY <1>7, BlocksElse
     DEF Else, InBody, At, compile_else, ThenBranched, InFunction
<1>8. CASE Plain
  <2> DEFINE f == [kind |-> "plain", own |-> None, join |-> None]
  <2>1. f \in FrameType /\ f.kind = "plain"
    BY DEF FrameType, Construct
  <2>2. /\ frames' = Append(frames, f) /\ UNCHANGED <<blocks, cur>>
        /\ InFunction /\ InFunction' /\ stage' # "finished"
        /\ Len(frames) < MaxNesting
    BY <1>8 DEF Plain, InBody, At, compile_plain, Push, InFunction
  <2> HIDE DEF f
  <2> QED BY <2>1, <2>2, BlocksPlain
<1>9. ASSUME NEW more \in {2, 3}, NEW kind \in {"if", "then", "loop"},
             kind = "if" <=> more = 3, InBody, Room(more),
             Push([kind |-> kind, own |-> Len(blocks) + 1,
                   join |-> Len(blocks) + 2]),
             cur' = Len(blocks) + 1,
             blocks' = [blocks EXCEPT ![cur] = EmitTerminator(@, "br")]
                       \o <<Block(FALSE), Block(TRUE)>>
                       \o (IF more = 3 THEN <<Block(FALSE)>> ELSE <<>>)
      PROVE  BlocksKept
  <2> DEFINE f == [kind |-> kind, own |-> Len(blocks) + 1,
                   join |-> Len(blocks) + 2]
  <2>1. Len(blocks) \in Nat
    BY DEF BlocksInv, Types
  <2>2. /\ f \in FrameType /\ f.kind = kind /\ f.own = Len(blocks) + 1
        /\ f.join = Len(blocks) + 2
    BY <2>1 DEF FrameType, Construct
  <2>3. /\ frames' = Append(frames, f) /\ InFunction /\ InFunction'
        /\ stage' # "finished"
    BY <1>9 DEF Push, InBody, At, InFunction
  <2>4. Len(blocks) + more <= MaxBlocks /\ Len(frames) < MaxNesting
    BY <1>9 DEF Room
  <2> HIDE DEF f
  <2> QED BY <1>9, <2>2, <2>3, <2>4, BlocksEnter
<1>10. CASE Loop
  <2> DEFINE B == [blocks EXCEPT ![cur] = EmitTerminator(@, "br")]
                       \o <<Block(FALSE), Block(TRUE)>>
  <2>1. /\ InBody /\ Room(2) /\ cur' = Len(blocks) + 1 /\ blocks' = B
        /\ Push([kind |-> "loop", own |-> Len(blocks) + 1,
                 join |-> Len(blocks) + 2])
    BY <1>10 DEF Loop, compile_loop
  <2> QED BY <1>9, <2>1
<1>11. ASSUME NEW else_ \in BOOLEAN, If(else_)
       PROVE  BlocksKept
  BY <1>9, <1>11 DEF If, compile_if
<1>12. CASE Close
  <2>1. /\ InFunction /\ InFunction' /\ stage' # "finished" /\ frames # <<>>
        /\ frames' = Front(frames) /\ Last(frames).kind # "if"
    BY <1>12 DEF Close, InBody, At, compile_close, InFunction
  <2>2. Last(frames).kind \in Construct
    <3>1. frames \in Seq(FrameType) /\ frames # <<>>
      BY <2>1 DEF BlocksInv, Types
    <3>2. Last(frames) \in FrameType
      BY ONLY <3>1, FrontOf
    <3> QED BY <3>2 DEF FrameType
  <2>3. CASE Last(frames).kind = "plain"
    BY <1>12, <2>1, <2>3, BlocksPlain DEF Close, compile_close
  <2>4. CASE Last(frames).kind # "plain"
    <3>1. Last(frames).kind \in {"then", "else", "loop"}
      BY <2>1, <2>2, <2>4 DEF Construct
    <3> QED BY <1>12, <2>1, <2>4, <3>1, BlocksClose DEF Close, compile_close
  <2> QED BY <2>3, <2>4
<1>13. CASE EndProgram
  BY <1>13, BlocksClear DEF EndProgram, InFunction
<1>14. ASSUME NEW t, DataField(t) \/ ExternType(t)
       PROVE  BlocksKept
  BY <1>14, BlocksQuiet
     DEF DataField, ExternType, At, Goto, functionVars, InFunction
<1>15. ASSUME NEW t, Function(t) \/ Method(t)
       PROVE  BlocksKept
  BY <1>15, BlocksHead DEF Function, Method
<1>16. ASSUME NEW n \in Name, NEW o \in Name,
              Use(n) \/ Assign(n) \/ Call(n) \/ CallField(o, n)
       PROVE  BlocksKept
  BY <1>16, BlocksWrite
     DEF Use, Assign, Call, CallField, InBody, At, compile_identifier,
         compile_assign, compile_call, Instruction, InFunction
<1>17. ASSUME NEW n \in Name, NEW t, Property(n, t)
       PROVE  BlocksKept
  BY <1>17, BlocksQuiet DEF Property, At, functionVars, InFunction
<1>18. ASSUME NEW n \in Name, NEW t, Parameter(n, t) \/ VarDecl(n, t)
       PROVE  BlocksKept
  BY <1>18, BlocksWrite
     DEF Parameter, VarDecl, InBody, At, compile_variable, compile_parameter,
         Declare, InFunction
<1> QED
  BY <1>1, <1>2, <1>3, <1>4, <1>5, <1>6, <1>7, <1>8, <1>10, <1>11, <1>12,
     <1>13, <1>14, <1>15, <1>16, <1>17, <1>18 DEF Next

(* ---- Types. ---- *)
(* The stacks a step makes of the ones there are.                          *)
ScopesMade ==
    \/ scopes' \in {scopes, push_scope(scopes), pop_scope(scopes),
                    push_scope(pop_scope(scopes)), <<NoSymbols>>}
    \/ \E n \in Name, kind \in SymbolKind : scopes' = define(scopes, n, kind)

LocalsMade ==
    \/ locals' \in {locals, <<{}>>, <<{Self}>>, <<>>}
    \/ locals' = Append(locals, {})
    \/ locals # <<>> /\ locals' = Front(locals)
    \/ locals # <<>> /\ locals' = Append(Front(locals), {})
    \/ /\ locals # <<>>
       /\ \E n \in Name :
            locals' = [locals EXCEPT ![Len(locals)] = @ \cup {n}]

(* The scopes of the typechecker keep their type.                          *)
LEMMA ScopesTyped ==
    ASSUME Types, scopes # <<>>, ScopesMade
    PROVE  scopes' \in Seq([Name -> SymbolKind \cup {None}])
<1> DEFINE S == [Name -> SymbolKind \cup {None}]
<1>1. scopes \in Seq(S) /\ NoSymbols \in S
  BY DEF Types, NoSymbols
<1>2. /\ Len(scopes) \in 1 .. Len(scopes)
      /\ scopes[Len(scopes)] \in S
  BY <1>1
<1>3. ASSUME NEW n \in Name, NEW kind \in SymbolKind
      PROVE  define(scopes, n, kind) \in Seq(S)
  <2>1. [scopes[Len(scopes)] EXCEPT ![n] = kind] \in S
    BY <1>2
  <2> QED BY <1>1, <1>2, <2>1 DEF define
<1> HIDE DEF S
<1>4. Front(scopes) \in Seq(S)
  BY ONLY <1>1, scopes # <<>>, FrontOf
<1>5. /\ push_scope(scopes) \in Seq(S) /\ pop_scope(scopes) \in Seq(S)
      /\ push_scope(pop_scope(scopes)) \in Seq(S) /\ <<NoSymbols>> \in Seq(S)
  BY ONLY <1>1, <1>4 DEF push_scope, pop_scope
<1>6. scopes' \in Seq(S)
  BY <1>1, <1>3, <1>5 DEF ScopesMade
<1> QED BY <1>6 DEF S

(* The locals of codegen keep their type.                                  *)
LEMMA LocalsTyped ==
    ASSUME Types, LocalsMade
    PROVE  locals' \in Seq(SUBSET Name)
<1> DEFINE S == SUBSET Name
<1>1. locals \in Seq(S) /\ {} \in S /\ {Self} \in S
  BY TypecheckerAssumption DEF Types
<1>2. ASSUME NEW n \in Name, locals # <<>>
      PROVE  [locals EXCEPT ![Len(locals)] = @ \cup {n}] \in Seq(S)
  <2>1. Len(locals) \in 1 .. Len(locals)
    BY <1>1, <1>2
  <2>2. locals[Len(locals)] \cup {n} \in S
    BY <1>1, <2>1
  <2> HIDE DEF S
  <2> QED BY ONLY <1>1, <2>1, <2>2, ExceptOf
<1> HIDE DEF S
<1>3. locals # <<>> => Front(locals) \in Seq(S)
  BY ONLY <1>1, FrontOf
<1>4. locals' \in Seq(S)
  <2>1. /\ <<{}>> \in Seq(S) /\ <<{Self}>> \in Seq(S) /\ <<>> \in Seq(S)
        /\ Append(locals, {}) \in Seq(S)
    BY ONLY <1>1
  <2>2. locals # <<>> => Append(Front(locals), {}) \in Seq(S)
    BY ONLY <1>1, <1>3
  <2> QED BY <1>1, <1>2, <1>3, <2>1, <2>2 DEF LocalsMade
<1> QED BY <1>4 DEF S

(* Every step makes stacks of these kinds, and keeps the declarations.     *)
LEMMA StacksMade ==
    ASSUME Types, ScopesAgree, Next
    PROVE  /\ ScopesMade /\ LocalsMade /\ functions' = functions
           /\ errors' \in BOOLEAN
           /\ stage' \in {"top", "entity", "signature", "body", "finished",
                          "extern", "end"}
           /\ item' \in {"fn", "member", None}
           /\ signature' \in {"full", "short", "spent"}
           /\ stage' = "signature" => frames' = <<>>
<1> DEFINE Stages == {"top", "entity", "signature", "body", "finished",
                      "extern", "end"}
           Made == /\ ScopesMade /\ LocalsMade /\ functions' = functions
                   /\ errors' \in BOOLEAN /\ stage' \in Stages
                   /\ item' \in {"fn", "member", None}
                   /\ signature' \in {"full", "short", "spent"}
                   /\ stage' = "signature" => frames' = <<>>
<1>1. /\ errors \in BOOLEAN /\ stage \in Stages
      /\ item \in {"fn", "member", None}
      /\ locals \in Seq(SUBSET Name)
      /\ Len(locals) = IF InFunction THEN Len(frames) + 1 ELSE 0
      /\ Len(frames) \in Nat /\ signature \in {"full", "short", "spent"}
      /\ stage = "signature" => frames = <<>>
      /\ Signatures \subseteq {"full", "short", "spent"}
  BY SignaturesAssumption DEF Types, ScopesAgree
<1>2. InFunction => locals # <<>>
  BY <1>1
<1>3. {"Property", "Local"} \subseteq SymbolKind
  BY DEF SymbolKind
<1>4. CASE Entity \/ EndEntity
  BY <1>1, <1>4
     DEF Entity, EndEntity, At, Goto, functionVars, check_open, check_close,
         ScopesMade, LocalsMade
<1>5. CASE When \/ Body
  BY <1>1, <1>5
     DEF When, Body, At, Goto, functionVars, check_open, compile_fn_entry,
         ScopesMade, LocalsMade
<1>6. CASE EndFunction \/ Close
  BY <1>1, <1>2, <1>6
     DEF EndFunction, Close, InBody, At, Goto, check_close, PopLocals,
         compile_fn_exit, compile_close, ScopesMade, LocalsMade, InFunction
<1>7. CASE NextItem \/ Return
  BY <1>1, <1>7
     DEF NextItem, Return, InBody, At, compile_return, ScopesMade, LocalsMade
<1>8. CASE Else
  BY <1>1, <1>2, <1>8
     DEF Else, InBody, At, check_next, compile_else, ScopesMade, LocalsMade,
         InFunction
<1>9. CASE Loop \/ Plain \/ \E else_ \in BOOLEAN : If(else_)
  BY <1>1, <1>9
     DEF Loop, Plain, If, InBody, At, check_open, compile_loop,
         compile_plain, compile_if, Push, ScopesMade, LocalsMade
<1>10. CASE EndProgram
  BY <1>1, <1>10 DEF EndProgram, ScopesMade, LocalsMade
<1>11. ASSUME NEW t, DataField(t) \/ ExternType(t)
       PROVE  Made
  BY <1>1, <1>11
     DEF DataField, ExternType, At, Goto, check_field, functionVars,
         ScopesMade, LocalsMade
<1>12. ASSUME NEW t, Function(t) \/ Method(t)
       PROVE  Made
  BY <1>1, <1>12
     DEF Function, Method, At, check_open, compile_fn_entry, ScopesMade,
         LocalsMade
<1>13. ASSUME NEW n \in Name, NEW o \in Name,
              Use(n) \/ Assign(n) \/ Call(n) \/ CallField(o, n)
       PROVE  Made
  BY <1>1, <1>13
     DEF Use, Assign, Call, CallField, InBody, At, type_of_identifier,
         compile_identifier, compile_assign, compile_call, Instruction,
         ScopesMade, LocalsMade
<1>14. ASSUME NEW n \in Name, NEW t,
              Property(n, t) \/ Parameter(n, t) \/ VarDecl(n, t)
       PROVE  Made
  BY <1>1, <1>2, <1>3, <1>14
     DEF Property, Parameter, VarDecl, InBody, At, check_declaration,
         compile_variable, compile_parameter, Declare, functionVars,
         ScopesMade, LocalsMade, InFunction
<1> HIDE DEF Made
<1>15. Made
  <2>1. ASSUME Entity \/ EndEntity \/ When \/ Body \/ EndFunction \/ NextItem
                 \/ Return \/ Else \/ Loop \/ Plain \/ Close \/ EndProgram
                 \/ \E else_ \in BOOLEAN : If(else_)
        PROVE  Made
    BY <1>4, <1>5, <1>6, <1>7, <1>8, <1>9, <1>10, <2>1 DEF Made
  <2> QED BY <1>11, <1>12, <1>13, <1>14, <2>1 DEF Next
<1> QED BY <1>15 DEF Made

(* Every step keeps the types.                                             *)
LEMMA TypesNextStep ==
    ASSUME Types, ScopesAgree, BlocksKept, Next
    PROVE  Types'
<1>1. scopes # <<>>
  <2>1. Base \in {1, 2} /\ locals \in Seq(SUBSET Name)
    BY DEF Base, Types
  <2>2. Len(scopes) = Base + Len(locals)
    BY DEF ScopesAgree
  <2>3. Len(locals) \in Nat
    BY <2>1
  <2>4. Len(scopes) # 0
    BY ONLY <2>1, <2>2, <2>3
  <2> QED BY <2>4
<1>2. /\ scopes' \in Seq([Name -> SymbolKind \cup {None}])
      /\ locals' \in Seq(SUBSET Name)
  BY <1>1, StacksMade, ScopesTyped, LocalsTyped
<1>3. functions' \subseteq Name
  BY StacksMade DEF Types
<1> QED BY <1>2, <1>3, StacksMade DEF Types, BlocksKept

(* ---- Annotations. ---- *)
(* A walk that converts more arguments comes to more.                      *)
LEMMA BelowMonotone ==
    ASSUME NEW S, NEW T, S \subseteq T, NEW C, NEW D, C \subseteq D
    PROVE  Below(S, C) \subseteq Below(T, D)
BY DEF Below

(* What codegen cannot lower, the typechecker has reported, as long as no  *)
(* name without a layout is registered.                                    *)
LEMMA CatchAllReports ==
    ASSUME UserDefined \subseteq Builtin, NEW t \in Annotation, t.catch_all
    PROVE  t.reports
<1>1. PICK e \in TypeExpr :
        t = [reports |-> Reports(e), catch_all |-> CatchAll(e)]
  BY DEF Annotation
<1>2. CatchAll(e)
  BY <1>1
<1>3. LoweredArgs \subseteq ConvertedArgs
  BY DEF LoweredArgs, ConvertedArgs
<1>4. Visited(e, LoweredArgs) \subseteq Visited(e, ConvertedArgs)
  <2>1. Below({e}, LoweredArgs) \subseteq Below({e}, ConvertedArgs)
    BY <1>3, BelowMonotone
  <2> QED BY <1>3, <2>1, BelowMonotone DEF Visited
<1>5. PICK u \in Visited(e, LoweredArgs) :
        u.node = "game_native" /\ ~layout_for(u.name)
  BY <1>2 DEF CatchAll
<1>6. ~is_known(u.name)
  BY <1>5 DEF layout_for, is_known
<1>7. Reports(e)
  BY <1>4, <1>5, <1>6 DEF Reports
<1> QED BY <1>1, <1>7

(* Until the first error, codegen has met its catch-all in the unchecked   *)
(* positions only.                                                         *)
ReachedUnchecked == ~errors => reached \subseteq UncheckedPosition

(* Every step leaves the catch-all to the unchecked positions.             *)
LEMMA ReachedNextStep ==
    ASSUME UserDefined \subseteq Builtin, ReachedUnchecked, Next
    PROVE  ReachedUnchecked'
<1>1. CASE UNCHANGED reached /\ (errors => errors')
  BY <1>1 DEF ReachedUnchecked
<1>2. ASSUME NEW t \in Annotation, NEW pos, Lower(pos, t),
             errors' = (errors \/ t.reports)
      PROVE  ReachedUnchecked'
  BY <1>2, CatchAllReports DEF ReachedUnchecked, Lower
<1>3. ASSUME NEW t \in Annotation, NEW pos \in UncheckedPosition,
             Lower(pos, t), UNCHANGED errors
      PROVE  ReachedUnchecked'
  BY <1>3 DEF ReachedUnchecked, Lower
<1>4. CASE Entity \/ EndEntity \/ When \/ Body \/ EndFunction \/ NextItem
  BY <1>1, <1>4
     DEF Entity, EndEntity, When, Body, EndFunction, NextItem, check_open,
         check_close, compile_fn_exit
<1>5. CASE Return \/ Else \/ Loop \/ Plain
  BY <1>1, <1>5
     DEF Return, Else, Loop, Plain, check_open, check_next, compile_return,
         compile_else, compile_loop, compile_plain
<1>6. CASE Close \/ EndProgram \/ \E else_ \in BOOLEAN : If(else_)
  BY <1>1, <1>6
     DEF Close, EndProgram, If, check_open, check_close, compile_close,
         compile_if
<1>7. ASSUME NEW t \in Annotation,
             DataField(t) \/ ExternType(t) \/ Function(t) \/ Method(t)
      PROVE  ReachedUnchecked'
  <2>1. CASE DataField(t)
    BY <1>2, <2>1 DEF DataField, check_field
  <2>2. CASE ExternType(t)
    BY <1>3, <2>2 DEF ExternType, UncheckedPosition
  <2>3. CASE Function(t)
    BY <1>2, <2>3 DEF Function, check_result
  <2>4. CASE Method(t)
    BY <1>3, <2>4 DEF Method, check_open, UncheckedPosition
  <2> QED BY <1>7, <2>1, <2>2, <2>3, <2>4
<1>8. ASSUME NEW n \in Name, NEW o \in Name,
             Use(n) \/ Assign(n) \/ Call(n) \/ CallField(o, n)
      PROVE  ReachedUnchecked'
  BY <1>1, <1>8
     DEF Use, Assign, Call, CallField, type_of_identifier, compile_identifier,
         compile_assign, compile_call, Instruction
<1>9. ASSUME NEW n \in Name, NEW t \in Annotation,
             Property(n, t) \/ Parameter(n, t) \/ VarDecl(n, t)
      PROVE  ReachedUnchecked'
  BY <1>2, <1>9
     DEF Property, Parameter, VarDecl, check_declaration, compile_variable,
         compile_parameter
<1> QED
  BY <1>4, <1>5, <1>6, <1>7, <1>8, <1>9 DEF Next

(* Whatever the errors: it is met at the positions of the program.         *)
LEMMA ReachedTyped ==
    ASSUME reached \subseteq Position, Next
    PROVE  reached' \subseteq Position
<1>1. CASE UNCHANGED reached
  BY <1>1
<1>2. ASSUME NEW t, NEW pos \in Position, Lower(pos, t)
      PROVE  reached' \subseteq Position
  BY <1>2 DEF Lower
<1>3. CASE Entity \/ EndEntity \/ When \/ Body \/ EndFunction \/ NextItem
  BY <1>1, <1>3
     DEF Entity, EndEntity, When, Body, EndFunction, NextItem, compile_fn_exit
<1>4. CASE Return \/ Else \/ Loop \/ Plain
  BY <1>1, <1>4
     DEF Return, Else, Loop, Plain, compile_return, compile_else,
         compile_loop, compile_plain
<1>5. CASE Close \/ EndProgram \/ \E else_ \in BOOLEAN : If(else_)
  BY <1>1, <1>5 DEF Close, EndProgram, If, compile_close, compile_if
<1>6. ASSUME NEW t,
             DataField(t) \/ ExternType(t) \/ Function(t) \/ Method(t)
      PROVE  reached' \subseteq Position
  BY <1>2, <1>6 DEF DataField, ExternType, Function, Method, Position
<1>7. ASSUME NEW n \in Name, NEW o \in Name,
             Use(n) \/ Assign(n) \/ Call(n) \/ CallField(o, n)
      PROVE  reached' \subseteq Position
  BY <1>1, <1>7
     DEF Use, Assign, Call, CallField, compile_identifier, compile_assign,
         compile_call, Instruction
<1>8. ASSUME NEW n \in Name, NEW t,
             Property(n, t) \/ Parameter(n, t) \/ VarDecl(n, t)
      PROVE  reached' \subseteq Position
  BY <1>2, <1>8
     DEF Property, Parameter, VarDecl, compile_variable, compile_parameter,
         Position
<1> QED BY <1>3, <1>4, <1>5, <1>6, <1>7, <1>8 DEF Next

(* ---- Theorems. ---- *)
(* The invariant holds at the start of every program.                      *)
LEMMA FrontEndInit ==
    ASSUME Init
    PROVE  FrontEndInv
<1> DEFINE S == [Name -> SymbolKind \cup {None}]
<1>1. PICK g \in [Name -> {"Entity", "Function", None}], others \in SUBSET Name :
        /\ scopes = <<g>>
        /\ functions = others \cup {n \in Name : g[n] = "Function"}
  BY DEF Init
<1>2. /\ errors = FALSE /\ reached = {} /\ locals = <<>> /\ blocks = <<>>
      /\ cur = 0 /\ frames = <<>> /\ stage = "top" /\ item = None
      /\ signature = "full"
  BY DEF Init
<1>3. /\ g \in S
      /\ \A n \in Name : /\ g[n] \in {"Entity", "Function", None}
                         /\ g[n] = "Function" => n \in functions
  BY <1>1, TypecheckerAssumption DEF SymbolKind
<1>4. scopes = <<g>>
  BY <1>1
<1> HIDE DEF S
<1>5. /\ scopes \in Seq(S) /\ Len(scopes) = 1 /\ scopes[1] = g
      /\ Len(locals) = 0 /\ Len(frames) = 0 /\ Len(blocks) = 0 /\ 1 .. 0 = {}
  BY ONLY <1>2, <1>3, <1>4
<1>6. ~InFunction /\ Base = 1 /\ stage # "finished"
  BY <1>2 DEF InFunction, Base
<1>7. Types
  <2>1. locals \in Seq(SUBSET Name) /\ blocks \in Seq(BlockType)
    BY ONLY <1>2
  <2>2. frames \in Seq(FrameType) /\ functions \subseteq Name
    BY ONLY <1>1, <1>2
  <2>3. Len(blocks) <= MaxBlocks /\ Len(frames) <= MaxNesting
    BY ONLY <1>5, FrontEndAssumption
  <2>4. cur \in 0 .. Len(blocks)
    BY ONLY <1>2, <1>5
  <2> QED BY <1>2, <1>5, <1>6, <2>1, <2>2, <2>3, <2>4 DEF Types, S
<1>8. ScopesAgree
  BY <1>3, <1>5, <1>6 DEF ScopesAgree
<1>9. FramesApart /\ JoinsNested /\ BlocksAccounted /\ BranchesLeave
  BY <1>5, <1>6 DEF FramesApart, JoinsNested, BlocksAccounted, BranchesLeave
<1> QED
  BY <1>2, <1>6, <1>7, <1>8, <1>9 DEF FrontEndInv, OnlyNestedJoinsOpen

(* And every step keeps it.                                                *)
LEMMA FrontEndNext ==
    ASSUME FrontEndInv, [Next]_vars
    PROVE  FrontEndInv'
<1>1. CASE Next
  <2>1. BlocksKept
    BY <1>1, BlocksNextStep DEF FrontEndInv, BlocksInv
  <2>2. ScopesAgree'
    BY <1>1, ScopesNextStep DEF FrontEndInv
  <2>3. Types'
    BY <1>1, <2>1, TypesNextStep DEF FrontEndInv
  <2>4. (reached \subseteq Position)'
    BY <1>1, ReachedTyped DEF FrontEndInv
  <2> QED BY <2>1, <2>2, <2>3, <2>4 DEF FrontEndInv, BlocksKept
<1>2. CASE UNCHANGED vars
  <2>1. /\ UNCHANGED <<scopes, errors, locals, functions, blocks, cur, frames>>
        /\ UNCHANGED <<signature, reached, stage, item>>
        /\ InFunction' = InFunction /\ Base' = Base
    BY <1>2 DEF vars, InFunction, Base
  <2>2. Types'
    BY <2>1 DEF FrontEndInv, Types
  <2>3. ScopesAgree'
    BY <2>1, ScopesQuiet DEF FrontEndInv
  <2>4. FramesApart' /\ BranchesLeave'
    BY <2>1 DEF FrontEndInv, FramesApart, BranchesLeave
  <2>5. JoinsNested'
    BY <2>1 DEF FrontEndInv, JoinsNested, BranchingAbove
  <2>6. BlocksAccounted'
    BY <2>1 DEF FrontEndInv, BlocksAccounted, BranchingAbove, Accounted
  <2>7. OnlyNestedJoinsOpen'
    BY <2>1 DEF FrontEndInv, OnlyNestedJoinsOpen
  <2> QED BY <2>1, <2>2, <2>3, <2>4, <2>5, <2>6, <2>7 DEF FrontEndInv
<1> QED BY <1>1, <1>2

(* The invariant, for every program: the two passes agree on the scopes,   *)
(* and every block that codegen makes is accounted for by a construct that *)
(* is being lowered.                                                       *)
THEOREM FrontEndInvariant == Spec => []FrontEndInv
<1>1. Init => FrontEndInv
  BY FrontEndInit
<1>2. FrontEndInv /\ [Next]_vars => FrontEndInv'
  BY FrontEndNext
<1> QED BY <1>1, <1>2, PTL DEF Spec

(* The types of the state.                                                 *)
THEOREM FrontEndTyped == Spec => []TypeOK
<1>1. FrontEndInv => TypeOK
  <2> SUFFICES ASSUME FrontEndInv
               PROVE  TypeOK
    OBVIOUS
  <2>1. Types /\ ScopesAgree /\ FramesApart /\ reached \subseteq Position
    BY DEF FrontEndInv
  <2>2. /\ scopes \in Seq([Name -> SymbolKind \cup {None}])
        /\ locals \in Seq(SUBSET Name) /\ frames \in Seq(FrameType)
        /\ Len(frames) <= MaxNesting /\ Len(frames) \in Nat
        /\ Len(locals) \in Nat
    BY <2>1 DEF Types
  <2>3. Len(scopes) \in 1 .. (MaxNesting + 3)
    <3>1. Len(scopes) = Base + Len(locals) /\ Base \in {1, 2}
      BY <2>1 DEF ScopesAgree, Base
    <3>2. Len(locals) \in {0, Len(frames) + 1}
      BY <2>1 DEF ScopesAgree
    <3> QED BY ONLY <2>2, <3>1, <3>2, FrontEndAssumption
  <2>4. /\ \A i \in 1 .. Len(scopes) :
             scopes[i] \in [Name -> SymbolKind \cup {None}]
        /\ \A i \in 1 .. Len(locals) : locals[i] \subseteq Name
    BY ONLY <2>2, ElementOf
  <2>5. ASSUME NEW i \in 1 .. Len(frames)
        PROVE  /\ frames[i].kind \in Construct
               /\ frames[i].kind \in Branching =>
                    {frames[i].own, frames[i].join} \subseteq 1 .. Len(blocks)
    <3>1. frames[i].kind \in Construct
      <4>1. frames[i] \in FrameType
        BY ONLY <2>2, <2>5, ElementOf
      <4> QED BY ONLY <4>1 DEF FrameType
    <3>2. ASSUME frames[i].kind \in Branching
          PROVE  frames[i].own \in 1 .. Len(blocks)
      <4>1. frames[i].own \in Began(frames[i])
        BY <3>2 DEF Began, Branching
      <4> QED BY <2>1, <4>1 DEF FramesApart
    <3> QED BY <2>1, <3>1, <3>2, JoinThere
  <2> QED BY <2>1, <2>3, <2>4, <2>5 DEF TypeOK, Types
<1> QED BY <1>1, FrontEndInvariant, PTL

(* Codegen and typechecker mean the same by a name, however bodies nest.   *)
THEOREM PassesAgree == Spec => []NamesAgree
<1>1. FrontEndInv => NamesAgree
  <2> SUFFICES ASSUME FrontEndInv, InFunction, NEW n \in Name
               PROVE  /\ local(n) => lookup(n) = "Local" \/ (n = Self /\ Base = 2)
                      /\ signature = "full" =>
                           /\ lookup(n) = "Local" \/ (n = Self /\ Base = 2) => local(n)
                           /\ lookup(n) = "Local" =>
                                Level(n) = LocalLevel(n) + Base
                      /\ lookup(n) = "Function" => n \in functions
    <3>1. InFunction => Base = (IF item = "fn" THEN 1 ELSE 2)
      BY DEF InFunction, Base
    <3>2. InFunction => (Base = 2 <=> item # "fn")
      BY <3>1
    <3> QED BY <3>1, <3>2 DEF NamesAgree, Receiver, InFunction
  <2> DEFINE L == Len(locals)
             T == {i \in 1 .. Len(scopes) : scopes[i][n] # None}
             U == {i \in 1 .. L : scopes[Base + i][n] = "Local"}
             V == {i \in 1 .. L : n \in locals[i]}
             R == n = Self /\ Base = 2
  <2>1. /\ L \in Nat \ {0} /\ Len(scopes) = Base + L /\ Base \in {1, 2}
        /\ Len(scopes) \in Nat
    <3>1. L \in Nat /\ Len(scopes) \in Nat /\ Len(frames) \in Nat
      BY DEF FrontEndInv, Types
    <3>2. L = Len(frames) + 1
      BY DEF FrontEndInv, ScopesAgree
    <3> QED BY <3>1, <3>2 DEF FrontEndInv, ScopesAgree, Base
  <2>2. /\ scopes[1][n] \in {"Entity", "Function", None}
        /\ scopes[1][n] = "Function" => n \in functions
        /\ Base = 2 => scopes[2][n] \in {"Property", None}
        /\ \A i \in 1 .. L :
             /\ scopes[Base + i][n] \in {"Local", None}
             /\ n \in locals[i] =>
                  scopes[Base + i][n] = "Local" \/ (i = 1 /\ R)
             /\ i # 1 \/ signature = "full" =>
                  (scopes[Base + i][n] = "Local" \/ (i = 1 /\ R)
                     => n \in locals[i])
    BY DEF FrontEndInv, ScopesAgree, Alike, Known
  <2>3. None \notin {"Entity", "Function", "Property", "Local"}
    BY TypecheckerAssumption DEF SymbolKind
  <2>4. Level(n) = Max({0} \cup T) /\ LocalLevel(n) = Max({0} \cup V)
    BY DEF Level, LocalLevel
  <2>5. local(n) <=> V # {}
    BY DEF local
  <2>6. lookup(n) = IF Level(n) = 0 THEN None ELSE scopes[Level(n)][n]
    BY DEF lookup
  <2> HIDE DEF L, R
  <2>7. /\ \A i \in U : i \in 1 .. L /\ Base + i \in T
        /\ \A i \in T :
             \/ i = 1 \/ (i = 2 /\ Base = 2)
             \/ i - Base \in U /\ i > Base /\ i = Base + (i - Base)
    <3>1. \A i \in 1 .. L : Base + i \in 1 .. Len(scopes)
      BY <2>1
    <3>2. \A i \in 1 .. Len(scopes) :
             \/ i = 1 \/ (i = 2 /\ Base = 2)
             \/ i - Base \in 1 .. L /\ i > Base /\ i = Base + (i - Base)
      BY <2>1
    <3>3. \A i \in U : i \in 1 .. L /\ Base + i \in T
      BY <2>2, <2>3, <3>1
    <3>4. ASSUME NEW i \in T, i - Base \in 1 .. L, i = Base + (i - Base)
          PROVE  i - Base \in U
      <4>1. scopes[Base + (i - Base)][n] # None
        BY <3>4
      <4> QED BY <2>2, <3>4, <4>1
    <3>5. T \subseteq 1 .. Len(scopes)
      OBVIOUS
    <3> HIDE DEF T, U
    <3> QED BY ONLY <3>2, <3>3, <3>4, <3>5
  <2>8. /\ T \subseteq 1 .. Len(scopes) /\ V \subseteq 1 .. L
        /\ \A i \in T : scopes[i][n] # None
        /\ U \subseteq 1 .. L /\ \A i \in U : scopes[Base + i][n] = "Local"
    OBVIOUS
  <2>14. /\ \A i \in V : i \in U \/ (i = 1 /\ R)
         /\ signature = "full" => U \subseteq V /\ (R => 1 \in V)
    <3>1. 1 \in 1 .. L
      BY <2>1
    <3> QED BY <2>2, <3>1
  <2> HIDE DEF T, U, V
  <2>9. /\ Level(n) \in {0} \cup T /\ \A y \in {0} \cup T : Level(n) >= y
    <3>1. {0} \cup T \subseteq 0 .. Len(scopes) /\ {0} \cup T # {}
      BY <2>1, <2>8
    <3> QED BY <2>1, <2>4, <3>1, MaxOf
  <2>10. /\ LocalLevel(n) \in {0} \cup V
         /\ \A y \in {0} \cup V : LocalLevel(n) >= y
    <3>1. {0} \cup V \subseteq 0 .. L /\ {0} \cup V # {}
      BY <2>1, <2>8
    <3> QED BY <2>1, <2>4, <3>1, MaxOf
  <2> DEFINE t == Level(n)
             u == LocalLevel(n)
  <2>11. t \in Nat /\ u \in Nat
    <3>1. /\ \A x \in {0} \cup T : x \in Nat
          /\ \A x \in {0} \cup V : x \in Nat
      BY ONLY <2>1, <2>8
    <3> QED BY <2>9, <2>10, <3>1
  <2> HIDE DEF t, u
  <2>12. CASE U # {}
    <3>1. PICK v \in U : TRUE
      BY <2>12
    <3>2. v >= 1 /\ v \in Nat
      BY <2>1, <2>8, <3>1
    <3>3. Base + v \in T /\ t \in T /\ t > Base
      BY <2>1, <2>7, <2>8, <2>9, <2>11, <3>1, <3>2 DEF t
    <3>4. t - Base \in U /\ t = Base + (t - Base)
      BY <2>1, <2>7, <3>3
    <3>5. scopes[t][n] = "Local"
      BY <2>8, <3>4
    <3>6. lookup(n) = "Local"
      BY <2>1, <2>6, <2>11, <3>3, <3>5 DEF t
    <3>7. ASSUME signature = "full"
          PROVE  local(n) /\ t = u + Base
      <4>1. t - Base \in V /\ u >= t - Base
        BY <2>10, <2>14, <3>4, <3>7 DEF u
      <4>2. u \in V /\ t - Base >= 1
        BY <2>1, <2>10, <2>11, <3>3, <4>1 DEF u
      <4>3. u \in U
        <5>1. u = 1 => u = t - Base
          BY <2>1, <2>11, <4>1, <4>2
        <5> QED BY <2>14, <3>4, <4>2, <5>1
      <4>4. t >= Base + u
        BY <2>7, <2>9, <4>3 DEF t
      <4> QED BY <2>1, <2>5, <2>11, <4>1, <4>4
    <3> QED BY <3>6, <3>7 DEF t, u
  <2>13. CASE U = {}
    <3>1. t = 0 \/ (t = 1 /\ t \in T) \/ (t = 2 /\ Base = 2 /\ t \in T)
      BY <2>7, <2>9, <2>13 DEF t
    <3>2. /\ lookup(n) # "Local"
          /\ lookup(n) = "Function" => n \in functions
      BY <2>2, <2>3, <2>6, <3>1 DEF t
    <3>3. /\ V # {} => R
          /\ signature = "full" => (R => V # {})
      BY <2>13, <2>14
    <3> QED BY <2>5, <3>2, <3>3 DEF R
  <2> QED BY <2>12, <2>13
<1> QED BY <1>1, FrontEndInvariant, PTL

(* A block that ends without a terminator is a join inside an if or loop.  *)
THEOREM OpenBlocksAreNestedJoins == Spec => []OnlyNestedJoinsOpen
<1>1. FrontEndInv => OnlyNestedJoinsOpen
  BY DEF FrontEndInv
<1> QED BY <1>1, FrontEndInvariant, PTL

(* No branch is ever written behind another terminator, or before one.     *)
THEOREM ReturnsSpoil == Spec => []SpoiledByReturnOnly
<1>1. FrontEndInv => SpoiledByReturnOnly
  BY DEF FrontEndInv, BranchesLeave, Written, SpoiledByReturnOnly
<1> QED BY <1>1, FrontEndInvariant, PTL

(* As long as no name is registered that has no layout, the typechecker    *)
(* rejects every program in which another position reaches the catch-all.  *)
THEOREM CheckedPositionsAreSafe ==
    ASSUME UserDefined \subseteq Builtin
    PROVE  Spec => []OnlyUncheckedTypesPanic
<1>1. Init => ReachedUnchecked
  BY DEF Init, ReachedUnchecked
<1>2. ReachedUnchecked /\ [Next]_vars => ReachedUnchecked'
  BY ReachedNextStep DEF ReachedUnchecked, vars
<1>3. ReachedUnchecked => OnlyUncheckedTypesPanic
  BY DEF ReachedUnchecked, OnlyUncheckedTypesPanic
<1> QED BY <1>1, <1>2, <1>3, PTL DEF Spec
=============================================================================
