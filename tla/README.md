# Verification of the Skev compiler and runtime

TLA+ models, TLC runs and TLAPS proofs for the code in this repository. The
runtime library (`src/skev-runtime`, a C-ABI static library with atomics, locks and
no threads of its own) is modelled and proved in full; the compiler
(`src/skev-compiler`) is modelled where one of its passes relies on what another did,
and its lexer and parser, which read arbitrary text, in full.

## 1. Inventory of the system

| part | state it keeps | operations | modelled by |
|---|---|---|---|
| `arc.rs` reference counts | `ref_count` at offset 0 of every object | `skev_alloc`, `skev_retain`, `skev_release`, `skev_dealloc` | `Arc`, `Heap` |
| `weak.rs` side table | 16 shards `address -> WeakEntry` behind Mutexes; per entry `target`, `weak_count`, `strong_alive` | `skev_weak_alloc`, `skev_weak_upgrade`, `skev_weak_release`, `on_dealloc` | `Weak`, `Heap` |
| `init.rs` lifecycle | `LIFECYCLE_STATE`, `LEAK_EXIT_CODE` | `skev_init`, `ensure_init`, `skev_shutdown` | `Lifecycle` |
| `leak.rs` tracker (feature `leak-check`) | 16 shards of live addresses behind Mutexes | `track_alloc`, `track_dealloc`, `report_leaks` | `Leak` |
| `panic.rs` | `HANDLER_INSTALLED`, `SAFETY_HANDLER` | `skev_register_safety_handler`, `skev_runtime_panic(_msg)` | `Panic` |
| `alloc.rs` allocator | two function pointers and a flag | `skev_alloc_raw`, `skev_free_raw`, `install_allocator` | `Heap` (default allocator only) |
| `codegen/mod.rs` | LLVM module, builder position, `locals` stack, named types and functions | five passes over the program and `emit_main` | `GeneratedMain` (main), `Codegen`, `FrontEnd` |
| `typechecker/mod.rs` | scope stack, error list | registration pass and checking pass | `Typechecker`, `TypeExprs`, `FrontEnd` |
| `types/game_native.rs` | the list of known `T!` types | `is_known`, `layout_for`, `register` | `TypeExprs` |
| `parser/mod.rs` | token position, error list, the Rust call stack | recursive descent with recovery, precedence climbing | `Parser`; the annotations it builds in `TypeExprs` |
| `lexer/mod.rs` | position, line, column, tokens, errors | one pass to tokens | `Lexer` |
| `runtime/mod.rs`, `stdlib/mod.rs`, `main.rs` of the compiler | none | empty files; `main` prints a greeting | - |
| `lib.rs`, `build.rs`, CI, `tests/` | none | re-exports, header generation, tests | - |

How they interact. Generated code and host code call the runtime's C functions from
any thread. `skev_alloc` calls `ensure_init` (init), `skev_alloc_raw` (alloc) and
`track_alloc` (leak); the last `skev_release` calls `skev_dealloc`, which calls
`track_dealloc`, `on_dealloc` (weak) and `skev_free_raw`. `skev_shutdown` walks the
tracker while other threads go on allocating. A count out of range enters `panic.rs`
and does not return. In the compiler, codegen trusts the typechecker: for the types it
may meet, and for the names it resolves; and the parser trusts the lexer: for the tokens
of a string, which it reads without looking for an end.

What is hard: every runtime function is a handful of separate atomic accesses, so calls
of different threads interleave inside one another; memory is returned and reused at
the same address; out of memory happens in the middle of a call, under a lock; the
lifecycle is a race by design. PROJECT.json lists the hazards one by one with the
properties that cover them.

What makes each part correct:

- *arc*: an owned reference points at a live object; the count is the number of owned
  references; an object is deallocated once, by one thread, when nobody owns it; racing
  overflows cannot wrap the count.
- *weak*: an entry outlives its holders and the strong side, and is freed once; an entry
  that says `strong_alive` has its object; no entry is ever found by a later object at
  the same address; shard locks are given back.
- *init*: one body at a time, states in order, initialisation finishes.
- *leak*: the tracker is exactly the live objects; a leak is reported.
- *panic*: one handler, for ever; a registered handler fires. (That a panic does not return is
  its type, `-> !`.)
- *lexer*: no character is dropped without a report, every token knows its line and
  column, the longest operator is taken, the tokens of a string are bracketed.
- *parser*: it gets through every text; a text whose blocks do not match is reported; no
  token is thrown away in silence; operators bind as their levels say.
- *typechecker and codegen*: a type the checker let through does not make codegen panic;
  a local of one is the local of the same body to the other; every block of a function
  ends in one terminator.

## 2. Modules

**Runtime, components.** `Threads` holds what all share: `pc[t]`, the place of thread
`t` inside the runtime ("idle" outside), its locals `obj`, `ent`, `slot`, `wslot`, and
the program's references: a *strong slot* owns one count, a *weak slot* holds an entry
pointer. Slots belong to the program, not to a thread. The callers' contract (the SAFETY
comments) is in the guards: a call releases a count it owns, and a pointer lent to
`skev_weak_alloc` is not released meanwhile. `Heap` is the memory: each address is free, an object or an entry. `Lifecycle`, `Leak`, `Weak` and `Arc` each model one source
file, one action per access another thread can observe. Consecutive accesses to memory
no other thread can see yet (the header store of a fresh object) are one action; so is
the whole of a critical section except that of `skev_weak_alloc`, which allocates under
the lock and is therefore split into lookup and result.

**Runtime, composition.** `SkevRuntime` joins the actions, states the safety properties
that span components, the liveness properties, and `FairSpec`. `RuntimeInvariant` is the
inductive strengthening `IInv`. `MCRuntime` and `MCRefinement` instantiate it for TLC.

**Abstract specification.** `RefCounting` is what the runtime promises: objects live
while owned, doomed when the last reference goes, reclaimed when all weak references are
cut. `RuntimeRefinement` maps `SkevRuntime` to it: `store` is `kind` plus "somebody is
deallocating", `watch` is the entry's target as long as `strong_alive`, so the one store
in `on_dealloc` is the abstract `Cut` of every weak reference at once.

**Uses of the runtime.** `UpgradeThenRetain` adds the call sequence weak.rs:123-125
asks of codegen. `GeneratedMain` adds the entry point and static initialisers. `own` is
what the program has itself of the three names `emit_main` deals with. With a `main` of its
own, or one declared extern, `emit_main` returns early (codegen/mod.rs:427-429): no
call of `skev_init` or `skev_shutdown` is generated, and `OwnMain` is the entry point. A
function of the program called `skev_init` or `skev_shutdown` replaces the runtime's in
`Codegen.functions`, and the generated main calls it instead (437-442). What such
a function does is `OwnCode`: any use of the runtime, its lifecycle included, or none.
`Panic` stands alone: it shares no state with the rest (in `SkevRuntime` a panicking
thread stays in its panic, since `abort()` ending the process only cuts behaviours
short, which no safety property can notice).

**Reading a program.** `Lexer` is a machine with a `mode`, the function of `lexer/mod.rs`
and the loop in it that is running; one action is one turn of that loop. `text` is any
sequence of characters, and a token is the stretch `at .. to` of it with the line and
column the lexer gave it. Characters that no branch tells apart are one model value.
`Parser` is a pushdown machine: `todo` is the Rust call stack, the calls still to run with
the innermost first, and an action is what one function does between two calls: read a
token (`Read`), not (`Call`), report (`Report`), or throw a token away (`Skip`). Tokens are
read lazily: `Following(tok)` is what the lexer can put behind `tok`, so the model takes
every text at once, and `StringsBracketed` of `Lexer` is what makes that sound for strings.
The loops of the source that compare positions before and after an item are the `again`
entries of `todo`, whose `moved` says whether a token was read since. `root` is the level of
the operator at the root of the expression just read, all that is kept of the tree.
`opened` counts block marks and `stray` remembers that a loop skipped one unseen; both
are observations that no guard reads.

**Compiler.** `TypeExprs` has the annotations `parse_type` can build, to depth two, and
the two walks over them: `convert_type`, which reports an unknown game-native
type, and `skev_type_to_llvm`, which panics on one; each is the set of annotations it comes
to (`Visited`), since what it does at one does not depend on the others. `Typechecker` is the symbol table
(`scopes`) and what each visit does to it and to the errors. `Codegen` is the function
under construction: `locals`, the LLVM `blocks`, the insertion point `cur`, and `frames`,
the Rust call stack of `compile_if` and `compile_loop`, with the block names they hold.
`FrontEnd` composes the two: a program is read node by node, each action does what both
passes do at that node, and `EndProgram` is the verdict. The passes run one after the
other in the source, but exchange nothing except "were there errors", so visiting in
lockstep gives the same verdicts, and lets a property compare both at every node. Blocks
are abstracted to what LLVM can tell about terminators. `blocks` keeps the blocks of one
body at a time.

Names are where the two passes differ, and `Typechecker` and `Codegen` follow each its
own source:

- `self`: the typechecker returns for it before any lookup, wherever it stands
  (`type_of_identifier`, typechecker/mod.rs:503-505). Codegen puts it in `locals` of methods and
  event handlers only (`compile_fn_entry`, codegen/mod.rs:343-361). In a top level
  function that declares no `self` it is accepted and compiled to 0.
- `signature`: codegen keeps functions by name, and compiles a body into the last one
  declared under its name: another function, a method of the same joined name, one of the
  runtime or an extern one. That has all the parameters of this source (`full`), or fewer:
  `compile_parameter` leaves out those beyond them (`short`, until they are `spent`), and
  the name becomes 0 in the body.
- `Use`, `Assign`, `Call` and `CallField` are what the passes do at a name: a local is loaded
  or stored to, a function called; for any other name codegen emits the constant 0 or drops
  the assignment. A call of a field `o.n(..)` is checked as a use of `o` and compiled as a
  call of `n`, whatever `o` is. Entities and properties are names of the
  typechecker alone.

## 3. Runs

| run | question | bounds |
|---|---|---|
| `RuntimeHeap` | all safety properties, the inductive invariant, the one-way lifecycle, and that `SkevRuntime` implements `RefCounting` | 3 threads, 3 strong and 2 weak slots, 3 addresses, `leak-check`, MAX_REFCOUNT 2, 86k states up to symmetry |
| `RuntimeLive` | initialisation finishes; locks return; doomed objects are freed; leaks are reported | 2 threads, 2 strong and 1 weak slot, 3 addresses, 2 shards, u32::MAX = 1, no symmetry |
| `UpgradeTwoThreads` | *violation*: upgrade then retain against the last release | 2 threads, 1 strong slot, 1 weak slot |
| `MainAlone` | a program with one thread: with the generated main and the runtime's own functions, shutdown done and leak code right; with any main, no object before the runtime is ready | 1 thread, every `own`, 54k states |
| `MainFirstShutdown` | *violation*: main's only shutdown is a no-op | 2 threads |
| `MainExitStatus` | *violation*: exit status is not the leak exit code | 1 thread |
| `PanicRuns` | registrations and panics racing | 3 threads, 2 handlers |
| `PanicLoser` | *violation*: told "already registered", aborted without handler | 2 threads |
| `Lexer` | places of tokens, longest operators, bracketed strings | every text of up to 4 characters over 14 characters of operators, 6 over the characters of strings, 6 of comments, 4 of numbers, 5 of names; MaxInt 90; 1.1M states |
| `Parser` | block matching, precedence, progress, no silent loss | texts of any length while the calls nest at most 10 deep, over three alphabets (items and types, statements, expressions); 0.7M states |
| `FrontEnd` | names, blocks and unchecked types over all programs within the bounds | one name, `self`, with constructs nested 2 deep and 6 blocks per function; two names and all signatures in bodies that nest once; any number of items and statements; 1.2M states |
| `CatchAll` | *violation*: codegen's catch-all is reached without a type error | no constructs |

`FrontEnd` takes two names, and shares its states between two bounds (`Bound` in
`MCFrontEnd`). `OneName` is about blocks and types, and its name is `self`: it can be all that
another name can - global, property, parameter and variable of three bodies at once, which is
what shadowing needs - and the receiver besides. `TwoNames` is about names: an ordinary one
beside `self`, calls of a field, which check the one and compile the other, and the signatures
that lack parameters. It gives up blocks for them: names do not depend on which construct
opened a body, and the one kind it keeps makes no block.

Six blocks, in a top level function (a member's are made alike), hold an if and else with
an if or a loop inside either; five hold any two constructs without an else. Annotations are two
constructors deep, one more than it takes to hide a type from either walk.

`Parser` bounds the stack and not the text: when more than `MaxStack` entries would be
open, the text ends, and the parser has to find its way out, which it does within 12
further entries (`TypeOK`). Ten entries are a block in a block in a function with a loop turn each, or an
expression in parentheses in an argument. Each alphabet holds one part of the grammar and
the tokens that lead into it; the text of a lazily read alphabet is unbounded, so the
recovery loops run as long as they like, which is what `Progress` is about. `Lexer` takes all
texts over the characters one function is about; six characters open, nest and close an
interpolation or leave a block comment open, four hold any operator of three characters and
what follows it, and `MaxInt` 90 stands for i64::MAX between the literals of two digits.

Why the runtime's bounds are enough to mean something. Three addresses hold two objects and an
entry, or one object and two entries in succession, so that an address is reused as the
other kind while an old pointer to it is still about. Three threads are a releaser, a
rival and a bystander; two weak slots make the weak count go to 3 and back. MAX_REFCOUNT
is 2 so that with three slots two threads can be in the overflow panic while a third
retains; the word is 8 so that a wrap is inside the model. u32::MAX is 1 so that two
survivors saturate. With one shard addresses are interchangeable (symmetry is sound, and
`RuntimeHeap` checks no liveness); the walk over shards is checked with two. Every
theorem of section 4 holds without these bounds. `RuntimeHeap` turns the deadlock check off
because all threads may end in the overflow panic; `RuntimeLive` keeps it on. The runs of
`Panic`, of the generated main and of the compiler's passes turn it off because processes
and passes end.

Fairness. `FairSpec` is weak fairness of each thread *inside a call*: the operating
system schedules every thread. Calls themselves are not fair (a program need not call).
`std::sync::Mutex` promises no order, so a thread waiting for a shard is only promised
progress if the others stop taking it: `DoomedFreed` says that, with its condition
written out. `Panic` is checked without fairness: its properties are safety.
`Parser` has weak fairness of its only process: a sequential program goes on while it can,
so that `Progress` fails on a loop that turns without reading and on nothing else.

Every property of a passing run has a mutant in PROJECT.json: a definition named
`X_Something` beside the definition `X` it replaces, each a plausible mistake (a dropped
header store, `old <= 2`, a load and a store for a compare-exchange, a `get` for a
`remove`, a missing store of `strong_alive`, a wrapping total).

## 4. Proofs

For every finite number of threads and slots, any set of addresses and shards, and any
thresholds with `MaxRefcount + number of threads < Word` (the headroom of arc.rs:28-29)
and `number of weak slots + 1 < Word`:

- `SkevRuntimeProofs!RuntimeSafe`: `Spec => []IInv`, and from it one theorem for each safety
  property of `RuntimeHeap` (no use after free, exact counts, one deallocation, no
  overflow, no underflow, entries live and freed once, no stale entry, exact tracker,
  one body) and the action property `LifecycleOneWay`.

The argument. The properties are not inductive by themselves. `IInv` adds what a call
knows of the memory it stands over: which locals a place has (`LocalsOK`), that a slot
being filled or lent is nobody else's (`SlotsOK`, `NewbornOK`), that what was read under
a shard's lock still holds (`LocksOK`: a caller that lends its reference keeps the object
from being deallocated), that an entry taken out of the table stays the deallocation's
until the virtual slot is given up (`OrphansOK`, `AliveOK`), and that a panic leaves its
increment behind (`PanicsOK`). TLC checks `IInv` first (`RuntimeHeap`).

- `RuntimeCounts`: modular arithmetic of the words, cardinalities of holders, the key
  lemmas `SoleHolder` (a count of one has one owner and no panicking thread),
  `SoleClaim` and `UnclaimedEntry` (the same for entries), and on top of them the two exact
  counts, per object and per entry: the cardinality of holders changes by one exactly when
  the count does.
- `SkevRuntimeProofs`: one lemma for every other conjunct, with one step per action; initial
  states, stuttering, and the theorems.
- `MainProofs!MainUsesRuntime`: `MainSpec => Spec`, with any threads and any `own`. A program
  with static initialisers and a main, generated or not, does nothing to the runtime but
  call it, so every theorem above holds in it.
- `MainProofs!LeaksReported`: `ShutdownReported`, for a program with no thread but main's
  (`Thread = {Main}`; with another it is false, see `MainFirstShutdown`) and no function of
  its own under the three names: its premise is `own = {}`, since a program with a `main` of
  its own gets no shutdown at all. The invariant `MainInv` says where in its calls main is,
  that nothing else moves the lifecycle, and that the count of survivors is positive exactly
  if one is in the shards the walk has been through (`Walked`), which saturation keeps.
- `MainProofs!ReadyBeforeObjects`: `InitialisedFirst`, for one thread and whatever the
  program has of its own. `ensure_init` in `skev_alloc` is all that initialises a program with its own
  main. `FirstInv` adds that a call past `ensure_init` finds the runtime ready.
- `RefinementProofs!RuntimeKeepsPromise`: `Spec => ImplementsPromise`, the implementation of
  `RefCounting`. Under `IInv` every step maps to a step of the promise or to a stutter: the
  steps of init.rs and leak.rs touch nothing the mapping reads, the store of
  `strong_alive` is `Cut` (`MarkMaps`), the decrement is `Drop`, the free of
  an object `Reclaim`. `IInv` is needed for the last: that no live entry still points at the
  object (`AliveTargetAllocated` and its companions) is what `Reclaim` asks.

For any number of threads and handlers:

- `PanicProofs`: type correctness, `OneRegistration`, `HandlerNeverReplaced` and `HandlerFires`. The
  invariant `PInv` adds to them that whoever won the compare-exchange set the flag
  (`WinnerSetFlag`), that the pointer is stored by one thread only (`StoredOnce`), and that a
  caller is told true behind the store (`ToldAfterStore`), which is what makes the handler
  fire for it and not for a loser.

For every set of texts, every set of keywords and every MaxInt:

- `LexerProofs`: type correctness, which says that the lexer never reads beyond the end of the text, and
  `TokensInPlace`. The invariant `LexInv` adds that line and column are those of the
  position (`advance` keeps them), that `first` is where the token in the making begins,
  and, mode by mode, that what was read since the last token is blank, a comment or part
  of that token (`SinceLast`). `OperatorsMaximal` is the same walk with one more fact: the
  number of characters `OperatorLength` takes is that of the longest spelling in the text, read
  or not yet (`LongestRead`). `StringsBracketed`, which makes the parser's trust in strings sound, needs
  `BracketInv`: by the mode, what the last token is, and that while an interpolation is read
  `depth` is the braces up less the braces down and has never come to zero in between; so
  the brace that ends it is the one that matches its first, and a text that ends inside a
  string has been reported.

For every set of alphabets and every MaxStack:

- `ParserProofs`: `BlocksMatch`, `OperandsBindTighter`, `ThrownAwayWithError` and
  `TypeOK`. The first three are statements about the head of the call stack, so the invariant `ParserInv` is one about all of it.
  `Sound`: every left operand that waits groups at the level of its operator or above
  (`Entry`), and the operators of an operand are looked for right behind it, those of a right
  operand one level up (`Link`). `TopOK`: the operator in front of the parser binds no
  tighter than the expression just read groups. `FirmOrSettled`: as long as the item of a
  loop has read nothing, either there has been an error or the call at the head is one that
  reads or reports (`Firm`), so that the loop finds its item unmoved only behind an error.
  `Matching`: the blocks opened and those the stack will open are those it will close. The
  steps differ in little but their plans: `StayInv`, `ReadInv` and `PushInv` show that replacing the
  head by a sound plan keeps the invariant, and there is one lemma per action on top of them.
  `TypeOK` bounds the stack, and takes an invariant about what is still to come, `StackInv`.
  `Height(op)` is the number of entries a call comes to before a token is read; every call
  and what lies under it stay within `Limit` (`Fitting`), which is `MaxStack + 5` as long
  as the text goes on and `MaxStack + 12` at its end: the last token read may bring calls
  seven higher than the one it replaces (`Grows`). `Fitting` also says that a block to be opened is
  closed two entries further down (`OpenClose`), from which and `Matching` it follows that `opened` is never
  negative. Here too there is one lemma per action, about its plans. The theorem needs of the alphabets
  that they hold the end of the text, and `::` if they hold a declaration (`ParserAssumption`).

For every set of names and of game-native types, and all bounds on blocks and nesting:

- `FrontEndProofs`: type correctness, `NamesAgree`, `OnlyNestedJoinsOpen`, `SpoiledByReturnOnly` and
  `OnlyUncheckedTypesPanic`. The invariant `FrontEndInv` has a part for each. `ScopesAgree`: the two
  symbol tables are pushed and popped together, and scope by scope they are `Alike`: a local
  of codegen is one the typechecker has in that scope, or `self` in the outermost of a member
  (`Known`); and the other way round, except that the outermost scope of a body may lack
  parameters if its signature does. What `NamesAgree` says of the innermost hit follows from
  all scopes and from what the outer ones may hold: codegen never has a local the
  typechecker has not, `self` of a member apart; if no function of a shorter signature
  took over the name, the converse holds and both mean the same body's; and what the typechecker takes for
  a function is declared. It does not say that every accepted name is compiled: the three kinds
  that become 0 are in the comment of `NamesAgree`. `FramesApart`: the blocks which open constructs will go on in are distinct,
  different from where the builder stands, and untouched; without it a close could write
  into a block that another has terminated. `JoinsNested` and `BlocksAccounted`: a block of the
  function has a terminator, or is a nested join, or some open construct will still give it
  one; when the function ends no construct is open, which leaves the nested joins. That a
  position inside a construct stands in a nested join or where a body began is what makes the close
  of a body account for the block it leaves. `BranchesLeave`: the builder never stands in a block
  that ends in a branch, so that only a return can have something behind it.
  `OnlyUncheckedTypesPanic` rests on `LoweredArgs \subseteq ConvertedArgs`: codegen walks into fewer
  arguments than the typechecker (`BelowMonotone`, `CatchAllReports`). It assumes `UserDefined \subseteq
  Builtin`: no caller of `register` exists, so the list of user-defined types is empty.

Only model-checked: liveness, out of TLAPS's reach under fairness, which is all of
`RuntimeLive` and `Progress` of `Parser`. Every other property of a passing run is stated
by a theorem.

## 5. What is not modelled

- Memory orderings: all accesses are sequentially consistent. The Acquire/Release pairs
  of arc.rs and weak.rs are therefore assumed, not checked.
- `abort()` in `SkevRuntime` (see above); `install_allocator`, whose only callers are
  tests; type ids, backtraces, printed text; the object header beyond `ref_count`.
- Null arguments of the exported functions: each returns at once.
- A caller that breaks the ownership contract (a double release): the underflow panic is
  in the model, and shown unreachable for callers that keep the contract.
- Termination of the walk over a table while a panic poisons a lock: no code panics while it holds one.
- The LLVM declarations of the runtime's functions: codegen declares `skev_alloc` with one
  argument (codegen/mod.rs:101-103), the runtime's takes two; codegen emits no call of it.
- In the compiler: two bodies compiled into one LLVM function, when their names clash, have
  their blocks one behind the other; the model has those of each body, which refer to no
  other. The types and values of expressions and the mismatch errors, struct
  layouts, coercions and operators, `IfExists`, `Expr::Match` and `Expr::As` (parse_expr
  never builds them). The block behind a loop has no
  predecessor in the source (`stop` and `skip` emit nothing), which no property is about:
  the source does not say what was meant.
- In the parser: the tree that is built, apart from the level at the root of an
  expression; texts in which a type is followed by a stray `::` (the parser decides by two
  tokens there, and the model knows one). Tokens the lexer produces and no function of
  the parser looks at (doc comments, `as`, and others) are one kind, "other".
- In the lexer: capitals and further letters and digits (each behaves like one in the
  model), the value of a float, the payload of a token beyond its stretch of text.

## 6. Findings

1. `UpgradeTwoThreads`: arc.rs:100 says that at a count of zero "no other reference
   exists"; the protocol of weak.rs:123-125 (upgrade, then retain) can create one,
   because `strong_alive` is cleared only after the last release has begun, and the upgrade
   checks that flag and not the count.
2. `MainFirstShutdown`: init.rs:52-53 says the first call runs the body; a first call
   while another thread is between the compare-exchange and the store of `skev_init`, or
   before any initialisation, does nothing.
3. `MainExitStatus`: init.rs:95-96 says the generated main uses `leak_exit_code`;
   codegen/mod.rs:443 returns 0.
4. `PanicLoser`: panic.rs:7-8, a registered handler fires; the flag is set before the
   pointer is stored, so a loser of the registration may panic without any handler.
5. `CatchAll`: codegen/mod.rs:523-524 says of an unknown game-native type that the
   typechecker should have rejected it; the typechecker never looks at the result type of
   a method or at an extern function, which codegen lowers.

`FrontEnd` states as holding properties two facts a maintainer should know:
`OnlyNestedJoinsOpen` allows exactly the joins of nested constructs, an `else if`
included, to be left without a terminator, and `SpoiledByReturnOnly` allows instructions
behind a return. No comment or test says otherwise, so they are not findings; LLVM's
verifier, which the compiler does not call, rejects both.

Three more, of which the same holds: a program with a `main` of its own is not shut down, so that its
leaks are not reported (`ShutdownReported` needs `own = {}`); `self` in a top level function and
a parameter of a function whose name has been taken by a shorter one pass the typechecker
and are compiled to 0 (`Receiver` and `signature` in `NamesAgree`); and the field of
a call is not checked at all (`CallField`).

## 7. Plan

Done in this order: the runtime's composition, its invariant and proofs; refinement;
uses of the runtime; panics; the two compiler passes in lockstep; the parser; the lexer;
the proofs of panics, of the lexer, of the parser and of the refinement; those of the
generated main and of the two compiler passes.

Next, in order:

1. `FrontEnd` with the types of symbols: forward references in function signatures,
   mismatch errors, and which locals get a machine type other than their checked type.
2. `Allocator`: `install_allocator`'s two stores against blocks in flight, once it has a
   caller.
3. Proofs: what the new parts of `FrontEnd` promise.
