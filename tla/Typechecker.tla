---------------------------- MODULE Typechecker ----------------------------
(***************************************************************************)
(* typechecker/mod.rs: the scopes of the SymbolTable and what each visit   *)
(* of the tree does to them and to the list of errors.  A symbol is        *)
(* reduced to its SymbolKind, with one kind, Local, for parameters and     *)
(* variables; the list of errors to whether it is empty, which is all its  *)
(* caller asks.                                                            *)
(***************************************************************************)
EXTENDS TypeExprs, Naturals, SequencesExt

CONSTANTS Name,   \* the identifiers of the program
          Self,   \* `self`: an identifier like any other to lexer and parser
          None    \* no symbol, no block

VARIABLES scopes,   \* SymbolTable.scopes, the global scope first
          errors    \* TypeChecker.errors is not empty

SymbolKind == {"Entity", "Function", "Property", "Local"}

ASSUME TypecheckerAssumption == Self \in Name /\ None \notin SymbolKind

NoSymbols == [n \in Name |-> None]

(* The innermost scope with a symbol of that name, 0 if there is none.     *)
Level(n) == Max({0} \cup {i \in 1 .. Len(scopes) : scopes[i][n] # None})

lookup(n) == IF Level(n) = 0 THEN None ELSE scopes[Level(n)][n]

define(stack, n, kind) == [stack EXCEPT ![Len(stack)][n] = kind]
push_scope(stack) == Append(stack, NoSymbols)
pop_scope(stack) == IF Len(stack) > 1 THEN Front(stack) ELSE stack

(* An annotation that declares no symbol.                                  *)
check_field(t) == errors' = (errors \/ t.reports) /\ UNCHANGED scopes

(* A parameter, a property or a variable: convert_type, then define.       *)
check_declaration(n, t, kind) ==
    /\ errors' = (errors \/ t.reports)
    /\ scopes' = define(scopes, n, kind)

(* register_top_level converts the result type of a top level function;    *)
(* check_entity_item does not for a method.                                *)
check_result(t) == t.reports

(* A name that is read, assigned or called.  `self` is taken as it is,     *)
(* in a method or not and whether a symbol has that name or not.           *)
type_of_identifier(n) ==
    /\ errors' = (errors \/ (n # Self /\ lookup(n) = None))
    /\ UNCHANGED scopes

check_open == scopes' = push_scope(scopes) /\ UNCHANGED errors

(* The fault leaves the scope of a body on the stack.                      *)
check_close_NoPop == UNCHANGED <<scopes, errors>>
check_close == scopes' = pop_scope(scopes) /\ UNCHANGED errors

(* The then body ends and the else body begins.                            *)
check_next == scopes' = push_scope(pop_scope(scopes)) /\ UNCHANGED errors
=============================================================================
