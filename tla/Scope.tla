-------------------------------- MODULE Scope --------------------------------
(***************************************************************************)
(* The lookup table of a view (includes/udho/scope.h: lookup_table):       *)
(* aliases for the data of a view, each with the depth it was declared at, *)
(* and the level of the scope one is in.  The table belongs to the caller, *)
(* who may use it by hand between the views that are rendered with it.     *)
(*                                                                         *)
(* A key is a path of steps: "books:0.year" is the step [name |-> "books", *)
(* at |-> <<"0">>] and the step [name |-> "year", at |-> <<>>].            *)
(***************************************************************************)
EXTENDS Integers, Sequences

CONSTANTS
  Name,      \* the names aliases may have
  Keys,      \* what the caller declares as aliases
  Refs,      \* what it declares them for
  Depths,    \* the depths it names
  Levels,    \* 2^64 in the code: _level is a size_t
  Uses       \* bound: how often the caller uses the table

Steps == Seq([name : STRING, at : Seq(STRING)])
Path == Steps \ {<<>>}

\* valid(): the key of an alias is a name.
IsName(path) == Len(path) = 1 /\ path[1].at = <<>>
KeyOK(key) == key \in Path /\ (IsName(key) => key[1].name \in Name)

ASSUME ScopeAssumption ==
  /\ \A key \in Keys : KeyOK(key)
  /\ Refs \subseteq Path
  /\ Levels \in Nat \ {0, 1}
  /\ Uses \in Nat
  /\ Depths \subseteq 0 .. Levels - 1

VARIABLES
  table,   \* _level and _storage: the depth and the resolved path of each alias
  uses,    \* how often it was used
  saved,   \* history: saved[i] is the table when scope i + 1 was entered
  entered, \* history: the scopes that were entered and not left
  wild     \* history: has the caller left the discipline of down(), add() and up()?

scopeVars == <<table, uses, saved, entered, wild>>

-----------------------------------------------------------------------------
(* The operations of a table *)

\* A declaration, and what is in the place of one that was not made.
Alias == [ref : Path, depth : 0 .. Levels - 1]
NoAlias == [ref |-> <<>>, depth |-> 0]

Table == [level : 0 .. Levels - 1, aliases : [Name -> Alias \cup {NoAlias}]]

NewTable == [level |-> 0, aliases |-> [n \in Name |-> NoAlias]]

Aliases(t) == {n \in Name : t.aliases[n] # NoAlias}

\* The reference of an alias, with what follows the name of the alias in the key.
Glue(ref, path) ==
  LET last == [ref[Len(ref)] EXCEPT !.at = @ \o Head(path).at]
  IN SubSeq(ref, 1, Len(ref) - 1) \o <<last>> \o Tail(path)

\* One step: an alias was resolved when it was declared.
Lookup(t, path) ==
  IF Head(path).name \in Aliases(t) THEN Glue(t.aliases[Head(path).name].ref, path) ELSE path

\* The table with one more alias.
Declare(t, name, ref, depth) ==
  [t EXCEPT !.aliases[name] = [ref |-> ref, depth |-> depth]]

\* Mutated: an inner scope may declare an alias again.
Shadowing(t, key, ref, depth) ==
  IF IsName(key) THEN Declare(t, key[1].name, Lookup(t, ref), depth) ELSE t

\* add(): there is no second declaration, not of an inner scope either.
AddAt(t, key, ref, depth) ==
  IF IsName(key) /\ key[1].name \notin Aliases(t)
  THEN Declare(t, key[1].name, Lookup(t, ref), depth)
  ELSE t

Add(t, key, ref) == AddAt(t, key, ref, t.level)

Clear(t, depth) ==
  [level |-> t.level,
   aliases |-> [n \in Name |-> IF t.aliases[n].depth = depth THEN NoAlias ELSE t.aliases[n]]]

Down(t) == [t EXCEPT !.level = (@ + 1) % Levels]

\* Mutated: the aliases of the scope one returns to are removed.
UpFirst(t) ==
  LET outer == (t.level - 1) % Levels
  IN [level |-> outer, aliases |-> Clear(t, outer).aliases]

Up(t) == [level |-> (t.level - 1) % Levels, aliases |-> Clear(t, t.level).aliases]

-----------------------------------------------------------------------------
(* The caller *)

ScopeInit ==
  /\ table = NewTable
  /\ uses = 0
  /\ saved = [i \in 0 .. Levels - 1 |-> NewTable]
  /\ entered = 0
  /\ wild = FALSE

Use ==
  /\ uses < Uses
  /\ uses' = uses + 1

\* add(key, ref).
DeclareAlias(key, ref) ==
  /\ Use
  /\ table' = Add(table, key, ref)
  /\ UNCHANGED <<saved, entered, wild>>

\* add(key, ref, depth), whatever the level is.
DeclareAliasAt(key, ref, depth) ==
  /\ Use
  /\ table' = AddAt(table, key, ref, depth)
  /\ wild' = (wild \/ depth # table.level)
  /\ UNCHANGED <<saved, entered>>

\* clear(depth).
ClearAliases(depth) ==
  /\ Use
  /\ table' = Clear(table, depth)
  /\ wild' = TRUE
  /\ UNCHANGED <<saved, entered>>

\* down(); the level wraps to 0.
Enter ==
  /\ Use
  /\ table' = Down(table)
  /\ saved' = [saved EXCEPT ![table.level] = table]
  /\ entered' = entered + 1
  /\ wild' = (wild \/ entered + 1 = Levels)

\* up(), of a scope that was entered or not: the level wraps below 0.
Leave ==
  /\ Use
  /\ table' = Up(table)
  /\ saved' = [saved EXCEPT ![table'.level] = NewTable]
  /\ entered' = IF entered = 0 THEN 0 ELSE entered - 1
  /\ wild' = (wild \/ entered = 0)

ScopeNext ==
  \/ \E key \in Keys, ref \in Refs : DeclareAlias(key, ref)
  \/ \E key \in Keys, ref \in Refs, depth \in Depths : DeclareAliasAt(key, ref, depth)
  \/ \E depth \in Depths : ClearAliases(depth)
  \/ Enter
  \/ Leave

ScopeSpec == ScopeInit /\ [][ScopeNext]_scopeVars

-----------------------------------------------------------------------------
\* The aliases of table t declared outside of scope i.
Outside(t, i) ==
  [n \in Name |-> IF t.aliases[n].depth < i THEN t.aliases[n] ELSE NoAlias]

\* The scopes of a caller who only enters, declares and leaves: no alias is
\* deeper than the level, and the table when scope i + 1 was entered was that
\* of the aliases which are declared outside of it now.
ScopesOK ==
  /\ table \in Table
  /\ uses \in 0 .. Uses
  /\ entered \in Nat
  /\ wild \in BOOLEAN
  /\ saved \in [0 .. Levels - 1 -> Table]
  /\ ~wild =>
       /\ table.level = entered
       /\ \A n \in Aliases(table) : table.aliases[n].depth <= table.level
       /\ \A i \in 0 .. entered - 1 : saved[i] = [level |-> i, aliases |-> Outside(table, i + 1)]

\* Leaving a scope restores the table as it was when the scope was entered,
\* whatever was declared in it and in the scopes inside it: down(), add() and
\* up() of lookup_table.
ScopesRestore ==
  [][~wild /\ ~wild' /\ entered' < entered => table' = saved[entered']]_scopeVars
=============================================================================
