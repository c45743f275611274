-------------------------------- MODULE Views --------------------------------
(***************************************************************************)
(* A callable and its views: it uses a lookup table by hand, evaluates     *)
(* expressions over it and renders views with it, in any order             *)
(* (includes/udho/bridge.h: render(); tests/parsing.cpp does all three).   *)
(***************************************************************************)
EXTENDS Template

CONSTANTS
  Object,        \* the objects of the data, and those they hold
  Groups,        \* the data the callable may have prepared
  Pages,         \* the views it renders
  Expressions,   \* the expressions it evaluates: their words, and the trees they stand for
  Collections,   \* the paths it may iterate over, without an index at the end
  None

\* A member holds a text or an object, a sequence of either, or has one for each
\* of its keys; the indices of a sequence are told apart by their texts.
MemberOK(member) ==
  LET held == IF member.of = "object" THEN Object ELSE STRING
  IN /\ member.is \in {"one", "list", "map"} /\ member.of \in {"leaf", "object"}
     /\ member.is = "one" => member.holds \in held
     /\ member.is = "list" =>
          /\ member.holds \in Seq(held)
          /\ Indices(member.holds) \subseteq STRING
          /\ \A m, n \in DOMAIN member.holds : IndexText(m) = IndexText(n) => m = n
     /\ member.is = "map" =>
          /\ member.order \in Seq(STRING)
          /\ DOMAIN member.holds = Range(member.order)
          /\ \A key \in Range(member.order) : member.holds[key] \in held
          /\ \A m, n \in DOMAIN member.order : member.order[m] = member.order[n] => m = n

ObjectOK(object) ==
  /\ Len(object) \in Nat /\ DOMAIN object = 1 .. Len(object)
  /\ \A i \in DOMAIN object : MemberOK(object[i])

ASSUME ViewsAssumption ==
  /\ \A object \in Object : ObjectOK(object)
  /\ Groups \subseteq Seq(Object) \ {<<>>}
  /\ Pages \subseteq Elements
  /\ Collections \subseteq {path \in Path : path[Len(path)].at = <<>>}

VARIABLES
  group,      \* the objects of udho::data()
  rendered,   \* history: the view that was just rendered, with what, and its result
  evaluated   \* history: the expression that was just evaluated, likewise

vars == <<table, uses, saved, entered, wild, group, rendered, evaluated>>

-----------------------------------------------------------------------------
Init ==
  /\ ScopeInit
  /\ group \in Groups
  /\ rendered = None
  /\ evaluated = None

ByHand ==
  /\ ScopeNext
  /\ rendered' = None /\ evaluated' = None
  /\ UNCHANGED group

\* expression(table).evaluate<int>().  Nothing changes: what a caller does after
\* it is done without it as well, so the bound on the uses is reached here.
Ask(expression) ==
  /\ uses < Uses
  /\ uses' = Uses
  /\ evaluated' = [tree |-> expression.tree, result |-> Evaluate(table, group, expression.words)]
  /\ rendered' = None
  /\ UNCHANGED <<table, saved, entered, wild, group>>

\* render(): the table is the caller's, and what becomes of it too.  After an
\* exception in a scope, or where the level may wrap, the caller has lost its
\* scopes.
Render(page) ==
  /\ Use
  /\ \E result \in {Process(table, group, page)} :
       /\ table' = result.table
       /\ rendered' = [page |-> page, from |-> table, result |-> result]
       /\ wild' = (wild \/ result.table.level # table.level \/ table.level + Height[page] >= Levels)
  /\ evaluated' = None
  /\ UNCHANGED <<saved, entered, group>>

\* The callable returns.
Done == uses = Uses /\ UNCHANGED vars

Next ==
  \/ ByHand
  \/ \E expression \in Expressions : Ask(expression)
  \/ \E page \in Pages : Render(page)
  \/ Done

Spec == Init /\ [][Next]_vars
=============================================================================
