------------------------------- MODULE Access --------------------------------
(***************************************************************************)
(* The data of a view (includes/udho/access.h: prepared, prepared_group,   *)
(* the association groups and their visitors).                             *)
(*                                                                         *)
(* An object is the sequence of the members its dict() declares; a member  *)
(* is a leaf, an object, or a list or a map of leaves or of objects.  The  *)
(* group of an object begins with the member declared last.                *)
(***************************************************************************)
EXTENDS Integers, Sequences, FiniteSetsExt, Functions, TLC

CONSTANT
  Index   \* the texts that lexical_cast reads as an index

\* The text of the index of element n.
IndexText(n) == ToString(n - 1)

Indices(list) == {IndexText(n) : n \in DOMAIN list}

-----------------------------------------------------------------------------
(* What was found *)

\* A leaf (its text), an object, a member or an answer.
Found(of, value) == [outcome |-> "found", of |-> of, value |-> value]
Missing == [outcome |-> "missing"]
OutOfRange == [outcome |-> "out_of_range"]
Throws == [outcome |-> "throws"]   \* any other exception

\* A member: [name, is, of, holds]; "of" tells whether it holds objects.
IsNested(member) == member.of = "object"

\* responder::call(): the index is what follows the colon, of a list or a map
\* one must be there, a leaf ignores it.
Called(member, at) ==
  CASE member.is = "one" -> Found(member.of, member.holds)
    [] member.is = "list" ->
         CASE at = <<>> -> Throws
           [] Len(at) = 1 /\ at[1] \in Indices(member.holds) ->
                Found(member.of, member.holds[CHOOSE n \in DOMAIN member.holds : IndexText(n) = at[1]])
           [] Len(at) = 1 /\ at[1] \in Index \ Indices(member.holds) -> OutOfRange
           [] OTHER -> Throws
    [] member.is = "map" ->
         IF Len(at) = 1 /\ at[1] \in DOMAIN member.holds 
         THEN Found(member.of, member.holds[at[1]]) ELSE OutOfRange

\* responder::count() and keys(): of the whole member, whatever the index.
Size(member) ==
  CASE member.is = "one" -> 0
    [] member.is = "list" -> Len(member.holds)
    [] member.is = "map" -> Cardinality(DOMAIN member.holds)

\* Mutated: the indices are counted from 1.
KeysFromOne(member) ==
  CASE member.is = "one" -> <<>>
    [] member.is = "list" -> [n \in DOMAIN member.holds |-> IndexText(n + 1)]
    [] member.is = "map" -> member.order

KeysOf(member) ==
  CASE member.is = "one" -> <<>>
    [] member.is = "list" -> [n \in DOMAIN member.holds |-> IndexText(n)]
    [] member.is = "map" -> member.order

\* The members of an object with the name of a step, and of them the first in
\* its group.
Matched(object, name) == {i \in DOMAIN object : object[i].name = name}

Nested(object) == {i \in DOMAIN object : IsNested(object[i])}

-----------------------------------------------------------------------------
(***************************************************************************)
(* association_group_visitor::find(): a path with a dot is not of a member *)
(* that holds no objects, the others are asked from the last to the first. *)
(***************************************************************************)
\* What step k of a path finds in what the steps before it have found.
Asked(found, path, k) ==
  LET object == found.value
      matched == Matched(object, path[k].name) \cap
                   (IF k < Len(path) THEN Nested(object) ELSE DOMAIN object)
  IN IF found.outcome # "found" THEN found
     ELSE IF matched = {} THEN Missing ELSE Called(object[Max(matched)], path[k].at)

\* What the first k steps find.
Finding(object, path) ==
  LET found[k \in 0 .. Len(path)] ==
        IF k = 0 THEN Found("object", object) ELSE Asked(found[k - 1], path, k)
  IN found

Find(object, path) == Finding(object, path)[Len(path)]

(***************************************************************************)
(* The member that count() and keys() ask.  With a dot the search ends at  *)
(* the first member that holds objects, the one of this name or not.       *)
(***************************************************************************)
Passed(found, path, k) ==
  LET first == found.value[Max(Nested(found.value))]
  IN IF found.outcome # "found" THEN found
     ELSE IF Nested(found.value) = {} \/ first.name # path[k].name THEN Missing
     ELSE Called(first, path[k].at)

\* The object that is come to by the first k steps, all but the last.
Passing(object, path) ==
  LET found[k \in 0 .. Len(path) - 1] ==
        IF k = 0 THEN Found("object", object) ELSE Passed(found[k - 1], path, k)
  IN found

MemberNamed(found, name) ==
  IF found.outcome # "found" THEN found
  ELSE IF Matched(found.value, name) = {} THEN Missing
  ELSE Found("member", found.value[Max(Matched(found.value, name))])

MemberOf(object, path) ==
  MemberNamed(Passing(object, path)[Len(path) - 1], path[Len(path)].name)

-----------------------------------------------------------------------------
(* prepared_group: the objects of udho::data(first, ..., last); the last is *)
(* asked first.                                                            *)

\* The object whose answer counts: the first asked that has the path, else the
\* first of the group.
Holder(group, path) ==
  Max({1} \cup {i \in DOMAIN group : Find(group[i], path).outcome # "missing"})

\* parse().
FindIn(group, path) == Find(group[Holder(group, path)], path)

\* count() and keys() extract the path from all but the first object to find
\* the one that has it: of a list or a map without an index that throws.
MemberIn(group, path) ==
  LET i == Holder(group, path)
  IN IF i = 1 \/ Find(group[i], path).outcome = "found"
     THEN MemberOf(group[i], path) ELSE Find(group[i], path)

\* The text of a path: nothing of one that is missing or of an object.
Stringified(found) ==
  IF found.outcome = "missing" \/ (found.outcome = "found" /\ found.of = "object")
  THEN Found("leaf", "") ELSE found

TextOf(group, path) == Stringified(FindIn(group, path))

\* The size of the collection of a path, 0 if it is missing.
SizeOf(member) ==
  CASE member.outcome = "missing" -> Found("answer", 0)
    [] member.outcome = "found" -> Found("answer", Size(member.value))
    [] OTHER -> member

CountIn(group, path) == SizeOf(MemberIn(group, path))

\* Its keys, none if it is missing.
KeysOfFound(member) ==
  CASE member.outcome = "missing" -> Found("answer", <<>>)
    [] member.outcome = "found" -> Found("answer", KeysOf(member.value))
    [] OTHER -> member

KeysIn(group, path) == KeysOfFound(MemberIn(group, path))
=============================================================================
