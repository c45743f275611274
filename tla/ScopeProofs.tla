----------------------------- MODULE ScopeProofs -----------------------------
(***************************************************************************)
(* Lemmas about what a view is given, for every set of names, documents,   *)
(* objects and expressions: the lookup table, the data, the environments,  *)
(* lists, and the expressions.                                             *)
(***************************************************************************)
EXTENDS ViewsInv, FiniteSetTheorems, FunctionTheorems, SequenceTheorems, WellFoundedInduction, TLAPS

-----------------------------------------------------------------------------
(* Least and greatest elements *)

\* A nonempty set of naturals has a least element, so Min() finds it.
LEMMA MinExists ==
  ASSUME NEW S, S \subseteq Nat, S # {}
  PROVE  Min(S) \in S /\ \A j \in S : Min(S) <= j
<1>1. PICK m \in S : \A j \in S : ~(<<j, m>> \in OpToRel(<, Nat))
  BY NatLessThanWellFounded, WFMin
<1>2. \A j \in S : <<j, m>> \in Nat \X Nat /\ (j < m => <<j, m>> \in OpToRel(<, Nat))
  BY DEF OpToRel
<1>3. \A j \in S : j \in Nat /\ m \in Nat /\ ~(j < m)
  BY <1>1, <1>2
<1>4. \A j \in S : m <= j
  BY <1>3
<1>. QED
  BY <1>1, <1>4 DEF Min

\* A nonempty set of naturals below a bound has a greatest element.
LEMMA MaxExists ==
  ASSUME NEW S, NEW n \in Nat, S \subseteq 0 .. n, S # {}
  PROVE  Max(S) \in S /\ \A j \in S : j <= Max(S)
<1> DEFINE T == {n - j : j \in S}
<1>1. T \subseteq Nat /\ T # {}
  <2>1. \A j \in S : j \in Nat /\ n - j \in Nat
    OBVIOUS
  <2>. QED
    BY <2>1
<1>2. PICK m \in T : \A k \in T : m <= k
  BY <1>1, MinExists
<1>3. PICK j \in S : m = n - j
  BY <1>2
<1>4. \A i \in S : n - i \in T /\ n - i \in Nat /\ i \in Nat
  OBVIOUS
<1>5. \A i \in S : i <= j
  BY <1>2, <1>3, <1>4
<1>. QED
  BY <1>5 DEF Max

-----------------------------------------------------------------------------
(* Tables *)

\* The levels of a table are closed under down() and up().
LEMMA LevelsWrap ==
  ASSUME NEW level \in 0 .. Levels - 1
  PROVE  /\ (level + 1) % Levels \in 0 .. Levels - 1
         /\ (level - 1) % Levels \in 0 .. Levels - 1
         /\ level + 1 < Levels => (level + 1) % Levels = level + 1
         /\ level > 0 => (level - 1) % Levels = level - 1
<1>1. Levels \in Nat /\ Levels > 1 /\ level \in Nat /\ level < Levels
  BY ScopeAssumption
<1>2. \A n \in Int : n % Levels \in 0 .. Levels - 1
  BY <1>1
<1>3. \A n \in 0 .. Levels - 1 : n % Levels = n
  BY <1>1
<1>4. (level + 1) % Levels \in 0 .. Levels - 1 /\ (level - 1) % Levels \in 0 .. Levels - 1
  BY <1>1, <1>2
<1>5. ASSUME level + 1 < Levels PROVE (level + 1) % Levels = level + 1
  BY <1>1, <1>3, <1>5
<1>6. ASSUME level > 0 PROVE (level - 1) % Levels = level - 1
  BY <1>1, <1>3, <1>6
<1>. QED
  BY <1>4, <1>5, <1>6

\* What a table has in the place of a name.
LEMMA PlaceType ==
  ASSUME NEW t \in Table, NEW n \in Name
  PROVE  /\ t.aliases[n] \in Alias \cup {NoAlias}
         /\ t.aliases[n].depth \in Nat /\ t.aliases[n].depth < Levels
         /\ t.aliases[n].ref \in Steps
         /\ t.aliases[n] # NoAlias <=> t.aliases[n].ref \in Path
<1>1. t.aliases[n] \in Alias \cup {NoAlias}
  BY DEF Table
<1>2. CASE t.aliases[n] \in Alias
  <2>1. Levels \in Nat /\ \A d \in 0 .. Levels - 1 : d \in Nat /\ d < Levels
    BY ScopeAssumption
  <2>2. t.aliases[n].ref \in Path /\ t.aliases[n].depth \in 0 .. Levels - 1
    BY <1>2 DEF Alias
  <2>3. NoAlias.ref = <<>> /\ <<>> \notin Path /\ Path \subseteq Steps
    BY DEF NoAlias, Path
  <2>. QED
    BY <1>2, <2>1, <2>2, <2>3
<1>3. CASE t.aliases[n] = NoAlias
  <2>1. Levels \in Nat /\ 0 < Levels
    BY ScopeAssumption
  <2>2. <<>> \in Steps /\ <<>> \notin Path
    BY DEF Steps, Path
  <2>. QED
    BY <1>3, <2>1, <2>2 DEF NoAlias
<1>. QED
  BY <1>1, <1>2, <1>3

\* A path that begins with an alias is one after lookup().
LEMMA GlueType ==
  ASSUME NEW ref \in Path, NEW path \in Path
  PROVE  Glue(ref, path) \in Path
<1> DEFINE One == [name : STRING, at : Seq(STRING)]
           n == Len(ref)
           last == [ref[n] EXCEPT !.at = @ \o Head(path).at]
<1>1. n \in Nat /\ n >= 1 /\ ref \in Seq(One) /\ path \in Seq(One) /\ path # <<>>
  BY DEF Path, Steps
<1>2. ref[n] \in One /\ Head(path) \in One /\ Tail(path) \in Seq(One)
  <2>. HIDE DEF One
  <2>1. ref[n] \in One
    BY <1>1, LenProperties
  <2>. QED
    BY <1>1, <2>1, HeadTailProperties
<1>3. last \in One
  <2>1. ref[n].at \o Head(path).at \in Seq(STRING)
    BY <1>2
  <2>. HIDE DEF n
  <2>. QED
    BY <1>2, <2>1
<1>4. SubSeq(ref, 1, n - 1) \in Seq(One)
  <2>. HIDE DEF One
  <2>1. \A i \in 1 .. n - 1 : ref[i] \in One
    BY <1>1, LenProperties
  <2>. QED
    BY <1>1, <2>1, SubSeqProperties
<1>. HIDE DEF last, One
<1>5. <<last>> \in Seq(One) /\ Len(<<last>>) = 1
  BY <1>3
<1>6. SubSeq(ref, 1, n - 1) \o <<last>> \in Seq(One) /\ Len(SubSeq(ref, 1, n - 1) \o <<last>>) >= 1
  BY <1>1, <1>4, <1>5
<1>7. (SubSeq(ref, 1, n - 1) \o <<last>>) \o Tail(path) \in Seq(One)
  BY <1>2, <1>6
<1>8. Len((SubSeq(ref, 1, n - 1) \o <<last>>) \o Tail(path)) >= 1
  BY <1>2, <1>6
<1>9. Glue(ref, path) = (SubSeq(ref, 1, n - 1) \o <<last>>) \o Tail(path)
  BY DEF Glue, last
<1>. QED
  BY <1>7, <1>8, <1>9 DEF Path, Steps, One

LEMMA LookupType ==
  ASSUME NEW t \in Table, NEW path \in Path
  PROVE  Lookup(t, path) \in Path
<1>1. CASE Head(path).name \in Aliases(t)
  <2>1. t.aliases[Head(path).name].ref \in Path
    BY <1>1, PlaceType DEF Aliases
  <2>. QED
    BY <1>1, <2>1, GlueType DEF Lookup
<1>2. CASE Head(path).name \notin Aliases(t)
  BY <1>2 DEF Lookup
<1>. QED
  BY <1>1, <1>2

\* add() leaves all as it was but the place of a name that was no alias.
LEMMA AddIs ==
  ASSUME NEW t \in Table, NEW key, KeyOK(key), NEW ref \in Path, NEW depth \in 0 .. Levels - 1
  PROVE  /\ AddAt(t, key, ref, depth) \in Table
         /\ AddAt(t, key, ref, depth).level = t.level
         /\ \A n \in Name :
              LET before == t.aliases[n]
                  after == AddAt(t, key, ref, depth).aliases[n]
              IN \/ after = before
                 \/ before = NoAlias /\ after # NoAlias /\ after.depth = depth
<1> DEFINE u == AddAt(t, key, ref, depth)
           name == key[1].name
           new == [ref |-> Lookup(t, ref), depth |-> depth]
<1>1. CASE u = t
  <2>. HIDE DEF u
  <2>. QED
    BY <1>1 DEF u
<1>2. CASE u # t
  <2>1. IsName(key) /\ name \notin Aliases(t) /\ u = Declare(t, name, Lookup(t, ref), depth)
    BY <1>2 DEF AddAt
  <2>2. name \in Name /\ t.aliases[name] = NoAlias
    BY <2>1 DEF Aliases, KeyOK
  <2>3. new \in Alias /\ new # NoAlias
    <3>1. Lookup(t, ref) \in Path /\ <<>> \notin Path
      BY LookupType DEF Path
    <3>. QED
      BY <3>1 DEF Alias, NoAlias
  <2>4. u = [t EXCEPT !.aliases[name] = new]
    BY <2>1 DEF Declare
  <2>. HIDE DEF u, new, name
  <2>5. t.level \in 0 .. Levels - 1 /\ t.aliases \in [Name -> Alias \cup {NoAlias}]
    BY DEF Table
  <2>6. u.level = t.level /\ u.aliases = [t.aliases EXCEPT ![name] = new]
    BY <2>4 DEF Table
  <2>7. u \in Table
    BY <2>2, <2>3, <2>4, <2>5 DEF Table
  <2>8. \A n \in Name : u.aliases[n] = IF n = name THEN new ELSE t.aliases[n]
    BY <2>2, <2>5, <2>6
  <2>9. new.depth = depth
    BY DEF new
  <2>. QED
    BY <2>2, <2>3, <2>6, <2>7, <2>8, <2>9 DEF u
<1>. QED
  BY <1>1, <1>2

LEMMA DownIs ==
  ASSUME NEW t \in Table
  PROVE  /\ Down(t) \in Table /\ Down(t).aliases = t.aliases
         /\ Down(t).level = (t.level + 1) % Levels
         /\ t.level + 1 < Levels => Down(t).level = t.level + 1
<1>1. t.level \in 0 .. Levels - 1
  BY DEF Table
<1>. QED
  BY <1>1, LevelsWrap DEF Table, Down

LEMMA ClearIs ==
  ASSUME NEW t \in Table, NEW depth
  PROVE  /\ Clear(t, depth) \in Table /\ Clear(t, depth).level = t.level
         /\ \A n \in Name :
              Clear(t, depth).aliases[n] =
                IF t.aliases[n].depth = depth THEN NoAlias ELSE t.aliases[n]
BY DEF Table, Clear

LEMMA UpIs ==
  ASSUME NEW t \in Table
  PROVE  /\ Up(t) \in Table /\ Up(t).level = (t.level - 1) % Levels
         /\ t.level > 0 => Up(t).level = t.level - 1
         /\ \A n \in Name :
              Up(t).aliases[n] = IF t.aliases[n].depth = t.level THEN NoAlias ELSE t.aliases[n]
<1>1. t.level \in 0 .. Levels - 1
  BY DEF Table
<1>. QED
  BY <1>1, LevelsWrap, ClearIs DEF Table, Up

LEMMA InitScopesOK == ScopeInit => ScopesOK
<1>. SUFFICES ASSUME ScopeInit PROVE ScopesOK
  OBVIOUS
<1>1. 0 \in 0 .. Levels - 1 /\ 0 \in 0 .. Uses /\ \A i \in 0 .. 0 - 1 : FALSE
  BY ScopeAssumption
<1>2. NewTable \in Table /\ Aliases(NewTable) = {}
  BY <1>1 DEF NewTable, Table, Aliases
<1>. QED
  BY <1>1, <1>2 DEF ScopeInit, ScopesOK, NewTable

-----------------------------------------------------------------------------
(* Every use of a table preserves the scopes *)

\* Aliases that are added at the level one is at are in no scope further out.
LEMMA GrownOK ==
  ASSUME ScopesOK, table' \in Table, table'.level = table.level,
         \A n \in Name :
           \/ table'.aliases[n] = table.aliases[n]
           \/ table.aliases[n] = NoAlias /\ (wild' \/ table'.aliases[n].depth = table.level),
         uses' \in 0 .. Uses, UNCHANGED <<saved, entered>>, wild' \in BOOLEAN, wild => wild'
  PROVE  ScopesOK'
<1>1. ASSUME ~wild'
      PROVE  /\ table'.level = entered'
             /\ \A n \in Aliases(table') : table'.aliases[n].depth <= table'.level
             /\ \A i \in 0 .. entered' - 1 : saved'[i] = [level |-> i, aliases |-> Outside(table', i + 1)]
  <2>1. ~wild /\ table.level = entered /\ entered \in Nat
    BY <1>1 DEF ScopesOK
  <2>2. \A n \in Name :
          \/ table'.aliases[n] = table.aliases[n]
          \/ table.aliases[n] = NoAlias /\ table'.aliases[n].depth = table.level
    BY <1>1
  <2>3. \A n \in Aliases(table') : table'.aliases[n].depth <= table'.level
    BY <2>1, <2>2 DEF Aliases, ScopesOK
  <2>4. \A i \in 0 .. entered - 1 : Outside(table', i + 1) = Outside(table, i + 1)
    <3>1. ASSUME NEW i \in 0 .. entered - 1, NEW n \in Name
          PROVE  (IF table'.aliases[n].depth < i + 1 THEN table'.aliases[n] ELSE NoAlias)
                   = (IF table.aliases[n].depth < i + 1 THEN table.aliases[n] ELSE NoAlias)
      <4>1. CASE table'.aliases[n] = table.aliases[n]
        BY <4>1
      <4>2. CASE table.aliases[n] = NoAlias /\ table'.aliases[n].depth = table.level
        BY <2>1, <4>2
      <4>. QED
        BY <2>2, <4>1, <4>2
    <3>. QED
      BY <3>1 DEF Outside
  <2>. QED
    BY <2>1, <2>3, <2>4 DEF ScopesOK
<1>. QED
  BY <1>1 DEF ScopesOK

LEMMA AddScopesOK ==
  ASSUME ScopesOK, NEW key, KeyOK(key), NEW ref \in Path, NEW depth \in 0 .. Levels - 1, Use,
         table' = AddAt(table, key, ref, depth), UNCHANGED <<saved, entered>>,
         wild' = (wild \/ depth # table.level)
  PROVE  ScopesOK'
<1>1. table \in Table
  BY DEF ScopesOK
<1>2. uses' \in 0 .. Uses /\ wild' \in BOOLEAN
  BY ScopeAssumption DEF Use, ScopesOK
<1>3. /\ table' \in Table /\ table'.level = table.level
      /\ \A n \in Name :
           \/ table'.aliases[n] = table.aliases[n]
           \/ table.aliases[n] = NoAlias /\ table'.aliases[n].depth = depth
  BY <1>1, AddIs
<1>. QED
  BY <1>2, <1>3, GrownOK

LEMMA ClearScopesOK ==
  ASSUME ScopesOK, NEW depth, ClearAliases(depth)
  PROVE  ScopesOK'
<1>1. table' \in Table /\ wild'
  BY ClearIs DEF ClearAliases, ScopesOK
<1>2. uses' \in 0 .. Uses
  BY ScopeAssumption DEF ClearAliases, Use, ScopesOK
<1>. QED
  BY <1>1, <1>2 DEF ClearAliases, ScopesOK

LEMMA EnterScopesOK ==
  ASSUME ScopesOK, Enter
  PROVE  ScopesOK'
<1>1. table \in Table /\ table' = Down(table) /\ table.level \in 0 .. Levels - 1
  BY DEF Enter, ScopesOK, Table
<1>2. table' \in Table /\ table'.aliases = table.aliases
  BY <1>1, DownIs
<1>3. uses' \in 0 .. Uses /\ entered' \in Nat /\ wild' \in BOOLEAN
  BY ScopeAssumption DEF Enter, Use, ScopesOK
<1>4. saved' \in [0 .. Levels - 1 -> Table]
  BY <1>1 DEF Enter, ScopesOK
<1>5. ASSUME ~wild'
      PROVE  /\ table'.level = entered'
             /\ \A n \in Aliases(table') : table'.aliases[n].depth <= table'.level
             /\ \A i \in 0 .. entered' - 1 :
                  saved'[i] = [level |-> i, aliases |-> Outside(table', i + 1)]
  <2>1. ~wild /\ table.level = entered /\ entered + 1 # Levels /\ entered \in Nat /\ entered' = entered + 1
    BY <1>5 DEF Enter, ScopesOK
  <2>2. table'.level = entered + 1
    <3>1. table.level + 1 < Levels
      BY <1>1, <2>1, ScopeAssumption
    <3>. QED
      BY <1>1, <2>1, <3>1, DownIs
  <2>3. \A n \in Name : table.aliases[n].depth <= entered /\ table.aliases[n].depth \in Nat
    <3>1. NoAlias.depth = 0
      BY DEF NoAlias
    <3>. QED
      BY <1>1, <2>1, <3>1, PlaceType DEF ScopesOK, Aliases
  <2>4. \A n \in Aliases(table') : table'.aliases[n].depth <= table'.level
    BY <1>2, <2>1, <2>2, <2>3 DEF Aliases
  <2>5. Outside(table', entered + 1) = table.aliases
    <3>1. \A n \in Name : table.aliases[n].depth < entered + 1
      BY <2>1, <2>3
    <3>2. table.aliases = [n \in Name |-> table.aliases[n]]
      BY <1>1 DEF Table
    <3>. QED
      BY <1>2, <3>1, <3>2 DEF Outside
  <2>6. saved'[entered] = [level |-> entered, aliases |-> Outside(table', entered + 1)]
    <3>1. saved'[entered] = table
      BY <1>1, <2>1 DEF Enter, ScopesOK
    <3>2. table = [level |-> table.level, aliases |-> table.aliases]
      BY <1>1 DEF Table
    <3>. QED
      BY <2>1, <2>5, <3>1, <3>2
  <2>7. \A i \in 0 .. entered - 1 :
          saved'[i] = [level |-> i, aliases |-> Outside(table', i + 1)]
    <3>1. TAKE i \in 0 .. entered - 1
    <3>2. i \in 0 .. Levels - 1 /\ i # table.level
      BY <1>1, <2>1, ScopeAssumption
    <3>3. saved'[i] = saved[i]
      BY <3>2 DEF Enter, ScopesOK
    <3>4. saved[i] = [level |-> i, aliases |-> Outside(table, i + 1)]
      BY <2>1 DEF ScopesOK
    <3>5. Outside(table', i + 1) = Outside(table, i + 1)
      BY <1>2 DEF Outside
    <3>. QED
      BY <3>3, <3>4, <3>5
  <2>8. \A i \in 0 .. entered' - 1 : i = entered \/ i \in 0 .. entered - 1
    BY <2>1
  <2>. QED
    BY <2>1, <2>2, <2>4, <2>6, <2>7, <2>8
<1>. QED
  BY <1>2, <1>3, <1>4, <1>5 DEF ScopesOK

\* up() of a scope that was entered: the table is that of when it was.
LEMMA LeaveRestores ==
  ASSUME ScopesOK, Leave, ~wild'
  PROVE  /\ ~wild /\ entered > 0 /\ entered' = entered - 1
         /\ table'.level = entered'
         /\ table'.aliases = Outside(table, entered)
         /\ table' = saved[entered']
<1>1. ~wild /\ entered \in Nat /\ entered > 0 /\ entered' = entered - 1 /\ table.level = entered
  <2>1. ~wild /\ entered # 0
    BY DEF Leave
  <2>2. entered \in Nat /\ table.level = entered
    BY <2>1 DEF ScopesOK
  <2>. QED
    BY <2>1, <2>2 DEF Leave
<1>2. table \in Table /\ table' = Up(table)
  BY DEF ScopesOK, Leave
<1>3. table' \in Table /\ table'.level = entered'
  BY <1>1, <1>2, UpIs
<1>4. table'.aliases = Outside(table, entered)
  <2>1. \A n \in Name : table.aliases[n].depth \in Nat /\ table.aliases[n].depth <= entered
    <3>1. NoAlias.depth = 0
      BY DEF NoAlias
    <3>. QED
      BY <1>1, <1>2, <3>1, PlaceType DEF ScopesOK, Aliases
  <2>2. \A n \in Name :
          table'.aliases[n] = IF table.aliases[n].depth < entered THEN table.aliases[n] ELSE NoAlias
    BY <1>1, <1>2, <2>1, UpIs
  <2>3. table'.aliases = [n \in Name |-> table'.aliases[n]]
    BY <1>3 DEF Table
  <2>. QED
    BY <2>2, <2>3 DEF Outside
<1>5. saved[entered'] = [level |-> entered', aliases |-> Outside(table, entered' + 1)]
  <2>1. entered' \in 0 .. entered - 1
    BY <1>1
  <2>. QED
    BY <1>1, <2>1 DEF ScopesOK
<1>6. entered' + 1 = entered /\ table' = [level |-> table'.level, aliases |-> table'.aliases]
  BY <1>1, <1>3 DEF Table
<1>. QED
  BY <1>1, <1>3, <1>4, <1>5, <1>6

LEMMA LeaveScopesOK ==
  ASSUME ScopesOK, Leave
  PROVE  ScopesOK'
<1>1. table \in Table /\ table.level \in 0 .. Levels - 1 /\ entered \in Nat
  BY DEF ScopesOK, Table
<1>2. table' \in Table /\ table'.level \in 0 .. Levels - 1
  BY <1>1, UpIs DEF Leave, Table
<1>3. uses' \in 0 .. Uses /\ entered' \in Nat /\ wild' \in BOOLEAN
  BY <1>1, ScopeAssumption DEF Leave, Use, ScopesOK
<1>4. saved' \in [0 .. Levels - 1 -> Table]
  <2>1. 0 \in 0 .. Levels - 1
    BY ScopeAssumption
  <2>2. NewTable \in Table
    BY <2>1 DEF NewTable, Table
  <2>. QED
    BY <2>2 DEF Leave, ScopesOK
<1>5. ASSUME ~wild'
      PROVE  /\ table'.level = entered'
             /\ \A n \in Aliases(table') : table'.aliases[n].depth <= table'.level
             /\ \A i \in 0 .. entered' - 1 :
                  saved'[i] = [level |-> i, aliases |-> Outside(table', i + 1)]
  <2>1. /\ ~wild /\ entered > 0 /\ entered' = entered - 1 /\ table'.level = entered'
        /\ table'.aliases = Outside(table, entered)
    BY <1>5, LeaveRestores
  <2>2. \A n \in Name : table.aliases[n].depth \in Nat
    BY <1>1, PlaceType
  <2>3. \A n \in Name :
          table'.aliases[n] = IF table.aliases[n].depth < entered THEN table.aliases[n] ELSE NoAlias
    BY <2>1 DEF Outside
  <2>4. \A n \in Aliases(table') : table'.aliases[n].depth <= table'.level
    BY <1>1, <2>1, <2>2, <2>3 DEF Aliases
  <2>5. \A i \in 0 .. entered' - 1 : Outside(table', i + 1) = Outside(table, i + 1)
    <3>1. NoAlias.depth = 0
      BY DEF NoAlias
    <3>2. ASSUME NEW i \in 0 .. entered' - 1, NEW n \in Name
          PROVE  (IF table'.aliases[n].depth < i + 1 THEN table'.aliases[n] ELSE NoAlias)
                   = (IF table.aliases[n].depth < i + 1 THEN table.aliases[n] ELSE NoAlias)
      <4>1. i + 1 \in Nat /\ i + 1 < entered
        BY <1>1, <2>1
      <4>2. CASE table.aliases[n].depth < entered
        BY <2>3, <4>2
      <4>3. CASE ~(table.aliases[n].depth < entered)
        BY <1>1, <2>2, <2>3, <3>1, <4>1, <4>3
      <4>. QED
        BY <4>2, <4>3
    <3>. QED
      BY <3>2 DEF Outside
  <2>6. \A i \in 0 .. entered' - 1 : saved'[i] = saved[i]
    <3>1. TAKE i \in 0 .. entered' - 1
    <3>2. table.level = entered
      BY <2>1 DEF ScopesOK
    <3>3. i # table'.level /\ i \in 0 .. Levels - 1
      BY <1>1, <2>1, <3>2, ScopeAssumption
    <3>. QED
      BY <3>3 DEF Leave, ScopesOK
  <2>7. \A i \in 0 .. entered' - 1 : i \in 0 .. entered - 1
    BY <1>1, <2>1
  <2>. QED
    BY <2>1, <2>4, <2>5, <2>6, <2>7 DEF ScopesOK
<1>. QED
  BY <1>2, <1>3, <1>4, <1>5 DEF ScopesOK

LEMMA NextScopesOK ==
  ASSUME ScopesOK, ScopeNext
  PROVE  ScopesOK'
<1>1. ASSUME NEW key \in Keys, NEW ref \in Refs, DeclareAlias(key, ref)
      PROVE  ScopesOK'
  <2>1. table.level \in 0 .. Levels - 1 /\ wild \in BOOLEAN /\ KeyOK(key) /\ ref \in Path
    BY ScopeAssumption DEF ScopesOK, Table
  <2>2. /\ Use /\ table' = AddAt(table, key, ref, table.level) /\ UNCHANGED <<saved, entered>>
        /\ wild' = (wild \/ table.level # table.level)
    BY <1>1, <2>1 DEF DeclareAlias, Add
  <2>. QED
    BY <2>1, <2>2, AddScopesOK
<1>2. ASSUME NEW key \in Keys, NEW ref \in Refs, NEW depth \in Depths,
             DeclareAliasAt(key, ref, depth)
      PROVE  ScopesOK'
  <2>1. depth \in 0 .. Levels - 1 /\ KeyOK(key) /\ ref \in Path
    BY ScopeAssumption
  <2>. QED
    BY <1>2, <2>1, AddScopesOK DEF DeclareAliasAt
<1>3. ASSUME NEW depth \in Depths, ClearAliases(depth)
      PROVE  ScopesOK'
  BY <1>3, ClearScopesOK
<1>4. CASE Enter
  BY <1>4, EnterScopesOK
<1>5. CASE Leave
  BY <1>5, LeaveScopesOK
<1>. QED
  BY <1>1, <1>2, <1>3, <1>4, <1>5 DEF ScopeNext

-----------------------------------------------------------------------------
(* Data: what find(), count() and keys() come to *)

LEMMA FindingIs ==
  ASSUME NEW object, NEW path, Len(path) \in Nat
  PROVE  Finding(object, path) =
           [k \in 0 .. Len(path) |->
              IF k = 0 THEN Found("object", object) ELSE Asked(Finding(object, path)[k - 1], path, k)]
<1> DEFINE Is(f, n) == f = [k \in 0 .. n |-> IF k = 0 THEN Found("object", object) ELSE Asked(f[k - 1], path, k)]
           Wrong == {n \in Nat : ~\E f : Is(f, n)}
<1>1. Wrong = {}
  <2>1. SUFFICES ASSUME Wrong # {} PROVE FALSE
    OBVIOUS
  <2>2. PICK n \in Wrong : \A k \in Wrong : n <= k
    BY <2>1, MinExists
  <2>3. CASE n = 0
    <3>1. Is([k \in 0 .. 0 |-> Found("object", object)], 0)
      OBVIOUS
    <3>. QED
      BY <2>3, <3>1
  <2>4. CASE n # 0
    <3>1. n - 1 \in Nat /\ n - 1 \notin Wrong
      <4>1. n \in Nat /\ n - 1 \in Nat /\ ~(n <= n - 1)
        BY <2>4
      <4>. QED
        BY <2>2, <4>1
    <3>2. PICK f : Is(f, n - 1)
      BY <3>1
    <3> DEFINE g == [k \in 0 .. n |-> IF k = n THEN Asked(f[n - 1], path, n) ELSE f[k]]
    <3>3. \A k \in 0 .. n : g[k] = IF k = 0 THEN Found("object", object) ELSE Asked(g[k - 1], path, k)
      BY <2>4, <3>1, <3>2
    <3>4. Is(g, n)
      BY <3>3
    <3>. QED
      BY <3>4
  <2>. QED
    BY <2>3, <2>4
<1>2. PICK f : Is(f, Len(path))
  BY <1>1
<1>. QED
  BY <1>2 DEF Finding

LEMMA PassingIs ==
  ASSUME NEW object, NEW path, Len(path) \in Nat \ {0}
  PROVE  Passing(object, path) =
           [k \in 0 .. Len(path) - 1 |->
              IF k = 0 THEN Found("object", object) ELSE Passed(Passing(object, path)[k - 1], path, k)]
<1> DEFINE Is(f, n) == f = [k \in 0 .. n |-> IF k = 0 THEN Found("object", object) ELSE Passed(f[k - 1], path, k)]
           Wrong == {n \in Nat : ~\E f : Is(f, n)}
<1>1. Wrong = {}
  <2>1. SUFFICES ASSUME Wrong # {} PROVE FALSE
    OBVIOUS
  <2>2. PICK n \in Wrong : \A k \in Wrong : n <= k
    BY <2>1, MinExists
  <2>3. CASE n = 0
    <3>1. Is([k \in 0 .. 0 |-> Found("object", object)], 0)
      OBVIOUS
    <3>. QED
      BY <2>3, <3>1
  <2>4. CASE n # 0
    <3>1. n - 1 \in Nat /\ n - 1 \notin Wrong
      <4>1. n \in Nat /\ n - 1 \in Nat /\ ~(n <= n - 1)
        BY <2>4
      <4>. QED
        BY <2>2, <4>1
    <3>2. PICK f : Is(f, n - 1)
      BY <3>1
    <3> DEFINE g == [k \in 0 .. n |-> IF k = n THEN Passed(f[n - 1], path, n) ELSE f[k]]
    <3>3. \A k \in 0 .. n : g[k] = IF k = 0 THEN Found("object", object) ELSE Passed(g[k - 1], path, k)
      BY <2>4, <3>1, <3>2
    <3>4. Is(g, n)
      BY <3>3
    <3>. QED
      BY <3>4
  <2>. QED
    BY <2>3, <2>4
<1>2. Len(path) - 1 \in Nat
  OBVIOUS
<1>3. PICK f : Is(f, Len(path) - 1)
  BY <1>1, <1>2
<1>. QED
  BY <1>3 DEF Passing

\* A path has a length, and so has an object.
LEMMA PathLen ==
  ASSUME NEW path \in Path
  PROVE  /\ Len(path) \in Nat \ {0} /\ path \in Seq([name : STRING, at : Seq(STRING)])
         /\ \A k \in 1 .. Len(path) : path[k] \in [name : STRING, at : Seq(STRING)]
BY EmptySeq, LenProperties DEF Path, Steps

LEMMA GroupType ==
  ASSUME NEW g \in Groups
  PROVE  Len(g) \in Nat \ {0} /\ DOMAIN g = 1 .. Len(g) /\ \A i \in 1 .. Len(g) : g[i] \in Object
BY EmptySeq, LenProperties, ViewsAssumption

\* The members of an object found by a search from the last.
LEMMA MatchedMax ==
  ASSUME NEW object \in Object, NEW S, S \subseteq DOMAIN object, S # {}
  PROVE  Max(S) \in S /\ Max(S) \in DOMAIN object /\ \A j \in S : j <= Max(S)
<1>1. Len(object) \in Nat /\ DOMAIN object = 1 .. Len(object)
  BY ViewsAssumption DEF ObjectOK
<1>2. S \subseteq 0 .. Len(object)
  BY <1>1
<1>. QED
  BY <1>1, <1>2, MaxExists

\* What is called of a member that holds objects is an object.
LEMMA CalledType ==
  ASSUME NEW member, MemberOK(member), NEW at, Called(member, at).outcome = "found"
  PROVE  /\ Called(member, at).of = member.of
         /\ member.of = "object" => Called(member, at).value \in Object
<1> DEFINE held == IF member.of = "object" THEN Object ELSE STRING
<1>1. CASE member.is = "one"
  <2>1. Called(member, at) = Found(member.of, member.holds)
    BY <1>1 DEF Called
  <2>. QED
    BY <1>1, <2>1 DEF MemberOK, Found
<1>2. CASE member.is = "list"
  <2>1. Len(at) = 1 /\ at # <<>> /\ at[1] \in Indices(member.holds)
    <3>1. Called(member, at).outcome \in {"found", "out_of_range", "throws"}
      BY <1>2 DEF Called, Found, OutOfRange, Throws
    <3>2. Throws.outcome # "found" /\ OutOfRange.outcome # "found"
      BY DEF Throws, OutOfRange
    <3>3. Called(member, at) =
            CASE at = <<>> -> Throws
              [] Len(at) = 1 /\ at[1] \in Indices(member.holds) ->
                   Found(member.of, member.holds[CHOOSE n \in DOMAIN member.holds : IndexText(n) = at[1]])
              [] Len(at) = 1 /\ at[1] \in Index \ Indices(member.holds) -> OutOfRange
              [] OTHER -> Throws
      BY <1>2 DEF Called
    <3>4. at # <<>>
      BY <3>2, <3>3
    <3>. QED
      BY <3>2, <3>3, <3>4
  <2>2. Called(member, at) =
          Found(member.of, member.holds[CHOOSE n \in DOMAIN member.holds : IndexText(n) = at[1]])
    BY <1>2, <2>1 DEF Called
  <2>3. \E n \in DOMAIN member.holds : IndexText(n) = at[1]
    BY <2>1 DEF Indices
  <2>4. (CHOOSE n \in DOMAIN member.holds : IndexText(n) = at[1]) \in DOMAIN member.holds
    BY <2>3
  <2>5. member.holds \in Seq(held)
    BY <1>2 DEF MemberOK
  <2> DEFINE n == CHOOSE i \in DOMAIN member.holds : IndexText(i) = at[1]
  <2>6. n \in DOMAIN member.holds
    BY <2>4
  <2>7. Called(member, at).of = member.of /\ Called(member, at).value = member.holds[n]
    BY <2>2 DEF Found
  <2>. HIDE DEF held, n
  <2>8. \A i \in DOMAIN member.holds : member.holds[i] \in held
    BY <2>5, LenProperties
  <2>9. Called(member, at).value \in held
    BY <2>6, <2>7, <2>8
  <2>. QED
    BY <2>7, <2>9 DEF held
<1>3. CASE member.is = "map"
  <2>1. Called(member, at) =
          IF Len(at) = 1 /\ at[1] \in DOMAIN member.holds
          THEN Found(member.of, member.holds[at[1]]) ELSE OutOfRange
    BY <1>3 DEF Called
  <2>2. OutOfRange.outcome # "found"
    BY DEF OutOfRange
  <2>3. at[1] \in DOMAIN member.holds /\ Called(member, at) = Found(member.of, member.holds[at[1]])
    BY <2>1, <2>2
  <2>4. member.holds[at[1]] \in held
    BY <1>3, <2>3 DEF MemberOK
  <2>. QED
    BY <2>3, <2>4 DEF Found
<1>. QED
  BY <1>1, <1>2, <1>3 DEF MemberOK

\* What is found on the way of a path is an object.
LEMMA FindingType ==
  ASSUME NEW object \in Object, NEW path \in Path, NEW k \in 0 .. Len(path) - 1,
         Finding(object, path)[k].outcome = "found"
  PROVE  Finding(object, path)[k].value \in Object
<1> DEFINE f == Finding(object, path)
           Wrong == {j \in Nat : j < Len(path) /\ f[j].outcome = "found" /\ f[j].value \notin Object}
<1>1. Len(path) \in Nat \ {0}
  BY PathLen
<1>2. f = [j \in 0 .. Len(path) |-> IF j = 0 THEN Found("object", object) ELSE Asked(f[j - 1], path, j)]
  BY <1>1, FindingIs
<1>. HIDE DEF f
<1>3. Wrong = {}
  <2>1. SUFFICES ASSUME Wrong # {} PROVE FALSE
    OBVIOUS
  <2>2. PICK j \in Wrong : \A i \in Wrong : j <= i
    BY <1>1, <2>1, MinExists
  <2>3. j # 0
    <3>1. f[0] = Found("object", object)
      BY <1>1, <1>2
    <3>. QED
      BY <3>1 DEF Found
  <2>4. j - 1 \in Nat /\ j - 1 < Len(path) /\ j - 1 \notin Wrong /\ j < Len(path) /\ f[j] = Asked(f[j - 1], path, j)
    <3>1. j \in Nat /\ j < Len(path) /\ j - 1 \in Nat /\ ~(j <= j - 1)
      BY <2>2, <2>3
    <3>2. j \in 0 .. Len(path)
      BY <1>1, <3>1
    <3>3. f[j] = Asked(f[j - 1], path, j)
      BY <1>2, <2>3, <3>2
    <3>. QED
      BY <1>1, <2>2, <3>1, <3>3
  <2> DEFINE matched == Matched(f[j - 1].value, path[j].name) \cap Nested(f[j - 1].value)
             member == f[j - 1].value[Max(matched)]
  <2>5. f[j - 1].outcome = "found" /\ matched # {} /\ f[j] = Called(member, path[j].at)
    BY <2>2, <2>4 DEF Asked, Missing
  <2>6. f[j - 1].value \in Object
    BY <2>4, <2>5
  <2>7. matched \subseteq DOMAIN f[j - 1].value /\ \A i \in matched : f[j - 1].value[i].of = "object"
    BY DEF Matched, Nested, IsNested
  <2>. HIDE DEF matched
  <2>8. Max(matched) \in matched /\ Max(matched) \in DOMAIN f[j - 1].value
    BY <2>5, <2>6, <2>7, MatchedMax
  <2>9. MemberOK(member) /\ member.of = "object"
    BY <2>6, <2>7, <2>8, ViewsAssumption DEF ObjectOK
  <2>. HIDE DEF member
  <2>. QED
    BY <2>2, <2>5, <2>9, CalledType
<1>. QED
  BY <1>3 DEF f

LEMMA PassingType ==
  ASSUME NEW object \in Object, NEW path \in Path, NEW k \in 0 .. Len(path) - 1,
         Passing(object, path)[k].outcome = "found"
  PROVE  Passing(object, path)[k].value \in Object
<1> DEFINE f == Passing(object, path)
           Wrong == {j \in Nat : j < Len(path) /\ f[j].outcome = "found" /\ f[j].value \notin Object}
<1>1. Len(path) \in Nat \ {0}
  BY PathLen
<1>2. f = [j \in 0 .. Len(path) - 1 |-> IF j = 0 THEN Found("object", object) ELSE Passed(f[j - 1], path, j)]
  BY <1>1, PassingIs
<1>. HIDE DEF f
<1>3. Wrong = {}
  <2>1. SUFFICES ASSUME Wrong # {} PROVE FALSE
    OBVIOUS
  <2>2. PICK j \in Wrong : \A i \in Wrong : j <= i
    BY <1>1, <2>1, MinExists
  <2>3. j # 0
    <3>1. f[0] = Found("object", object)
      BY <1>1, <1>2
    <3>. QED
      BY <3>1 DEF Found
  <2>4. j - 1 \in Nat /\ j - 1 < Len(path) /\ j - 1 \notin Wrong /\ j < Len(path) /\ f[j] = Passed(f[j - 1], path, j)
    <3>1. j \in Nat /\ j < Len(path) /\ j - 1 \in Nat /\ ~(j <= j - 1)
      BY <2>2, <2>3
    <3>2. j \in 0 .. Len(path) - 1
      BY <1>1, <3>1
    <3>3. f[j] = Passed(f[j - 1], path, j)
      BY <1>2, <2>3, <3>2
    <3>. QED
      BY <1>1, <2>2, <3>1, <3>3
  <2> DEFINE nested == Nested(f[j - 1].value)
             member == f[j - 1].value[Max(nested)]
  <2>5. f[j - 1].outcome = "found" /\ nested # {} /\ f[j] = Called(member, path[j].at)
    BY <2>2, <2>4 DEF Passed, Missing
  <2>6. f[j - 1].value \in Object
    BY <2>4, <2>5
  <2>7. nested \subseteq DOMAIN f[j - 1].value /\ \A i \in nested : f[j - 1].value[i].of = "object"
    BY DEF Nested, IsNested
  <2>. HIDE DEF nested
  <2>8. Max(nested) \in nested /\ Max(nested) \in DOMAIN f[j - 1].value
    BY <2>5, <2>6, <2>7, MatchedMax
  <2>9. MemberOK(member) /\ member.of = "object"
    BY <2>6, <2>7, <2>8, ViewsAssumption DEF ObjectOK
  <2>. HIDE DEF member
  <2>. QED
    BY <2>2, <2>5, <2>9, CalledType
<1>. QED
  BY <1>3 DEF f

\* The member that count() and keys() ask is one of the data.
LEMMA MemberNamedType ==
  ASSUME NEW found, NEW name, found.outcome = "found" => found.value \in Object,
         MemberNamed(found, name).outcome = "found"
  PROVE  MemberOK(MemberNamed(found, name).value)
<1> DEFINE matched == Matched(found.value, name)
<1>1. found.outcome = "found" /\ matched # {} /\ MemberNamed(found, name).value = found.value[Max(matched)]
  BY DEF MemberNamed, Missing, Found
<1>2. matched \subseteq DOMAIN found.value
  BY DEF Matched
<1>. HIDE DEF matched
<1>3. Max(matched) \in DOMAIN found.value
  BY <1>1, <1>2, MatchedMax
<1>. QED
  BY <1>1, <1>3, ViewsAssumption DEF ObjectOK

LEMMA MemberOfType ==
  ASSUME NEW object \in Object, NEW path \in Path, MemberOf(object, path).outcome = "found"
  PROVE  MemberOK(MemberOf(object, path).value)
<1>1. Len(path) - 1 \in 0 .. Len(path) - 1
  BY PathLen
<1>. QED
  BY <1>1, PassingType, MemberNamedType DEF MemberOf

\* The holder of a path is an object of the group.
LEMMA HolderType ==
  ASSUME NEW g \in Groups, NEW path
  PROVE  Holder(g, path) \in 1 .. Len(g)
<1> DEFINE holding == {1} \cup {i \in DOMAIN g : Find(g[i], path).outcome # "missing"}
<1>1. holding \subseteq 0 .. Len(g) /\ holding # {} /\ holding \subseteq 1 .. Len(g) /\ Len(g) \in Nat
  BY GroupType
<1>. HIDE DEF holding
<1>2. Max(holding) \in holding
  BY <1>1, MaxExists
<1>. QED
  BY <1>1, <1>2 DEF Holder, holding

LEMMA MemberInType ==
  ASSUME NEW g \in Groups, NEW path \in Path, MemberIn(g, path).outcome = "found"
  PROVE  MemberOK(MemberIn(g, path).value)
<1>1. Holder(g, path) \in 1 .. Len(g) /\ g[Holder(g, path)] \in Object
  BY HolderType, GroupType
<1>2. MemberIn(g, path) = MemberOf(g[Holder(g, path)], path)
  BY DEF MemberIn
<1>. QED
  BY <1>1, <1>2, MemberOfType

LEMMA KeysOfType ==
  ASSUME NEW member, MemberOK(member)
  PROVE  KeysOf(member) \in Seq(STRING)
<1>1. CASE member.is = "one"
  BY <1>1 DEF KeysOf
<1>2. CASE member.is = "list"
  <2> DEFINE held == IF member.of = "object" THEN Object ELSE STRING
  <2>1. member.holds \in Seq(held) /\ Indices(member.holds) \subseteq STRING
    BY <1>2 DEF MemberOK
  <2>. HIDE DEF held
  <2>2. Len(member.holds) \in Nat /\ DOMAIN member.holds = 1 .. Len(member.holds)
    BY <2>1, LenProperties
  <2>3. \A n \in 1 .. Len(member.holds) : IndexText(n) \in STRING
    BY <2>1, <2>2 DEF Indices
  <2>4. KeysOf(member) = [n \in 1 .. Len(member.holds) |-> IndexText(n)]
    BY <1>2, <2>2 DEF KeysOf
  <2>. QED
    BY <2>2, <2>3, <2>4, IsASeq
<1>3. CASE member.is = "map"
  BY <1>3 DEF KeysOf, MemberOK
<1>. QED
  BY <1>1, <1>2, <1>3 DEF MemberOK

\* The indices of a loop are texts.
LEMMA KeysType ==
  ASSUME NEW g \in Groups, NEW path \in Path, KeysIn(g, path).outcome = "found"
  PROVE  KeysIn(g, path).value \in Seq(STRING)
<1> DEFINE member == MemberIn(g, path)
<1>1. CASE member.outcome = "missing"
  <2>1. KeysIn(g, path).value = <<>>
    BY <1>1 DEF KeysIn, KeysOfFound, Found
  <2>. QED
    BY <2>1, EmptySeq
<1>2. CASE member.outcome = "found"
  <2>1. MemberOK(member.value)
    BY <1>2, MemberInType
  <2>2. KeysIn(g, path).value = KeysOf(member.value)
    BY <1>2 DEF KeysIn, KeysOfFound, Found
  <2>. QED
    BY <2>1, <2>2, KeysOfType
<1>3. CASE member.outcome \notin {"missing", "found"}
  <2>1. KeysIn(g, path) = member
    BY <1>3 DEF KeysIn, KeysOfFound
  <2>. QED
    BY <1>3, <2>1
<1>. QED
  BY <1>1, <1>2, <1>3

LEMMA IndexedType ==
  ASSUME NEW path \in Path, NEW index \in STRING
  PROVE  Indexed(path, index) \in Path
<1> DEFINE One == [name : STRING, at : Seq(STRING)]
           n == Len(path)
           last == [name |-> path[n].name, at |-> Append(path[n].at, index)]
<1>1. n \in 1 .. Len(path) /\ path[n] \in One /\ path \in Seq(One) /\ n \in Nat
  BY PathLen
<1>2. last \in One
  <2>1. Append(path[n].at, index) \in Seq(STRING)
    BY <1>1
  <2>. HIDE DEF n
  <2>. QED
    BY <1>1, <2>1
<1>3. Indexed(path, index) = [path EXCEPT ![n] = last]
  BY DEF Indexed
<1>. HIDE DEF last, One
<1>4. [path EXCEPT ![n] = last] \in Seq(One) /\ Len([path EXCEPT ![n] = last]) = n
  BY <1>1, <1>2, ExceptSeq
<1>. QED
  BY <1>1, <1>3, <1>4, EmptySeq DEF Path, Steps, One

\* The path of an element is that of its collection but for the index.
LEMMA IndexedIs ==
  ASSUME NEW path \in Path, NEW index
  PROVE  /\ Len(Indexed(path, index)) = Len(path)
         /\ \A k \in 1 .. Len(path) - 1 : Indexed(path, index)[k] = path[k]
         /\ Indexed(path, index)[Len(path)].name = path[Len(path)].name
         /\ Indexed(path, index)[Len(path)].at = Append(path[Len(path)].at, index)
<1> DEFINE One == [name : STRING, at : Seq(STRING)]
           n == Len(path)
           last == [name |-> path[n].name, at |-> Append(path[n].at, index)]
           Wide == One \cup {last}
<1>1. n \in 1 .. Len(path) /\ path \in Seq(One) /\ n \in Nat
  BY PathLen
<1>2. Indexed(path, index) = [path EXCEPT ![n] = last]
  BY DEF Indexed
<1>3. last.name = path[n].name /\ last.at = Append(path[n].at, index)
  OBVIOUS
<1>4. One \subseteq Wide /\ last \in Wide
  OBVIOUS
<1>. HIDE DEF One, last, Wide
<1>5. path \in Seq(Wide)
  BY <1>1, <1>4, SeqMonotonic
<1>6. /\ Len([path EXCEPT ![n] = last]) = n
      /\ \A j \in 1 .. n : [path EXCEPT ![n] = last][j] = IF j = n THEN last ELSE path[j]
  BY <1>1, <1>4, <1>5, ExceptSeq
<1>. HIDE DEF n
<1>7. \A k \in 1 .. n - 1 : k \in 1 .. n /\ k # n
  BY <1>1
<1>8. n \in 1 .. n
  BY <1>1 DEF n
<1>. QED
  BY <1>2, <1>3, <1>6, <1>7, <1>8 DEF n

\* An index changes nothing of what is found on the way.
LEMMA SameWay ==
  ASSUME NEW object, NEW path \in Path, NEW index, NEW k \in 0 .. Len(path) - 1
  PROVE  Finding(object, Indexed(path, index))[k] = Finding(object, path)[k]
<1> DEFINE q == Indexed(path, index)
           n == Len(path)
           f == Finding(object, path)
           g == Finding(object, q)
           Wrong == {j \in Nat : j < n /\ g[j] # f[j]}
<1>1. n \in Nat \ {0} /\ Len(q) = n /\ \A j \in 1 .. n - 1 : q[j] = path[j]
  BY PathLen, IndexedIs
<1>2. f = [j \in 0 .. n |-> IF j = 0 THEN Found("object", object) ELSE Asked(f[j - 1], path, j)]
  BY <1>1, FindingIs
<1>3. g = [j \in 0 .. n |-> IF j = 0 THEN Found("object", object) ELSE Asked(g[j - 1], q, j)]
  BY <1>1, FindingIs
<1>. HIDE DEF f, g, q, n
<1>4. Wrong = {}
  <2>1. SUFFICES ASSUME Wrong # {} PROVE FALSE
    OBVIOUS
  <2>2. PICK j \in Wrong : \A i \in Wrong : j <= i
    BY <2>1, MinExists
  <2>3. j \in Nat /\ j < n /\ j \in 0 .. n
    BY <1>1, <2>2
  <2>4. j # 0
    BY <1>2, <1>3, <2>2, <2>3
  <2>5. j - 1 \in Nat /\ j - 1 < n /\ ~(j <= j - 1)
    BY <1>1, <2>3, <2>4
  <2>6. g[j - 1] = f[j - 1]
    BY <2>2, <2>5
  <2>7. f[j] = Asked(f[j - 1], path, j) /\ g[j] = Asked(g[j - 1], q, j)
    BY <1>2, <1>3, <2>3, <2>4
  <2>8. q[j] = path[j] /\ Len(q) = Len(path)
    BY <1>1, <2>3, <2>4 DEF n
  <2>9. Asked(f[j - 1], q, j) = Asked(f[j - 1], path, j)
    BY <2>8 DEF Asked
  <2>. QED
    BY <2>2, <2>6, <2>7, <2>9
<1>5. k \in Nat /\ k < n
  BY <1>1 DEF n
<1>. QED
  BY <1>4, <1>5 DEF f, g, q

\* Where no member is in the way, count() and keys() come to what find() finds.
LEMMA SameMember ==
  ASSUME NEW object \in Object, NEW path \in Path, InSight(object, path),
         NEW k \in 0 .. Len(path) - 1
  PROVE  Passing(object, path)[k] = Finding(object, path)[k]
<1> DEFINE n == Len(path)
           f == Finding(object, path)
           g == Passing(object, path)
           Wrong == {j \in Nat : j < n /\ g[j] # f[j]}
<1>1. n \in Nat \ {0}
  BY PathLen
<1>2. f = [j \in 0 .. n |-> IF j = 0 THEN Found("object", object) ELSE Asked(f[j - 1], path, j)]
  BY <1>1, FindingIs
<1>3. g = [j \in 0 .. n - 1 |-> IF j = 0 THEN Found("object", object) ELSE Passed(g[j - 1], path, j)]
  BY <1>1, PassingIs
<1>0. \A j \in 0 .. n - 1 : f[j].outcome = "found" => f[j].value \in Object
  BY FindingType
<1>s. \A j \in 1 .. n - 1 : f[j - 1].outcome = "found" =>
         \/ Matched(f[j - 1].value, path[j].name) = {}
         \/ Matched(f[j - 1].value, path[j].name) = {Max(Nested(f[j - 1].value) \cup {0})}
  BY DEF InSight
<1>. HIDE DEF f, g, n
<1>4. Wrong = {}
  <2>1. SUFFICES ASSUME Wrong # {} PROVE FALSE
    OBVIOUS
  <2>2. PICK j \in Wrong : \A i \in Wrong : j <= i
    BY <2>1, MinExists
  <2>3. j \in Nat /\ j < n /\ j \in 0 .. n /\ j \in 0 .. n - 1
    BY <1>1, <2>2
  <2>4. j # 0
    BY <1>2, <1>3, <2>2, <2>3
  <2>5. j - 1 \in Nat /\ j - 1 < n /\ ~(j <= j - 1)
    BY <1>1, <2>3, <2>4
  <2>6. g[j - 1] = f[j - 1]
    BY <2>2, <2>5
  <2>7. f[j] = Asked(f[j - 1], path, j) /\ g[j] = Passed(g[j - 1], path, j)
    BY <1>2, <1>3, <2>3, <2>4
  <2> DEFINE found == f[j - 1]
             name == path[j].name
             matched == Matched(found.value, name)
             nested == Nested(found.value)
  <2>8. found.outcome = "found"
    BY <2>2, <2>6, <2>7 DEF Asked, Passed
  <2>9. found.value \in Object /\ (matched = {} \/ matched = {Max(nested \cup {0})})
    <3>1. j \in 1 .. n - 1 /\ j - 1 \in 0 .. n - 1
      BY <1>1, <2>3, <2>4
    <3>. QED
      BY <1>0, <1>s, <2>8, <3>1
  <2>10. /\ Asked(found, path, j) = IF matched \cap nested = {} THEN Missing
                                     ELSE Called(found.value[Max(matched \cap nested)], path[j].at)
         /\ Passed(found, path, j) = IF nested = {} \/ found.value[Max(nested)].name # name THEN Missing
                                      ELSE Called(found.value[Max(nested)], path[j].at)
    BY <2>3, <2>8 DEF Asked, Passed, n
  <2>11. /\ matched \subseteq DOMAIN found.value /\ nested \subseteq DOMAIN found.value
         /\ \A i \in DOMAIN found.value : i \in matched <=> found.value[i].name = name
         /\ DOMAIN found.value \subseteq Nat \ {0}
    BY <2>9, ViewsAssumption DEF Matched, Nested, ObjectOK
  <2>. HIDE DEF found, name, matched, nested
  <2>12. CASE matched = {}
    <3>1. nested = {} \/ found.value[Max(nested)].name # name
      BY <2>9, <2>11, <2>12, MatchedMax
    <3>. QED
      BY <2>2, <2>6, <2>7, <2>10, <2>12, <3>1 DEF found
  <2>13. CASE matched # {}
    <3>1. nested # {}
      <4>1. SUFFICES ASSUME nested = {} PROVE FALSE
        OBVIOUS
      <4>2. Max(nested \cup {0}) \in {0}
        <5>1. nested \cup {0} \subseteq 0 .. 0 /\ nested \cup {0} # {} /\ 0 \in Nat
          BY <4>1
        <5>. QED
          BY <4>1, <5>1, MaxExists
      <4>. QED
        BY <2>9, <2>11, <2>13, <4>2
    <3>2. Max(nested) \in nested /\ \A i \in nested : i <= Max(nested)
      BY <2>9, <2>11, <3>1, MatchedMax
    <3>3. Max(nested \cup {0}) = Max(nested)
      <4>1. \A i \in nested \cup {0} : i <= Max(nested)
        BY <2>11, <3>2
      <4>2. \A i \in nested : i \in Nat
        BY <2>11
      <4>3. \A m \in nested \cup {0} : (\A i \in nested \cup {0} : i <= m) => m = Max(nested)
        BY <3>2, <4>1, <4>2
      <4>. QED
        BY <3>2, <4>1, <4>3 DEF Max
    <3>4. matched = {Max(nested)} /\ matched \cap nested = {Max(nested)} /\ found.value[Max(nested)].name = name
      BY <2>9, <2>11, <2>13, <3>2, <3>3
    <3>5. Max(matched \cap nested) = Max(nested)
      <4>1. matched \cap nested # {} /\ matched \cap nested \subseteq DOMAIN found.value
        BY <2>11, <3>4
      <4>. QED
        BY <2>9, <3>4, <4>1, MatchedMax
    <3>6. Asked(found, path, j) = Passed(found, path, j)
      BY <2>10, <3>1, <3>4, <3>5
    <3>. QED
      BY <2>2, <2>6, <2>7, <3>6 DEF found
  <2>. QED
    BY <2>12, <2>13
<1>5. k \in Nat /\ k < n
  BY <1>1 DEF n
<1>. QED
  BY <1>4, <1>5 DEF f, g

\* What a member of a collection has under an index.
LEMMA ElementFound ==
  ASSUME NEW member, MemberOK(member), member.is # "one", NEW index
  PROVE  Called(member, <<index>>).outcome = "found" <=> index \in Range(KeysOf(member))
<1>1. Missing.outcome # "found" /\ OutOfRange.outcome # "found" /\ Throws.outcome # "found"
  BY DEF Missing, OutOfRange, Throws
<1>2. Len(<<index>>) = 1 /\ <<index>>[1] = index /\ <<index>> # <<>>
  OBVIOUS
<1>3. CASE member.is = "list"
  <2>1. KeysOf(member) = [n \in DOMAIN member.holds |-> IndexText(n)]
    BY <1>3 DEF KeysOf
  <2>2. Range(KeysOf(member)) = Indices(member.holds)
    BY <2>1 DEF Range, Indices
  <2>3. Called(member, <<index>>) =
          CASE <<index>> = <<>> -> Throws
            [] Len(<<index>>) = 1 /\ <<index>>[1] \in Indices(member.holds) ->
                 Found(member.of, member.holds[CHOOSE n \in DOMAIN member.holds : IndexText(n) = <<index>>[1]])
            [] Len(<<index>>) = 1 /\ <<index>>[1] \in Index \ Indices(member.holds) -> OutOfRange
            [] OTHER -> Throws
    BY <1>3 DEF Called
  <2>4. CASE index \in Indices(member.holds)
    <3>1. Called(member, <<index>>) =
            Found(member.of, member.holds[CHOOSE n \in DOMAIN member.holds : IndexText(n) = <<index>>[1]])
      BY <1>2, <2>3, <2>4
    <3>. QED
      BY <2>2, <2>4, <3>1 DEF Found
  <2>5. CASE index \notin Indices(member.holds)
    <3>1. Called(member, <<index>>) \in {OutOfRange, Throws}
      BY <1>2, <2>3, <2>5
    <3>. QED
      BY <1>1, <2>2, <2>5, <3>1
  <2>. QED
    BY <2>4, <2>5
<1>4. CASE member.is = "map"
  <2>1. KeysOf(member) = member.order /\ DOMAIN member.holds = Range(member.order)
    BY <1>4 DEF KeysOf, MemberOK
  <2>2. Called(member, <<index>>) =
          IF index \in DOMAIN member.holds THEN Found(member.of, member.holds[index]) ELSE OutOfRange
    BY <1>2, <1>4 DEF Called
  <2>. QED
    BY <1>1, <2>1, <2>2 DEF Found
<1>. QED
  BY <1>3, <1>4 DEF MemberOK

\* The keys of a collection are as many as its elements.
LEMMA SizeIs ==
  ASSUME NEW member, MemberOK(member), member.is # "one"
  PROVE  Size(member) = Cardinality(Range(KeysOf(member)))
<1>1. CASE member.is = "list"
  <2> DEFINE held == IF member.of = "object" THEN Object ELSE STRING
             keys == KeysOf(member)
             n == Len(member.holds)
  <2>1. member.holds \in Seq(held) /\ \A i, j \in DOMAIN member.holds : IndexText(i) = IndexText(j) => i = j
    BY <1>1 DEF MemberOK
  <2>2. Size(member) = n /\ keys = [i \in DOMAIN member.holds |-> IndexText(i)]
    BY <1>1 DEF Size, KeysOf
  <2>. HIDE DEF held, keys
  <2>3. n \in Nat /\ DOMAIN member.holds = 1 .. n
    BY <2>1, LenProperties
  <2>. HIDE DEF n
  <2>4. keys = [i \in 1 .. n |-> IndexText(i)] /\ Range(keys) = {IndexText(i) : i \in 1 .. n}
    BY <2>2, <2>3 DEF Range
  <2>5. keys \in Bijection(1 .. n, Range(keys))
    <3>1. keys \in [1 .. n -> Range(keys)]
      BY <2>4
    <3>2. \A i, j \in 1 .. n : keys[i] = keys[j] => i = j
      BY <2>1, <2>3, <2>4
    <3>3. \A x \in Range(keys) : \E i \in 1 .. n : keys[i] = x
      BY <2>4
    <3>. QED
      BY <3>1, <3>2, <3>3, Fun_IsBij
  <2>6. IsFiniteSet(1 .. n) /\ Cardinality(1 .. n) = n
    BY <2>3, FS_Interval
  <2>7. Cardinality(Range(keys)) = n
    BY <2>5, <2>6, FS_Bijection DEF ExistsBijection
  <2>. QED
    BY <2>2, <2>7 DEF keys
<1>2. CASE member.is = "map"
  BY <1>2 DEF Size, KeysOf, MemberOK
<1>. QED
  BY <1>1, <1>2 DEF MemberOK

\* keys() and count() of a collection tell what find() finds, of any data.
LEMMA CountsAre ==
  ASSUME NEW g \in Groups, NEW path \in Collections, Len(g) = 1, InSight(g[1], path)
  PROVE  \/ KeysIn(g, path).outcome # "found"
         \/ FindIn(g, path).outcome = "found"
         \/ LET indices == {index \in Index \cup Range(KeysIn(g, path).value) :
                              FindIn(g, Indexed(path, index)).outcome = "found"}
            IN /\ Range(KeysIn(g, path).value) = indices
               /\ CountIn(g, path).value = Cardinality(indices)
<1> DEFINE object == g[1]
           n == Len(path)
           found == Finding(object, path)[n - 1]
           keys == KeysIn(g, path)
           name == path[n].name
<1>1. path \in Path /\ path[n].at = <<>> /\ n \in Nat \ {0}
  BY ViewsAssumption, PathLen
<1>2. object \in Object /\ DOMAIN g = {1}
  BY GroupType
<1>3. \A p : Holder(g, p) = 1 /\ FindIn(g, p) = Find(object, p)
  <2>1. TAKE p
  <2>2. {1} \cup {i \in DOMAIN g : Find(g[i], p).outcome # "missing"} = {1}
    BY <1>2
  <2>3. Max({1}) \in {1}
    BY MaxExists
  <2>. QED
    BY <2>2, <2>3 DEF Holder, FindIn
<1>4. MemberIn(g, path) = MemberNamed(found, name)
  <2>1. n - 1 \in 0 .. n - 1
    BY <1>1
  <2>2. Passing(object, path)[n - 1] = found
    BY <1>1, <1>2, <2>1, SameMember
  <2>. QED
    BY <1>3, <2>2 DEF MemberIn, MemberOf
<1>5. Find(object, path) = Asked(found, path, n)
  BY <1>1, FindingIs DEF Find
<1>6. \A index : Find(object, Indexed(path, index)) = Asked(found, Indexed(path, index), n)
  <2>1. TAKE index
  <2>2. Len(Indexed(path, index)) = n /\ n - 1 \in 0 .. n - 1
    BY <1>1, IndexedIs
  <2>3. Finding(object, Indexed(path, index))[n - 1] = found
    BY <1>1, <2>2, SameWay
  <2>. QED
    BY <1>1, <2>2, <2>3, FindingIs DEF Find
<1>7. found.outcome = "found" => found.value \in Object
  <2>1. n - 1 \in 0 .. n - 1
    BY <1>1
  <2>. QED
    BY <1>1, <1>2, <2>1, FindingType
<1> DEFINE matched == Matched(found.value, name)
           member == found.value[Max(matched)]
           indices == {index \in Index \cup Range(keys.value) :
                         FindIn(g, Indexed(path, index)).outcome = "found"}
<1>8. CASE found.outcome # "found"
  <2>1. MemberIn(g, path) = found /\ \A index : Find(object, Indexed(path, index)) = found
    BY <1>4, <1>6, <1>8 DEF MemberNamed, Asked
  <2>2. CASE found.outcome = "missing"
    <3>1. keys.value = <<>> /\ CountIn(g, path).value = 0
      BY <2>1, <2>2 DEF KeysIn, KeysOfFound, CountIn, SizeOf, Found
    <3>2. Range(keys.value) = {} /\ indices = {}
      BY <1>3, <1>8, <2>1, <3>1 DEF Range
    <3>. QED
      BY <3>1, <3>2, FS_EmptySet
  <2>3. CASE found.outcome # "missing"
    <3>1. keys = found
      BY <1>8, <2>1, <2>3 DEF KeysIn, KeysOfFound
    <3>. QED
      BY <1>8, <3>1
  <2>. QED
    BY <2>2, <2>3
<1>9. CASE found.outcome = "found" /\ matched = {}
  <2>1. MemberIn(g, path) = Missing /\ \A index : Find(object, Indexed(path, index)) = Missing
    <3>1. MemberIn(g, path) = Missing
      BY <1>4, <1>9 DEF MemberNamed
    <3>2. ASSUME NEW index PROVE Find(object, Indexed(path, index)) = Missing
      <4>1. Indexed(path, index)[n].name = name
        BY <1>1, IndexedIs
      <4>2. Matched(found.value, Indexed(path, index)[n].name) = {}
        BY <1>9, <4>1
      <4>. HIDE DEF found
      <4>3. Asked(found, Indexed(path, index), n) = Missing
        BY <1>9, <4>2 DEF Asked
      <4>. QED
        BY <1>6, <4>3 DEF found
    <3>. QED
      BY <3>1, <3>2
  <2>2. Missing.outcome = "missing"
    BY DEF Missing
  <2>3. keys.value = <<>> /\ CountIn(g, path).value = 0
    BY <2>1, <2>2 DEF KeysIn, KeysOfFound, CountIn, SizeOf, Found
  <2>4. Range(keys.value) = {} /\ indices = {}
    BY <1>3, <2>1, <2>2, <2>3 DEF Range
  <2>. QED
    BY <2>3, <2>4, FS_EmptySet
<1>10. CASE found.outcome = "found" /\ matched # {}
  <2>1. MemberOK(member)
    <3>1. found.value \in Object /\ matched \subseteq DOMAIN found.value
      BY <1>7, <1>10 DEF Matched
    <3>. HIDE DEF matched
    <3>2. Max(matched) \in DOMAIN found.value
      BY <1>10, <3>1, MatchedMax
    <3>. HIDE DEF found
    <3>. QED
      BY <3>1, <3>2, ViewsAssumption DEF ObjectOK
  <2>2. keys.value = KeysOf(member) /\ CountIn(g, path).value = Size(member)
    <3>1. MemberIn(g, path) = Found("member", member)
      BY <1>4, <1>10 DEF MemberNamed
    <3>. QED
      BY <3>1 DEF KeysIn, KeysOfFound, CountIn, SizeOf, Found
  <2>3. FindIn(g, path) = Called(member, path[n].at)
    <3>1. matched \cap DOMAIN found.value = matched
      BY DEF Matched
    <3>2. matched \cap (IF n < Len(path) THEN Nested(found.value) ELSE DOMAIN found.value) = matched
      BY <1>1, <3>1
    <3>. QED
      BY <1>3, <1>5, <1>10, <3>2 DEF Asked
  <2>4. \A index : FindIn(g, Indexed(path, index)) = Called(member, <<index>>)
    <3>1. TAKE index
    <3>2. /\ Len(Indexed(path, index)) = n /\ Indexed(path, index)[n].name = name
          /\ Indexed(path, index)[n].at = Append(<<>>, index)
      BY <1>1, IndexedIs
    <3>3. Indexed(path, index)[n].at = <<index>>
      BY <3>2
    <3>4. matched \cap (IF n < Len(Indexed(path, index)) THEN Nested(found.value) ELSE DOMAIN found.value) = matched
      BY <1>1, <3>2 DEF Matched
    <3>. QED
      BY <1>3, <1>6, <1>10, <3>2, <3>3, <3>4 DEF Asked
  <2>. HIDE DEF member, keys
  <2>5. CASE member.is = "one"
    BY <2>3, <2>5 DEF Called, Found
  <2>6. CASE member.is # "one"
    <3>1. \A index : FindIn(g, Indexed(path, index)).outcome = "found" <=> index \in Range(keys.value)
      BY <2>1, <2>2, <2>4, <2>6, ElementFound
    <3>2. indices = Range(keys.value)
      BY <3>1
    <3>3. CountIn(g, path).value = Cardinality(indices)
      BY <2>1, <2>2, <2>6, <3>2, SizeIs
    <3>. QED
      BY <3>2, <3>3 DEF keys
  <2>. QED
    BY <2>5, <2>6
<1>. QED
  BY <1>8, <1>9, <1>10

LEMMA CountsIs ==
  ASSUME group \in Groups
  PROVE  CountsWhatIsFound
BY CountsAre DEF CountsWhatIsFound

-----------------------------------------------------------------------------
(* Environments *)

\* A table without its depths has the aliases of the table.
LEMMA EnvType ==
  ASSUME NEW t \in Table
  PROVE  Env(t) \in Envs
<1>1. \A n \in Name : t.aliases[n].ref \in Steps
  BY PlaceType
<1>. QED
  BY <1>1 DEF Env, Envs

LEMMA TableOfType ==
  ASSUME NEW env \in Envs
  PROVE  TableOf(env) \in Table
<1>1. 0 \in 0 .. Levels - 1
  BY ScopeAssumption
<1>2. \A n \in Name : [ref |-> env[n], depth |-> 0] \in Alias \cup {NoAlias}
  BY <1>1 DEF Envs, Alias, NoAlias, Path
<1>3. TableOf(env).level = 0 /\ TableOf(env).aliases = [n \in Name |-> [ref |-> env[n], depth |-> 0]]
  BY DEF TableOf
<1>. QED
  BY <1>1, <1>2, <1>3 DEF Table, TableOf

LEMMA SameLookup ==
  ASSUME NEW t \in Table, NEW path
  PROVE  Lookup(TableOf(Env(t)), path) = Lookup(t, path)
<1> DEFINE name == Head(path).name
           u == TableOf(Env(t))
<1>1. \A n \in Name : u.aliases[n] = [ref |-> t.aliases[n].ref, depth |-> 0] /\ u.aliases[n].ref = t.aliases[n].ref
  BY DEF TableOf, Env
<1>2. u \in Table
  BY EnvType, TableOfType
<1>. HIDE DEF u
<1>3. \A n \in Name : u.aliases[n] # NoAlias <=> t.aliases[n] # NoAlias
  BY <1>1, <1>2, PlaceType
<1>4. Aliases(u) = Aliases(t)
  BY <1>3 DEF Aliases
<1>5. name \in Aliases(t) => u.aliases[name].ref = t.aliases[name].ref
  BY <1>1 DEF Aliases
<1>. QED
  BY <1>4, <1>5 DEF Lookup, u

\* An expression does not depend on the depths of the aliases, or on the level.
LEMMA SameValue ==
  ASSUME NEW t \in Table, NEW g, NEW words
  PROVE  Evaluate(TableOf(Env(t)), g, words) = Evaluate(t, g, words)
<1> DEFINE u == TableOf(Env(t))
           rpn == Rpn(words)
<1>1. \A token : Fetch(u, g, token) = Fetch(t, g, token)
  BY SameLookup DEF Fetch
<1>. HIDE DEF u
<1>2. \A name, operand : Call(u, g, name, operand) = Call(t, g, name, operand)
  BY <1>1 DEF Call
<1>3. \A s, token : Step(u, g, s, token) = Step(t, g, s, token)
  BY <1>1, <1>2 DEF Step
<1>4. \A s : Topmost(u, g, s) = Topmost(t, g, s)
  BY <1>1 DEF Topmost
<1>. HIDE DEF rpn
<1> DEFINE Ru(f) == f = [i \in 0 .. Len(rpn) |-> IF i = 0 THEN [outcome |-> "found", stack |-> <<>>] ELSE Step(u, g, f[i - 1], rpn[i])]
           Rt(f) == f = [i \in 0 .. Len(rpn) |-> IF i = 0 THEN [outcome |-> "found", stack |-> <<>>] ELSE Step(t, g, f[i - 1], rpn[i])]
<1>5. \A f : Ru(f) <=> Rt(f)
  BY <1>3
<1>6. Running(u, g, rpn) = (CHOOSE f : Ru(f)) /\ Running(t, g, rpn) = (CHOOSE f : Rt(f))
  BY DEF Running
<1>. HIDE DEF Ru, Rt
<1>7. (CHOOSE f : Ru(f)) = (CHOOSE f : Rt(f))
  BY <1>5, Zenon
<1>8. Result(u, g, rpn) = Result(t, g, rpn)
  BY <1>4, <1>6, <1>7 DEF Result
<1>. QED
  BY <1>8 DEF Evaluate, u, rpn

-----------------------------------------------------------------------------
(* Lists *)

IsList(s) == s \in Seq(Range(s))

\* s and one more element.
Longer(r, s, e) ==
  /\ IsList(r) /\ Len(r) = Len(s) + 1
  /\ \A p \in 1 .. Len(s) : r[p] = s[p]
  /\ r[Len(s) + 1] = e

LEMMA ListIs ==
  ASSUME NEW s, IsList(s)
  PROVE  /\ Len(s) \in Nat /\ DOMAIN s = 1 .. Len(s)
         /\ s = [p \in 1 .. Len(s) |-> s[p]]
<1>1. s \in [1 .. Len(s) -> Range(s)] /\ Len(s) \in Nat
  BY LenProperties DEF IsList
<1>. QED
  BY <1>1

LEMMA ListOf ==
  ASSUME NEW S, NEW s \in Seq(S)
  PROVE  IsList(s)
<1>1. Len(s) \in Nat /\ s \in [1 .. Len(s) -> S]
  BY LenProperties
<1>2. s \in [1 .. Len(s) -> Range(s)]
  BY <1>1 DEF Range
<1>3. \A T : \A n \in Nat : [1 .. n -> T] \subseteq Seq(T)
  BY SeqDef
<1>. QED
  BY <1>1, <1>2, <1>3 DEF IsList

LEMMA AppendIs ==
  ASSUME NEW s, IsList(s), NEW e
  PROVE  Longer(Append(s, e), s, e) /\ s \o <<e>> = Append(s, e)
<1> DEFINE S == Range(s) \cup {e}
<1>1. Len(s) \in Nat /\ s \in [1 .. Len(s) -> S]
  BY ListIs DEF Range
<1>2. s \in Seq(S)
  <2>1. \A T : \A n \in Nat : [1 .. n -> T] \subseteq Seq(T)
    BY SeqDef
  <2>. QED
    BY <1>1, <2>1
<1>3. e \in S
  OBVIOUS
<1>. HIDE DEF S
<1>4. Append(s, e) \in Seq(S)
  BY <1>2, <1>3
<1>5. Len(Append(s, e)) = Len(s) + 1 /\ Append(s, e)[Len(s) + 1] = e /\ \A p \in 1 .. Len(s) : Append(s, e)[p] = s[p]
  BY <1>2, <1>3
<1>6. s \o <<e>> = Append(s, e)
  <2>1. <<e>> \in Seq(S) /\ Len(<<e>>) = 1 /\ <<e>>[1] = e
    BY <1>3
  <2>2. /\ s \o <<e>> \in Seq(S) /\ Len(s \o <<e>>) = Len(s) + 1
        /\ \A i \in 1 .. Len(s) + 1 : (s \o <<e>>)[i] = IF i <= Len(s) THEN s[i] ELSE <<e>>[i - Len(s)]
    BY <1>2, <2>1, ConcatProperties
  <2>3. (s \o <<e>>)[Len(s) + 1] = e
    <3>1. Len(s) + 1 \in 1 .. Len(s) + 1 /\ ~(Len(s) + 1 <= Len(s)) /\ Len(s) + 1 - Len(s) = 1
      BY <1>1
    <3>. QED
      BY <2>1, <2>2, <3>1
  <2>4. \A i \in 1 .. Len(s) : (s \o <<e>>)[i] = s[i]
    BY <1>1, <2>2
  <2>5. \A i \in 1 .. Len(s) + 1 : (s \o <<e>>)[i] = Append(s, e)[i]
    BY <1>1, <1>5, <2>3, <2>4
  <2>. QED
    BY <1>4, <1>5, <2>2, <2>5, SeqEqual
<1>. QED
  BY <1>4, <1>5, <1>6, ListOf DEF Longer

LEMMA RemoveAtIs ==
  ASSUME NEW s, IsList(s), NEW i \in 1 .. Len(s)
  PROVE  /\ IsList(RemoveAt(s, i)) /\ Len(RemoveAt(s, i)) = Len(s) - 1
         /\ \A p \in 1 .. Len(s) - 1 : RemoveAt(s, i)[p] = IF p < i THEN s[p] ELSE s[p + 1]
<1> DEFINE S == Range(s)
           l == SubSeq(s, 1, i - 1)
           r == SubSeq(s, i + 1, Len(s))
<1>1. Len(s) \in Nat /\ s \in Seq(S) /\ \A p \in 1 .. Len(s) : s[p] \in S
  BY ListIs, ElementOfSeq DEF IsList
<1>. HIDE DEF S
<1>2. l \in Seq(S) /\ Len(l) = i - 1 /\ \A p \in 1 .. i - 1 : l[p] = s[p]
  <2>1. 1 \in Int /\ i - 1 \in Int /\ \A p \in 1 .. i - 1 : s[p] \in S
    BY <1>1
  <2>2. /\ l \in Seq(S) /\ Len(l) = (IF 1 <= i - 1 THEN i - 1 - 1 + 1 ELSE 0)
        /\ \A p \in 1 .. i - 1 - 1 + 1 : l[p] = s[1 + p - 1]
    BY <2>1, SubSeqProperties
  <2>. HIDE DEF l
  <2>3. i - 1 - 1 + 1 = i - 1 /\ (IF 1 <= i - 1 THEN i - 1 - 1 + 1 ELSE 0) = i - 1 /\ \A p \in 1 .. i - 1 : 1 + p - 1 = p
    BY <1>1
  <2>. QED
    BY <2>2, <2>3
<1>3. r \in Seq(S) /\ Len(r) = Len(s) - i /\ \A p \in 1 .. Len(s) - i : r[p] = s[i + p]
  <2>1. i + 1 \in Int /\ Len(s) \in Int /\ \A p \in i + 1 .. Len(s) : s[p] \in S
    BY <1>1
  <2>2. /\ r \in Seq(S) /\ Len(r) = (IF i + 1 <= Len(s) THEN Len(s) - (i + 1) + 1 ELSE 0)
        /\ \A p \in 1 .. Len(s) - (i + 1) + 1 : r[p] = s[i + 1 + p - 1]
    BY <2>1, SubSeqProperties
  <2>. HIDE DEF r
  <2>3. /\ Len(s) - (i + 1) + 1 = Len(s) - i /\ (IF i + 1 <= Len(s) THEN Len(s) - (i + 1) + 1 ELSE 0) = Len(s) - i
        /\ \A p \in 1 .. Len(s) - i : i + 1 + p - 1 = i + p
    BY <1>1
  <2>. QED
    BY <2>2, <2>3
<1>4. RemoveAt(s, i) = l \o r
  BY DEF RemoveAt
<1>. HIDE DEF l, r
<1>5. /\ l \o r \in Seq(S) /\ Len(l \o r) = Len(l) + Len(r)
      /\ \A p \in 1 .. Len(l) + Len(r) : (l \o r)[p] = IF p <= Len(l) THEN l[p] ELSE r[p - Len(l)]
  BY <1>2, <1>3, ConcatProperties
<1>6. Len(l) + Len(r) = Len(s) - 1 /\ Len(l) = i - 1
  BY <1>1, <1>2, <1>3
<1>7. ASSUME NEW p \in 1 .. Len(s) - 1
      PROVE  (l \o r)[p] = IF p < i THEN s[p] ELSE s[p + 1]
  <2>1. (l \o r)[p] = IF p <= i - 1 THEN l[p] ELSE r[p - (i - 1)]
    BY <1>5, <1>6
  <2>2. CASE p < i
    <3>1. p <= i - 1 /\ p \in 1 .. i - 1
      BY <1>1, <2>2
    <3>. QED
      BY <1>2, <2>1, <2>2, <3>1
  <2>3. CASE ~(p < i)
    <3>1. ~(p <= i - 1) /\ p - (i - 1) \in 1 .. Len(s) - i /\ i + (p - (i - 1)) = p + 1
      BY <1>1, <2>3
    <3>. QED
      BY <1>3, <2>1, <2>3, <3>1
  <2>. QED
    BY <2>2, <2>3
<1>. QED
  BY <1>4, <1>5, <1>6, <1>7, ListOf

LEMMA ReplaceIs ==
  ASSUME NEW s, IsList(s), NEW i \in 1 .. Len(s), NEW e
  PROVE  /\ IsList(ReplaceAt(s, i, e)) /\ Len(ReplaceAt(s, i, e)) = Len(s)
         /\ \A p \in 1 .. Len(s) : ReplaceAt(s, i, e)[p] = IF p = i THEN e ELSE s[p]
<1> DEFINE S == Range(s) \cup {e}
<1>1. Len(s) \in Nat /\ s \in [1 .. Len(s) -> S]
  BY ListIs DEF Range
<1>2. s \in Seq(S)
  <2>1. \A T : \A n \in Nat : [1 .. n -> T] \subseteq Seq(T)
    BY SeqDef
  <2>. QED
    BY <1>1, <2>1
<1>3. e \in S
  OBVIOUS
<1>. HIDE DEF S
<1>4. /\ [s EXCEPT ![i] = e] \in Seq(S) /\ Len([s EXCEPT ![i] = e]) = Len(s)
      /\ \A p \in 1 .. Len(s) : [s EXCEPT ![i] = e][p] = IF p = i THEN e ELSE s[p]
  BY <1>2, <1>3, ExceptSeq
<1>. QED
  BY <1>4, ListOf DEF ReplaceAt

-----------------------------------------------------------------------------
(* Gathering *)

LEMMA GatheredIs ==
  ASSUME NEW base, NEW f, NEW S, NEW n \in Nat
  PROVE  \A k \in 0 .. n :
           Gathered(base, f, S, n)[k] =
             IF k = 0 THEN base
             ELSE IF k \in S THEN Gathered(base, f, S, n)[k - 1] \o f[k] ELSE Gathered(base, f, S, n)[k - 1]
<1> DEFINE Is(h, m) == h = [k \in 0 .. m |-> IF k = 0 THEN base ELSE IF k \in S THEN h[k - 1] \o f[k] ELSE h[k - 1]]
           Wrong == {m \in Nat : ~\E h : Is(h, m)}
<1>1. Wrong = {}
  <2>1. SUFFICES ASSUME Wrong # {} PROVE FALSE
    OBVIOUS
  <2>2. PICK m \in Wrong : \A k \in Wrong : m <= k
    BY <2>1, MinExists
  <2>3. CASE m = 0
    <3>1. Is([k \in 0 .. 0 |-> base], 0)
      OBVIOUS
    <3>. QED
      BY <2>3, <3>1
  <2>4. CASE m # 0
    <3>1. m - 1 \in Nat /\ m - 1 \notin Wrong
      <4>1. m \in Nat /\ m - 1 \in Nat /\ ~(m <= m - 1)
        BY <2>4
      <4>. QED
        BY <2>2, <4>1
    <3>2. PICK h : Is(h, m - 1)
      BY <3>1
    <3> DEFINE g == [k \in 0 .. m |-> IF k = m THEN (IF m \in S THEN h[m - 1] \o f[m] ELSE h[m - 1]) ELSE h[k]]
    <3>3. \A k \in 0 .. m : g[k] = IF k = 0 THEN base ELSE IF k \in S THEN g[k - 1] \o f[k] ELSE g[k - 1]
      <4>1. \A k \in 0 .. m - 1 :
              h[k] = IF k = 0 THEN base ELSE IF k \in S THEN h[k - 1] \o f[k] ELSE h[k - 1]
        BY <3>2
      <4>2. g[m] = IF m \in S THEN h[m - 1] \o f[m] ELSE h[m - 1]
        BY <3>1
      <4>3. \A k \in 0 .. m - 1 : g[k] = h[k]
        BY <3>1
      <4>. HIDE DEF g
      <4>4. TAKE k \in 0 .. m
      <4>5. CASE k = m
        <5>1. g[m - 1] = h[m - 1]
          BY <3>1, <4>3
        <5>. QED
          BY <2>4, <4>2, <4>5, <5>1
      <4>6. CASE k # m
        <5>1. k \in 0 .. m - 1 /\ g[k] = h[k]
          BY <3>1, <4>3, <4>6
        <5>2. k # 0 => g[k - 1] = h[k - 1]
          BY <3>1, <4>3, <4>6
        <5>. QED
          BY <4>1, <5>1, <5>2
      <4>. QED
        BY <4>5, <4>6
    <3>4. Is(g, m)
      BY <3>3
    <3>. QED
      BY <3>4
  <2>. QED
    BY <2>3, <2>4
<1>2. \E h : Is(h, n)
  BY <1>1
<1> DEFINE g == Gathered(base, f, S, n)
<1>3. Is(g, n)
  BY <1>2 DEF Gathered
<1>. HIDE DEF g
<1>4. \A k \in 0 .. n : g[k] = IF k = 0 THEN base ELSE IF k \in S THEN g[k - 1] \o f[k] ELSE g[k - 1]
  BY <1>3
<1>. QED
  BY <1>4 DEF g

\* The elements of S up to k, each once and in their order.
Sorted(s, S, k) ==
  /\ IsList(s)
  /\ \A p \in 1 .. Len(s) : s[p] \in S /\ s[p] <= k
  /\ \A p, q \in 1 .. Len(s) : p < q => s[p] < s[q]
  /\ \A j \in S : j <= k => \E p \in 1 .. Len(s) : s[p] = j

LEMMA AscendingIs ==
  ASSUME NEW n \in Nat, NEW S, S \subseteq 1 .. n
  PROVE  \A k \in 0 .. n :
           /\ Sorted(Ascending(S, n)[k], S, k)
           /\ k > 0 /\ k \in S => Longer(Ascending(S, n)[k], Ascending(S, n)[k - 1], k)
           /\ k > 0 /\ k \notin S => Ascending(S, n)[k] = Ascending(S, n)[k - 1]
<1> DEFINE g == Ascending(S, n)
           Wrong == {k \in Nat : k <= n /\ ~Sorted(g[k], S, k)}
<1>1. \A k \in 0 .. n : g[k] = IF k = 0 THEN <<>> ELSE IF k \in S THEN g[k - 1] \o <<k>> ELSE g[k - 1]
  <2> DEFINE f == [k \in 1 .. n |-> <<k>>]
  <2>1. g = Gathered(<<>>, f, S, n)
    BY DEF Ascending
  <2>2. \A k \in S : f[k] = <<k>>
    OBVIOUS
  <2>. HIDE DEF f, g
  <2>3. \A k \in 0 .. n :
          Gathered(<<>>, f, S, n)[k] =
            IF k = 0 THEN <<>>
            ELSE IF k \in S THEN Gathered(<<>>, f, S, n)[k - 1] \o f[k] ELSE Gathered(<<>>, f, S, n)[k - 1]
    BY GatheredIs
  <2>4. \A k \in 0 .. n : g[k] = IF k = 0 THEN <<>> ELSE IF k \in S THEN g[k - 1] \o f[k] ELSE g[k - 1]
    BY <2>1, <2>3
  <2>. QED
    BY <2>2, <2>4
<1>. HIDE DEF g
<1>2. ASSUME NEW k \in 1 .. n, IsList(g[k - 1])
      PROVE  IF k \in S THEN Longer(g[k], g[k - 1], k) ELSE g[k] = g[k - 1]
  <2>1. k \in 0 .. n /\ k # 0
    OBVIOUS
  <2>2. CASE k \in S
    <3>1. g[k] = Append(g[k - 1], k)
      BY <1>1, <1>2, <2>1, <2>2, AppendIs
    <3>. QED
      BY <1>2, <2>2, <3>1, AppendIs
  <2>3. CASE k \notin S
    BY <1>1, <2>1, <2>3
  <2>. QED
    BY <2>2, <2>3
<1>3. Wrong = {}
  <2>1. SUFFICES ASSUME Wrong # {} PROVE FALSE
    OBVIOUS
  <2>2. PICK k \in Wrong : \A j \in Wrong : k <= j
    BY <2>1, MinExists
  <2>3. k \in Nat /\ k <= n /\ k \in 0 .. n
    BY <2>2
  <2>4. CASE k = 0
    <3>1. g[k] = <<>>
      BY <1>1, <2>3, <2>4
    <3>2. IsList(<<>>) /\ Len(<<>>) = 0 /\ 1 .. 0 = {}
      BY DEF IsList
    <3>3. \A j \in S : ~(j <= k)
      BY <2>4
    <3>4. Sorted(<<>>, S, k)
      BY <3>2, <3>3 DEF Sorted
    <3>. QED
      BY <2>2, <3>1, <3>4
  <2>5. CASE k # 0
    <3> DEFINE s == g[k - 1]
               r == g[k]
    <3>1. k - 1 \in Nat /\ k - 1 <= n /\ ~(k <= k - 1) /\ k \in 1 .. n /\ \A j \in S : j \in Nat
      BY <2>3, <2>5
    <3>2. Sorted(s, S, k - 1)
      BY <2>2, <3>1
    <3>3. IF k \in S THEN Longer(r, s, k) ELSE r = s
      BY <1>2, <3>1, <3>2 DEF Sorted
    <3>. HIDE DEF r, s
    <3>4. Len(s) \in Nat
      BY <3>2, ListIs DEF Sorted
    <3>5. CASE k \notin S
      <4>1. \A j \in S : j <= k => j <= k - 1
        BY <3>1, <3>5
      <4>2. \A j \in S : j <= k - 1 => j <= k
        BY <3>1
      <4>3. Sorted(s, S, k)
        BY <3>2, <4>1, <4>2 DEF Sorted
      <4>. QED
        BY <2>2, <3>3, <3>5, <4>3 DEF r
    <3>6. CASE k \in S
      <4>1. /\ IsList(r) /\ Len(r) = Len(s) + 1 /\ r[Len(s) + 1] = k
            /\ \A p \in 1 .. Len(s) : r[p] = s[p] /\ s[p] \in S /\ s[p] <= k - 1
        BY <3>2, <3>3, <3>6 DEF Longer, Sorted
      <4>2. \A p \in 1 .. Len(r) : p = Len(s) + 1 \/ p \in 1 .. Len(s)
        BY <3>4, <4>1
      <4>3. \A p \in 1 .. Len(s) : r[p] < k /\ r[p] <= k
        <5>1. TAKE p \in 1 .. Len(s)
        <5>2. s[p] \in Nat /\ s[p] <= k - 1 /\ r[p] = s[p]
          BY <3>1, <4>1
        <5>. QED
          BY <2>3, <5>2
      <4>4. \A p \in 1 .. Len(r) : r[p] \in S /\ r[p] <= k
        BY <3>1, <3>6, <4>1, <4>2, <4>3
      <4>5. ASSUME NEW p \in 1 .. Len(r), NEW q \in 1 .. Len(r), p < q PROVE r[p] < r[q]
        <5>1. p \in 1 .. Len(s)
          BY <3>4, <4>1, <4>5
        <5>2. CASE q = Len(s) + 1
          BY <4>1, <4>3, <5>1, <5>2
        <5>3. CASE q \in 1 .. Len(s)
          BY <3>2, <4>1, <4>5, <5>1, <5>3 DEF Sorted
        <5>. QED
          BY <4>2, <5>2, <5>3
      <4>6. ASSUME NEW j \in S, j <= k PROVE \E p \in 1 .. Len(r) : r[p] = j
        <5>1. CASE j = k
          <6>1. Len(s) + 1 \in 1 .. Len(r)
            BY <3>4, <4>1
          <6>. QED
            BY <4>1, <5>1, <6>1
        <5>2. CASE j # k
          <6>1. j <= k - 1
            BY <3>1, <4>6, <5>2
          <6>2. PICK p \in 1 .. Len(s) : s[p] = j
            BY <3>2, <6>1 DEF Sorted
          <6>3. p \in 1 .. Len(r)
            BY <3>4, <4>1
          <6>. QED
            BY <4>1, <6>2, <6>3
        <5>. QED
          BY <5>1, <5>2
      <4>7. Sorted(r, S, k)
        BY <4>1, <4>4, <4>5, <4>6 DEF Sorted
      <4>. QED
        BY <2>2, <4>7 DEF r
    <3>. QED
      BY <3>5, <3>6
  <2>. QED
    BY <2>4, <2>5
<1>4. \A k \in 0 .. n : Sorted(g[k], S, k)
  BY <1>3
<1>5. ASSUME NEW k \in 0 .. n, k > 0
      PROVE  (k \in S => Longer(g[k], g[k - 1], k)) /\ (k \notin S => g[k] = g[k - 1])
  <2>1. k \in 1 .. n /\ k - 1 \in 0 .. n
    BY <1>5
  <2>. QED
    BY <1>2, <1>4, <2>1 DEF Sorted
<1>. QED
  BY <1>4, <1>5 DEF g

-----------------------------------------------------------------------------
(* Expressions: one step of tokenize(), of rpn() and of evaluate() *)

\* What is made of the words from word i on, in terms of what is made of those
\* behind them.
FromWord(words, f, i) ==
  IF i > Len(words) THEN <<>>
  ELSE IF i < Len(words) /\ Joined(words[i], words[i + 1]) # ""
  THEN <<Token(Joined(words[i], words[i + 1]))>> \o f[i + 2]
  ELSE <<Token(words[i])>> \o f[i + 1]

\* What is made of the words from each word on.
LEMMA TokenizingIs ==
  ASSUME NEW words, IsList(words)
  PROVE  \A i \in 1 .. Len(words) + 1 : Tokenizing(words)[i] = FromWord(words, Tokenizing(words), i)
<1> DEFINE n == Len(words)
           Is(f, k) == f = [i \in 1 .. n + 1 |-> IF i > n + 1 - k THEN FromWord(words, f, i) ELSE <<>>]
           Wrong == {k \in Nat : k <= n + 1 /\ ~\E f : Is(f, k)}
<1>1. n \in Nat
  BY ListIs
<1>2. ASSUME NEW f, NEW g, NEW i \in 1 .. n + 1, f[i + 1] = g[i + 1], i < n => f[i + 2] = g[i + 2]
      PROVE  FromWord(words, f, i) = FromWord(words, g, i)
  BY <1>2 DEF FromWord
<1>. HIDE DEF n
<1>3. Wrong = {}
  <2>1. SUFFICES ASSUME Wrong # {} PROVE FALSE
    OBVIOUS
  <2>2. PICK k \in Wrong : \A j \in Wrong : k <= j
    BY <2>1, MinExists
  <2>3. CASE k = 0
    <3>1. \A i \in 1 .. n + 1 : ~(i > n + 1 - 0)
      BY <1>1
    <3>2. Is([i \in 1 .. n + 1 |-> <<>>], 0)
      BY <3>1
    <3>. QED
      BY <2>2, <2>3, <3>2
  <2>4. CASE k # 0
    <3>1. k \in Nat /\ k <= n + 1 /\ k - 1 \in Nat /\ k - 1 \notin Wrong /\ k - 1 <= n + 1
      <4>1. k \in Nat /\ k - 1 \in Nat /\ ~(k <= k - 1) /\ k <= n + 1
        BY <2>2, <2>4
      <4>. QED
        BY <1>1, <2>2, <4>1
    <3>2. PICK f : Is(f, k - 1)
      BY <3>1
    <3> DEFINE g == [i \in 1 .. n + 1 |-> IF i > n + 1 - k THEN FromWord(words, f, i) ELSE <<>>]
    <3>3. \A i \in 1 .. n + 1 : f[i] = IF i > n + 1 - (k - 1) THEN FromWord(words, f, i) ELSE <<>>
      BY <3>2
    <3>4. \A i \in 1 .. n + 1 : g[i] = IF i > n + 1 - k THEN FromWord(words, f, i) ELSE <<>>
      OBVIOUS
    <3>. HIDE DEF g
    <3>5. \A i \in 1 .. n + 1 : i > n + 1 - (k - 1) => g[i] = f[i]
      <4>1. TAKE i \in 1 .. n + 1
      <4>2. i > n + 1 - (k - 1) => i > n + 1 - k
        BY <1>1, <3>1
      <4>. QED
        BY <3>3, <3>4, <4>2
    <3>6. ASSUME NEW i \in 1 .. n + 1, i > n + 1 - k
          PROVE  FromWord(words, f, i) = FromWord(words, g, i)
      <4>1. CASE i = n + 1
        <5>1. i > Len(words)
          BY <1>1, <4>1 DEF n
        <5>. QED
          BY <5>1 DEF FromWord
      <4>2. CASE i # n + 1
        <5>1. i + 1 \in 1 .. n + 1 /\ i + 1 > n + 1 - (k - 1)
          BY <1>1, <3>1, <3>6, <4>2
        <5>2. i < n => i + 2 \in 1 .. n + 1 /\ i + 2 > n + 1 - (k - 1)
          BY <1>1, <3>1, <3>6, <4>2
        <5>3. f[i + 1] = g[i + 1] /\ (i < n => f[i + 2] = g[i + 2])
          BY <3>5, <5>1, <5>2
        <5>. QED
          BY <1>2, <5>3
      <4>. QED
        BY <4>1, <4>2
    <3>7. \A i \in 1 .. n + 1 :
            (IF i > n + 1 - k THEN FromWord(words, f, i) ELSE <<>>)
              = (IF i > n + 1 - k THEN FromWord(words, g, i) ELSE <<>>)
      BY <3>6
    <3>8. Is(g, k)
      BY <3>7 DEF g
    <3>. QED
      BY <2>2, <3>8
  <2>. QED
    BY <2>3, <2>4
<1> DEFINE All1(f) == f = [i \in 1 .. n + 1 |-> FromWord(words, f, i)]
<1>4. \E f : All1(f)
  <2>1. PICK f : Is(f, n + 1)
    BY <1>1, <1>3
  <2>2. \A i \in 1 .. n + 1 : i > n + 1 - (n + 1)
    BY <1>1
  <2>3. All1(f)
    BY <2>1, <2>2
  <2>. QED
    BY <2>3
<1> DEFINE h == Tokenizing(words)
<1>5. h = CHOOSE f : All1(f)
  BY DEF Tokenizing, FromWord, n
<1>. HIDE DEF h
<1>6. All1(h)
  BY <1>4, <1>5
<1>7. \A i \in 1 .. n + 1 : h[i] = FromWord(words, h, i)
  BY <1>6
<1>. QED
  BY <1>7 DEF h, n

\* rpn() goes from token to token.
LEMMA ShuntingIs ==
  ASSUME NEW tokens, Len(tokens) \in Nat
  PROVE  /\ Shunting(tokens)[0] = [out |-> <<>>, stack |-> <<>>]
         /\ \A k \in 1 .. Len(tokens) : Shunting(tokens)[k] = Shunt(Shunting(tokens)[k - 1], tokens[k])
<1> DEFINE empty == [out |-> <<>>, stack |-> <<>>]
           Is(f, n) == f = [k \in 0 .. n |-> IF k = 0 THEN empty ELSE Shunt(f[k - 1], tokens[k])]
           Wrong == {n \in Nat : ~\E f : Is(f, n)}
<1>. HIDE DEF empty
<1>1. Wrong = {}
  <2>1. SUFFICES ASSUME Wrong # {} PROVE FALSE
    OBVIOUS
  <2>2. PICK n \in Wrong : \A k \in Wrong : n <= k
    BY <2>1, MinExists
  <2>3. CASE n = 0
    <3>1. Is([k \in 0 .. 0 |-> empty], 0)
      OBVIOUS
    <3>. QED
      BY <2>3, <3>1
  <2>4. CASE n # 0
    <3>1. n - 1 \in Nat /\ n - 1 \notin Wrong
      <4>1. n \in Nat /\ n - 1 \in Nat /\ ~(n <= n - 1)
        BY <2>4
      <4>. QED
        BY <2>2, <4>1
    <3>2. PICK f : Is(f, n - 1)
      BY <3>1
    <3> DEFINE g == [k \in 0 .. n |-> IF k = n THEN Shunt(f[n - 1], tokens[n]) ELSE f[k]]
    <3>3. \A k \in 0 .. n : g[k] = IF k = 0 THEN empty ELSE Shunt(g[k - 1], tokens[k])
      BY <2>4, <3>1, <3>2
    <3>4. Is(g, n)
      BY <3>3
    <3>. QED
      BY <3>4
  <2>. QED
    BY <2>3, <2>4
<1>2. \E f : Is(f, Len(tokens))
  BY <1>1
<1> DEFINE f == Shunting(tokens)
<1>3. Is(f, Len(tokens))
  BY <1>2 DEF Shunting, empty
<1>. HIDE DEF f
<1>4. \A k \in 0 .. Len(tokens) : f[k] = IF k = 0 THEN empty ELSE Shunt(f[k - 1], tokens[k])
  BY <1>3
<1>5. f[0] = empty /\ \A k \in 1 .. Len(tokens) : f[k] = Shunt(f[k - 1], tokens[k])
  BY <1>4
<1>. QED
  BY <1>5 DEF f, empty

\* So does evaluate().
LEMMA RunningIs ==
  ASSUME NEW t, NEW g, NEW rpn, Len(rpn) \in Nat
  PROVE  /\ Running(t, g, rpn)[0] = [outcome |-> "found", stack |-> <<>>]
         /\ \A k \in 1 .. Len(rpn) : Running(t, g, rpn)[k] = Step(t, g, Running(t, g, rpn)[k - 1], rpn[k])
<1> DEFINE empty == [outcome |-> "found", stack |-> <<>>]
           Is(f, n) == f = [k \in 0 .. n |-> IF k = 0 THEN empty ELSE Step(t, g, f[k - 1], rpn[k])]
           Wrong == {n \in Nat : ~\E f : Is(f, n)}
<1>. HIDE DEF empty
<1>1. Wrong = {}
  <2>1. SUFFICES ASSUME Wrong # {} PROVE FALSE
    OBVIOUS
  <2>2. PICK n \in Wrong : \A k \in Wrong : n <= k
    BY <2>1, MinExists
  <2>3. CASE n = 0
    <3>1. Is([k \in 0 .. 0 |-> empty], 0)
      OBVIOUS
    <3>. QED
      BY <2>3, <3>1
  <2>4. CASE n # 0
    <3>1. n - 1 \in Nat /\ n - 1 \notin Wrong
      <4>1. n \in Nat /\ n - 1 \in Nat /\ ~(n <= n - 1)
        BY <2>4
      <4>. QED
        BY <2>2, <4>1
    <3>2. PICK f : Is(f, n - 1)
      BY <3>1
    <3> DEFINE h == [k \in 0 .. n |-> IF k = n THEN Step(t, g, f[n - 1], rpn[n]) ELSE f[k]]
    <3>3. \A k \in 0 .. n : h[k] = IF k = 0 THEN empty ELSE Step(t, g, h[k - 1], rpn[k])
      BY <2>4, <3>1, <3>2
    <3>4. Is(h, n)
      BY <3>3
    <3>. QED
      BY <3>4
  <2>. QED
    BY <2>3, <2>4
<1>2. \E f : Is(f, Len(rpn))
  BY <1>1
<1> DEFINE f == Running(t, g, rpn)
<1>3. Is(f, Len(rpn))
  BY <1>2 DEF Running, empty
<1>. HIDE DEF f
<1>4. \A k \in 0 .. Len(rpn) : f[k] = IF k = 0 THEN empty ELSE Step(t, g, f[k - 1], rpn[k])
  BY <1>3
<1>5. f[0] = empty /\ \A k \in 1 .. Len(rpn) : f[k] = Step(t, g, f[k - 1], rpn[k])
  BY <1>4
<1>. QED
  BY <1>5 DEF f, empty

\* What is on the stack of evaluate() behind an output.
Ran(t, g, out) == Running(t, g, out)[Len(out)]

\* One more token is one more step.
LEMMA RanIs ==
  ASSUME NEW t, NEW g, NEW out, IsList(out), NEW x
  PROVE  /\ Ran(t, g, <<>>) = [outcome |-> "found", stack |-> <<>>]
         /\ Ran(t, g, Append(out, x)) = Step(t, g, Ran(t, g, out), x)
<1>1. Ran(t, g, <<>>) = [outcome |-> "found", stack |-> <<>>]
  <2>1. Len(<<>>) = 0
    OBVIOUS
  <2>. QED
    BY <2>1, RunningIs DEF Ran
<1> DEFINE more == Append(out, x)
           n == Len(out)
           f == Running(t, g, out)
           h == Running(t, g, more)
<1>2. n \in Nat /\ Len(more) = n + 1 /\ more[n + 1] = x /\ \A p \in 1 .. n : more[p] = out[p]
  BY ListIs, AppendIs DEF Longer
<1>. HIDE DEF more
<1>3. f[0] = h[0] /\ \A k \in 1 .. n : f[k] = Step(t, g, f[k - 1], out[k])
  BY <1>2, RunningIs
<1>4. \A k \in 1 .. n + 1 : h[k] = Step(t, g, h[k - 1], more[k])
  BY <1>2, RunningIs
<1>. HIDE DEF n, f, h
<1> DEFINE Wrong == {k \in Nat : k <= n /\ f[k] # h[k]}
<1>5. Wrong = {}
  <2>1. SUFFICES ASSUME Wrong # {} PROVE FALSE
    OBVIOUS
  <2>2. PICK k \in Wrong : \A j \in Wrong : k <= j
    BY <2>1, MinExists
  <2>3. k \in 1 .. n /\ k \in 1 .. n + 1 /\ k - 1 \in Nat /\ k - 1 <= n /\ ~(k <= k - 1)
    BY <1>2, <1>3, <2>2
  <2>4. f[k - 1] = h[k - 1]
    BY <2>2, <2>3
  <2>. QED
    BY <1>2, <1>3, <1>4, <2>2, <2>3, <2>4
<1>6. f[n] = h[n]
  BY <1>2, <1>5
<1>7. h[n + 1] = Step(t, g, h[n], x)
  <2>1. n + 1 \in 1 .. n + 1 /\ n + 1 - 1 = n
    BY <1>2
  <2>. QED
    BY <1>2, <1>4, <2>1
<1>. QED
  BY <1>1, <1>2, <1>6, <1>7 DEF Ran, f, h, n, more

-----------------------------------------------------------------------------
(* The tokens of the words, one by one *)

\* The tokens there may be, and what is made of them: of the words, of the
\* operators, and of the numbers.
Types == {"real", "comma", "open", "close", "op", "function", "id", "call"}

\* The tokens that the words, and the results, can come to.
Symbol(words) ==
  [type : Types, value : Range(words) \cup DOMAIN Precedence \cup {ToString(n) : n \in Ints}]

\* Every token of the words, and every result, is one of these.
LEMMA TokenIs ==
  /\ \A words : \A i \in DOMAIN words : Token(words[i]) \in Symbol(words)
  /\ \A words : \A op \in DOMAIN Precedence : Token(op) \in Symbol(words)
  /\ \A words : \A n \in Ints : Token(ToString(n)) \in Symbol(words)
<1>1. \A word : Token(word).type \in Types /\ Token(word) = [type |-> Token(word).type, value |-> word]
  <2>1. TAKE word
  <2> DEFINE type == Token(word).type
  <2>2. type \in Types
    BY DEF Token, Types
  <2>3. Token(word) = [type |-> type, value |-> word]
    BY DEF Token
  <2>. QED
    BY <2>2, <2>3
<1>2. \A words : \A word \in Range(words) \cup DOMAIN Precedence \cup {ToString(n) : n \in Ints} :
        Token(word) \in Symbol(words)
  <2>1. TAKE words
  <2> DEFINE W == Range(words) \cup DOMAIN Precedence \cup {ToString(n) : n \in Ints}
  <2>2. TAKE word \in W
  <2> DEFINE type == Token(word).type
  <2>3. type \in Types /\ Token(word) = [type |-> type, value |-> word]
    BY <1>1
  <2>. HIDE DEF type, W
  <2>4. Token(word) \in [type : Types, value : W]
    BY <2>3
  <2>. QED
    BY <2>4 DEF Symbol, W
<1>3. \A words : \A i \in DOMAIN words : words[i] \in Range(words)
  BY DEF Range
<1>. QED
  BY <1>2, <1>3

\* The operators of which tokenize() takes two words.
LEMMA JoinedIs ==
  /\ \A word, next : word \notin DOMAIN Precedence \/ next \notin DOMAIN Precedence => Joined(word, next) = ""
  /\ \A word, next : Joined(word, next) # "" => Joined(word, next) \in DOMAIN Precedence
BY DEF Joined, Precedence

\* So are those of all words from one on.
LEMMA TokensAre ==
  ASSUME NEW words, IsList(words)
  PROVE  \A i \in 1 .. Len(words) + 1 : Tokenizing(words)[i] \in Seq(Symbol(words))
<1> DEFINE n == Len(words)
           f == Tokenizing(words)
           Wrong == {k \in Nat : k <= n /\ f[n + 1 - k] \notin Seq(Symbol(words))}
<1>1. n \in Nat /\ DOMAIN words = 1 .. n
  BY ListIs
<1>2. \A i \in 1 .. n + 1 : f[i] = FromWord(words, f, i)
  BY TokenizingIs
<1>3. \A S : \A x \in S : \A s \in Seq(S) : <<x>> \o s \in Seq(S)
  OBVIOUS
<1>. HIDE DEF f
<1>4. Wrong = {}
  <2>1. SUFFICES ASSUME Wrong # {} PROVE FALSE
    OBVIOUS
  <2>2. PICK k \in Wrong : \A j \in Wrong : k <= j
    BY <2>1, MinExists
  <2> DEFINE i == n + 1 - k
  <2>3. k \in Nat /\ k <= n /\ f[i] \notin Seq(Symbol(words))
    BY <2>2
  <2>4. i \in 1 .. n + 1 /\ f[i] = FromWord(words, f, i)
    BY <1>1, <1>2, <2>3
  <2>5. CASE k = 0
    <3>1. i > Len(words)
      BY <1>1, <2>5
    <3>2. f[i] = <<>>
      BY <2>4, <3>1 DEF FromWord
    <3>. QED
      BY <2>3, <3>2
  <2>6. CASE k # 0
    <3>1. k - 1 \in Nat /\ k - 1 <= n /\ ~(k <= k - 1) /\ n + 1 - (k - 1) = i + 1
      BY <1>1, <2>3, <2>6
    <3>2. f[i + 1] \in Seq(Symbol(words))
      BY <2>2, <3>1
    <3>3. i < n => f[i + 2] \in Seq(Symbol(words))
      <4>1. SUFFICES ASSUME i < n PROVE f[i + 2] \in Seq(Symbol(words))
        OBVIOUS
      <4>2. k - 2 \in Nat /\ k - 2 <= n /\ ~(k <= k - 2) /\ n + 1 - (k - 2) = i + 2
        BY <1>1, <2>3, <4>1
      <4>. QED
        BY <2>2, <4>2
    <3>4. i \in 1 .. n
      BY <1>1, <2>3, <2>6
    <3>. HIDE DEF i, n
    <3>5. Token(words[i]) \in Symbol(words) /\ \A op \in DOMAIN Precedence : Token(op) \in Symbol(words)
      BY <1>1, <3>4, TokenIs
    <3>6. Joined(words[i], words[i + 1]) # "" => Token(Joined(words[i], words[i + 1])) \in Symbol(words)
      BY <3>5, JoinedIs
    <3>7. \/ f[i] = <<>>
          \/ i < n /\ Joined(words[i], words[i + 1]) # "" /\ f[i] = <<Token(Joined(words[i], words[i + 1]))>> \o f[i + 2]
          \/ f[i] = <<Token(words[i])>> \o f[i + 1]
      BY <2>4 DEF FromWord, n
    <3>. HIDE DEF Symbol
    <3>8. f[i] \in Seq(Symbol(words))
      <4>1. CASE f[i] = <<>>
        BY <4>1
      <4>2. CASE /\ i < n /\ Joined(words[i], words[i + 1]) # ""
                 /\ f[i] = <<Token(Joined(words[i], words[i + 1]))>> \o f[i + 2]
        BY <1>3, <3>3, <3>6, <4>2
      <4>3. CASE f[i] = <<Token(words[i])>> \o f[i + 1]
        BY <1>3, <3>2, <3>5, <4>3
      <4>. QED
        BY <3>7, <4>1, <4>2, <4>3
    <3>. QED
      BY <2>3, <3>8 DEF i
  <2>. QED
    BY <2>5, <2>6
<1>5. ASSUME NEW i \in 1 .. n + 1 PROVE f[i] \in Seq(Symbol(words))
  <2>1. n + 1 - i \in Nat /\ n + 1 - i <= n /\ n + 1 - (n + 1 - i) = i
    BY <1>1
  <2>. QED
    BY <1>4, <2>1
<1>. QED
  BY <1>5 DEF f

\* Behind a tokens, word i is next.
Reached(words, i, a) ==
  /\ i \in 1 .. Len(words) + 1 /\ a \in 0 .. Len(Tokenize(words))
  /\ SubSeq(Tokenize(words), a + 1, Len(Tokenize(words))) = Tokenizing(words)[i]

\* The first of s is x, the others are r.
Begins(s, x, r) == s = <<x>> \o r

\* The rest of a list behind its first.
LEMMA RestIs ==
  ASSUME NEW S, NEW q \in Seq(S), NEW a \in 0 .. Len(q), NEW x \in S, NEW r \in Seq(S),
         Begins(SubSeq(q, a + 1, Len(q)), x, r)
  PROVE  a + 1 \in 1 .. Len(q) /\ q[a + 1] = x /\ SubSeq(q, a + 2, Len(q)) = r
<1> DEFINE s == SubSeq(q, a + 1, Len(q))
           u == SubSeq(q, a + 2, Len(q))
<1>1. Len(q) \in Nat /\ \A i \in 1 .. Len(q) : q[i] \in S
  BY ElementOfSeq
<1>2. /\ s \in Seq(S) /\ Len(s) = Len(q) - a
      /\ \A i \in 1 .. Len(q) - a : s[i] = q[a + i]
  <2>1. a + 1 \in Int /\ Len(q) \in Int /\ \A i \in a + 1 .. Len(q) : q[i] \in S
    BY <1>1
  <2>2. /\ s \in Seq(S) /\ Len(s) = (IF a + 1 <= Len(q) THEN Len(q) - (a + 1) + 1 ELSE 0)
        /\ \A i \in 1 .. Len(q) - (a + 1) + 1 : s[i] = q[a + 1 + i - 1]
    BY <2>1, SubSeqProperties
  <2>. HIDE DEF s
  <2>3. /\ Len(q) - (a + 1) + 1 = Len(q) - a /\ (IF a + 1 <= Len(q) THEN Len(q) - (a + 1) + 1 ELSE 0) = Len(q) - a
        /\ \A i \in 1 .. Len(q) - a : a + 1 + i - 1 = a + i
    BY <1>1
  <2>. QED
    BY <2>2, <2>3
<1>3. <<x>> \in Seq(S) /\ Len(<<x>>) = 1 /\ <<x>>[1] = x /\ Len(r) \in Nat
  OBVIOUS
<1>. HIDE DEF s
<1>4. s = <<x>> \o r
  BY DEF s, Begins
<1>5. /\ Len(s) = 1 + Len(r)
      /\ \A i \in 1 .. 1 + Len(r) : s[i] = IF i <= 1 THEN <<x>>[i] ELSE r[i - 1]
  BY <1>3, <1>4, ConcatProperties
<1>6. Len(q) - a = 1 + Len(r) /\ a + 1 \in 1 .. Len(q)
  <2>1. Len(q) - a = 1 + Len(r)
    BY <1>2, <1>5
  <2>. QED
    BY <1>1, <1>3, <2>1
<1>7. s[1] = x /\ s[1] = q[a + 1]
  BY <1>1, <1>2, <1>3, <1>5, <1>6
<1>8. u \in Seq(S) /\ Len(u) = Len(r) /\ \A i \in 1 .. Len(r) : u[i] = q[a + 1 + i]
  <2>1. a + 2 \in Int /\ Len(q) \in Int /\ \A i \in a + 2 .. Len(q) : q[i] \in S
    BY <1>1
  <2>2. /\ u \in Seq(S) /\ Len(u) = (IF a + 2 <= Len(q) THEN Len(q) - (a + 2) + 1 ELSE 0)
        /\ \A i \in 1 .. Len(q) - (a + 2) + 1 : u[i] = q[a + 2 + i - 1]
    BY <2>1, SubSeqProperties
  <2>. HIDE DEF u
  <2>3. /\ Len(q) - (a + 2) + 1 = Len(r) /\ (IF a + 2 <= Len(q) THEN Len(q) - (a + 2) + 1 ELSE 0) = Len(r)
        /\ \A i \in 1 .. Len(r) : a + 2 + i - 1 = a + 1 + i
    BY <1>1, <1>3, <1>6
  <2>. QED
    BY <2>2, <2>3
<1>9. \A i \in 1 .. Len(r) : s[i + 1] = q[a + 1 + i] /\ s[i + 1] = r[i]
  <2>1. TAKE i \in 1 .. Len(r)
  <2>2. i + 1 \in 1 .. 1 + Len(r) /\ ~(i + 1 <= 1) /\ i + 1 - 1 = i /\ a + (i + 1) = a + 1 + i /\ i + 1 \in 1 .. Len(q) - a
    BY <1>3, <1>6
  <2>. QED
    BY <1>2, <1>5, <2>2
<1>10. \A i \in 1 .. Len(u) : u[i] = r[i]
  BY <1>8, <1>9
<1>. HIDE DEF u
<1>11. u = r
  BY <1>8, <1>10, SeqEqual
<1>. QED
  BY <1>6, <1>7, <1>11 DEF u

\* Token x is read, and word j is next.
Read(words, a, j, x) ==
  /\ Reached(words, j, a + 1)
  /\ Shunting(Tokenize(words))[a + 1] = Shunt(Shunting(Tokenize(words))[a], x)

\* One token more.
LEMMA TokenRead ==
  ASSUME NEW words, IsList(words), NEW i, NEW a, NEW j \in 1 .. Len(words) + 1, NEW x \in Symbol(words),
         Reached(words, i, a), Begins(Tokenizing(words)[i], x, Tokenizing(words)[j])
  PROVE  Read(words, a, j, x)
<1> DEFINE q == Tokenize(words)
           S == Symbol(words)
           r == Tokenizing(words)[j]
<1>1. Len(words) \in Nat /\ q \in Seq(S) /\ r \in Seq(S)
  <2>1. Len(words) \in Nat /\ 1 \in 1 .. Len(words) + 1
    BY ListIs
  <2>. QED
    BY <2>1, TokensAre DEF Tokenize
<1>2. i \in 1 .. Len(words) + 1 /\ a \in 0 .. Len(q) /\ Begins(SubSeq(q, a + 1, Len(q)), x, r)
  BY DEF Reached
<1>. HIDE DEF q, S, r
<1>3. a + 1 \in 1 .. Len(q) /\ q[a + 1] = x /\ SubSeq(q, a + 2, Len(q)) = r
  <2>1. x \in S
    BY DEF S
  <2>. QED
    BY <1>1, <1>2, <2>1, RestIs
<1>4. Len(q) \in Nat /\ a \in Int /\ a + 1 + 1 = a + 2 /\ a + 1 - 1 = a /\ a + 1 \in 0 .. Len(q)
  BY <1>1, <1>2, <1>3
<1>5. Reached(words, j, a + 1)
  BY <1>3, <1>4 DEF Reached, q, r
<1>6. Shunting(q)[a + 1] = Shunt(Shunting(q)[a + 1 - 1], q[a + 1])
  BY <1>3, <1>4, ShuntingIs
<1>. QED
  BY <1>3, <1>4, <1>5, <1>6 DEF q, Read

\* A word that is no character of an operator.
LEMMA WordRead ==
  ASSUME NEW words, IsList(words), NEW i \in 1 .. Len(words), NEW a, Reached(words, i, a), words[i] \notin DOMAIN Precedence
  PROVE  Read(words, a, i + 1, Token(words[i]))
<1>1. Len(words) \in Nat /\ DOMAIN words = 1 .. Len(words)
  BY ListIs
<1>2. ~(i > Len(words)) /\ i \in 1 .. Len(words) + 1 /\ i + 1 \in 1 .. Len(words) + 1
  BY <1>1
<1>3. Joined(words[i], words[i + 1]) = ""
  BY JoinedIs
<1>4. Tokenizing(words)[i] = FromWord(words, Tokenizing(words), i)
  BY <1>2, TokenizingIs
<1>5. Begins(Tokenizing(words)[i], Token(words[i]), Tokenizing(words)[i + 1])
  BY <1>2, <1>3, <1>4 DEF FromWord, Begins
<1>6. Token(words[i]) \in Symbol(words)
  BY <1>1, TokenIs
<1>. QED
  BY <1>2, <1>5, <1>6, TokenRead

\* An operator, in front of a word that is none.
LEMMA OpRead ==
  ASSUME NEW words, IsList(words), NEW op \in DOMAIN Precedence \ {"!="}, NEW i, NEW a, Reached(words, i, a),
         NEW m, m = Len(Spelled(op)), i + m \in 1 .. Len(words), words[i + m] \notin DOMAIN Precedence,
         \A k \in 1 .. m : words[i + k - 1] = Spelled(op)[k]
  PROVE  Read(words, a, i + m, Token(op))
<1>1. Len(words) \in Nat /\ DOMAIN words = 1 .. Len(words) /\ i \in 1 .. Len(words) + 1
  BY ListIs DEF Reached
<1>2. \/ m = 2 /\ Joined(Spelled(op)[1], Spelled(op)[2]) = op
      \/ m = 1 /\ Spelled(op)[1] = op
  BY DEF Spelled, Joined, Precedence
<1>3. Tokenizing(words)[i] = FromWord(words, Tokenizing(words), i)
  BY <1>1, TokenizingIs
<1>4. Begins(Tokenizing(words)[i], Token(op), Tokenizing(words)[i + m])
  <2>1. CASE m = 2 /\ Joined(Spelled(op)[1], Spelled(op)[2]) = op
    <3>1. i + 1 - 1 = i /\ i + 2 - 1 = i + 1 /\ 1 \in 1 .. m /\ 2 \in 1 .. m /\ i < Len(words) /\ ~(i > Len(words))
      BY <1>1, <2>1
    <3>2. words[i] = Spelled(op)[1] /\ words[i + 1] = Spelled(op)[2]
      BY <3>1
    <3>3. Joined(words[i], words[i + 1]) = op /\ op # ""
      BY <2>1, <3>2 DEF Precedence
    <3>. QED
      BY <1>3, <2>1, <3>1, <3>3 DEF FromWord, Begins
  <2>2. CASE m = 1 /\ Spelled(op)[1] = op
    <3>1. i + 1 - 1 = i /\ 1 \in 1 .. m /\ ~(i > Len(words))
      BY <1>1, <2>2
    <3>2. words[i] = op
      BY <2>2, <3>1
    <3>3. Joined(words[i], words[i + 1]) = ""
      BY <2>2, JoinedIs
    <3>. QED
      BY <1>3, <2>2, <3>1, <3>2, <3>3 DEF FromWord, Begins
  <2>. QED
    BY <1>2, <2>1, <2>2
<1>5. Token(op) \in Symbol(words)
  BY TokenIs
<1> DEFINE j == i + m
           x == Token(op)
<1>6. j \in 1 .. Len(words) + 1
  BY <1>1
<1>7. x \in Symbol(words) /\ Begins(Tokenizing(words)[i], x, Tokenizing(words)[j])
  BY <1>4, <1>5
<1>. HIDE DEF j, x
<1>8. Read(words, a, j, x)
  BY <1>6, <1>7, TokenRead
<1>. QED
  BY <1>8 DEF j, x

-----------------------------------------------------------------------------
(* The output and the stack *)

\* What rpn() can have of tokens of A.
States(A) == [out : Seq(A), stack : Seq(A)]

\* Its fields.
LEMMA StatesIs ==
  /\ \A A : \A out, stack \in Seq(A) : [out |-> out, stack |-> stack] \in States(A)
  /\ \A A : \A s \in States(A) : s.out \in Seq(A) /\ s.stack \in Seq(A) /\ s = [out |-> s.out, stack |-> s.stack]
BY DEF States

\* The output if all were popped that lies above the first n of the stack.
Drained(s, n) == s.out \o Reverse(SubSeq(s.stack, n + 1, Len(s.stack)))

\* What is popped comes to the output from the top down.
LEMMA DrainedIs ==
  ASSUME NEW A, NEW s \in States(A), NEW n \in 0 .. Len(s.stack)
  PROVE  /\ Drained(s, n) \in Seq(A)
         /\ Drained(s, Len(s.stack)) = s.out
         /\ n < Len(s.stack) => Drained(s, n) = Append(Drained(s, n + 1), s.stack[n + 1])
<1> DEFINE out == s.out
           stack == s.stack
           h == Len(stack)
           m == Len(out)
           D(k) == Drained(s, k)
<1>1. out \in Seq(A) /\ stack \in Seq(A) /\ h \in Nat /\ m \in Nat /\ \A i \in 1 .. h : stack[i] \in A
  BY ElementOfSeq DEF States
<1>. HIDE DEF out, stack
<1>2. ASSUME NEW k \in 0 .. h
      PROVE  /\ D(k) \in Seq(A) /\ Len(D(k)) = m + (h - k)
             /\ \A p \in 1 .. m + (h - k) : D(k)[p] = IF p <= m THEN out[p] ELSE stack[h - (p - m) + 1]
  <2> DEFINE u == SubSeq(stack, k + 1, h)
             r == Reverse(u)
             l == h - k
  <2>0. l \in Nat
    BY <1>1
  <2>1. u \in Seq(A) /\ Len(u) = l /\ \A i \in 1 .. l : u[i] = stack[k + i]
    <3>1. k + 1 \in Int /\ h \in Int /\ \A i \in k + 1 .. h : stack[i] \in A
      BY <1>1
    <3>2. /\ u \in Seq(A) /\ Len(u) = (IF k + 1 <= h THEN h - (k + 1) + 1 ELSE 0)
          /\ \A i \in 1 .. h - (k + 1) + 1 : u[i] = stack[k + 1 + i - 1]
      BY <3>1, SubSeqProperties
    <3>. HIDE DEF u
    <3>3. /\ h - (k + 1) + 1 = l /\ (IF k + 1 <= h THEN h - (k + 1) + 1 ELSE 0) = l
          /\ \A i \in 1 .. l : k + 1 + i - 1 = k + i
      BY <1>1
    <3>. QED
      BY <3>2, <3>3
  <2>. HIDE DEF u
  <2>2. r = [i \in 1 .. l |-> u[l - i + 1]]
    BY <2>1 DEF Reverse
  <2>3. \A i \in 1 .. l : l - i + 1 \in 1 .. l /\ k + (l - i + 1) = h - i + 1
    BY <1>1
  <2>. HIDE DEF l
  <2>4. \A i \in 1 .. l : u[l - i + 1] \in A /\ u[l - i + 1] = stack[h - i + 1]
    BY <2>1, <2>3, ElementOfSeq
  <2>5. r \in Seq(A) /\ Len(r) = l /\ \A i \in 1 .. l : r[i] = stack[h - i + 1]
    <3>1. r \in [1 .. l -> A]
      BY <2>2, <2>4
    <3>2. \A i \in 1 .. l : r[i] = stack[h - i + 1]
      BY <2>2, <2>4
    <3>. HIDE DEF r
    <3>. QED
      BY <2>0, <3>1, <3>2, SeqDef
  <2>. HIDE DEF r
  <2>6. D(k) = out \o r
    BY DEF Drained, out, stack, r, u
  <2>7. /\ out \o r \in Seq(A) /\ Len(out \o r) = m + l
        /\ \A p \in 1 .. m + l : (out \o r)[p] = IF p <= m THEN out[p] ELSE r[p - m]
    BY <1>1, <2>5, ConcatProperties
  <2>. HIDE DEF D
  <2>8. \A p \in 1 .. m + l : D(k)[p] = IF p <= m THEN out[p] ELSE stack[h - (p - m) + 1]
    <3>1. TAKE p \in 1 .. m + l
    <3>2. ~(p <= m) => p - m \in 1 .. l
      BY <1>1, <2>0
    <3>. QED
      BY <2>5, <2>6, <2>7, <3>2
  <2>. QED
    BY <2>6, <2>7, <2>8 DEF l
<1>3. D(h) = out
  <2>1. h \in 0 .. h /\ m + (h - h) = m
    BY <1>1
  <2>2. D(h) \in Seq(A) /\ Len(D(h)) = m /\ \A p \in 1 .. m : D(h)[p] = out[p]
    BY <1>1, <1>2, <2>1
  <2>. HIDE DEF D
  <2>. QED
    BY <1>1, <2>2, SeqEqual
<1>4. n \in 0 .. h
  BY DEF stack
<1>5. ASSUME n < h PROVE D(n) = Append(D(n + 1), stack[n + 1])
  <2>1. n + 1 \in 0 .. h /\ n + 1 \in 1 .. h /\ stack[n + 1] \in A
    BY <1>1, <1>4, <1>5
  <2> DEFINE l == m + (h - n)
             d == D(n)
             e == D(n + 1)
  <2>2. d \in Seq(A) /\ Len(d) = l /\ \A p \in 1 .. l : d[p] = IF p <= m THEN out[p] ELSE stack[h - (p - m) + 1]
    BY <1>2, <1>4
  <2>3. /\ e \in Seq(A) /\ Len(e) = m + (h - (n + 1))
        /\ \A p \in 1 .. m + (h - (n + 1)) : e[p] = IF p <= m THEN out[p] ELSE stack[h - (p - m) + 1]
    BY <1>2, <2>1
  <2>4. m + (h - (n + 1)) = l - 1 /\ l \in Nat \ {0} /\ ~(l <= m) /\ h - (l - m) + 1 = n + 1
    BY <1>1, <1>4, <1>5
  <2>. HIDE DEF l, d, e
  <2> DEFINE f == Append(e, stack[n + 1])
  <2>5. f \in Seq(A) /\ Len(f) = l - 1 + 1 /\ f[l - 1 + 1] = stack[n + 1] /\ \A p \in 1 .. l - 1 : f[p] = e[p]
    <3>1. f \in Seq(A) /\ Len(f) = Len(e) + 1 /\ f[Len(e) + 1] = stack[n + 1] /\ \A p \in 1 .. Len(e) : f[p] = e[p]
      BY <2>1, <2>3, AppendProperties
    <3>2. Len(e) = l - 1
      BY <2>3, <2>4
    <3>. HIDE DEF f
    <3>. QED
      BY <3>1, <3>2
  <2>. HIDE DEF f
  <2>6. Len(d) = Len(f) /\ l - 1 + 1 = l
    BY <2>2, <2>4, <2>5
  <2>7. \A p \in 1 .. Len(d) : d[p] = f[p]
    <3>1. TAKE p \in 1 .. Len(d)
    <3>2. CASE p = l
      BY <2>2, <2>4, <2>5, <2>6, <3>2
    <3>3. CASE p # l
      <4>1. p \in 1 .. l - 1 /\ p \in 1 .. l
        BY <2>2, <2>4, <3>3
      <4>. QED
        BY <2>2, <2>3, <2>4, <2>5, <4>1
    <3>. QED
      BY <3>2, <3>3
  <2>8. d = f
    BY <2>2, <2>5, <2>6, <2>7, SeqEqual
  <2>. QED
    BY <2>8 DEF d, f, e
<1>6. D(n) \in Seq(A)
  BY <1>2, <1>4
<1>. QED
  BY <1>3, <1>5, <1>6 DEF out, stack

\* What is popped down to the first n of the stack.
LEMMA PopToIs ==
  ASSUME NEW A, NEW s \in States(A), NEW stops, stops \subseteq 1 .. Len(s.stack),
         NEW n \in 0 .. Len(s.stack), n = 0 \/ n \in stops, \A i \in stops : i <= n
  PROVE  PopTo(s, stops) = [out |-> Drained(s, n), stack |-> SubSeq(s.stack, 1, n)]
<1>1. Len(s.stack) \in Nat /\ s = [out |-> s.out, stack |-> s.stack]
  BY DEF States
<1>2. Max({0} \cup stops) = n
  <2> DEFINE T == {0} \cup stops
  <2>1. T \subseteq 0 .. Len(s.stack) /\ T # {} /\ n \in T /\ \A i \in T : i <= n
    BY <1>1
  <2>. HIDE DEF T
  <2>2. Max(T) \in T /\ n <= Max(T) /\ Max(T) <= n
    BY <1>1, <2>1, MaxExists
  <2>3. Max(T) \in Int
    <3>1. \A i \in 0 .. Len(s.stack) : i \in Int
      OBVIOUS
    <3>2. Max(T) \in 0 .. Len(s.stack)
      BY <2>1, <2>2
    <3>. QED
      BY <3>1, <3>2
  <2>4. Max(T) = n
    BY <2>2, <2>3
  <2>. QED
    BY <2>4 DEF T
<1> DEFINE k == Max({0} \cup stops)
<1>3. PopTo(s, stops) = [s EXCEPT !.out = @ \o Reverse(SubSeq(s.stack, k + 1, Len(s.stack))),
                                 !.stack = SubSeq(s.stack, 1, k)]
  BY DEF PopTo
<1>4. k = n
  BY <1>2
<1>. HIDE DEF k
<1> DEFINE out == s.out \o Reverse(SubSeq(s.stack, n + 1, Len(s.stack)))
           stack == SubSeq(s.stack, 1, n)
<1>5. PopTo(s, stops) = [s EXCEPT !.out = out, !.stack = stack]
  BY <1>3, <1>4
<1>6. out = Drained(s, n)
  BY DEF Drained
<1>. HIDE DEF out, stack
<1>7. [s EXCEPT !.out = out, !.stack = stack] = [out |-> out, stack |-> stack]
  <2> DEFINE r == [s EXCEPT !.out = out]
  <2>1. r = [out |-> out, stack |-> s.stack]
    BY <1>1
  <2>2. [s EXCEPT !.out = out, !.stack = stack] = [r EXCEPT !.stack = stack]
    OBVIOUS
  <2>. HIDE DEF r
  <2>3. [r EXCEPT !.stack = stack] = [out |-> out, stack |-> stack]
    BY <2>1
  <2>. QED
    BY <2>2, <2>3
<1>. QED
  BY <1>5, <1>6, <1>7 DEF stack

\* The stack is still there, with others on it.
Under(base, stack) == Len(base) <= Len(stack) /\ \A i \in 1 .. Len(base) : stack[i] = base[i]

\* What lies on it are operators that bind no less than rank.
Above(stack, n, rank) ==
  \A i \in n + 1 .. Len(stack) :
    stack[i].type = "op" /\ stack[i].value \in DOMAIN Precedence /\ Precedence[stack[i].value] >= rank

\* No operator of this rank pops what is on top.
Fits(stack, rank) ==
  stack # <<>> =>
    \/ Last(stack).type = "open"
    \/ Last(stack).type = "op" /\ Last(stack).value \in DOMAIN Precedence /\ Precedence[Last(stack).value] < rank

\* The stack as it was below.
LEMMA UnderIs ==
  ASSUME NEW A, NEW base \in Seq(A), NEW stack \in Seq(A), Under(base, stack)
  PROVE  SubSeq(stack, 1, Len(base)) = base
<1> DEFINE u == SubSeq(stack, 1, Len(base))
           n == Len(base)
<1>1. n \in Nat /\ Len(stack) \in Nat /\ n <= Len(stack) /\ \A i \in 1 .. n : stack[i] \in A /\ stack[i] = base[i]
  BY ElementOfSeq DEF Under
<1>. HIDE DEF n
<1>2. /\ SubSeq(stack, 1, n) \in Seq(A) /\ Len(SubSeq(stack, 1, n)) = (IF 1 <= n THEN n - 1 + 1 ELSE 0)
      /\ \A i \in 1 .. n - 1 + 1 : SubSeq(stack, 1, n)[i] = stack[1 + i - 1]
  <2>1. 1 \in Int /\ n \in Int /\ \A i \in 1 .. n : stack[i] \in A
    BY <1>1
  <2>. QED
    BY <2>1, SubSeqProperties
<1>3. n - 1 + 1 = n /\ (IF 1 <= n THEN n - 1 + 1 ELSE 0) = n /\ \A i \in 1 .. n : 1 + i - 1 = i
  BY <1>1
<1>4. u \in Seq(A) /\ Len(u) = Len(base) /\ \A i \in 1 .. Len(u) : u[i] = base[i]
  BY <1>1, <1>2, <1>3 DEF n
<1>. HIDE DEF u
<1>5. u = base
  BY <1>4, SeqEqual
<1>. QED
  BY <1>5 DEF u

\* A stack above another one with something on top.
LEMMA UnderBoth ==
  ASSUME NEW A, NEW base \in Seq(A), NEW x \in A, NEW stack, Under(Append(base, x), stack), Len(stack) \in Nat
  PROVE  Under(base, stack) /\ Len(base) + 1 <= Len(stack) /\ stack[Len(base) + 1] = x
<1>1. /\ Len(base) \in Nat /\ Len(Append(base, x)) = Len(base) + 1 /\ Append(base, x)[Len(base) + 1] = x
      /\ \A i \in 1 .. Len(base) : Append(base, x)[i] = base[i]
  BY AppendProperties
<1>. QED
  BY <1>1 DEF Under

\* The precedences are 1 to 4.
LEMMA RankIs == \A op \in DOMAIN Precedence : Precedence[op] \in 1 .. 4
BY DEF Precedence

\* An operator pops those that bind no less.
LEMMA OperatorIs ==
  ASSUME NEW A, NEW s \in States(A), NEW op, op.type = "op", NEW base \in Seq(A), Under(base, s.stack),
         NEW p \in Int, p = Precedence[op.value], Above(s.stack, Len(base), p), Fits(base, p)
  PROVE  Shunt(s, op) = [out |-> Drained(s, Len(base)), stack |-> Append(base, op)]
<1> DEFINE n == Len(base)
           stack == s.stack
           stops == Weaker(stack, p)
<1>1. n \in Nat /\ Len(stack) \in Nat /\ n <= Len(stack) /\ stack \in Seq(A) /\ DOMAIN stack = 1 .. Len(stack)
  BY LenProperties DEF States, Under
<1>2. stops = {i \in 1 .. Len(stack) : stack[i].type # "op" \/ Precedence[stack[i].value] < p}
  BY <1>1 DEF Weaker
<1>3. \A i \in stops : i <= n
  <2>1. SUFFICES ASSUME NEW i \in 1 .. Len(stack), ~(i <= n), stack[i].type # "op" \/ Precedence[stack[i].value] < p
                 PROVE  FALSE
    BY <1>2
  <2>2. i \in n + 1 .. Len(stack)
    BY <1>1, <2>1
  <2>3. stack[i].type = "op" /\ stack[i].value \in DOMAIN Precedence /\ Precedence[stack[i].value] >= p
    BY <2>2 DEF Above
  <2>4. Precedence[stack[i].value] \in Int
    BY <2>3, RankIs
  <2>. QED
    BY <2>1, <2>3, <2>4
<1>4. n = 0 \/ n \in stops
  <2>1. SUFFICES ASSUME n # 0 PROVE n \in stops
    OBVIOUS
  <2>2. base # <<>> /\ Last(base) = base[n] /\ n \in 1 .. n /\ n \in 1 .. Len(stack)
    BY <1>1, <2>1 DEF Last
  <2>3. stack[n] = base[n]
    BY <2>2 DEF Under
  <2>4. stack[n].type = "open" \/ (stack[n].type = "op" /\ Precedence[stack[n].value] < p)
    BY <2>2, <2>3 DEF Fits
  <2>. QED
    BY <1>2, <2>2, <2>4
<1>5. PopTo(s, stops) = [out |-> Drained(s, n), stack |-> SubSeq(stack, 1, n)]
  <2>1. n \in 0 .. Len(s.stack) /\ stops \subseteq 1 .. Len(s.stack)
    BY <1>1, <1>2
  <2>. HIDE DEF stops, n, stack
  <2>2. PopTo(s, stops) = [out |-> Drained(s, n), stack |-> SubSeq(s.stack, 1, n)]
    BY <1>3, <1>4, <2>1, PopToIs
  <2>. QED
    BY <2>2 DEF stack
<1>6. SubSeq(stack, 1, n) = base
  BY <1>1, UnderIs
<1>7. Shunt(s, op) = Operator(s, op)
  BY DEF Shunt
<1>. HIDE DEF n, stack
<1>8. Operator(s, op) = [PopTo(s, stops) EXCEPT !.stack = Append(@, op)]
  BY DEF Operator, stack, stops
<1>9. PopTo(s, stops) = [out |-> Drained(s, n), stack |-> base]
  BY <1>5, <1>6
<1>10. [PopTo(s, stops) EXCEPT !.stack = Append(@, op)] = [out |-> Drained(s, n), stack |-> Append(base, op)]
  <2>1. \A out, top : [[out |-> out, stack |-> base] EXCEPT !.stack = top] = [out |-> out, stack |-> top]
    OBVIOUS
  <2> DEFINE r == [out |-> Drained(s, n), stack |-> base]
             top == Append(base, op)
  <2>2. r.stack = base
    OBVIOUS
  <2>3. [r EXCEPT !.stack = Append(@, op)] = [r EXCEPT !.stack = top]
    BY <2>2
  <2>. QED
    BY <1>9, <2>1, <2>3
<1>. QED
  BY <1>7, <1>8, <1>10 DEF n

\* A parenthesis that closes pops down to the one that opens.
LEMMA CloseIs ==
  ASSUME NEW A, NEW s \in States(A), NEW base \in Seq(A), NEW open \in A, open.type = "open",
         Under(Append(base, open), s.stack), NEW rank, Above(s.stack, Len(base) + 1, rank)
  PROVE  Close(s) = CallTop([out |-> Drained(s, Len(base) + 1), stack |-> base])
<1> DEFINE n == Len(base)
           stack == s.stack
           stops == {i \in DOMAIN stack : stack[i].type = "open"}
           top == Append(base, open)
<1>1. n \in Nat /\ Len(stack) \in Nat /\ stack \in Seq(A) /\ DOMAIN stack = 1 .. Len(stack)
  BY LenProperties DEF States
<1>2. top \in Seq(A) /\ Len(top) = n + 1 /\ top # <<>>
  BY AppendProperties
<1>3. n + 1 <= Len(stack) /\ stack[n + 1] = open
  BY <1>1, UnderBoth
<1>4. n + 1 \in stops /\ stops \subseteq 1 .. Len(stack)
  BY <1>1, <1>3
<1>5. \A i \in stops : i <= n + 1
  <2>1. SUFFICES ASSUME NEW i \in 1 .. Len(stack), ~(i <= n + 1), stack[i].type = "open" PROVE FALSE
    BY <1>1
  <2>2. i \in n + 1 + 1 .. Len(stack)
    BY <1>1, <2>1
  <2>. QED
    BY <2>1, <2>2 DEF Above
<1>. HIDE DEF stops, top
<1>6. PopTo(s, stops) = [out |-> Drained(s, n + 1), stack |-> top]
  <2>1. n + 1 \in 0 .. Len(s.stack) /\ stops \subseteq 1 .. Len(s.stack)
    BY <1>1, <1>3, <1>4
  <2>. HIDE DEF n, stack
  <2>2. PopTo(s, stops) = [out |-> Drained(s, n + 1), stack |-> SubSeq(s.stack, 1, n + 1)]
    BY <1>4, <1>5, <2>1, PopToIs
  <2>3. SubSeq(s.stack, 1, Len(top)) = top
    BY <1>1, <1>2, UnderIs DEF stack, top
  <2>. QED
    BY <1>2, <2>2, <2>3
<1>7. Front(top) = base
  <2> DEFINE u == SubSeq(top, 1, n)
  <2>1. \A i \in 1 .. n : top[i] = base[i]
    BY AppendProperties DEF top
  <2>2. n + 1 - 1 = n /\ n <= n + 1
    BY <1>1
  <2>3. Front(top) = u
    BY <1>2, <2>2 DEF Front
  <2>4. Under(base, top)
    BY <1>2, <2>1, <2>2 DEF Under
  <2>5. u = base
    BY <1>2, <2>4, UnderIs
  <2>. QED
    BY <2>3, <2>5
<1>. HIDE DEF n
<1>8. DropOpen(PopTo(s, stops)) = [out |-> Drained(s, n + 1), stack |-> base]
  BY <1>2, <1>6, <1>7 DEF DropOpen
<1>. QED
  BY <1>8 DEF Close, stops, stack, n

\* Nothing is called where no function is on top.
LEMMA UncalledIs ==
  ASSUME NEW base, NEW out, NEW rank, Fits(base, rank)
  PROVE  CallTop([out |-> out, stack |-> base]) = [out |-> out, stack |-> base]
<1>1. base # <<>> => Last(base).type # "function"
  BY DEF Fits
<1>. HIDE DEF Fits
<1>. QED
  BY <1>1 DEF CallTop

\* A function on top is called.
Calls(base, out, f, call) ==
  CallTop([out |-> out, stack |-> Append(base, f)]) = [out |-> Append(out, call), stack |-> base]

LEMMA CalledIs ==
  ASSUME NEW A, NEW base \in Seq(A), NEW out, NEW f \in A, f.type = "function", NEW call, call = [type |-> "call", value |-> f.value]
  PROVE  Calls(base, out, f, call)
<1> DEFINE n == Len(base)
           top == Append(base, f)
           u == SubSeq(top, 1, n)
<1>1. /\ top \in Seq(A) /\ top # <<>> /\ Len(top) = n + 1 /\ top[n + 1] = f /\ n \in Nat
      /\ \A i \in 1 .. n : top[i] = base[i]
  BY AppendProperties
<1>. HIDE DEF top
<1>2. Last(top) = f
  BY <1>1 DEF Last
<1>3. Under(base, top) /\ n + 1 - 1 = n
  BY <1>1 DEF Under
<1>4. u = base
  BY <1>1, <1>3, UnderIs
<1>5. Front(top) = base
  BY <1>1, <1>3, <1>4 DEF Front
<1>6. CallTop([out |-> out, stack |-> top]) = [out |-> Append(out, call), stack |-> base]
  BY <1>1, <1>2, <1>5 DEF CallTop
<1>. QED
  BY <1>6 DEF Calls, top

-----------------------------------------------------------------------------
(* Trees *)

\* Every tree is well formed, and deeper than those below it.
LEMMA TreeIs ==
  \A tree \in Tree :
    TreeOK(tree) /\ Depth[tree] \in Nat /\ \A below \in Below(tree) : below \in Tree /\ Depth[below] < Depth[tree]
BY ExpressionsAssumption DEF TreeOK

\* Two functions of trees agree below a depth.
SameBelow(f, h, k) == \A tree \in Tree : Depth[tree] < k => f[tree] = h[tree]

\* A function that is the words of the trees up to a depth.
InfixUpTo(f, k) == f = [tree \in Tree |-> IF Depth[tree] < k THEN InfixOf(f, tree) ELSE <<>>]

\* The words of a tree are a function of those below it.
LEMMA SameInfix ==
  ASSUME NEW tree \in Tree, NEW f, NEW h, SameBelow(f, h, Depth[tree])
  PROVE  InfixOf(f, tree) = InfixOf(h, tree)
<1>1. TreeOK(tree) /\ \A below \in Below(tree) : f[below] = h[below]
  BY TreeIs DEF SameBelow
<1>2. tree.is \in {"word", "call", "paren", "op"}
  BY <1>1 DEF TreeOK
<1>3. CASE tree.is = "word"
  BY <1>3 DEF InfixOf
<1>4. CASE tree.is \in {"call", "paren"}
  <2>1. Below(tree) = {tree.arg}
    BY <1>4 DEF Below
  <2>2. f[tree.arg] = h[tree.arg]
    BY <1>1, <2>1
  <2>. QED
    BY <1>4, <2>2 DEF InfixOf
<1>5. CASE tree.is = "op"
  <2>1. Below(tree) = {tree.l, tree.r}
    BY <1>5 DEF Below
  <2>2. f[tree.l] = h[tree.l] /\ f[tree.r] = h[tree.r]
    BY <1>1, <2>1
  <2>. QED
    BY <1>5, <2>2 DEF InfixOf
<1>. QED
  BY <1>2, <1>3, <1>4, <1>5

\* There is one for each depth at most.
LEMMA InfixAgrees ==
  ASSUME NEW p, NEW q, NEW low \in Nat, NEW high \in Nat, low <= high, InfixUpTo(p, low), InfixUpTo(q, high)
  PROVE  SameBelow(p, q, low)
<1> DEFINE Wrong == {k \in Nat : k <= low /\ ~SameBelow(p, q, k)}
<1>1. \A tree \in Tree : p[tree] = IF Depth[tree] < low THEN InfixOf(p, tree) ELSE <<>>
  BY DEF InfixUpTo
<1>2. \A tree \in Tree : q[tree] = IF Depth[tree] < high THEN InfixOf(q, tree) ELSE <<>>
  BY DEF InfixUpTo
<1>3. Wrong = {}
  <2>1. SUFFICES ASSUME Wrong # {} PROVE FALSE
    OBVIOUS
  <2>2. PICK k \in Wrong : \A i \in Wrong : k <= i
    BY <2>1, MinExists
  <2>3. PICK tree \in Tree : Depth[tree] < k /\ p[tree] # q[tree]
    BY <2>2 DEF SameBelow
  <2>4. /\ Depth[tree] \in Nat /\ Depth[tree] < low /\ Depth[tree] < high /\ Depth[tree] <= low
        /\ ~(k <= Depth[tree])
    BY <2>2, <2>3, TreeIs
  <2>5. SameBelow(p, q, Depth[tree])
    BY <2>2, <2>4
  <2>6. InfixOf(p, tree) = InfixOf(q, tree)
    BY <2>5, SameInfix
  <2>. QED
    BY <1>1, <1>2, <2>3, <2>4, <2>6
<1>. QED
  BY <1>3

\* The words of the trees up to a depth exist.
LEMMA InfixExists ==
  ASSUME NEW depth \in Nat
  PROVE  \E f : InfixUpTo(f, depth)
<1> DEFINE Wrong == {k \in Nat : ~\E f : InfixUpTo(f, k)}
<1>1. Wrong = {}
  <2>1. SUFFICES ASSUME Wrong # {} PROVE FALSE
    OBVIOUS
  <2>2. PICK k \in Wrong : \A i \in Wrong : k <= i
    BY <2>1, MinExists
  <2>3. CASE k = 0
    <3>1. \A tree \in Tree : ~(Depth[tree] < 0)
      BY TreeIs
    <3>2. InfixUpTo([tree \in Tree |-> <<>>], 0)
      BY <3>1 DEF InfixUpTo
    <3>. QED
      BY <2>2, <2>3, <3>2
  <2>4. CASE k # 0
    <3>1. k \in Nat /\ k - 1 \in Nat /\ ~(k <= k - 1)
      BY <2>4
    <3>2. PICK p : InfixUpTo(p, k - 1)
      BY <2>2, <3>1
    <3> DEFINE q == [tree \in Tree |-> IF Depth[tree] < k THEN InfixOf(p, tree) ELSE <<>>]
    <3>3. \A tree \in Tree : q[tree] = IF Depth[tree] < k THEN InfixOf(p, tree) ELSE <<>>
      OBVIOUS
    <3>4. \A tree \in Tree : p[tree] = IF Depth[tree] < k - 1 THEN InfixOf(p, tree) ELSE <<>>
      BY <3>2 DEF InfixUpTo
    <3>. HIDE DEF q
    <3>5. SameBelow(p, q, k - 1)
      <4>1. \A tree \in Tree : Depth[tree] < k - 1 => Depth[tree] < k
        BY <3>1, TreeIs
      <4>. QED
        BY <3>3, <3>4, <4>1 DEF SameBelow
    <3>6. ASSUME NEW tree \in Tree, Depth[tree] < k
          PROVE  InfixOf(p, tree) = InfixOf(q, tree)
      <4>1. \A low \in Tree : Depth[low] < Depth[tree] => Depth[low] < k - 1
        BY <3>1, <3>6, TreeIs
      <4>2. SameBelow(p, q, Depth[tree])
        BY <3>5, <4>1 DEF SameBelow
      <4>. QED
        BY <4>2, SameInfix
    <3>7. \A tree \in Tree :
            (IF Depth[tree] < k THEN InfixOf(p, tree) ELSE <<>>)
              = (IF Depth[tree] < k THEN InfixOf(q, tree) ELSE <<>>)
      BY <3>6
    <3>8. InfixUpTo(q, k)
      BY <3>7 DEF InfixUpTo, q
    <3>. QED
      BY <2>2, <3>8
  <2>. QED
    BY <2>3, <2>4
<1>. QED
  BY <1>1

\* So the words of all trees do.
LEMMA InfixIs ==
  ASSUME NEW tree \in Tree
  PROVE  Infix[tree] = InfixOf(Infix, tree)
<1> DEFINE P(k) == CHOOSE f : InfixUpTo(f, k)
           F == [low \in Tree |-> P(Depth[low] + 1)[low]]
           Whole(f) == f = [low \in Tree |-> InfixOf(f, low)]
<1>1. \A k \in Nat : InfixUpTo(P(k), k)
  BY InfixExists
<1>2. \A low \in Tree : F[low] = P(Depth[low] + 1)[low]
  OBVIOUS
<1>. HIDE DEF P, F
<1>3. ASSUME NEW k \in Nat PROVE SameBelow(P(k), F, k)
  <2>1. SUFFICES ASSUME NEW low \in Tree, Depth[low] < k
                 PROVE  P(k)[low] = F[low]
    BY DEF SameBelow
  <2> DEFINE h == Depth[low] + 1
  <2>2. h \in Nat /\ h <= k /\ Depth[low] < h
    BY <2>1, TreeIs
  <2>3. F[low] = P(h)[low]
    BY <1>2
  <2>. HIDE DEF h
  <2>4. InfixUpTo(P(h), h) /\ InfixUpTo(P(k), k)
    BY <1>1, <2>2
  <2>5. SameBelow(P(h), P(k), h)
    BY <2>2, <2>4, InfixAgrees
  <2>. QED
    BY <2>2, <2>3, <2>5 DEF SameBelow
<1>4. ASSUME NEW low \in Tree PROVE F[low] = InfixOf(F, low)
  <2> DEFINE h == Depth[low] + 1
  <2>1. h \in Nat /\ Depth[low] < h /\ Depth[low] \in Nat
    BY TreeIs
  <2>2. \A i \in Tree : Depth[i] < Depth[low] => Depth[i] < h
    BY <2>1, TreeIs
  <2>3. F[low] = P(h)[low]
    BY <1>2
  <2>. HIDE DEF h
  <2>4. SameBelow(P(h), F, Depth[low])
    BY <1>3, <2>1, <2>2 DEF SameBelow
  <2>5. InfixUpTo(P(h), h)
    BY <1>1, <2>1
  <2>6. P(h)[low] = InfixOf(P(h), low)
    BY <2>1, <2>5 DEF InfixUpTo
  <2>7. InfixOf(P(h), low) = InfixOf(F, low)
    BY <2>4, SameInfix
  <2>. QED
    BY <2>3, <2>6, <2>7
<1>5. Whole(F)
  <2>1. F = [low \in Tree |-> F[low]]
    BY DEF F
  <2>. QED
    BY <1>4, <2>1
<1> DEFINE I == Infix
<1>6. I = CHOOSE f : Whole(f)
  BY DEF Infix
<1>. HIDE DEF I
<1>7. Whole(I)
  BY <1>5, <1>6
<1>8. I[tree] = InfixOf(I, tree)
  BY <1>7
<1>. QED
  BY <1>8 DEF I

\* A function that is the values of the trees up to a depth.
ValueUpTo(f, t, g, k) == f = [tree \in Tree |-> IF Depth[tree] < k THEN MeaningOf(f, t, g, tree) ELSE {}]

\* The value of a tree is a function of those below it.
LEMMA SameMeaningOf ==
  ASSUME NEW t, NEW g, NEW tree \in Tree, NEW f, NEW h, SameBelow(f, h, Depth[tree])
  PROVE  MeaningOf(f, t, g, tree) = MeaningOf(h, t, g, tree)
<1>1. TreeOK(tree) /\ \A below \in Below(tree) : f[below] = h[below]
  BY TreeIs DEF SameBelow
<1>2. tree.is \in {"word", "call", "paren", "op"}
  BY <1>1 DEF TreeOK
<1>3. CASE tree.is = "word"
  BY <1>3 DEF MeaningOf
<1>4. CASE tree.is \in {"call", "paren"}
  <2>1. Below(tree) = {tree.arg}
    BY <1>4 DEF Below
  <2>2. f[tree.arg] = h[tree.arg]
    BY <1>1, <2>1
  <2>. QED
    BY <1>4, <2>2 DEF MeaningOf
<1>5. CASE tree.is = "op"
  <2>1. Below(tree) = {tree.l, tree.r}
    BY <1>5 DEF Below
  <2>2. f[tree.l] = h[tree.l] /\ f[tree.r] = h[tree.r]
    BY <1>1, <2>1
  <2>. QED
    BY <1>5, <2>2 DEF MeaningOf
<1>. QED
  BY <1>2, <1>3, <1>4, <1>5

\* There is one for each depth at most.
LEMMA ValuesAgree ==
  ASSUME NEW t, NEW g, NEW p, NEW q, NEW low \in Nat, NEW high \in Nat, low <= high, ValueUpTo(p, t, g, low), ValueUpTo(q, t, g, high)
  PROVE  SameBelow(p, q, low)
<1> DEFINE Wrong == {k \in Nat : k <= low /\ ~SameBelow(p, q, k)}
<1>1. \A tree \in Tree : p[tree] = IF Depth[tree] < low THEN MeaningOf(p, t, g, tree) ELSE {}
  BY DEF ValueUpTo
<1>2. \A tree \in Tree : q[tree] = IF Depth[tree] < high THEN MeaningOf(q, t, g, tree) ELSE {}
  BY DEF ValueUpTo
<1>3. Wrong = {}
  <2>1. SUFFICES ASSUME Wrong # {} PROVE FALSE
    OBVIOUS
  <2>2. PICK k \in Wrong : \A i \in Wrong : k <= i
    BY <2>1, MinExists
  <2>3. PICK tree \in Tree : Depth[tree] < k /\ p[tree] # q[tree]
    BY <2>2 DEF SameBelow
  <2>4. /\ Depth[tree] \in Nat /\ Depth[tree] < low /\ Depth[tree] < high /\ Depth[tree] <= low
        /\ ~(k <= Depth[tree])
    BY <2>2, <2>3, TreeIs
  <2>5. SameBelow(p, q, Depth[tree])
    BY <2>2, <2>4
  <2>6. MeaningOf(p, t, g, tree) = MeaningOf(q, t, g, tree)
    BY <2>5, SameMeaningOf
  <2>. QED
    BY <1>1, <1>2, <2>3, <2>4, <2>6
<1>. QED
  BY <1>3

\* The values of the trees up to a depth exist.
LEMMA ValueExists ==
  ASSUME NEW t, NEW g, NEW depth \in Nat
  PROVE  \E f : ValueUpTo(f, t, g, depth)
<1> DEFINE Wrong == {k \in Nat : ~\E f : ValueUpTo(f, t, g, k)}
<1>1. Wrong = {}
  <2>1. SUFFICES ASSUME Wrong # {} PROVE FALSE
    OBVIOUS
  <2>2. PICK k \in Wrong : \A i \in Wrong : k <= i
    BY <2>1, MinExists
  <2>3. CASE k = 0
    <3>1. \A tree \in Tree : ~(Depth[tree] < 0)
      BY TreeIs
    <3>2. ValueUpTo([tree \in Tree |-> {}], t, g, 0)
      BY <3>1 DEF ValueUpTo
    <3>. QED
      BY <2>2, <2>3, <3>2
  <2>4. CASE k # 0
    <3>1. k \in Nat /\ k - 1 \in Nat /\ ~(k <= k - 1)
      BY <2>4
    <3>2. PICK p : ValueUpTo(p, t, g, k - 1)
      BY <2>2, <3>1
    <3> DEFINE q == [tree \in Tree |-> IF Depth[tree] < k THEN MeaningOf(p, t, g, tree) ELSE {}]
    <3>3. \A tree \in Tree : q[tree] = IF Depth[tree] < k THEN MeaningOf(p, t, g, tree) ELSE {}
      OBVIOUS
    <3>4. \A tree \in Tree : p[tree] = IF Depth[tree] < k - 1 THEN MeaningOf(p, t, g, tree) ELSE {}
      BY <3>2 DEF ValueUpTo
    <3>. HIDE DEF q
    <3>5. SameBelow(p, q, k - 1)
      <4>1. \A tree \in Tree : Depth[tree] < k - 1 => Depth[tree] < k
        BY <3>1, TreeIs
      <4>. QED
        BY <3>3, <3>4, <4>1 DEF SameBelow
    <3>6. ASSUME NEW tree \in Tree, Depth[tree] < k
          PROVE  MeaningOf(p, t, g, tree) = MeaningOf(q, t, g, tree)
      <4>1. \A low \in Tree : Depth[low] < Depth[tree] => Depth[low] < k - 1
        BY <3>1, <3>6, TreeIs
      <4>2. SameBelow(p, q, Depth[tree])
        BY <3>5, <4>1 DEF SameBelow
      <4>. QED
        BY <4>2, SameMeaningOf
    <3>7. \A tree \in Tree :
            (IF Depth[tree] < k THEN MeaningOf(p, t, g, tree) ELSE {})
              = (IF Depth[tree] < k THEN MeaningOf(q, t, g, tree) ELSE {})
      BY <3>6
    <3>8. ValueUpTo(q, t, g, k)
      BY <3>7 DEF ValueUpTo, q
    <3>. QED
      BY <2>2, <3>8
  <2>. QED
    BY <2>3, <2>4
<1>. QED
  BY <1>1

\* So the values of all trees do.
LEMMA ValueIs ==
  ASSUME NEW t, NEW g, NEW tree \in Tree
  PROVE  Meaning(t, g)[tree] = MeaningOf(Meaning(t, g), t, g, tree)
<1> DEFINE P(k) == CHOOSE f : ValueUpTo(f, t, g, k)
           F == [low \in Tree |-> P(Depth[low] + 1)[low]]
           Whole(f) == f = [low \in Tree |-> MeaningOf(f, t, g, low)]
<1>1. \A k \in Nat : ValueUpTo(P(k), t, g, k)
  BY ValueExists
<1>2. \A low \in Tree : F[low] = P(Depth[low] + 1)[low]
  OBVIOUS
<1>. HIDE DEF P, F
<1>3. ASSUME NEW k \in Nat PROVE SameBelow(P(k), F, k)
  <2>1. SUFFICES ASSUME NEW low \in Tree, Depth[low] < k
                 PROVE  P(k)[low] = F[low]
    BY DEF SameBelow
  <2> DEFINE h == Depth[low] + 1
  <2>2. h \in Nat /\ h <= k /\ Depth[low] < h
    BY <2>1, TreeIs
  <2>3. F[low] = P(h)[low]
    BY <1>2
  <2>. HIDE DEF h
  <2>4. ValueUpTo(P(h), t, g, h) /\ ValueUpTo(P(k), t, g, k)
    BY <1>1, <2>2
  <2>5. SameBelow(P(h), P(k), h)
    BY <2>2, <2>4, ValuesAgree
  <2>. QED
    BY <2>2, <2>3, <2>5 DEF SameBelow
<1>4. ASSUME NEW low \in Tree PROVE F[low] = MeaningOf(F, t, g, low)
  <2> DEFINE h == Depth[low] + 1
  <2>1. h \in Nat /\ Depth[low] < h /\ Depth[low] \in Nat
    BY TreeIs
  <2>2. \A i \in Tree : Depth[i] < Depth[low] => Depth[i] < h
    BY <2>1, TreeIs
  <2>3. F[low] = P(h)[low]
    BY <1>2
  <2>. HIDE DEF h
  <2>4. SameBelow(P(h), F, Depth[low])
    BY <1>3, <2>1, <2>2 DEF SameBelow
  <2>5. ValueUpTo(P(h), t, g, h)
    BY <1>1, <2>1
  <2>6. P(h)[low] = MeaningOf(P(h), t, g, low)
    BY <2>1, <2>5 DEF ValueUpTo
  <2>7. MeaningOf(P(h), t, g, low) = MeaningOf(F, t, g, low)
    BY <2>4, SameMeaningOf
  <2>. QED
    BY <2>3, <2>6, <2>7
<1>5. Whole(F)
  <2>1. F = [low \in Tree |-> F[low]]
    BY DEF F
  <2>. QED
    BY <1>4, <2>1
<1> DEFINE I == Meaning(t, g)
<1>6. I = CHOOSE f : Whole(f)
  BY DEF Meaning
<1>. HIDE DEF I
<1>7. Whole(I)
  BY <1>5, <1>6
<1>8. I[tree] = MeaningOf(I, t, g, tree)
  BY <1>7
<1>. QED
  BY <1>8 DEF I

-----------------------------------------------------------------------------
(* How a tree is written *)

\* s is a, then b, then c.
Joins(s, a, b, c) ==
  /\ IsList(s) /\ Len(s) = Len(a) + Len(b) + Len(c)
  /\ \A p \in 1 .. Len(a) : s[p] = a[p]
  /\ \A p \in 1 .. Len(b) : s[Len(a) + p] = b[p]
  /\ \A p \in 1 .. Len(c) : s[Len(a) + Len(b) + p] = c[p]

\* Three sequences, one after the other.
LEMMA JoinsIs ==
  ASSUME NEW a, NEW b, NEW c, IsList(a), IsList(b), IsList(c)
  PROVE  Joins(a \o b \o c, a, b, c)
<1> DEFINE S == Range(a) \cup Range(b) \cup Range(c)
           u == a \o b
           s == u \o c
<1>1. a \in Seq(S) /\ b \in Seq(S) /\ c \in Seq(S)
  <2>1. a \in Seq(Range(a)) /\ b \in Seq(Range(b)) /\ c \in Seq(Range(c))
    BY DEF IsList
  <2>2. Range(a) \subseteq S /\ Range(b) \subseteq S /\ Range(c) \subseteq S
    OBVIOUS
  <2>. HIDE DEF S
  <2>. QED
    BY <2>1, <2>2, SeqMonotonic
<1>. HIDE DEF S
<1>2. Len(a) \in Nat /\ Len(b) \in Nat /\ Len(c) \in Nat
  BY <1>1
<1>3. /\ u \in Seq(S) /\ Len(u) = Len(a) + Len(b)
      /\ \A i \in 1 .. Len(a) + Len(b) : u[i] = IF i <= Len(a) THEN a[i] ELSE b[i - Len(a)]
  BY <1>1, ConcatProperties
<1>. HIDE DEF u
<1>4. /\ s \in Seq(S) /\ Len(s) = Len(u) + Len(c)
      /\ \A i \in 1 .. Len(u) + Len(c) : s[i] = IF i <= Len(u) THEN u[i] ELSE c[i - Len(u)]
  <2>1. u \in Seq(S) /\ c \in Seq(S)
    BY <1>1, <1>3
  <2>. QED
    BY <2>1, ConcatProperties
<1>. HIDE DEF s
<1>5. \A p \in 1 .. Len(a) : s[p] = a[p]
  <2>1. TAKE p \in 1 .. Len(a)
  <2>2. p \in 1 .. Len(a) + Len(b) /\ p \in 1 .. Len(u) + Len(c) /\ p <= Len(a) /\ p <= Len(u)
    BY <1>2, <1>3
  <2>. QED
    BY <1>3, <1>4, <2>2
<1>6. \A p \in 1 .. Len(b) : s[Len(a) + p] = b[p]
  <2>1. TAKE p \in 1 .. Len(b)
  <2> DEFINE i == Len(a) + p
  <2>2. i \in 1 .. Len(a) + Len(b) /\ i \in 1 .. Len(u) + Len(c) /\ ~(i <= Len(a)) /\ i <= Len(u) /\ i - Len(a) = p
    BY <1>2, <1>3
  <2>. QED
    BY <1>3, <1>4, <2>2
<1>7. \A p \in 1 .. Len(c) : s[Len(a) + Len(b) + p] = c[p]
  <2>1. TAKE p \in 1 .. Len(c)
  <2> DEFINE i == Len(a) + Len(b) + p
  <2>2. i \in 1 .. Len(u) + Len(c) /\ ~(i <= Len(u)) /\ i - Len(u) = p
    BY <1>2, <1>3
  <2>. QED
    BY <1>4, <2>2
<1>8. IsList(s) /\ Len(s) = Len(a) + Len(b) + Len(c)
  BY <1>3, <1>4, ListOf
<1>. QED
  BY <1>5, <1>6, <1>7, <1>8 DEF Joins, s, u

\* The words from word i on are those of s.
Written(words, i, s) ==
  /\ i \in Nat \ {0} /\ i + Len(s) - 1 <= Len(words)
  /\ \A p \in 1 .. Len(s) : words[i + p - 1] = s[p]

\* The words of s from word i on, in three parts.
Parts(words, i, s, a, b, c) ==
  /\ Written(words, i, a)
  /\ Written(words, i + Len(a), b)
  /\ Written(words, i + Len(a) + Len(b), c)
  /\ i + Len(s) = i + Len(a) + Len(b) + Len(c)

\* What is written in three parts is written part by part.
LEMMA WrittenParts ==
  ASSUME NEW words, IsList(words), NEW i, NEW s, NEW a, NEW b, NEW c, IsList(a), IsList(b), IsList(c),
         Joins(s, a, b, c), Written(words, i, s)
  PROVE  Parts(words, i, s, a, b, c)
<1> DEFINE x == Len(a)
           y == Len(b)
           z == Len(c)
           n == Len(words)
<1>1. x \in Nat /\ y \in Nat /\ z \in Nat /\ n \in Nat /\ Len(s) = x + y + z /\ i \in Nat \ {0} /\ i + (x + y + z) - 1 <= n
  BY ListIs DEF Joins, Written
<1>2. /\ \A p \in 1 .. x + y + z : words[i + p - 1] = s[p]
      /\ \A p \in 1 .. x : s[p] = a[p]
      /\ \A p \in 1 .. y : s[x + p] = b[p]
      /\ \A p \in 1 .. z : s[x + y + p] = c[p]
  BY <1>1 DEF Joins, Written
<1>. HIDE DEF x, y, z, n
<1>3. \A p \in 1 .. x : words[i + p - 1] = a[p]
  <2>1. TAKE p \in 1 .. x
  <2>2. p \in 1 .. x + y + z
    BY <1>1
  <2>. QED
    BY <1>2, <2>2
<1>4. \A p \in 1 .. y : words[i + x + p - 1] = b[p]
  <2>1. TAKE p \in 1 .. y
  <2>2. x + p \in 1 .. x + y + z /\ i + (x + p) - 1 = i + x + p - 1
    BY <1>1
  <2>. QED
    BY <1>2, <2>2
<1>5. \A p \in 1 .. z : words[i + x + y + p - 1] = c[p]
  <2>1. TAKE p \in 1 .. z
  <2>2. x + y + p \in 1 .. x + y + z /\ i + (x + y + p) - 1 = i + x + y + p - 1
    BY <1>1
  <2>. QED
    BY <1>2, <2>2
<1>6. /\ i + x \in Nat \ {0} /\ i + x + y \in Nat \ {0} /\ i + x - 1 <= n /\ i + x + y - 1 <= n
      /\ i + x + y + z - 1 <= n /\ i + (x + y + z) = i + x + y + z
  BY <1>1
<1>. QED
  BY <1>1, <1>3, <1>4, <1>5, <1>6 DEF Parts, Written, x, y, z, n

\* A word of an expression is no part of an operator.
LEMMA WordIs ==
  /\ \A word : Token(word).type \in {"real", "id"} => word \notin DOMAIN Precedence
  /\ \A word \in FunctionNames : word \notin DOMAIN Precedence /\ Token(word) = [value |-> word, type |-> "function"]
  /\ "(" \notin DOMAIN Precedence /\ Token("(") = [value |-> "(", type |-> "open"]
  /\ ")" \notin DOMAIN Precedence /\ Token(")") = [value |-> ")", type |-> "close"]
  /\ \A op \in DOMAIN Precedence : Token(op) = [value |-> op, type |-> "op"]
<1>1. \A word : Token(word).type \in {"real", "id"} => word \notin DOMAIN Precedence
  BY ExpressionsAssumption DEF Token, Precedence
<1>2. \A word \in FunctionNames : word \notin DOMAIN Precedence /\ Token(word) = [value |-> word, type |-> "function"]
  BY ExpressionsAssumption DEF Token, Precedence, FunctionNames
<1>3. "(" \notin DOMAIN Precedence /\ Token("(") = [value |-> "(", type |-> "open"]
  BY ExpressionsAssumption DEF Token, Precedence, FunctionNames
<1>4. ")" \notin DOMAIN Precedence /\ Token(")") = [value |-> ")", type |-> "close"]
  BY ExpressionsAssumption DEF Token, Precedence, FunctionNames
<1>5. \A op \in DOMAIN Precedence : Token(op) = [value |-> op, type |-> "op"]
  BY ExpressionsAssumption DEF Token, Precedence, FunctionNames
<1>. QED
  BY <1>1, <1>2, <1>3, <1>4, <1>5

\* An operator is written as one or two words.
LEMMA SpelledIs ==
  \A op : IsList(Spelled(op)) /\ Len(Spelled(op)) \in {1, 2}
<1>1. TAKE op
<1>2. Spelled(op) \in {<<"<", "=">>, <<">", "=">>, <<"=", "=">>, <<"&", "&">>, <<"|", "|">>, <<op>>}
  BY DEF Spelled
<1>3. \A x, y : <<x, y>> \in Seq({x, y}) /\ Len(<<x, y>>) = 2
  OBVIOUS
<1>4. \A x : <<x>> \in Seq({x}) /\ Len(<<x>>) = 1
  OBVIOUS
<1>5. \A x, y : IsList(<<x, y>>) /\ Len(<<x, y>>) = 2
  BY <1>3, ListOf
<1>6. \A x : IsList(<<x>>) /\ Len(<<x>>) = 1
  BY <1>4, ListOf
<1>. QED
  BY <1>2, <1>5, <1>6

\* The parts of what a tree is written like, from those of its subtrees.
Begin(tree) == IF tree.is = "call" THEN <<tree.name, "(">> ELSE <<"(">>

\* The parts of the words of a tree.
LEMMA InfixParts ==
  ASSUME NEW tree \in Tree, \A below \in Below(tree) : IsList(Infix[below])
  PROVE  /\ tree.is = "word" => Infix[tree] = <<tree.word>> /\ IsList(Infix[tree])
         /\ tree.is \in {"call", "paren"} => Joins(Infix[tree], Begin(tree), Infix[tree.arg], <<")">>)
         /\ tree.is = "op" => Joins(Infix[tree], Infix[tree.l], Spelled(tree.op), Infix[tree.r])
<1>1. Infix[tree] = InfixOf(Infix, tree)
  BY InfixIs
<1>2. \A x : <<x>> \in Seq({x})
  OBVIOUS
<1>3. \A x, y : <<x, y>> \in Seq({x, y})
  OBVIOUS
<1>4. (\A x : IsList(<<x>>)) /\ (\A x, y : IsList(<<x, y>>))
  BY <1>2, <1>3, ListOf
<1>5. ASSUME tree.is = "word" PROVE Infix[tree] = <<tree.word>> /\ IsList(Infix[tree])
  BY <1>1, <1>4, <1>5 DEF InfixOf
<1>6. ASSUME tree.is \in {"call", "paren"} PROVE Joins(Infix[tree], Begin(tree), Infix[tree.arg], <<")">>)
  <2>1. Below(tree) = {tree.arg}
    BY <1>6 DEF Below
  <2>2. IsList(Infix[tree.arg]) /\ IsList(Begin(tree)) /\ IsList(<<")">>)
    BY <1>4, <2>1 DEF Begin
  <2>3. Infix[tree] = Begin(tree) \o Infix[tree.arg] \o <<")">>
    BY <1>1, <1>6 DEF InfixOf, Begin
  <2> DEFINE a == Begin(tree)
             b == Infix[tree.arg]
             c == <<")">>
  <2>. HIDE DEF a, b, c
  <2>4. Joins(a \o b \o c, a, b, c)
    <3>1. IsList(a) /\ IsList(b) /\ IsList(c)
      BY <2>2 DEF a, b, c
    <3>. QED
      BY <3>1, JoinsIs
  <2>. QED
    BY <2>3, <2>4 DEF a, b, c
<1>7. ASSUME tree.is = "op" PROVE Joins(Infix[tree], Infix[tree.l], Spelled(tree.op), Infix[tree.r])
  <2>1. Below(tree) = {tree.l, tree.r}
    BY <1>7 DEF Below
  <2>2. IsList(Infix[tree.l]) /\ IsList(Infix[tree.r]) /\ IsList(Spelled(tree.op))
    BY <2>1, SpelledIs
  <2>3. Infix[tree] = Infix[tree.l] \o Spelled(tree.op) \o Infix[tree.r]
    BY <1>1, <1>7 DEF InfixOf
  <2>. QED
    BY <2>2, <2>3, JoinsIs
<1>. QED
  BY <1>5, <1>6, <1>7

\* What a tree is written like begins with a word that is no operator.
LEMMA InfixBegins ==
  \A tree \in Tree : IsList(Infix[tree]) /\ Len(Infix[tree]) >= 1 /\ Infix[tree][1] \notin DOMAIN Precedence
<1> DEFINE Good(tree) == IsList(Infix[tree]) /\ Len(Infix[tree]) >= 1 /\ Infix[tree][1] \notin DOMAIN Precedence
           Wrong == {k \in Nat : \E tree \in Tree : Depth[tree] = k /\ ~Good(tree)}
<1>1. Wrong = {}
  <2>1. SUFFICES ASSUME Wrong # {} PROVE FALSE
    OBVIOUS
  <2>2. PICK k \in Wrong : \A j \in Wrong : k <= j
    BY <2>1, MinExists
  <2>3. PICK tree \in Tree : Depth[tree] = k /\ ~Good(tree)
    BY <2>2
  <2>4. TreeOK(tree) /\ \A below \in Below(tree) : below \in Tree /\ Depth[below] \in Nat /\ Depth[below] < k
    BY <2>3, TreeIs
  <2>5. \A below \in Below(tree) : Good(below)
    <3>1. TAKE below \in Below(tree)
    <3>2. below \in Tree /\ Depth[below] \in Nat /\ ~(k <= Depth[below])
      BY <2>2, <2>4
    <3>. HIDE DEF Good
    <3>. QED
      BY <2>2, <3>2
  <2>6. /\ tree.is = "word" => Infix[tree] = <<tree.word>> /\ IsList(Infix[tree])
        /\ tree.is \in {"call", "paren"} => Joins(Infix[tree], Begin(tree), Infix[tree.arg], <<")">>)
        /\ tree.is = "op" => Joins(Infix[tree], Infix[tree.l], Spelled(tree.op), Infix[tree.r])
    BY <2>5, InfixParts
  <2>7. CASE tree.is = "word"
    <3>1. tree.word \notin DOMAIN Precedence
      BY <2>4, <2>7, WordIs DEF TreeOK
    <3>2. Infix[tree] = <<tree.word>> /\ IsList(Infix[tree])
      BY <2>6, <2>7
    <3>3. Len(Infix[tree]) = 1 /\ Infix[tree][1] = tree.word
      BY <3>2
    <3>4. Len(Infix[tree]) >= 1
      BY <3>3
    <3>. QED
      BY <2>3, <3>1, <3>2, <3>3, <3>4
  <2>8. CASE tree.is \in {"call", "paren"}
    <3>1. Len(Begin(tree)) \in {1, 2} /\ Begin(tree)[1] \notin DOMAIN Precedence
      <4>1. tree.is = "call" => tree.name \in FunctionNames
        BY <2>4 DEF TreeOK
      <4>2. Begin(tree)[1] = "(" \/ (tree.is = "call" /\ Begin(tree)[1] = tree.name)
        BY DEF Begin
      <4>3. Len(Begin(tree)) \in {1, 2}
        BY DEF Begin
      <4>. QED
        BY <4>1, <4>2, <4>3, WordIs
    <3>2. Good(tree.arg)
      BY <2>5, <2>8 DEF Below
    <3>3. Len(Infix[tree.arg]) \in Nat
      BY <3>2, ListIs
    <3>4. IsList(Infix[tree]) /\ Infix[tree][1] = Begin(tree)[1] /\ Len(Infix[tree]) >= 1
      <4>1. 1 \in 1 .. Len(Begin(tree)) /\ Len(<<")">>) = 1
        BY <3>1
      <4>. QED
        BY <2>6, <2>8, <3>1, <3>3, <4>1 DEF Joins
    <3>. QED
      BY <2>3, <3>1, <3>4
  <2>9. CASE tree.is = "op"
    <3>1. Good(tree.l) /\ Good(tree.r)
      BY <2>5, <2>9 DEF Below
    <3>2. Len(Infix[tree.l]) \in Nat /\ Len(Infix[tree.r]) \in Nat /\ Len(Spelled(tree.op)) \in {1, 2}
      BY <3>1, ListIs, SpelledIs
    <3>3. IsList(Infix[tree]) /\ Infix[tree][1] = Infix[tree.l][1] /\ Len(Infix[tree]) >= 1
      <4>1. 1 \in 1 .. Len(Infix[tree.l])
        BY <3>1, <3>2
      <4>2. Joins(Infix[tree], Infix[tree.l], Spelled(tree.op), Infix[tree.r])
        BY <2>6, <2>9
      <4>3. IsList(Infix[tree]) /\ Infix[tree][1] = Infix[tree.l][1]
        BY <4>1, <4>2 DEF Joins
      <4>4. Len(Infix[tree]) = Len(Infix[tree.l]) + Len(Spelled(tree.op)) + Len(Infix[tree.r])
        BY <4>2 DEF Joins
      <4>5. Len(Infix[tree]) >= 1
        <5>1. \A x, y, z \in Nat : x >= 1 => x + y + z >= 1
          OBVIOUS
        <5>2. Len(Infix[tree.l]) >= 1 /\ Len(Spelled(tree.op)) \in Nat
          BY <3>1, <3>2
        <5>. QED
          BY <3>2, <4>4, <5>1, <5>2
      <4>. QED
        BY <4>3, <4>5
    <3>. QED
      BY <2>3, <3>1, <3>3
  <2>. QED
    BY <2>4, <2>7, <2>8, <2>9 DEF TreeOK
<1>2. \A tree \in Tree : Depth[tree] \in Nat
  BY TreeIs
<1>. QED
  BY <1>1, <1>2

-----------------------------------------------------------------------------
(* Values *)

\* What is on the stack of evaluate() for a tree that has a value.
Gives(t, g, token, tree) ==
  \E v \in Ints : Meaning(t, g)[tree] = {v} /\ Fetch(t, g, token) = Number(v)

\* A result, as far as evaluate() asks.
Valued(result, v) == result.outcome = "found" /\ result.value = v

\* The text of a number is read as that number.
LEMMA NumberIs ==
  \A v \in Ints : ToString(v) \in Numeral /\ IntOf[ToString(v)] = v /\ Token(ToString(v)).type = "real"
<1>1. TAKE v \in Ints
<1> DEFINE text == ToString(v)
<1>2. v \in -Largest .. Largest /\ \A m, n \in Ints : ToString(m) = ToString(n) => m = n
  BY ExpressionsAssumption DEF Ints
<1>3. text \in Numeral
  BY <1>2 DEF Numeral
<1>4. IntOf[text] = v
  <2>1. IntOf[text] = CHOOSE n \in -Largest .. Largest : ToString(n) = text
    BY <1>3 DEF IntOf
  <2>2. \A n \in -Largest .. Largest : ToString(n) = text => n = v
    BY <1>2 DEF Ints
  <2>. QED
    BY <1>2, <2>1, <2>2
<1>5. Token(text).type = "real"
  <2>1. text \notin DOMAIN Precedence \cup FunctionNames \cup {",", "(", ")"}
    BY <1>3, ExpressionsAssumption
  <2>. HIDE DEF text
  <2>. QED
    BY <1>3, <2>1 DEF Token
<1>. QED
  BY <1>3, <1>4, <1>5

\* A result on the stack is fetched as it was.
LEMMA NumberFetched ==
  ASSUME NEW t, NEW g, NEW v \in Ints
  PROVE  Fetch(t, g, Token(ToString(v))) = Number(v)
<1> DEFINE token == Token(ToString(v))
<1>1. token.type = "real" /\ token.value = ToString(v)
  BY NumberIs DEF Token
<1>2. IntOf[ToString(v)] = v
  BY NumberIs
<1>. HIDE DEF token
<1>. QED
  BY <1>1, <1>2 DEF Fetch, token

\* Every text of a number is that of a number.
LEMMA NumeralIs ==
  \A text \in Numeral : IntOf[text] \in Ints /\ Token(text).type = "real"
<1>1. TAKE text \in Numeral
<1>2. PICK v \in Ints : text = ToString(v)
  BY DEF Numeral, Ints
<1>. QED
  BY <1>2, NumberIs

\* A word that has a value is fetched as it.
LEMMA WordValue ==
  ASSUME NEW t, NEW g, NEW tree \in Tree, tree.is = "word", Meaning(t, g)[tree] # {}
  PROVE  Gives(t, g, Token(tree.word), tree)
<1> DEFINE word == tree.word
           token == Token(word)
           found == FindIn(g, Lookup(t, Key(word)))
<1>1. Meaning(t, g)[tree] = Ints \cap WordMeans(t, g, word)
  <2>1. Meaning(t, g)[tree] = MeaningOf(Meaning(t, g), t, g, tree)
    BY ValueIs
  <2>. QED
    BY <2>1 DEF MeaningOf
<1>2. token.type \in {"real", "id"} /\ token.value = word
  BY TreeIs DEF TreeOK, Token
<1>3. CASE word \in Numeral
  <2>1. token.type = "real" /\ IntOf[word] \in Ints
    BY <1>3, NumeralIs
  <2>2. WordMeans(t, g, word) = {IntOf[word]}
    BY <1>3 DEF WordMeans
  <2>. HIDE DEF token, word
  <2>3. Fetch(t, g, token) = Number(IntOf[word])
    BY <1>2, <2>1 DEF Fetch
  <2>. QED
    BY <1>1, <2>1, <2>2, <2>3 DEF Gives, token, word
<1>4. CASE word \notin Numeral
  <2>1. token.type = "id"
    <3>1. token.type # "real"
      BY <1>4 DEF Token
    <3>. QED
      BY <1>2, <3>1
  <2>. HIDE DEF token, word
  <2>2. Fetch(t, g, token) = Extracted(found)
    BY <1>2, <2>1 DEF Fetch
  <2>3. WordMeans(t, g, word) =
          IF found.outcome = "found" /\ found.of = "leaf" /\ found.value \in Numeral THEN {IntOf[found.value]} ELSE {}
    BY <1>4 DEF WordMeans
  <2>. HIDE DEF found
  <2>4. found.outcome = "found" /\ found.of = "leaf" /\ found.value \in Numeral
    BY <1>1, <2>3 DEF word
  <2>5. IntOf[found.value] \in Ints
    BY <2>4, NumeralIs
  <2>6. Extracted(found) = Number(IntOf[found.value])
    BY <2>4 DEF Extracted
  <2>. QED
    BY <1>1, <2>2, <2>3, <2>4, <2>5, <2>6 DEF Gives, token, word
<1>. QED
  BY <1>3, <1>4

\* A value needs those of the operands, except that of a word a junction does
\* not come to, and of one that is counted.
Needed(t, g, tree) == tree.is = "word" \/ Meaning(t, g)[tree] # {}

\* The value of a tree in parentheses.
LEMMA ParenValue ==
  ASSUME NEW t, NEW g, NEW tree \in Tree, tree.is = "paren", Meaning(t, g)[tree] # {}
  PROVE  /\ Needed(t, g, tree.arg)
         /\ \A token : Gives(t, g, token, tree.arg) => Gives(t, g, token, tree)
         /\ Meaning(t, g)[tree.arg] # {}
<1>1. Meaning(t, g)[tree] = Ints \cap Meaning(t, g)[tree.arg]
  <2>1. Meaning(t, g)[tree] = MeaningOf(Meaning(t, g), t, g, tree)
    BY ValueIs
  <2>. QED
    BY <2>1 DEF MeaningOf
<1>. QED
  BY <1>1 DEF Needed, Gives

\* The value of a call, of what is fetched for its operand.
LEMMA CallValue ==
  ASSUME NEW t, NEW g, NEW tree \in Tree, tree.is = "call", Meaning(t, g)[tree] # {}
  PROVE  /\ Needed(t, g, tree.arg)
         /\ \A token : /\ tree.arg.is = "word" => token = Token(tree.arg.word)
                       /\ Meaning(t, g)[tree.arg] # {} => Gives(t, g, token, tree.arg)
                       => \E v \in Ints : Meaning(t, g)[tree] = {v} /\ Valued(Call(t, g, tree.name, token), v)
<1> DEFINE arg == tree.arg
           m == Meaning(t, g)[arg]
<1>1. Meaning(t, g)[tree] =
        Ints \cap CASE tree.name = "not" -> {Truth(v = 0) : v \in m}
                    [] tree.name = "count" -> SizeMeans(g, arg)
                    [] OTHER -> {}
  <2>1. Meaning(t, g)[tree] = MeaningOf(Meaning(t, g), t, g, tree)
    BY ValueIs
  <2>. QED
    BY <2>1 DEF MeaningOf
<1>2. CASE tree.name = "not"
  <2>1. Meaning(t, g)[tree] = Ints \cap {Truth(v = 0) : v \in m}
    BY <1>1, <1>2
  <2>2. m # {}
    BY <2>1
  <2>3. ASSUME NEW token, Gives(t, g, token, arg)
        PROVE  \E v \in Ints : Meaning(t, g)[tree] = {v} /\ Valued(Call(t, g, tree.name, token), v)
    <3>1. PICK v \in Ints : m = {v} /\ Fetch(t, g, token) = Number(v)
      BY <2>3 DEF Gives
    <3>2. {Truth(w = 0) : w \in m} = {Truth(v = 0)}
      BY <3>1
    <3> DEFINE x == Truth(v = 0)
    <3>3. x \in Ints /\ Meaning(t, g)[tree] = {x}
      BY <2>1, <3>2
    <3>4. Call(t, g, tree.name, token) = Not(Number(v))
      BY <1>2, <3>1 DEF Call
    <3>5. Not(Number(v)) = Number(x)
      BY DEF Not, Number
    <3>6. Valued(Call(t, g, tree.name, token), x)
      BY <3>4, <3>5 DEF Valued, Number
    <3>. QED
      BY <3>3, <3>6
  <2>. QED
    BY <2>2, <2>3 DEF Needed
<1>3. CASE tree.name = "count"
  <2>1. Meaning(t, g)[tree] = Ints \cap SizeMeans(g, arg)
    BY <1>1, <1>3
  <2> DEFINE size == CountIn(g, Key(arg.word))
             token == Token(arg.word)
  <2>2. SizeMeans(g, arg) =
          IF arg.is = "word" /\ arg.word \notin Numeral /\ size.outcome = "found" THEN {size.value} ELSE {}
    BY DEF SizeMeans
  <2>. HIDE DEF size
  <2>3. arg.is = "word" /\ arg.word \notin Numeral /\ size.outcome = "found"
    BY <2>1, <2>2
  <2>4. size.value \in Ints /\ Meaning(t, g)[tree] = {size.value}
    BY <2>1, <2>2, <2>3
  <2>5. token.type = "id" /\ token.value = arg.word
    <3>1. arg \in Tree
      <4>1. Below(tree) = {arg}
        BY DEF Below
      <4>. QED
        BY <4>1, TreeIs
    <3>2. token.type \in {"real", "id"} /\ token.value = arg.word
      BY <2>3, <3>1, TreeIs DEF TreeOK, Token
    <3>3. token.type # "real"
      BY <2>3 DEF Token
    <3>. QED
      BY <3>2, <3>3
  <2>. HIDE DEF token
  <2>6. Call(t, g, tree.name, token) = size
    BY <1>3, <2>5 DEF Call, Count, size
  <2>7. Valued(Call(t, g, tree.name, token), size.value)
    BY <2>3, <2>6 DEF Valued
  <2>. QED
    BY <2>3, <2>4, <2>7 DEF Needed, token
<1>4. tree.name \in {"not", "count"}
  BY <1>1
<1>. QED
  BY <1>2, <1>3, <1>4

\* Two operands that have been fetched.
LEMMA BinaryIs ==
  \A op \in DOMAIN Precedence : \A a, b \in Ints :
    /\ op = "/" /\ b # 0 => Valued(Binary(op, Number(a), Number(b)), Apply(op, a, b))
    /\ op \notin {"/", "&", "&&", "|", "||"} => Valued(Binary(op, Number(a), Number(b)), Apply(op, a, b))
    /\ op \in {"&", "&&"} => Valued(Binary(op, Number(a), Number(b)), Truth(a # 0 /\ b # 0))
    /\ op \in {"|", "||"} => Valued(Binary(op, Number(a), Number(b)), Truth(a # 0 \/ b # 0))
    /\ op \in {"&", "&&"} /\ a = 0 => \A r : Valued(Binary(op, Number(a), r), 0)
    /\ op \in {"|", "||"} /\ a # 0 => \A r : Valued(Binary(op, Number(a), r), 1)
<1>1. TAKE op \in DOMAIN Precedence
<1>2. TAKE a, b \in Ints
<1>3. Precedence[op] = 1 <=> op \in {"&", "&&", "|", "||"}
  BY DEF Precedence
<1>4. Number(a).outcome = "found" /\ Number(a).value = a /\ Number(b).outcome = "found" /\ Number(b).value = b
  BY DEF Number
<1>5. \A n : Valued(Number(n), n)
  BY DEF Number, Valued
<1>6. ASSUME op \notin {"&", "&&", "|", "||"}, op = "/" => b # 0
      PROVE  Valued(Binary(op, Number(a), Number(b)), Apply(op, a, b))
  <2>1. Binary(op, Number(a), Number(b)) = Number(Apply(op, a, b))
    BY <1>3, <1>4, <1>6 DEF Binary
  <2>. QED
    BY <1>5, <2>1
<1>7. ASSUME op \in {"&", "&&", "|", "||"}, NEW r
      PROVE  Binary(op, Number(a), r) = Junction(op, Number(a), r)
  BY <1>3, <1>7 DEF Binary
<1>8. ASSUME op \in {"&", "&&"}
      PROVE  /\ Valued(Binary(op, Number(a), Number(b)), Truth(a # 0 /\ b # 0))
             /\ a = 0 => \A r : Valued(Binary(op, Number(a), r), 0)
  <2>1. \A r : Binary(op, Number(a), r) = Junction(op, Number(a), r)
    BY <1>7, <1>8
  <2>2. a = 0 => \A r : Junction(op, Number(a), r) = Number(0)
    BY <1>4, <1>8 DEF Junction, Truth
  <2>3. a # 0 => Junction(op, Number(a), Number(b)) = Number(Truth(b # 0))
    BY <1>4, <1>8 DEF Junction
  <2>4. (a = 0 => Truth(a # 0 /\ b # 0) = 0) /\ (a # 0 => Truth(a # 0 /\ b # 0) = Truth(b # 0))
    BY DEF Truth
  <2>. QED
    BY <1>5, <2>1, <2>2, <2>3, <2>4
<1>9. ASSUME op \in {"|", "||"}
      PROVE  /\ Valued(Binary(op, Number(a), Number(b)), Truth(a # 0 \/ b # 0))
             /\ a # 0 => \A r : Valued(Binary(op, Number(a), r), 1)
  <2>1. \A r : Binary(op, Number(a), r) = Junction(op, Number(a), r)
    BY <1>7, <1>9
  <2>2. a # 0 => \A r : Junction(op, Number(a), r) = Number(1)
    BY <1>4, <1>9 DEF Junction, Truth
  <2>3. a = 0 => Junction(op, Number(a), Number(b)) = Number(Truth(b # 0))
    BY <1>4, <1>9 DEF Junction
  <2>4. (a # 0 => Truth(a # 0 \/ b # 0) = 1) /\ (a = 0 => Truth(a # 0 \/ b # 0) = Truth(b # 0))
    BY DEF Truth
  <2>. QED
    BY <1>5, <2>1, <2>2, <2>3, <2>4
<1>. QED
  BY <1>6, <1>8, <1>9

\* The value of an operator, of what is fetched for its operands.
LEMMA OpValue ==
  ASSUME NEW t, NEW g, NEW tree \in Tree, tree.is = "op", Meaning(t, g)[tree] # {}
  PROVE  /\ Meaning(t, g)[tree.l] # {}
         /\ Needed(t, g, tree.r)
         /\ \A x, y : /\ Gives(t, g, x, tree.l)
                      /\ Meaning(t, g)[tree.r] # {} => Gives(t, g, y, tree.r)
                      => \E v \in Ints : /\ Meaning(t, g)[tree] = {v}
                                         /\ Valued(Binary(tree.op, Fetch(t, g, x), Fetch(t, g, y)), v)
<1> DEFINE op == tree.op
           l == Meaning(t, g)[tree.l]
           r == Meaning(t, g)[tree.r]
           late == tree.r.is = "word"
           m == Meaning(t, g)[tree]
           both == {Apply(op, a, b) : a \in l, b \in r}
           or == {Truth(a # 0 \/ b # 0) : a \in l, b \in r}
           and == {Truth(a # 0 /\ b # 0) : a \in l, b \in r}
<1>1. m = Ints \cap OpMeans(op, l, r, late)
  <2>1. m = MeaningOf(Meaning(t, g), t, g, tree)
    BY ValueIs
  <2>. QED
    BY <2>1 DEF MeaningOf
<1>2. OpMeans(op, l, r, late) =
        CASE op = "/" -> IF 0 \in r THEN {} ELSE both
          [] op \in {"&", "&&"} -> IF l = {0} /\ late THEN {0} ELSE and
          [] op \in {"|", "||"} -> IF l # {} /\ 0 \notin l /\ late THEN {1} ELSE or
          [] OTHER -> both
  BY DEF OpMeans
<1>3. op \in DOMAIN Precedence /\ m # {}
  BY TreeIs DEF TreeOK
<1>. HIDE DEF op, l, r, late, m
<1>4. ASSUME NEW a \in Ints, NEW b \in Ints, l = {a}, r = {b}
      PROVE  both = {Apply(op, a, b)} /\ or = {Truth(a # 0 \/ b # 0)} /\ and = {Truth(a # 0 /\ b # 0)}
  BY <1>4
<1>5. \/ /\ op \in {"&", "&&"} /\ l = {0} /\ late /\ m = {0}
      \/ /\ op \in {"|", "||"} /\ l # {} /\ 0 \notin l /\ late /\ m = {1}
      \/ /\ l # {} /\ r # {}
         /\ \/ op = "/" /\ 0 \notin r /\ m = Ints \cap both
            \/ op \in {"&", "&&"} /\ m = Ints \cap and
            \/ op \in {"|", "||"} /\ m = Ints \cap or
            \/ op \notin {"/", "&", "&&", "|", "||"} /\ m = Ints \cap both
  <2>1. both # {} \/ or # {} \/ and # {} => l # {} /\ r # {}
    OBVIOUS
  <2>. HIDE DEF both, or, and
  <2>2. CASE op = "/"
    BY <1>1, <1>2, <1>3, <2>1, <2>2
  <2>3. CASE op \in {"&", "&&"}
    <3>1. OpMeans(op, l, r, late) = IF l = {0} /\ late THEN {0} ELSE and
      BY <1>2, <2>3
    <3>2. CASE l = {0} /\ late
      BY <1>1, <1>3, <2>3, <3>1, <3>2
    <3>3. CASE ~(l = {0} /\ late)
      BY <1>1, <1>3, <2>1, <2>3, <3>1, <3>3
    <3>. QED
      BY <3>2, <3>3
  <2>4. CASE op \in {"|", "||"}
    <3>1. OpMeans(op, l, r, late) = IF l # {} /\ 0 \notin l /\ late THEN {1} ELSE or
      BY <1>2, <2>4
    <3>2. CASE l # {} /\ 0 \notin l /\ late
      BY <1>1, <1>3, <2>4, <3>1, <3>2
    <3>3. CASE ~(l # {} /\ 0 \notin l /\ late)
      BY <1>1, <1>3, <2>1, <2>4, <3>1, <3>3
    <3>. QED
      BY <3>2, <3>3
  <2>5. CASE op \notin {"/", "&", "&&", "|", "||"}
    BY <1>1, <1>2, <1>3, <2>1, <2>5
  <2>. QED
    BY <2>2, <2>3, <2>4, <2>5
<1>. HIDE DEF both, or, and
<1>6. l # {} /\ Needed(t, g, tree.r)
  BY <1>5 DEF Needed, l, r, late
<1>7. ASSUME NEW x, NEW y, Gives(t, g, x, tree.l), r # {} => Gives(t, g, y, tree.r)
      PROVE  \E v \in Ints : m = {v} /\ Valued(Binary(op, Fetch(t, g, x), Fetch(t, g, y)), v)
  <2>1. PICK a \in Ints : l = {a} /\ Fetch(t, g, x) = Number(a)
    BY <1>7 DEF Gives, l
  <2>2. CASE op \in {"&", "&&"} /\ l = {0} /\ late /\ m = {0}
    <3>1. a = 0
      BY <2>1, <2>2
    <3>2. Valued(Binary(op, Number(a), Fetch(t, g, y)), 0)
      BY <1>3, <2>2, <3>1, BinaryIs
    <3>. QED
      BY <2>1, <2>2, <3>1, <3>2
  <2>3. CASE op \in {"|", "||"} /\ l # {} /\ 0 \notin l /\ late /\ m = {1}
    <3>1. a # 0
      BY <2>1, <2>3
    <3>2. Valued(Binary(op, Number(a), Fetch(t, g, y)), 1)
      BY <1>3, <2>3, <3>1, BinaryIs
    <3>3. 1 \in Ints
      BY <1>1, <2>3
    <3>. QED
      BY <2>1, <2>3, <3>2, <3>3
  <2>4. CASE r # {}
    <3>1. PICK b \in Ints : r = {b} /\ Fetch(t, g, y) = Number(b)
      BY <1>7, <2>4 DEF Gives, r
    <3>2. both = {Apply(op, a, b)} /\ or = {Truth(a # 0 \/ b # 0)} /\ and = {Truth(a # 0 /\ b # 0)}
      BY <1>4, <2>1, <3>1
    <3>3. ASSUME NEW v, m = Ints \cap {v} PROVE v \in Ints /\ m = {v}
      BY <1>3, <3>3
    <3>4. CASE op = "/" /\ 0 \notin r /\ m = Ints \cap both
      <4>1. b # 0
        BY <3>1, <3>4
      <4>2. Valued(Binary(op, Number(a), Number(b)), Apply(op, a, b))
        BY <1>3, <3>4, <4>1, BinaryIs
      <4>. QED
        BY <2>1, <3>1, <3>2, <3>3, <3>4, <4>2
    <3>5. CASE op \in {"&", "&&"} /\ m = Ints \cap and
      <4>1. Valued(Binary(op, Number(a), Number(b)), Truth(a # 0 /\ b # 0))
        BY <1>3, <3>5, BinaryIs
      <4>. QED
        BY <2>1, <3>1, <3>2, <3>3, <3>5, <4>1
    <3>6. CASE op \in {"|", "||"} /\ m = Ints \cap or
      <4>1. Valued(Binary(op, Number(a), Number(b)), Truth(a # 0 \/ b # 0))
        BY <1>3, <3>6, BinaryIs
      <4>. QED
        BY <2>1, <3>1, <3>2, <3>3, <3>6, <4>1
    <3>7. CASE op \notin {"/", "&", "&&", "|", "||"} /\ m = Ints \cap both
      <4>1. Valued(Binary(op, Number(a), Number(b)), Apply(op, a, b))
        BY <1>3, <3>7, BinaryIs
      <4>. QED
        BY <2>1, <3>1, <3>2, <3>3, <3>7, <4>1
    <3>. QED
      BY <1>5, <2>2, <2>3, <2>4, <3>4, <3>5, <3>6, <3>7
  <2>. QED
    BY <1>5, <2>2, <2>3, <2>4
<1>. QED
  BY <1>6, <1>7 DEF l, r, m, op

\* What evaluate() has when its stack is such and nothing went wrong.
Holding(stack) == [outcome |-> "found", stack |-> stack]

\* Its fields.
LEMMA HoldingIs ==
  \A stack : Holding(stack).outcome = "found" /\ Holding(stack).stack = stack
BY DEF Holding

\* The operands go, the result comes.
LEMMA ReplacedIs ==
  ASSUME NEW A, NEW base \in Seq(A), NEW stack \in Seq(A), NEW n \in Nat, Len(stack) = Len(base) + n, Under(base, stack),
         NEW result, NEW v, Valued(result, v)
  PROVE  Replaced(Holding(stack), n, result) = Holding(Append(base, Token(ToString(v))))
<1> DEFINE new == Token(ToString(v))
           s == Holding(stack)
<1>1. SubSeq(stack, 1, Len(base)) = base
  BY UnderIs
<1>2. Len(stack) - n = Len(base)
  <2>1. Len(base) \in Nat
    OBVIOUS
  <2>. QED
    BY <2>1
<1>3. result.outcome = "found" /\ result.value = v
  BY DEF Valued
<1>4. s.stack = stack
  BY HoldingIs
<1>5. Replaced(s, n, result) = [s EXCEPT !.stack = Append(SubSeq(@, 1, Len(@) - n), Token(ToString(result.value)))]
  BY <1>3 DEF Replaced
<1>6. Replaced(s, n, result) = [s EXCEPT !.stack = Append(base, new)]
  BY <1>1, <1>2, <1>3, <1>4, <1>5
<1>. HIDE DEF new
<1>. QED
  BY <1>6 DEF Holding, new

\* An operand goes on the stack.
LEMMA StepOperand ==
  ASSUME NEW t, NEW g, NEW stack, NEW token, token.type \notin {"op", "call"}
  PROVE  Step(t, g, Holding(stack), token) = Holding(Append(stack, token))
<1> DEFINE s == Holding(stack)
<1>1. s.outcome = "found" /\ s.stack = stack
  BY HoldingIs
<1>. HIDE DEF s
<1>2. Step(t, g, s, token) = [s EXCEPT !.stack = Append(@, token)]
  BY <1>1 DEF Step
<1>. QED
  BY <1>2 DEF s, Holding

\* A call takes one from the stack.
LEMMA StepCall ==
  ASSUME NEW t, NEW g, NEW A, NEW base \in Seq(A), NEW x \in A, NEW name, NEW v, Valued(Call(t, g, name, x), v)
  PROVE  Step(t, g, Holding(Append(base, x)), [type |-> "call", value |-> name]) = Holding(Append(base, Token(ToString(v))))
<1> DEFINE stack == Append(base, x)
           s == Holding(stack)
           token == [type |-> "call", value |-> name]
<1>1. s.outcome = "found" /\ s.stack = stack
  BY HoldingIs
<1>2. stack \in Seq(A) /\ Len(stack) = Len(base) + 1 /\ stack[Len(base) + 1] = x /\ Under(base, stack)
  <2>1. stack \in Seq(A) /\ Len(stack) = Len(base) + 1 /\ stack[Len(base) + 1] = x /\ \A i \in 1 .. Len(base) : stack[i] = base[i]
    BY AppendProperties
  <2>2. Len(base) \in Nat
    OBVIOUS
  <2>. QED
    BY <2>1, <2>2 DEF Under
<1>3. token.type = "call" /\ token.value = name /\ Arity(token) = 1
  BY DEF Arity
<1>4. Len(base) \in Nat
  OBVIOUS
<1>. HIDE DEF token, s, stack
<1>5. Step(t, g, s, token) = Replaced(s, 1, Call(t, g, name, x))
  <2>1. ~(Len(s.stack) < 1) /\ s.stack[Len(s.stack)] = x
    BY <1>1, <1>2, <1>4
  <2>. QED
    BY <1>1, <1>3, <2>1 DEF Step
<1>6. Replaced(Holding(stack), 1, Call(t, g, name, x)) = Holding(Append(base, Token(ToString(v))))
  BY <1>2, ReplacedIs
<1>. QED
  BY <1>5, <1>6 DEF s, token, stack

\* An operator takes two.
LEMMA StepOp ==
  ASSUME NEW t, NEW g, NEW A, NEW base \in Seq(A), NEW x \in A, NEW y \in A, NEW token, token.type = "op",
         NEW v, Valued(Binary(token.value, Fetch(t, g, x), Fetch(t, g, y)), v)
  PROVE  Step(t, g, Holding(Append(Append(base, x), y)), token) = Holding(Append(base, Token(ToString(v))))
<1> DEFINE low == Append(base, x)
           stack == Append(low, y)
           s == Holding(stack)
           n == Len(base)
<1>1. s.outcome = "found" /\ s.stack = stack
  BY HoldingIs
<1>2. low \in Seq(A) /\ Len(low) = n + 1 /\ low[n + 1] = x /\ \A i \in 1 .. n : low[i] = base[i]
  BY AppendProperties
<1>. HIDE DEF low
<1>3. stack \in Seq(A) /\ Len(stack) = Len(low) + 1 /\ stack[Len(low) + 1] = y /\ \A i \in 1 .. Len(low) : stack[i] = low[i]
  BY <1>2, AppendProperties
<1>4. n \in Nat
  OBVIOUS
<1>. HIDE DEF s, stack, n
<1>5. Len(stack) = n + 2 /\ stack[n + 2] = y /\ stack[n + 1] = x
  <2>1. n + 1 + 1 = n + 2 /\ n + 1 \in 1 .. n + 1
    BY <1>4
  <2>. QED
    BY <1>2, <1>3, <2>1
<1>6. Under(base, stack)
  <2>1. n <= n + 2 /\ \A i \in 1 .. n : i \in 1 .. n + 1
    BY <1>4
  <2>2. n = Len(base)
    BY DEF n
  <2>3. \A i \in 1 .. n : stack[i] = base[i]
    BY <1>2, <1>3, <2>1
  <2>. QED
    BY <1>5, <2>1, <2>2, <2>3 DEF Under
<1>7. Step(t, g, s, token) = Replaced(s, 2, Binary(token.value, Fetch(t, g, x), Fetch(t, g, y)))
  <2>1. Arity(token) = 2
    BY DEF Arity
  <2>2. \A k : k = n + 2 => ~(k < 2) /\ k - 1 = n + 1
    BY <1>4
  <2>3. Len(s.stack) = n + 2 /\ s.stack[n + 2] = y /\ s.stack[n + 1] = x
    BY <1>1, <1>5
  <2>4. ~(Len(s.stack) < 2) /\ Len(s.stack) - 1 = n + 1
    BY <2>2, <2>3
  <2>5. s.stack[Len(s.stack)] = y /\ s.stack[Len(s.stack) - 1] = x
    BY <2>3, <2>4
  <2>. QED
    BY <1>1, <2>1, <2>4, <2>5 DEF Step
<1>8. Replaced(Holding(stack), 2, Binary(token.value, Fetch(t, g, x), Fetch(t, g, y))) = Holding(Append(base, Token(ToString(v))))
  <2>1. stack \in Seq(A) /\ Len(stack) = Len(base) + 2 /\ Under(base, stack)
    BY <1>3, <1>5, <1>6 DEF n
  <2> DEFINE result == Binary(token.value, Fetch(t, g, x), Fetch(t, g, y))
  <2>2. Valued(result, v)
    OBVIOUS
  <2>. HIDE DEF result
  <2>3. Replaced(Holding(stack), 2, result) = Holding(Append(base, Token(ToString(v))))
    BY <2>1, <2>2, ReplacedIs
  <2>. QED
    BY <2>3 DEF result
<1>. QED
  BY <1>7, <1>8 DEF s, stack, low

-----------------------------------------------------------------------------
(* A tree, from its words to the stack of evaluate() *)

\* The output and the stack of rpn() behind the first a tokens.
Stage(words, a) == Shunting(Tokenize(words))[a]

\* Before the words of a tree: what is on top of the stack of rpn() binds less,
\* and the output so far leaves evaluate() with a stack.
Started(words, t, g, tree, i, a, stack) ==
  /\ Written(words, i, Infix[tree]) /\ Reached(words, i, a)
  /\ Stage(words, a) \in States(Symbol(words)) /\ Fits(Stage(words, a).stack, Rank(tree))
  /\ stack \in Seq(Symbol(words)) /\ Ran(t, g, Stage(words, a).out) = Holding(stack)

\* Behind them: the stack of rpn() has operators of the tree above what it had,
\* and once they are popped, evaluate() has the value of the tree on its stack.
Ended(words, t, g, tree, i, a, stack, b, token) ==
  /\ Reached(words, i + Len(Infix[tree]), b) /\ Stage(words, b) \in States(Symbol(words))
  /\ Under(Stage(words, a).stack, Stage(words, b).stack)
  /\ Above(Stage(words, b).stack, Len(Stage(words, a).stack), Rank(tree))
  /\ token \in Symbol(words)
  /\ Ran(t, g, Drained(Stage(words, b), Len(Stage(words, a).stack))) = Holding(Append(stack, token))
  /\ tree.is = "word" => token = Token(tree.word)
  /\ Meaning(t, g)[tree] # {} => Gives(t, g, token, tree)

\* The words of a tree, wherever they stand, leave its value on the stack.
Works(words, t, g, tree) ==
  Needed(t, g, tree) =>
    \A i, a, stack : Started(words, t, g, tree, i, a, stack) =>
      \E b, token : Ended(words, t, g, tree, i, a, stack, b, token)

\* A token that is read is shunted.
LEMMA StageIs ==
  ASSUME NEW words, NEW a, NEW j, NEW x, Read(words, a, j, x)
  PROVE  Reached(words, j, a + 1) /\ Stage(words, a + 1) = Shunt(Stage(words, a), x)
BY DEF Read, Stage

\* Where the stack of rpn() is back to what it was.
LEMMA Levelled ==
  ASSUME NEW A, NEW base \in Seq(A), NEW out \in Seq(A), NEW rank
  PROVE  LET s == [out |-> out, stack |-> base]
         IN s \in States(A) /\ Under(base, s.stack) /\ Above(s.stack, Len(base), rank) /\ Drained(s, Len(base)) = out
<1> DEFINE s == [out |-> out, stack |-> base]
<1>1. s \in States(A) /\ s.stack = base /\ s.out = out
  BY DEF States
<1>. HIDE DEF s
<1>2. Len(base) \in Nat
  OBVIOUS
<1>3. Under(base, s.stack)
  BY <1>1, <1>2 DEF Under
<1>4. Above(s.stack, Len(base), rank)
  BY <1>1, <1>2 DEF Above
<1>5. Drained(s, Len(base)) = out
  <2>1. Len(s.stack) \in 0 .. Len(s.stack)
    BY <1>1, <1>2
  <2>2. Drained(s, Len(s.stack)) = s.out
    BY <1>1, <2>1, DrainedIs
  <2>. QED
    BY <1>1, <2>2
<1>. QED
  BY <1>1, <1>3, <1>4, <1>5 DEF s

\* A word goes through.
LEMMA WordWorks ==
  ASSUME NEW words, IsList(words), NEW t, NEW g, NEW tree \in Tree, tree.is = "word", Infix[tree] = <<tree.word>>
  PROVE  Works(words, t, g, tree)
<1>1. SUFFICES ASSUME NEW i, NEW a, NEW stack, Started(words, t, g, tree, i, a, stack)
               PROVE  \E b, token : Ended(words, t, g, tree, i, a, stack, b, token)
  BY DEF Works
<1> DEFINE A == Symbol(words)
           s == Stage(words, a)
           token == Token(tree.word)
<1>2. i \in 1 .. Len(words) /\ words[i] = tree.word
  <2>1. Len(Infix[tree]) = 1 /\ Infix[tree][1] = tree.word
    OBVIOUS
  <2>2. Written(words, i, Infix[tree]) /\ Len(words) \in Nat
    BY <1>1, ListIs DEF Started
  <2>3. i \in Nat \ {0} /\ i + 1 - 1 <= Len(words) /\ words[i + 1 - 1] = Infix[tree][1]
    <3>1. 1 \in 1 .. 1
      OBVIOUS
    <3>. QED
      BY <2>1, <2>2, <3>1 DEF Written
  <2>4. i + 1 - 1 = i
    BY <2>3
  <2>. QED
    BY <2>1, <2>2, <2>3, <2>4
<1>3. token.type \in {"real", "id"} /\ tree.word \notin DOMAIN Precedence
  BY TreeIs, WordIs DEF TreeOK
<1>4. Reached(words, i, a) /\ s \in States(A) /\ stack \in Seq(A) /\ Ran(t, g, s.out) = Holding(stack)
  BY <1>1 DEF Started
<1>5. Reached(words, i + 1, a + 1) /\ Stage(words, a + 1) = Shunt(s, token)
  <2>1. Read(words, a, i + 1, Token(words[i]))
    BY <1>2, <1>3, <1>4, WordRead
  <2>. QED
    BY <1>2, <2>1, StageIs
<1>6. token \in A
  <2>1. i \in DOMAIN words
    BY <1>2, ListIs
  <2>. QED
    BY <1>2, <2>1, TokenIs
<1>. HIDE DEF token, A, s
<1>7. s.out \in Seq(A) /\ s.stack \in Seq(A) /\ s = [out |-> s.out, stack |-> s.stack]
  BY <1>4 DEF States
<1> DEFINE out == Append(s.out, token)
<1>8. Stage(words, a + 1) = [out |-> out, stack |-> s.stack]
  <2>1. Shunt(s, token) = [s EXCEPT !.out = Append(@, token)]
    BY <1>3 DEF Shunt
  <2>. QED
    BY <1>5, <1>7, <2>1
<1>9. out \in Seq(A) /\ Ran(t, g, out) = Holding(Append(stack, token))
  <2>1. IsList(s.out)
    BY <1>7, ListOf
  <2>2. Ran(t, g, out) = Step(t, g, Holding(stack), token)
    BY <1>4, <2>1, RanIs
  <2>. QED
    BY <1>3, <1>6, <1>7, <2>2, StepOperand
<1>. HIDE DEF out
<1>10. /\ Stage(words, a + 1) \in States(A)
       /\ Under(s.stack, Stage(words, a + 1).stack)
       /\ Above(Stage(words, a + 1).stack, Len(s.stack), Rank(tree))
       /\ Drained(Stage(words, a + 1), Len(s.stack)) = out
  <2>1. out \in Seq(A) /\ s.stack \in Seq(A)
    BY <1>7, <1>9
  <2>. QED
    BY <1>8, <2>1, Levelled
<1>11. i + Len(Infix[tree]) = i + 1
  BY <1>2
<1>12. Meaning(t, g)[tree] # {} => Gives(t, g, token, tree)
  BY WordValue DEF token
<1>13. Ended(words, t, g, tree, i, a, stack, a + 1, token)
  BY <1>5, <1>6, <1>9, <1>10, <1>11, <1>12 DEF Ended, A, s, token
<1>. QED
  BY <1>13

\* A function or a parenthesis goes on the stack of rpn().
LEMMA Pushed ==
  ASSUME NEW words, IsList(words), NEW i \in 1 .. Len(words), NEW a, Reached(words, i, a),
         NEW s \in States(Symbol(words)), Stage(words, a) = s, words[i] \in FunctionNames \cup {"("}
  PROVE  /\ Reached(words, i + 1, a + 1) /\ Token(words[i]) \in Symbol(words)
         /\ Stage(words, a + 1) = [out |-> s.out, stack |-> Append(s.stack, Token(words[i]))]
         /\ Stage(words, a + 1) \in States(Symbol(words))
<1> DEFINE A == Symbol(words)
           token == Token(words[i])
<1>1. words[i] \notin DOMAIN Precedence /\ token.type \in {"function", "open"}
  <2>1. \A name \in FunctionNames : Token(name).type = "function"
    BY WordIs
  <2>2. Token("(").type = "open"
    BY WordIs
  <2>. QED
    BY <2>1, <2>2, WordIs
<1>2. Reached(words, i + 1, a + 1) /\ Stage(words, a + 1) = Shunt(s, token)
  <2>1. Read(words, a, i + 1, token)
    BY <1>1, WordRead
  <2>. QED
    BY <2>1, StageIs
<1>3. token \in A
  <2>1. i \in DOMAIN words
    BY ListIs
  <2>. QED
    BY <2>1, TokenIs
<1>. HIDE DEF token, A
<1>4. Shunt(s, token) = [s EXCEPT !.stack = Append(@, token)]
  BY <1>1 DEF Shunt
<1>5. s \in States(A) /\ s.out \in Seq(A) /\ s.stack \in Seq(A)
  BY StatesIs DEF A
<1>6. Append(s.stack, token) \in Seq(A)
  BY <1>3, <1>5
<1>7. [s EXCEPT !.stack = Append(@, token)] = [out |-> s.out, stack |-> Append(s.stack, token)]
  <2>1. s = [out |-> s.out, stack |-> s.stack]
    BY <1>5, StatesIs
  <2>. QED
    BY <2>1
<1>8. Stage(words, a + 1) \in States(A)
  <2>1. [out |-> s.out, stack |-> Append(s.stack, token)] \in States(A)
    BY <1>5, <1>6, StatesIs
  <2>. QED
    BY <1>2, <1>4, <1>7, <2>1
<1>. QED
  BY <1>2, <1>3, <1>4, <1>7, <1>8 DEF token, A

\* The parenthesis is on the stack, above the function.
Opened(words, tree, i, a, s, c, low) ==
  /\ Reached(words, i + Len(Begin(tree)), c) /\ Stage(words, c) \in States(Symbol(words))
  /\ Stage(words, c) = [out |-> s.out, stack |-> Append(low, Token("("))]
  /\ low \in Seq(Symbol(words)) /\ Token("(") \in Symbol(words)
  /\ tree.is = "paren" => low = s.stack
  /\ tree.is = "call" => Token(tree.name) \in Symbol(words) /\ low = Append(s.stack, Token(tree.name))

\* The words before the parenthesis and itself are read.
LEMMA Opening ==
  ASSUME NEW words, IsList(words), NEW tree \in Tree, tree.is \in {"call", "paren"}, NEW i, NEW a, Reached(words, i, a),
         Written(words, i, Begin(tree)), NEW s \in States(Symbol(words)), Stage(words, a) = s
  PROVE  \E c, low : Opened(words, tree, i, a, s, c, low)
<1> DEFINE A == Symbol(words)
<1>1. Len(words) \in Nat
  BY ListIs
<1>2. s.out \in Seq(A) /\ s.stack \in Seq(A)
  BY DEF States
<1>3. CASE tree.is = "paren"
  <2>1. Len(Begin(tree)) = 1 /\ Begin(tree)[1] = "("
    BY <1>3 DEF Begin
  <2>2. i \in 1 .. Len(words) /\ words[i] = "("
    <3>1. i \in Nat \ {0} /\ i + 1 - 1 <= Len(words) /\ words[i + 1 - 1] = "("
      <4>1. 1 \in 1 .. 1
        OBVIOUS
      <4>. QED
        BY <2>1, <4>1 DEF Written
    <3>2. i + 1 - 1 = i
      BY <3>1
    <3>. QED
      BY <1>1, <3>1, <3>2
  <2>3. /\ Reached(words, i + 1, a + 1) /\ Token("(") \in A
        /\ Stage(words, a + 1) = [out |-> s.out, stack |-> Append(s.stack, Token("("))]
        /\ Stage(words, a + 1) \in States(A)
    BY <2>2, Pushed
  <2>4. Opened(words, tree, i, a, s, a + 1, s.stack)
    BY <1>2, <1>3, <2>1, <2>3 DEF Opened
  <2>. QED
    BY <2>4
<1>4. CASE tree.is = "call"
  <2> DEFINE f == Token(tree.name)
             low == Append(s.stack, f)
             r == [out |-> s.out, stack |-> low]
  <2>1. Len(Begin(tree)) = 2 /\ Begin(tree)[1] = tree.name /\ Begin(tree)[2] = "(" /\ tree.name \in FunctionNames
    BY <1>4, TreeIs DEF Begin, TreeOK
  <2>2. i \in 1 .. Len(words) /\ i + 1 \in 1 .. Len(words) /\ words[i] = tree.name /\ words[i + 1] = "("
    <3>1. /\ i \in Nat \ {0} /\ i + 2 - 1 <= Len(words)
          /\ words[i + 1 - 1] = tree.name /\ words[i + 2 - 1] = "("
      <4>1. 1 \in 1 .. 2 /\ 2 \in 1 .. 2
        OBVIOUS
      <4>. QED
        BY <2>1, <4>1 DEF Written
    <3>2. i + 1 - 1 = i /\ i + 2 - 1 = i + 1 /\ i \in 1 .. Len(words) /\ i + 1 \in 1 .. Len(words)
      BY <1>1, <3>1
    <3>. QED
      BY <3>1, <3>2
  <2>3. Reached(words, i + 1, a + 1) /\ f \in A /\ Stage(words, a + 1) = r /\ r \in States(A)
    <3>1. words[i] \in FunctionNames \cup {"("}
      BY <2>1, <2>2
    <3>2. /\ Reached(words, i + 1, a + 1) /\ Token(words[i]) \in Symbol(words)
          /\ Stage(words, a + 1) = [out |-> s.out, stack |-> Append(s.stack, Token(words[i]))]
          /\ Stage(words, a + 1) \in States(Symbol(words))
      BY <2>2, <3>1, Pushed
    <3>. QED
      BY <2>2, <3>2
  <2>4. low \in Seq(A) /\ r.out = s.out /\ r.stack = low
    BY <1>2, <2>3
  <2>. HIDE DEF low, r
  <2>5. /\ Reached(words, i + 1 + 1, a + 1 + 1) /\ Token("(") \in A
        /\ Stage(words, a + 1 + 1) = [out |-> r.out, stack |-> Append(r.stack, Token("("))]
        /\ Stage(words, a + 1 + 1) \in States(A)
    <3>1. words[i + 1] \in FunctionNames \cup {"("}
      BY <2>2
    <3>2. /\ Reached(words, i + 1 + 1, a + 1 + 1) /\ Token(words[i + 1]) \in A
          /\ Stage(words, a + 1 + 1) = [out |-> r.out, stack |-> Append(r.stack, Token(words[i + 1]))]
          /\ Stage(words, a + 1 + 1) \in States(A)
      BY <2>2, <2>3, <3>1, Pushed
    <3>. QED
      BY <2>2, <3>2
  <2>6. i + 1 + 1 = i + Len(Begin(tree))
    BY <2>1, <2>2
  <2>7. Opened(words, tree, i, a, s, a + 1 + 1, low)
    BY <1>4, <2>3, <2>4, <2>5, <2>6 DEF Opened, low
  <2>. QED
    BY <2>7
<1>. QED
  BY <1>3, <1>4

\* Behind the words in parentheses: they are closed, and what is above them is
\* on the output.
Closed(words, t, g, i, c, low, stack, token, b, d) ==
  /\ Reached(words, i, b + 1) /\ d \in Seq(Symbol(words)) /\ token \in Symbol(words)
  /\ Stage(words, b + 1) = CallTop([out |-> d, stack |-> low])
  /\ Ran(t, g, d) = Holding(Append(stack, token))

\* The closing parenthesis is read.
LEMMA Closing ==
  ASSUME NEW words, IsList(words), NEW t, NEW g, NEW arg, IsList(Infix[arg]), NEW i, NEW j, j = i + Len(Infix[arg]), Written(words, j, <<")">>),
         NEW c, NEW low \in Seq(Symbol(words)), NEW open \in Symbol(words), open.type = "open", Stage(words, c).stack = Append(low, open),
         NEW stack, NEW b, NEW token, Ended(words, t, g, arg, i, c, stack, b, token)
  PROVE  \E d : Closed(words, t, g, j + 1, c, low, stack, token, b, d)
<1> DEFINE A == Symbol(words)
           s == Stage(words, b)
           top == Append(low, open)
           n == Len(low)
           d == Drained(s, n + 1)
<1>1. Len(words) \in Nat /\ n \in Nat
  BY ListIs
<1>2. j \in 1 .. Len(words) /\ words[j] = ")"
  <2>1. Len(<<")">>) = 1 /\ <<")">>[1] = ")" /\ 1 \in 1 .. 1
    OBVIOUS
  <2>2. j \in Nat \ {0} /\ j + 1 - 1 <= Len(words) /\ words[j + 1 - 1] = ")"
    BY <2>1 DEF Written
  <2>3. j + 1 - 1 = j
    BY <2>2
  <2>. QED
    BY <1>1, <2>2, <2>3
<1>3. /\ Reached(words, j, b) /\ s \in States(A) /\ Under(top, s.stack) /\ Above(s.stack, Len(top), Rank(arg)) /\ token \in A
      /\ Ran(t, g, Drained(s, Len(top))) = Holding(Append(stack, token))
  BY DEF Ended
<1>4. Reached(words, j + 1, b + 1) /\ Stage(words, b + 1) = Shunt(s, Token(")"))
  <2>1. Read(words, b, j + 1, Token(")"))
    BY <1>2, <1>3, WordIs, WordRead
  <2>. QED
    BY <2>1, StageIs
<1>5. Shunt(s, Token(")")) = Close(s)
  <2>1. Token(")").type = "close"
    BY WordIs
  <2>. QED
    BY <2>1 DEF Shunt
<1>6. Len(top) = n + 1 /\ top \in Seq(A)
  BY AppendProperties
<1>. HIDE DEF A, s, top, n, d
<1>7. Close(s) = CallTop([out |-> d, stack |-> low])
  <2>1. Above(s.stack, Len(low) + 1, Rank(arg)) /\ Under(Append(low, open), s.stack)
    BY <1>3, <1>6 DEF n, top
  <2>2. low \in Seq(A) /\ open \in A
    BY DEF A
  <2>3. Close(s) = CallTop([out |-> Drained(s, Len(low) + 1), stack |-> low])
    BY <1>3, <2>1, <2>2, CloseIs
  <2>. QED
    BY <2>3 DEF d, n
<1>8. d \in Seq(A)
  <2>1. s.stack \in Seq(A)
    BY <1>3 DEF States
  <2>2. Len(s.stack) \in Nat
    BY <2>1
  <2>3. n + 1 \in 0 .. Len(s.stack)
    <3>1. n + 1 <= Len(s.stack)
      BY <1>3, <1>6 DEF Under
    <3>. QED
      BY <1>1, <2>2, <3>1
  <2>. QED
    BY <1>3, <2>3, DrainedIs DEF d
<1>9. Ran(t, g, d) = Holding(Append(stack, token))
  BY <1>3, <1>6 DEF d
<1>10. Closed(words, t, g, j + 1, c, low, stack, token, b, d)
  BY <1>3, <1>4, <1>5, <1>7, <1>8, <1>9 DEF Closed, A
<1>. QED
  BY <1>10

\* A call and a tree in parentheses go through, if what is in them does.
LEMMA EnclosedWorks ==
  ASSUME NEW words, IsList(words), NEW t, NEW g, NEW tree \in Tree, tree.is \in {"call", "paren"},
         IsList(Begin(tree)), IsList(Infix[tree.arg]), Joins(Infix[tree], Begin(tree), Infix[tree.arg], <<")">>),
         Works(words, t, g, tree.arg)
  PROVE  Works(words, t, g, tree)
<1>1. SUFFICES ASSUME Needed(t, g, tree), NEW i, NEW a, NEW stack, Started(words, t, g, tree, i, a, stack)
               PROVE  \E b, token : Ended(words, t, g, tree, i, a, stack, b, token)
  BY DEF Works
<1> DEFINE A == Symbol(words)
           s == Stage(words, a)
           arg == tree.arg
           k == i + Len(Begin(tree))
           j == k + Len(Infix[arg])
           open == Token("(")
<1>2. Meaning(t, g)[tree] # {}
  BY <1>1 DEF Needed
<1>3. /\ Written(words, i, Infix[tree]) /\ Reached(words, i, a) /\ s \in States(A) /\ Fits(s.stack, Rank(tree))
      /\ stack \in Seq(A) /\ Ran(t, g, s.out) = Holding(stack)
  BY <1>1 DEF Started
<1>4. Written(words, i, Begin(tree)) /\ Written(words, k, Infix[arg]) /\ Written(words, j, <<")">>) /\ i + Len(Infix[tree]) = j + 1
  <2>1. IsList(<<")">>) /\ Len(<<")">>) = 1
    <3>1. <<")">> \in Seq({")"})
      OBVIOUS
    <3>. QED
      BY <3>1, ListOf
  <2> DEFINE all == Infix[tree]
             begin == Begin(tree)
             inner == Infix[arg]
             close == <<")">>
  <2>2. IsList(begin) /\ IsList(inner) /\ IsList(close) /\ Joins(all, begin, inner, close) /\ Written(words, i, all)
    BY <1>3, <2>1
  <2>. HIDE DEF all, begin, inner, close
  <2>3. Parts(words, i, all, begin, inner, close)
    BY <2>2, WrittenParts
  <2>. QED
    BY <2>1, <2>3 DEF Parts, all, begin, inner, close
<1>5. PICK c, low : Opened(words, tree, i, a, s, c, low)
  BY <1>3, <1>4, Opening
<1>6. /\ Reached(words, k, c) /\ Stage(words, c) \in States(A) /\ Stage(words, c).out = s.out /\ Stage(words, c).stack = Append(low, open)
      /\ low \in Seq(A) /\ open \in A
      /\ tree.is = "paren" => low = s.stack
      /\ tree.is = "call" => Token(tree.name) \in A /\ low = Append(s.stack, Token(tree.name))
  BY <1>5 DEF Opened
<1>7. open.type = "open"
  BY WordIs
<1>. HIDE DEF open, j, k, arg, s, A
<1>8. Started(words, t, g, arg, k, c, stack)
  <2>1. Last(Append(low, open)) = open /\ Append(low, open) # <<>>
    <3> DEFINE top == Append(low, open)
    <3>1. Len(top) = Len(low) + 1 /\ top[Len(low) + 1] = open /\ Len(low) \in Nat
      BY <1>6
    <3>. HIDE DEF top
    <3>2. Last(top) = open /\ top # <<>>
      BY <3>1 DEF Last
    <3>. QED
      BY <3>2 DEF top
  <2>2. Fits(Stage(words, c).stack, Rank(arg))
    BY <1>6, <1>7, <2>1 DEF Fits
  <2>. QED
    BY <1>3, <1>4, <1>6, <2>2 DEF Started, A
<1>9. Needed(t, g, arg)
  BY <1>2, ParenValue, CallValue DEF arg
<1>10. PICK b, token : Ended(words, t, g, arg, k, c, stack, b, token)
  BY <1>8, <1>9 DEF Works, arg
<1>11. PICK d : Closed(words, t, g, j + 1, c, low, stack, token, b, d)
  <2>1. IsList(Infix[arg]) /\ j = k + Len(Infix[arg])
    BY DEF arg, j
  <2>2. low \in Seq(Symbol(words)) /\ open \in Symbol(words)
    BY <1>6 DEF A
  <2>. QED
    BY <1>4, <1>6, <1>7, <1>10, <2>1, <2>2, Closing
<1>12. /\ Reached(words, i + Len(Infix[tree]), b + 1) /\ d \in Seq(A) /\ token \in A
       /\ Stage(words, b + 1) = CallTop([out |-> d, stack |-> low])
       /\ Ran(t, g, d) = Holding(Append(stack, token))
  BY <1>4, <1>11 DEF Closed, A
<1>13. /\ arg.is = "word" => token = Token(arg.word)
       /\ Meaning(t, g)[arg] # {} => Gives(t, g, token, arg)
  BY <1>10 DEF Ended
<1>14. s.out \in Seq(A) /\ s.stack \in Seq(A)
  BY <1>3 DEF States
<1>15. tree.is # "word"
  OBVIOUS
<1>16. CASE tree.is = "paren"
  <2>1. Stage(words, b + 1) = [out |-> d, stack |-> s.stack]
    <3>1. CallTop([out |-> d, stack |-> s.stack]) = [out |-> d, stack |-> s.stack]
      BY <1>3, UncalledIs
    <3>. QED
      BY <1>6, <1>12, <1>16, <3>1
  <2>2. /\ Stage(words, b + 1) \in States(A) /\ Under(s.stack, Stage(words, b + 1).stack)
        /\ Above(Stage(words, b + 1).stack, Len(s.stack), Rank(tree))
        /\ Drained(Stage(words, b + 1), Len(s.stack)) = d
    BY <1>12, <1>14, <2>1, Levelled
  <2>3. Gives(t, g, token, tree)
    <3>1. Meaning(t, g)[arg] # {} /\ \A x : Gives(t, g, x, arg) => Gives(t, g, x, tree)
      BY <1>2, <1>16, ParenValue DEF arg
    <3>. QED
      BY <1>13, <3>1
  <2>4. Ended(words, t, g, tree, i, a, stack, b + 1, token)
    BY <1>12, <1>15, <2>2, <2>3 DEF Ended, A, s
  <2>. QED
    BY <2>4
<1>17. CASE tree.is = "call"
  <2> DEFINE f == Token(tree.name)
             call == [type |-> "call", value |-> tree.name]
  <2>1. f \in A /\ f.type = "function" /\ f.value = tree.name
    <3>1. tree.name \in FunctionNames
      BY <1>17, TreeIs DEF TreeOK
    <3>. QED
      BY <1>6, <1>17, <3>1, WordIs
  <2>2. call \in A
    <3>1. f \in Symbol(words)
      BY <2>1 DEF A
    <3>2. f.value \in Range(words) \cup DOMAIN Precedence \cup {ToString(n) : n \in Ints} /\ "call" \in Types
      BY <3>1 DEF Symbol, Types
    <3>. HIDE DEF f
    <3>. QED
      BY <2>1, <3>2 DEF Symbol, A
  <2>. HIDE DEF f
  <2>3. Stage(words, b + 1) = [out |-> Append(d, call), stack |-> s.stack]
    <3>1. low = Append(s.stack, f)
      BY <1>6, <1>17 DEF f
    <3>2. s.stack \in Seq(A) /\ f \in A /\ f.type = "function" /\ call = [type |-> "call", value |-> f.value]
      BY <1>14, <2>1
    <3>. HIDE DEF call
    <3>3. CallTop([out |-> d, stack |-> Append(s.stack, f)]) = [out |-> Append(d, call), stack |-> s.stack]
      <4>1. Calls(s.stack, d, f, call)
        BY <3>2, CalledIs
      <4>. QED
        BY <4>1 DEF Calls
    <3>. QED
      BY <1>12, <3>1, <3>3
  <2>4. PICK v \in Ints : Meaning(t, g)[tree] = {v} /\ Valued(Call(t, g, tree.name, token), v)
    <3>1. \A x : /\ arg.is = "word" => x = Token(arg.word)
                 /\ Meaning(t, g)[arg] # {} => Gives(t, g, x, arg)
                 => \E v \in Ints : Meaning(t, g)[tree] = {v} /\ Valued(Call(t, g, tree.name, x), v)
      BY <1>2, <1>17, CallValue DEF arg
    <3>. QED
      BY <1>13, <3>1
  <2> DEFINE new == Token(ToString(v))
             out == Append(d, call)
  <2>5. out \in Seq(A) /\ Ran(t, g, out) = Holding(Append(stack, new))
    <3>1. IsList(d)
      BY <1>12, ListOf
    <3>2. Ran(t, g, out) = Step(t, g, Holding(Append(stack, token)), call)
      BY <1>12, <3>1, RanIs
    <3>3. Step(t, g, Holding(Append(stack, token)), call) = Holding(Append(stack, new))
      BY <1>3, <1>12, <2>4, StepCall
    <3>4. out \in Seq(A)
      BY <1>12, <2>2
    <3>. QED
      BY <3>2, <3>3, <3>4
  <2>6. new \in A /\ Gives(t, g, new, tree)
    <3>1. Fetch(t, g, new) = Number(v)
      BY NumberFetched
    <3>2. new \in A
      BY TokenIs DEF A
    <3>. HIDE DEF new
    <3>. QED
      BY <2>4, <3>1, <3>2 DEF Gives
  <2>. HIDE DEF new, out
  <2>7. /\ Stage(words, b + 1) \in States(A) /\ Under(s.stack, Stage(words, b + 1).stack)
        /\ Above(Stage(words, b + 1).stack, Len(s.stack), Rank(tree))
        /\ Drained(Stage(words, b + 1), Len(s.stack)) = out
    <3>1. Stage(words, b + 1) = [out |-> out, stack |-> s.stack]
      BY <2>3 DEF out
    <3>2. out \in Seq(A) /\ s.stack \in Seq(A)
      BY <1>14, <2>5
    <3>. QED
      BY <3>1, <3>2, Levelled
  <2>8. Ended(words, t, g, tree, i, a, stack, b + 1, new)
    BY <1>12, <1>15, <2>5, <2>6, <2>7 DEF Ended, A, s
  <2>. QED
    BY <2>8
<1>. QED
  BY <1>16, <1>17

\* What binds more than a rank also binds more than a lower one.
LEMMA LowerRank ==
  ASSUME NEW low \in Int, NEW high \in Int, low <= high
  PROVE  /\ \A stack : Fits(stack, low) => Fits(stack, high)
         /\ \A stack, n : Above(stack, n, high) => Above(stack, n, low)
<1>1. \A op \in DOMAIN Precedence : Precedence[op] \in Int
  BY RankIs
<1>2. \A n \in Int : (n < low => n < high) /\ (n >= high => n >= low)
  OBVIOUS
<1>3. ASSUME NEW stack, Fits(stack, low) PROVE Fits(stack, high)
  BY <1>1, <1>2, <1>3 DEF Fits
<1>4. ASSUME NEW stack, NEW n, Above(stack, n, high) PROVE Above(stack, n, low)
  BY <1>1, <1>2, <1>4 DEF Above
<1>. QED
  BY <1>3, <1>4

\* Behind an operator: what it pops is on the output, and it is on the stack.
Pending(words, j, b, out, stack) ==
  Reached(words, j, b + 1) /\ Stage(words, b + 1) = [out |-> out, stack |-> stack]

LEMMA Between ==
  ASSUME NEW words, IsList(words), NEW op \in DOMAIN Precedence \ {"!="}, NEW j, NEW b, Reached(words, j, b),
         NEW m, m = Len(Spelled(op)), Written(words, j, Spelled(op)), j + m \in 1 .. Len(words), words[j + m] \notin DOMAIN Precedence,
         NEW s \in States(Symbol(words)), Stage(words, b) = s, NEW base \in Seq(Symbol(words)), Under(base, s.stack),
         NEW p, p = Precedence[op], Above(s.stack, Len(base), p), Fits(base, p)
  PROVE  Pending(words, j + m, b, Drained(s, Len(base)), Append(base, Token(op)))
<1>1. Read(words, b, j + m, Token(op))
  <2>1. \A k \in 1 .. m : words[j + k - 1] = Spelled(op)[k]
    BY DEF Written
  <2>. QED
    BY <2>1, OpRead
<1>2. Reached(words, j + m, b + 1) /\ Stage(words, b + 1) = Shunt(s, Token(op))
  BY <1>1, StageIs
<1> DEFINE token == Token(op)
           A == Symbol(words)
<1>3. token.type = "op" /\ token.value = op /\ p \in Int /\ p = Precedence[token.value]
  BY WordIs, RankIs
<1>. HIDE DEF token, A
<1>4. Shunt(s, token) = [out |-> Drained(s, Len(base)), stack |-> Append(base, token)]
  <2>1. s \in States(A) /\ base \in Seq(A)
    BY DEF A
  <2>. QED
    BY <1>3, <2>1, OperatorIs
<1>. QED
  BY <1>2, <1>4 DEF Pending, token

\* The operator is above the stack, and its right operand above it.
LEMMA Bound ==
  ASSUME NEW A, NEW s \in States(A), NEW base \in Seq(A), NEW token \in A, token.type = "op", token.value \in DOMAIN Precedence,
         Under(Append(base, token), s.stack), NEW rank \in Int, Precedence[token.value] < rank, Above(s.stack, Len(base) + 1, rank)
  PROVE  /\ Under(base, s.stack) /\ Above(s.stack, Len(base), Precedence[token.value])
         /\ Drained(s, Len(base)) = Append(Drained(s, Len(base) + 1), token)
         /\ Drained(s, Len(base) + 1) \in Seq(A)
<1> DEFINE n == Len(base)
           p == Precedence[token.value]
<1>1. s.stack \in Seq(A) /\ Len(s.stack) \in Nat /\ n \in Nat /\ p \in Int
  BY RankIs DEF States
<1>2. Under(base, s.stack) /\ n + 1 <= Len(s.stack) /\ s.stack[n + 1] = token
  BY <1>1, UnderBoth
<1>3. Above(s.stack, n + 1, p)
  <2>1. p <= rank
    BY <1>1
  <2>2. \A stack, k : Above(stack, k, rank) => Above(stack, k, p)
    <3>. HIDE DEF p
    <3>. QED
      BY <1>1, <2>1, LowerRank
  <2>. QED
    BY <2>2
<1>. HIDE DEF n
<1>4. Above(s.stack, n, p)
  <2>1. \A i \in n + 1 .. Len(s.stack) : i = n + 1 \/ i \in n + 1 + 1 .. Len(s.stack)
    BY <1>1
  <2>2. p >= p
    BY <1>1
  <2>. QED
    BY <1>2, <1>3, <2>1, <2>2 DEF Above
<1>5. Drained(s, n) = Append(Drained(s, n + 1), token) /\ Drained(s, n + 1) \in Seq(A)
  <2>1. n \in 0 .. Len(s.stack) /\ n + 1 \in 0 .. Len(s.stack) /\ n < Len(s.stack)
    BY <1>1, <1>2
  <2>2. Drained(s, n + 1) \in Seq(A)
    BY <2>1, DrainedIs
  <2>3. Drained(s, n) = Append(Drained(s, n + 1), s.stack[n + 1])
    BY <2>1, DrainedIs
  <2>. QED
    BY <1>2, <2>2, <2>3
<1>. QED
  BY <1>2, <1>4, <1>5 DEF n

\* An operator on top binds less than its right operand.
LEMMA FitsOn ==
  ASSUME NEW A, NEW base \in Seq(A), NEW token \in A, token.type = "op", token.value \in DOMAIN Precedence,
         NEW rank, Precedence[token.value] < rank
  PROVE  Fits(Append(base, token), rank) /\ Len(Append(base, token)) = Len(base) + 1
<1> DEFINE top == Append(base, token)
<1>1. Len(top) = Len(base) + 1 /\ top[Len(base) + 1] = token /\ Len(base) \in Nat
  BY AppendProperties
<1>. HIDE DEF top
<1>2. Last(top) = token
  BY <1>1 DEF Last
<1>3. Fits(top, rank)
  BY <1>2 DEF Fits
<1>. QED
  BY <1>1, <1>3 DEF top

\* An operator goes through, if its operands do.
LEMMA OpWorks ==
  ASSUME NEW words, IsList(words), NEW t, NEW g, NEW tree \in Tree, tree.is = "op",
         IsList(Infix[tree.l]), IsList(Infix[tree.r]), Joins(Infix[tree], Infix[tree.l], Spelled(tree.op), Infix[tree.r]),
         Len(Infix[tree.r]) >= 1, Infix[tree.r][1] \notin DOMAIN Precedence,
         Works(words, t, g, tree.l), Works(words, t, g, tree.r)
  PROVE  Works(words, t, g, tree)
<1>1. SUFFICES ASSUME Needed(t, g, tree), NEW i, NEW a, NEW stack, Started(words, t, g, tree, i, a, stack)
               PROVE  \E b, token : Ended(words, t, g, tree, i, a, stack, b, token)
  BY DEF Works
<1> DEFINE A == Symbol(words)
           s == Stage(words, a)
           base == s.stack
           op == tree.op
           l == tree.l
           r == tree.r
           p == Precedence[op]
           j == i + Len(Infix[l])
           k == j + Len(Spelled(op))
           token == Token(op)
<1>2. Meaning(t, g)[tree] # {}
  BY <1>1 DEF Needed
<1>3. Reached(words, i, a) /\ s \in States(A) /\ Fits(base, p) /\ stack \in Seq(A) /\ Ran(t, g, s.out) = Holding(stack)
  BY <1>1 DEF Started, Rank
<1>4. /\ Written(words, i, Infix[l]) /\ Written(words, j, Spelled(op)) /\ Written(words, k, Infix[r])
      /\ i + Len(Infix[tree]) = k + Len(Infix[r])
  <2> DEFINE all == Infix[tree]
             left == Infix[l]
             middle == Spelled(op)
             right == Infix[r]
  <2>1. IsList(left) /\ IsList(middle) /\ IsList(right) /\ Joins(all, left, middle, right) /\ Written(words, i, all)
    BY <1>1, SpelledIs DEF Started
  <2>. HIDE DEF all, left, middle, right
  <2>2. Parts(words, i, all, left, middle, right)
    BY <2>1, WrittenParts
  <2>. QED
    BY <2>2 DEF Parts, all, left, middle, right
<1>5. /\ op \in DOMAIN Precedence \ {"!="} /\ p \in Int /\ l \in Tree /\ r \in Tree
      /\ Rank(l) \in Int /\ Rank(r) \in Int /\ p <= Rank(l) /\ p < Rank(r)
  <2>1. op \in DOMAIN Precedence \ {"!="} /\ p <= Rank(l) /\ p < Rank(r)
    BY TreeIs DEF TreeOK
  <2>2. l \in Tree /\ r \in Tree
    <3>1. Below(tree) = {l, r}
      BY DEF Below
    <3>. QED
      BY <3>1, TreeIs
  <2>3. \A low \in Tree : Rank(low) \in Int
    BY TreeIs, RankIs DEF Rank, TreeOK
  <2>. QED
    BY <2>1, <2>2, <2>3, RankIs
<1>6. token.type = "op" /\ token.value = op /\ token \in A
  BY <1>5, WordIs, TokenIs
<1>7. /\ Meaning(t, g)[l] # {} /\ Needed(t, g, r)
      /\ \A x, y : /\ Gives(t, g, x, l)
                   /\ Meaning(t, g)[r] # {} => Gives(t, g, y, r)
                   => \E v \in Ints : Meaning(t, g)[tree] = {v} /\ Valued(Binary(op, Fetch(t, g, x), Fetch(t, g, y)), v)
  BY <1>2, OpValue
<1>8. Rank(tree) = p
  BY DEF Rank
<1>9. Works(words, t, g, l) /\ Works(words, t, g, r) /\ Len(Infix[r]) >= 1 /\ Infix[r][1] \notin DOMAIN Precedence /\ Len(Infix[r]) \in Nat
  BY ListIs
<1>. HIDE DEF A, s, op, l, r, p, j, k, token
<1>10. s.out \in Seq(A) /\ base \in Seq(A)
  BY <1>3 DEF States
<1>. HIDE DEF base
<1>11. PICK b, x : Ended(words, t, g, l, i, a, stack, b, x)
  <2>1. Started(words, t, g, l, i, a, stack)
    <3>1. Fits(base, Rank(l))
      BY <1>3, <1>5, LowerRank
    <3>. QED
      BY <1>3, <1>4, <3>1 DEF Started, A, s, base
  <2>. QED
    BY <1>7, <1>9, <2>1 DEF Works, Needed
<1>12. /\ Reached(words, j, b) /\ Stage(words, b) \in States(A) /\ Under(base, Stage(words, b).stack)
       /\ Above(Stage(words, b).stack, Len(base), p) /\ x \in A
       /\ Ran(t, g, Drained(Stage(words, b), Len(base))) = Holding(Append(stack, x))
       /\ Gives(t, g, x, l)
  <2>1. /\ Reached(words, i + Len(Infix[l]), b) /\ Stage(words, b) \in States(Symbol(words)) /\ x \in Symbol(words)
        /\ Under(Stage(words, a).stack, Stage(words, b).stack)
        /\ Above(Stage(words, b).stack, Len(Stage(words, a).stack), Rank(l))
        /\ Ran(t, g, Drained(Stage(words, b), Len(Stage(words, a).stack))) = Holding(Append(stack, x))
        /\ Meaning(t, g)[l] # {} => Gives(t, g, x, l)
    BY <1>11 DEF Ended
  <2>2. Above(Stage(words, b).stack, Len(base), p)
    <3>1. Above(Stage(words, b).stack, Len(base), Rank(l))
      BY <2>1 DEF base, s
    <3>. QED
      BY <1>5, <3>1, LowerRank
  <2>. QED
    BY <1>7, <2>1, <2>2 DEF A, s, j, base
<1> DEFINE d == Drained(Stage(words, b), Len(base))
<1>13. Reached(words, k, b + 1) /\ Stage(words, b + 1) = [out |-> d, stack |-> Append(base, token)]
  <2> DEFINE m == Len(Spelled(op))
             z == Stage(words, b)
  <2>1. k \in 1 .. Len(words) /\ words[k] \notin DOMAIN Precedence
    <3>1. k \in Nat \ {0} /\ k + Len(Infix[r]) - 1 <= Len(words) /\ words[k + 1 - 1] = Infix[r][1] /\ Len(words) \in Nat
      <4>1. 1 \in 1 .. Len(Infix[r])
        BY <1>9
      <4>2. Len(words) \in Nat
        BY ListIs
      <4>. QED
        BY <1>4, <4>1, <4>2 DEF Written
    <3>2. k + 1 - 1 = k /\ k \in 1 .. Len(words)
      BY <1>9, <3>1
    <3>. QED
      BY <1>9, <3>1, <3>2
  <2>2. k = j + m
    BY DEF k
  <2>3. op \in DOMAIN Precedence \ {"!="} /\ p = Precedence[op] /\ Written(words, j, Spelled(op))
    BY <1>4, <1>5 DEF p
  <2>4. z \in States(Symbol(words)) /\ base \in Seq(Symbol(words)) /\ Under(base, z.stack) /\ Above(z.stack, Len(base), p) /\ Fits(base, p)
    BY <1>3, <1>10, <1>12 DEF A
  <2>5. j + m \in 1 .. Len(words) /\ words[j + m] \notin DOMAIN Precedence /\ Reached(words, j, b)
    BY <1>12, <2>1, <2>2
  <2>. HIDE DEF m, z
  <2>6. Stage(words, b) = z /\ m = Len(Spelled(op))
    BY DEF z, m
  <2>7. Pending(words, j + m, b, Drained(z, Len(base)), Append(base, Token(op)))
    BY <2>3, <2>4, <2>5, <2>6, Between
  <2>. QED
    BY <2>2, <2>7 DEF Pending, z, token
<1>14. d \in Seq(A)
  <2>1. Len(base) \in 0 .. Len(Stage(words, b).stack)
    <3>1. Len(base) \in Nat /\ Len(Stage(words, b).stack) \in Nat
      BY <1>10, <1>12 DEF States
    <3>. QED
      BY <1>12, <3>1 DEF Under
  <2>. QED
    BY <1>12, <2>1, DrainedIs
<1>. HIDE DEF d
<1> DEFINE more == Append(stack, x)
<1>15. Stage(words, b + 1) \in States(A) /\ Stage(words, b + 1).out = d /\ Stage(words, b + 1).stack = Append(base, token)
  <2> DEFINE top == Append(base, token)
  <2>1. top \in Seq(A)
    BY <1>6, <1>10
  <2>. HIDE DEF top
  <2>2. [out |-> d, stack |-> top] \in States(A)
    BY <1>14, <2>1, StatesIs
  <2>3. Stage(words, b + 1) = [out |-> d, stack |-> top]
    BY <1>13 DEF top
  <2>. QED
    BY <2>2, <2>3 DEF top
<1>16. PICK c, y : Ended(words, t, g, r, k, b + 1, more, c, y)
  <2>1. Fits(Append(base, token), Rank(r))
    BY <1>5, <1>6, <1>10, FitsOn DEF p
  <2>2. more \in Seq(A) /\ Ran(t, g, d) = Holding(more)
    BY <1>3, <1>12 DEF d
  <2>. HIDE DEF more
  <2>3. Started(words, t, g, r, k, b + 1, more)
    BY <1>4, <1>13, <1>15, <2>1, <2>2 DEF Started, A
  <2>. QED
    BY <1>7, <1>9, <2>3 DEF Works
<1> DEFINE z == Stage(words, c)
           low == Drained(z, Len(base) + 1)
<1>17. /\ Reached(words, i + Len(Infix[tree]), c) /\ z \in States(A) /\ Under(Append(base, token), z.stack)
       /\ Above(z.stack, Len(base) + 1, Rank(r)) /\ y \in A /\ Ran(t, g, low) = Holding(Append(more, y))
       /\ Meaning(t, g)[r] # {} => Gives(t, g, y, r)
  <2>. HIDE DEF more
  <2>1. /\ Reached(words, k + Len(Infix[r]), c) /\ z \in States(Symbol(words)) /\ y \in Symbol(words)
        /\ Under(Stage(words, b + 1).stack, z.stack)
        /\ Above(z.stack, Len(Stage(words, b + 1).stack), Rank(r))
        /\ Ran(t, g, Drained(z, Len(Stage(words, b + 1).stack))) = Holding(Append(more, y))
        /\ Meaning(t, g)[r] # {} => Gives(t, g, y, r)
    BY <1>16 DEF Ended
  <2>2. Len(Stage(words, b + 1).stack) = Len(base) + 1
    BY <1>5, <1>6, <1>10, <1>15, AppendProperties
  <2>3. Reached(words, i + Len(Infix[tree]), c)
    BY <1>4, <2>1
  <2>. HIDE DEF z
  <2>. QED
    BY <1>15, <2>1, <2>2, <2>3 DEF A
<1>. HIDE DEF z
<1>18. /\ Under(base, z.stack) /\ Above(z.stack, Len(base), p)
       /\ Drained(z, Len(base)) = Append(low, token) /\ low \in Seq(A)
  <2>1. token.type = "op" /\ token.value \in DOMAIN Precedence /\ Precedence[token.value] < Rank(r) /\ token \in A /\ base \in Seq(A) /\ Rank(r) \in Int
    BY <1>5, <1>6, <1>10 DEF p
  <2>2. /\ Under(base, z.stack) /\ Above(z.stack, Len(base), Precedence[token.value])
        /\ Drained(z, Len(base)) = Append(Drained(z, Len(base) + 1), token)
        /\ Drained(z, Len(base) + 1) \in Seq(A)
    BY <1>17, <2>1, Bound
  <2>. QED
    BY <1>6, <2>2 DEF p
<1>19. PICK v \in Ints : Meaning(t, g)[tree] = {v} /\ Valued(Binary(op, Fetch(t, g, x), Fetch(t, g, y)), v)
  BY <1>7, <1>12, <1>17
<1> DEFINE new == Token(ToString(v))
<1>20. new \in A /\ Gives(t, g, new, tree)
  <2>1. Fetch(t, g, new) = Number(v)
    BY NumberFetched
  <2>2. new \in A
    BY TokenIs DEF A
  <2>. HIDE DEF new
  <2>. QED
    BY <1>19, <2>1, <2>2 DEF Gives
<1>. HIDE DEF low
<1>21. Ran(t, g, Drained(z, Len(base))) = Holding(Append(stack, new))
  <2>1. IsList(low)
    BY <1>18, ListOf
  <2>2. Ran(t, g, low) = Holding(Append(Append(stack, x), y))
    BY <1>17 DEF low
  <2>3. Ran(t, g, Append(low, token)) = Step(t, g, Holding(Append(Append(stack, x), y)), token)
    BY <2>1, <2>2, RanIs
  <2>4. Step(t, g, Holding(Append(Append(stack, x), y)), token) = Holding(Append(stack, new))
    <3>1. Valued(Binary(token.value, Fetch(t, g, x), Fetch(t, g, y)), v) /\ token.type = "op" /\ stack \in Seq(A) /\ x \in A /\ y \in A
      BY <1>3, <1>6, <1>12, <1>17, <1>19
    <3>. QED
      BY <3>1, StepOp
  <2>. QED
    BY <1>18, <2>3, <2>4
<1>22. Ended(words, t, g, tree, i, a, stack, c, new)
  <2>. HIDE DEF new
  <2>1. tree.is # "word"
    OBVIOUS
  <2>. QED
    BY <1>8, <1>17, <1>18, <1>20, <1>21, <2>1 DEF Ended, A, s, z, base
<1>. QED
  BY <1>22

\* Every tree goes through: the least deep one that did not would.
LEMMA TreesWork ==
  ASSUME NEW words, IsList(words), NEW t, NEW g
  PROVE  \A tree \in Tree : Works(words, t, g, tree)
<1> DEFINE Wrong == {k \in Nat : \E tree \in Tree : Depth[tree] = k /\ ~Works(words, t, g, tree)}
<1>1. Wrong = {}
  <2>1. SUFFICES ASSUME Wrong # {} PROVE FALSE
    OBVIOUS
  <2>2. PICK k \in Wrong : \A j \in Wrong : k <= j
    BY <2>1, MinExists
  <2>3. PICK tree \in Tree : Depth[tree] = k /\ ~Works(words, t, g, tree)
    BY <2>2
  <2>4. TreeOK(tree) /\ \A below \in Below(tree) : below \in Tree /\ Depth[below] \in Nat /\ Depth[below] < k
    BY <2>3, TreeIs
  <2>5. \A below \in Below(tree) : Works(words, t, g, below)
    <3>1. TAKE below \in Below(tree)
    <3>2. below \in Tree /\ Depth[below] \in Nat /\ ~(k <= Depth[below])
      BY <2>2, <2>4
    <3>. QED
      BY <2>2, <3>2
  <2>6. /\ tree.is = "word" => Infix[tree] = <<tree.word>> /\ IsList(Infix[tree])
        /\ tree.is \in {"call", "paren"} => Joins(Infix[tree], Begin(tree), Infix[tree.arg], <<")">>)
        /\ tree.is = "op" => Joins(Infix[tree], Infix[tree.l], Spelled(tree.op), Infix[tree.r])
    <3>1. \A below \in Below(tree) : IsList(Infix[below])
      BY <2>4, InfixBegins
    <3>. QED
      BY <3>1, InfixParts
  <2>7. CASE tree.is = "word"
    BY <2>3, <2>6, <2>7, WordWorks
  <2>8. CASE tree.is \in {"call", "paren"}
    <3>1. tree.arg \in Below(tree)
      BY <2>8 DEF Below
    <3>2. IsList(Begin(tree))
      <4>1. \A x, y : <<x>> \in Seq({x, y}) /\ <<x, y>> \in Seq({x, y})
        OBVIOUS
      <4>. QED
        BY <4>1, ListOf DEF Begin
    <3>3. IsList(Infix[tree.arg]) /\ Works(words, t, g, tree.arg)
      BY <2>4, <2>5, <3>1, InfixBegins
    <3>. QED
      BY <2>3, <2>6, <2>8, <3>2, <3>3, EnclosedWorks
  <2>9. CASE tree.is = "op"
    <3>1. tree.l \in Below(tree) /\ tree.r \in Below(tree)
      BY <2>9 DEF Below
    <3>2. /\ IsList(Infix[tree.l]) /\ IsList(Infix[tree.r])
          /\ Len(Infix[tree.r]) >= 1 /\ Infix[tree.r][1] \notin DOMAIN Precedence
          /\ Works(words, t, g, tree.l) /\ Works(words, t, g, tree.r)
      BY <2>4, <2>5, <3>1, InfixBegins
    <3>. QED
      BY <2>3, <2>6, <2>9, <3>2, OpWorks
  <2>. QED
    BY <2>4, <2>7, <2>8, <2>9 DEF TreeOK
<1>2. \A tree \in Tree : Depth[tree] \in Nat
  BY TreeIs
<1>. QED
  BY <1>1, <1>2

\* Before the first word and behind the last.
LEMMA FirstAndLast ==
  ASSUME NEW words, IsList(words)
  PROVE  /\ Reached(words, 1, 0)
         /\ Stage(words, 0) = [out |-> <<>>, stack |-> <<>>]
         /\ Stage(words, 0) \in States(Symbol(words))
         /\ \A b : Reached(words, Len(words) + 1, b) => b = Len(Tokenize(words))
<1> DEFINE A == Symbol(words)
           q == Tokenize(words)
           n == Len(words)
<1>1. n \in Nat /\ 1 \in 1 .. n + 1 /\ n + 1 \in 1 .. n + 1
  BY ListIs
<1>2. q = Tokenizing(words)[1]
  BY DEF Tokenize
<1>3. q \in Seq(A)
  BY <1>1, <1>2, TokensAre
<1>4. Tokenizing(words)[n + 1] = <<>>
  <2>1. Tokenizing(words)[n + 1] = FromWord(words, Tokenizing(words), n + 1)
    BY <1>1, TokenizingIs
  <2>2. n + 1 > Len(words)
    BY <1>1
  <2>. QED
    BY <2>1, <2>2 DEF FromWord
<1>. HIDE DEF q, A
<1>5. Len(q) \in Nat
  BY <1>3
<1>6. SubSeq(q, 1, Len(q)) = q
  BY <1>3
<1>7. Reached(words, 1, 0)
  <2>1. 0 \in 0 .. Len(q) /\ 0 + 1 = 1
    BY <1>5
  <2>. QED
    BY <1>1, <1>2, <1>6, <2>1 DEF Reached, q
<1>8. ASSUME NEW b, Reached(words, n + 1, b) PROVE b = Len(q)
  <2>1. b \in 0 .. Len(q) /\ SubSeq(q, b + 1, Len(q)) = <<>>
    BY <1>4, <1>8 DEF Reached, q
  <2>2. Len(SubSeq(q, b + 1, Len(q))) = 0
    BY <2>1
  <2>3. b < Len(q) => Len(SubSeq(q, b + 1, Len(q))) = Len(q) - (b + 1) + 1
    <3>1. b < Len(q) => b + 1 \in 1 .. Len(q) /\ Len(q) \in b + 1 .. Len(q)
      BY <1>5, <2>1
    <3>. QED
      BY <1>3, <1>5, <2>1, <3>1, SubSeqProperties
  <2>. QED
    BY <1>5, <2>1, <2>2, <2>3
<1>9. Stage(words, 0) = [out |-> <<>>, stack |-> <<>>]
  BY <1>5, ShuntingIs DEF Stage, q
<1>10. <<>> \in Seq(A)
  OBVIOUS
<1>11. Stage(words, 0) \in States(A)
  <2>1. \A out, stack \in Seq(A) : [out |-> out, stack |-> stack] \in States(A)
    BY DEF States
  <2>. QED
    BY <1>9, <1>10, <2>1
<1>. QED
  BY <1>7, <1>8, <1>9, <1>11 DEF q, A

\* A tree that has a value evaluates to it.
LEMMA EvaluateIs ==
  ASSUME NEW t, NEW g, NEW tree \in Tree, Meaning(t, g)[tree] # {}
  PROVE  LET result == Evaluate(t, g, Infix[tree])
         IN result.outcome = "found" /\ result.value \in Meaning(t, g)[tree]
<1> DEFINE words == Infix[tree]
           A == Symbol(words)
           q == Tokenize(words)
           first == Stage(words, 0)
<1>1. IsList(words) /\ Len(words) \in Nat
  BY InfixBegins, ListIs
<1>2. Works(words, t, g, tree)
  BY <1>1, TreesWork
<1>. HIDE DEF words, A, q
<1>3. /\ Reached(words, 1, 0) /\ first = [out |-> <<>>, stack |-> <<>>] /\ first \in States(A)
      /\ \A b : Reached(words, Len(words) + 1, b) => b = Len(q)
  BY <1>1, FirstAndLast DEF A, q
<1>. HIDE DEF first
<1>4. first.out = <<>> /\ first.stack = <<>> /\ Len(first.stack) = 0
  BY <1>3
<1>5. Started(words, t, g, tree, 1, 0, <<>>)
  <2>1. Written(words, 1, words)
    <3>1. 1 \in Nat \ {0} /\ 1 + Len(words) - 1 <= Len(words) /\ \A p \in 1 .. Len(words) : 1 + p - 1 = p
      BY <1>1
    <3>. QED
      BY <3>1 DEF Written
  <2>2. Fits(first.stack, Rank(tree))
    BY <1>4 DEF Fits
  <2>3. <<>> \in Seq(A)
    OBVIOUS
  <2>4. Ran(t, g, <<>>) = Holding(<<>>)
    BY <1>1, RanIs DEF Holding
  <2>. QED
    BY <1>3, <1>4, <2>1, <2>2, <2>3, <2>4 DEF Started, words, A, first
<1>6. PICK b, token : Ended(words, t, g, tree, 1, 0, <<>>, b, token)
  BY <1>2, <1>5 DEF Works, Needed
<1>7. /\ Reached(words, 1 + Len(words), b) /\ Stage(words, b) \in States(A)
      /\ Ran(t, g, Drained(Stage(words, b), 0)) = Holding(Append(<<>>, token))
      /\ Gives(t, g, token, tree)
  BY <1>4, <1>6 DEF Ended, words, A, first
<1>8. b = Len(q)
  <2>1. 1 + Len(words) = Len(words) + 1
    BY <1>1
  <2>. QED
    BY <1>3, <1>7, <2>1
<1>9. RpnOf(q) = Drained(Stage(words, b), 0)
  <2> DEFINE s == Stage(words, b)
  <2>1. s.stack \in Seq(A)
    BY <1>7 DEF States
  <2>2. 0 \in 0 .. Len(s.stack) /\ {} \subseteq 1 .. Len(s.stack) /\ \A i \in {} : i <= 0
    BY <2>1
  <2>. HIDE DEF s
  <2>3. PopTo(s, {}) = [out |-> Drained(s, 0), stack |-> SubSeq(s.stack, 1, 0)]
    BY <1>7, <2>2, PopToIs DEF s
  <2>4. Shunting(q)[Len(q)] = s
    BY <1>8 DEF s, Stage, q
  <2>. QED
    BY <2>3, <2>4 DEF RpnOf, s
<1>10. Evaluate(t, g, words) = Topmost(t, g, Ran(t, g, RpnOf(q)))
  BY DEF Evaluate, Rpn, Result, Ran, q
<1>11. Evaluate(t, g, words) = Fetch(t, g, token)
  <2> DEFINE stack == Append(<<>>, token)
  <2>1. stack # <<>> /\ Last(stack) = token
    <3>1. stack = <<token>> /\ Len(stack) = 1 /\ stack[1] = token
      OBVIOUS
    <3>. QED
      BY <3>1 DEF Last
  <2>. HIDE DEF stack
  <2>2. Topmost(t, g, Holding(stack)) = Fetch(t, g, token)
    BY <2>1, HoldingIs DEF Topmost
  <2>. QED
    BY <1>7, <1>9, <1>10, <2>2 DEF stack
<1>12. PICK v \in Ints : Meaning(t, g)[tree] = {v} /\ Fetch(t, g, token) = Number(v)
  BY <1>7 DEF Gives
<1>. QED
  BY <1>11, <1>12 DEF Number, words
=============================================================================
