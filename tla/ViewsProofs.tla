----------------------------- MODULE ViewsProofs -----------------------------
(***************************************************************************)
(* Proofs about Views, for every set of names, documents, objects and      *)
(* expressions: of a callable that declares aliases, enters and leaves     *)
(* scopes and renders views in any order, the scopes are restored, count() *)
(* agrees with find(), an expression that has a value evaluates to it, and *)
(* a view leaves its scopes and renders what is written.                   *)
(***************************************************************************)
EXTENDS ScopeProofs

-----------------------------------------------------------------------------
(* parse() is a function of every document *)

LEMMA ChildrenIs ==
  ASSUME NEW parse, NEW t, NEW children, Len(children) \in Nat
  PROVE  Children(parse, t, children) =
           [i \in 0 .. Len(children) |->
              IF i = 0 THEN Rendered(t, <<>>)
              ELSE Child(parse, Children(parse, t, children)[i - 1], children[i])]
<1> DEFINE Is(f, n) == f = [i \in 0 .. n |-> IF i = 0 THEN Rendered(t, <<>>) ELSE Child(parse, f[i - 1], children[i])]
           Wrong == {n \in Nat : ~\E f : Is(f, n)}
<1>1. Wrong = {}
  <2>1. SUFFICES ASSUME Wrong # {} PROVE FALSE
    OBVIOUS
  <2>2. PICK n \in Wrong : \A k \in Wrong : n <= k
    BY <2>1, MinExists
  <2>3. CASE n = 0
    <3>1. Is([i \in 0 .. 0 |-> Rendered(t, <<>>)], 0)
      OBVIOUS
    <3>. QED
      BY <2>3, <3>1
  <2>4. CASE n # 0
    <3>1. n - 1 \in Nat /\ n - 1 \notin Wrong
      <4>1. n \in Nat /\ n - 1 \in Nat /\ ~(n <= n - 1)
        BY <2>4
      <4>. QED
        BY <2>2, <4>1
    <3>2. PICK f : Is(f, n - 1)
      BY <3>1
    <3> DEFINE g == [i \in 0 .. n |-> IF i = n THEN Child(parse, f[n - 1], children[n]) ELSE f[i]]
    <3>3. \A i \in 0 .. n : g[i] = IF i = 0 THEN Rendered(t, <<>>) ELSE Child(parse, g[i - 1], children[i])
      BY <2>4, <3>1, <3>2
    <3>4. Is(g, n)
      BY <3>3
    <3>. QED
      BY <3>4
  <2>. QED
    BY <2>3, <2>4
<1>2. PICK f : Is(f, Len(children))
  BY <1>1
<1>. QED
  BY <1>2 DEF Children

LEMMA RoundsIs ==
  ASSUME NEW parse, NEW t, NEW node, NEW indices, Len(indices) \in Nat
  PROVE  Rounds(parse, t, node, indices) =
           [i \in 0 .. Len(indices) |->
              IF i = 0 THEN Rendered(t, <<>>)
              ELSE Round(parse, Rounds(parse, t, node, indices)[i - 1], node, indices[i])]
<1> DEFINE Is(f, n) == f = [i \in 0 .. n |-> IF i = 0 THEN Rendered(t, <<>>) ELSE Round(parse, f[i - 1], node, indices[i])]
           Wrong == {n \in Nat : ~\E f : Is(f, n)}
<1>1. Wrong = {}
  <2>1. SUFFICES ASSUME Wrong # {} PROVE FALSE
    OBVIOUS
  <2>2. PICK n \in Wrong : \A k \in Wrong : n <= k
    BY <2>1, MinExists
  <2>3. CASE n = 0
    <3>1. Is([i \in 0 .. 0 |-> Rendered(t, <<>>)], 0)
      OBVIOUS
    <3>. QED
      BY <2>3, <3>1
  <2>4. CASE n # 0
    <3>1. n - 1 \in Nat /\ n - 1 \notin Wrong
      <4>1. n \in Nat /\ n - 1 \in Nat /\ ~(n <= n - 1)
        BY <2>4
      <4>. QED
        BY <2>2, <4>1
    <3>2. PICK f : Is(f, n - 1)
      BY <3>1
    <3> DEFINE g == [i \in 0 .. n |-> IF i = n THEN Round(parse, f[n - 1], node, indices[n]) ELSE f[i]]
    <3>3. \A i \in 0 .. n : g[i] = IF i = 0 THEN Rendered(t, <<>>) ELSE Round(parse, g[i - 1], node, indices[i])
      BY <2>4, <3>1, <3>2
    <3>4. Is(g, n)
      BY <3>3
    <3>. QED
      BY <3>4
  <2>. QED
    BY <2>3, <2>4
<1>2. PICK f : Is(f, Len(indices))
  BY <1>1
<1>. QED
  BY <1>2 DEF Rounds

-----------------------------------------------------------------------------
\* What parse() makes of a node: a result whose table is one.
ResultOK(st) ==
  st = [outcome |-> st.outcome, table |-> st.table, nodes |-> st.nodes] /\ st.table \in Table

\* Two functions that make the same of the nodes up to a height.
Agree(p, q, height) ==
  \A t \in Table, node \in Elements :
    Height[node] < height => p[<<t, node>>] = q[<<t, node>>] /\ ResultOK(p[<<t, node>>])

LEMMA ThenOK ==
  ASSUME NEW st, NEW next, ResultOK(next)
  PROVE  ResultOK(Then(st, next))
BY DEF ResultOK, Then

LEMMA TravarseAgrees ==
  ASSUME NEW p, NEW q, NEW height, Agree(p, q, height), NEW t \in Table, NEW children \in Seq(Node),
         \A i \in DOMAIN children : Height[children[i]] < height
  PROVE  Travarse(p, t, children) = Travarse(q, t, children) /\ ResultOK(Travarse(p, t, children))
<1> DEFINE n == Len(children)
           f == Children(p, t, children)
           g == Children(q, t, children)
           Wrong == {j \in Nat : j <= n /\ ~(f[j] = g[j] /\ ResultOK(f[j]))}
<1>1. n \in Nat /\ \A i \in 1 .. n : children[i] \in Node /\ Height[children[i]] < height
  BY LenProperties
<1>2. f = [i \in 0 .. n |-> IF i = 0 THEN Rendered(t, <<>>) ELSE Child(p, f[i - 1], children[i])]
  BY <1>1, ChildrenIs
<1>3. g = [i \in 0 .. n |-> IF i = 0 THEN Rendered(t, <<>>) ELSE Child(q, g[i - 1], children[i])]
  BY <1>1, ChildrenIs
<1>. HIDE DEF f, g, n
<1>4. Wrong = {}
  <2>1. SUFFICES ASSUME Wrong # {} PROVE FALSE
    OBVIOUS
  <2>2. PICK j \in Wrong : \A i \in Wrong : j <= i
    BY <2>1, MinExists
  <2>3. j \in Nat /\ j <= n /\ j \in 0 .. n
    BY <1>1, <2>2
  <2>4. CASE j = 0
    <3>1. f[j] = Rendered(t, <<>>) /\ g[j] = Rendered(t, <<>>)
      BY <1>2, <1>3, <2>3, <2>4
    <3>2. ResultOK(Rendered(t, <<>>))
      BY DEF Rendered, ResultOK
    <3>. QED
      BY <2>2, <3>1, <3>2
  <2>5. CASE j # 0
    <3> DEFINE child == children[j]
               st == f[j - 1]
    <3>1. j - 1 \in Nat /\ j - 1 <= n /\ ~(j <= j - 1) /\ j \in 1 .. n
      BY <1>1, <2>3, <2>5
    <3>2. g[j - 1] = st /\ ResultOK(st)
      BY <2>2, <3>1
    <3>3. f[j] = Child(p, st, child) /\ g[j] = Child(q, st, child)
      BY <1>2, <1>3, <2>3, <2>5, <3>2
    <3>4. child \in Node /\ Height[child] < height
      BY <1>1, <3>1
    <3>. HIDE DEF st, child
    <3>5. CASE st.outcome # "found"
      BY <2>2, <3>2, <3>3, <3>5 DEF Child
    <3>6. CASE st.outcome = "found" /\ child.is = "pcdata"
      <4>1. Child(p, st, child) = Then(st, Rendered(st.table, <<child>>))
            /\ Child(q, st, child) = Then(st, Rendered(st.table, <<child>>))
        BY <3>6 DEF Child
      <4>2. ResultOK(Rendered(st.table, <<child>>))
        BY <3>2 DEF Rendered, ResultOK
      <4>. QED
        BY <2>2, <3>3, <4>1, <4>2, ThenOK
    <3>7. CASE st.outcome = "found" /\ child.is # "pcdata"
      <4>1. Child(p, st, child) = Then(st, p[<<st.table, child>>])
            /\ Child(q, st, child) = Then(st, q[<<st.table, child>>])
        BY <3>7 DEF Child
      <4>2. st.table \in Table /\ child \in Elements
        BY <3>2, <3>4, <3>7 DEF ResultOK, Elements
      <4>3. p[<<st.table, child>>] = q[<<st.table, child>>] /\ ResultOK(p[<<st.table, child>>])
        BY <3>4, <4>2 DEF Agree
      <4>. QED
        BY <2>2, <3>3, <4>1, <4>3, ThenOK
    <3>. QED
      BY <3>5, <3>6, <3>7
  <2>. QED
    BY <2>4, <2>5
<1>5. n \in Nat /\ n <= n
  BY <1>1
<1>6. f[n] = g[n] /\ ResultOK(f[n])
  BY <1>4, <1>5
<1>. QED
  BY <1>6 DEF f, g, n, Travarse

LEMMA LeaveScopeOK ==
  ASSUME NEW st, ResultOK(st)
  PROVE  ResultOK(LeaveScope(st))
<1>1. CASE st.outcome # "found"
  BY <1>1 DEF LeaveScope
<1>2. CASE st.outcome = "found"
  <2>1. Up(st.table) \in Table
    BY UpIs DEF ResultOK
  <2>2. st = [outcome |-> st.outcome, table |-> st.table, nodes |-> st.nodes]
    BY DEF ResultOK
  <2>3. LeaveScope(st) = [st EXCEPT !.table = Up(st.table)]
    BY <1>2 DEF LeaveScope
  <2>4. LeaveScope(st) = [outcome |-> st.outcome, table |-> Up(st.table), nodes |-> st.nodes]
    BY <2>2, <2>3
  <2>. QED
    BY <2>1, <2>4 DEF ResultOK
<1>. QED
  BY <1>1, <1>2

LEMMA StepInOK ==
  ASSUME NEW parse, NEW t, NEW name, NEW attrs, NEW children, ResultOK(Travarse(parse, t, children))
  PROVE  /\ ResultOK(StepIn(parse, t, name, attrs, children))
         /\ StepIn(parse, t, name, attrs, children).outcome = Travarse(parse, t, children).outcome
         /\ StepIn(parse, t, name, attrs, children).table = Travarse(parse, t, children).table
         /\ StepIn(parse, t, name, attrs, children).nodes =
              <<[is |-> "plain", name |-> name, attrs |-> attrs, children |-> Travarse(parse, t, children).nodes]>>
<1> DEFINE st == Travarse(parse, t, children)
           new == <<[is |-> "plain", name |-> name, attrs |-> attrs, children |-> st.nodes]>>
<1>1. st = [outcome |-> st.outcome, table |-> st.table, nodes |-> st.nodes] /\ st.table \in Table
  BY DEF ResultOK
<1>2. StepIn(parse, t, name, attrs, children) = [st EXCEPT !.nodes = new]
  BY DEF StepIn
<1>. HIDE DEF st, new
<1>3. StepIn(parse, t, name, attrs, children) = [outcome |-> st.outcome, table |-> st.table, nodes |-> new]
  BY <1>1, <1>2
<1>. QED
  BY <1>1, <1>3 DEF ResultOK, st, new

LEMMA NodeIs ==
  ASSUME NEW node \in Elements
  PROVE  /\ node \in Node /\ NodeOK(node) /\ Height[node] \in Nat \ {0}
         /\ node.is \in {"block", "var", "for", "if", "text", "html", "eval", "view", "plain"}
         /\ node.is \in Parents =>
              /\ node.children \in Seq(Node)
              /\ \A i \in DOMAIN node.children : Height[node.children[i]] < Height[node]
BY NodeAssumption DEF NodeOK, Elements

\* The table a round begins with.
RoundTable(t, node, index) == Add(Down(t), node.key, Indexed(node.in, index))

LEMMA RoundTableOK ==
  ASSUME NEW t \in Table, NEW node \in Elements, node.is = "for", NEW index \in STRING
  PROVE  RoundTable(t, node, index) \in Table
<1>1. KeyOK(node.key) /\ node.in \in Path
  BY NodeIs DEF NodeOK
<1>2. Indexed(node.in, index) \in Path
  BY <1>1, IndexedType
<1>3. Down(t) \in Table /\ Down(t).level \in 0 .. Levels - 1
  BY DownIs DEF Table
<1>. QED
  BY <1>1, <1>2, <1>3, AddIs DEF RoundTable, Add

LEMMA RoundsAgree ==
  ASSUME NEW node \in Elements, node.is = "for", NEW p, NEW q, Agree(p, q, Height[node]),
         NEW t \in Table, NEW indices \in Seq(STRING)
  PROVE  /\ Rounds(p, t, node, indices)[Len(indices)] = Rounds(q, t, node, indices)[Len(indices)]
         /\ ResultOK(Rounds(p, t, node, indices)[Len(indices)])
<1> DEFINE n == Len(indices)
           f == Rounds(p, t, node, indices)
           g == Rounds(q, t, node, indices)
           Wrong == {j \in Nat : j <= n /\ ~(f[j] = g[j] /\ ResultOK(f[j]))}
<1>1. n \in Nat /\ \A i \in 1 .. n : indices[i] \in STRING
  BY LenProperties
<1>2. f = [i \in 0 .. n |-> IF i = 0 THEN Rendered(t, <<>>) ELSE Round(p, f[i - 1], node, indices[i])]
  BY <1>1, RoundsIs
<1>3. g = [i \in 0 .. n |-> IF i = 0 THEN Rendered(t, <<>>) ELSE Round(q, g[i - 1], node, indices[i])]
  BY <1>1, RoundsIs
<1>. HIDE DEF f, g, n
<1>4. Wrong = {}
  <2>1. SUFFICES ASSUME Wrong # {} PROVE FALSE
    OBVIOUS
  <2>2. PICK j \in Wrong : \A i \in Wrong : j <= i
    BY <2>1, MinExists
  <2>3. j \in Nat /\ j <= n /\ j \in 0 .. n
    BY <1>1, <2>2
  <2>4. CASE j = 0
    <3>1. f[j] = Rendered(t, <<>>) /\ g[j] = Rendered(t, <<>>)
      BY <1>2, <1>3, <2>3, <2>4
    <3>2. ResultOK(Rendered(t, <<>>))
      BY DEF Rendered, ResultOK
    <3>. QED
      BY <2>2, <3>1, <3>2
  <2>5. CASE j # 0
    <3> DEFINE index == indices[j]
               st == f[j - 1]
    <3>1. j - 1 \in Nat /\ j - 1 <= n /\ ~(j <= j - 1) /\ j \in 1 .. n
      BY <1>1, <2>3, <2>5
    <3>2. g[j - 1] = st /\ ResultOK(st)
      BY <2>2, <3>1
    <3>3. f[j] = Round(p, st, node, index) /\ g[j] = Round(q, st, node, index)
      BY <1>2, <1>3, <2>3, <2>5, <3>2
    <3>4. index \in STRING
      BY <1>1, <3>1
    <3>. HIDE DEF st, index
    <3>5. CASE st.outcome # "found"
      BY <2>2, <3>2, <3>3, <3>5 DEF Round
    <3>6. CASE st.outcome = "found"
      <4> DEFINE u == RoundTable(st.table, node, index)
      <4>1. Round(p, st, node, index) = Then(st, LeaveScope(Travarse(p, u, node.children)))
            /\ Round(q, st, node, index) = Then(st, LeaveScope(Travarse(q, u, node.children)))
        BY <3>6 DEF Round, RoundTable
      <4>2. u \in Table
        BY <3>2, <3>4, RoundTableOK DEF ResultOK
      <4>3. node.children \in Seq(Node) /\ \A i \in DOMAIN node.children : Height[node.children[i]] < Height[node]
        BY NodeIs DEF Parents
      <4>. HIDE DEF u
      <4>4. Travarse(p, u, node.children) = Travarse(q, u, node.children)
            /\ ResultOK(Travarse(p, u, node.children))
        BY <4>2, <4>3, TravarseAgrees
      <4>. QED
        BY <2>2, <3>3, <4>1, <4>4, LeaveScopeOK, ThenOK
    <3>. QED
      BY <3>5, <3>6
  <2>. QED
    BY <2>4, <2>5
<1>5. n \in Nat /\ n <= n
  BY <1>1
<1>6. f[n] = g[n] /\ ResultOK(f[n])
  BY <1>4, <1>5
<1>. QED
  BY <1>6 DEF f, g, n

LEMMA FailsOK ==
  ASSUME NEW t \in Table, NEW outcome, NEW nodes
  PROVE  ResultOK(Fails(t, outcome)) /\ ResultOK(Rendered(t, nodes))
BY DEF Fails, Rendered, ResultOK

\* What parse() makes of a node depends on what it makes of the nodes below it.
LEMMA ParseAgrees ==
  ASSUME NEW g \in Groups, NEW node \in Elements, NEW p, NEW q, Agree(p, q, Height[node]), NEW t \in Table
  PROVE  Parse(p, g, t, node) = Parse(q, g, t, node) /\ ResultOK(Parse(p, g, t, node))
<1>1. node.is \in Parents => \A u \in Table :
        /\ Travarse(p, u, node.children) = Travarse(q, u, node.children)
        /\ ResultOK(Travarse(p, u, node.children))
  BY NodeIs, TravarseAgrees
<1>2. CASE node.is = "block"
  <2>1. Parse(p, g, t, node) = LeaveScope(Travarse(p, Down(t), node.children))
        /\ Parse(q, g, t, node) = LeaveScope(Travarse(q, Down(t), node.children))
    BY <1>2 DEF Parse, Block
  <2>. QED
    BY <1>1, <1>2, <2>1, DownIs, LeaveScopeOK DEF Parents
<1>3. CASE node.is = "var"
  <2>1. Parse(p, g, t, node) = Rendered(Add(t, node.key, node.ref), <<>>)
        /\ Parse(q, g, t, node) = Rendered(Add(t, node.key, node.ref), <<>>)
    BY <1>3 DEF Parse, Var
  <2>2. KeyOK(node.key) /\ node.ref \in Path /\ t.level \in 0 .. Levels - 1
    BY <1>3, NodeIs DEF NodeOK, Table
  <2>3. Add(t, node.key, node.ref) \in Table
    BY <2>2, AddIs DEF Add
  <2>. QED
    BY <2>1, <2>3, FailsOK
<1>4. CASE node.is = "for"
  <2> DEFINE keys == KeysIn(g, node.in)
  <2>1. Parse(p, g, t, node) = (IF keys.outcome # "found" THEN Fails(t, keys.outcome)
                                ELSE Rounds(p, t, node, keys.value)[Len(keys.value)])
        /\ Parse(q, g, t, node) = (IF keys.outcome # "found" THEN Fails(t, keys.outcome)
                                   ELSE Rounds(q, t, node, keys.value)[Len(keys.value)])
    BY <1>4 DEF Parse, For
  <2>2. node.in \in Path
    BY <1>4, NodeIs DEF NodeOK
  <2>3. keys.outcome = "found" => keys.value \in Seq(STRING)
    BY <2>2, KeysType
  <2>. HIDE DEF keys
  <2>4. CASE keys.outcome = "found"
    BY <1>4, <2>1, <2>3, <2>4, RoundsAgree
  <2>5. CASE keys.outcome # "found"
    BY <2>1, <2>5, FailsOK
  <2>. QED
    BY <2>4, <2>5
<1>5. CASE node.is = "if"
  <2> DEFINE test == Evaluate(t, g, node.test)
  <2>1. \A parse : Parse(parse, g, t, node) =
          CASE test.outcome # "found" -> Fails(t, test.outcome)
            [] test.outcome = "found" /\ test.value # 0 -> Travarse(parse, t, node.children)
            [] OTHER -> Rendered(t, <<>>)
    BY <1>5 DEF Parse, If
  <2>. HIDE DEF test
  <2>2. CASE test.outcome # "found"
    BY <2>1, <2>2, FailsOK
  <2>3. CASE test.outcome = "found" /\ test.value # 0
    BY <1>1, <1>5, <2>1, <2>3 DEF Parents
  <2>4. CASE test.outcome = "found" /\ ~(test.value # 0)
    BY <2>1, <2>4, FailsOK
  <2>. QED
    BY <2>2, <2>3, <2>4
<1>6. CASE node.is = "text"
  BY <1>6, FailsOK DEF Parse, Text
<1>7. CASE node.is = "html"
  BY <1>7, FailsOK DEF Parse, Html
<1>8. CASE node.is = "eval"
  BY <1>8, FailsOK DEF Parse, Eval
<1>9. CASE node.is = "view"
  <2>1. \A parse : Parse(parse, g, t, node) = StepIn(parse, t, node.name, node.attrs, node.children)
    BY <1>9 DEF Parse
  <2>2. Travarse(p, t, node.children) = Travarse(q, t, node.children) /\ ResultOK(Travarse(p, t, node.children))
    BY <1>1, <1>9 DEF Parents
  <2>3. StepIn(p, t, node.name, node.attrs, node.children) = StepIn(q, t, node.name, node.attrs, node.children)
    BY <2>2 DEF StepIn
  <2>4. ResultOK(StepIn(p, t, node.name, node.attrs, node.children))
    BY <2>2, StepInOK
  <2>. QED
    BY <2>1, <2>3, <2>4
<1>10. CASE node.is = "plain"
  <2> DEFINE done == Attributes(t, g, node.attrs)
  <2>1. \A parse : Parse(parse, g, t, node) = Stepped(parse, t, node, done)
    BY <1>10 DEF Parse
  <2>. HIDE DEF done
  <2>2. Travarse(p, t, node.children) = Travarse(q, t, node.children) /\ ResultOK(Travarse(p, t, node.children))
    BY <1>1, <1>10 DEF Parents
  <2>3. StepIn(p, t, node.name, done.attrs, node.children) = StepIn(q, t, node.name, done.attrs, node.children)
    BY <2>2 DEF StepIn
  <2>4. ResultOK(StepIn(p, t, node.name, done.attrs, node.children))
    BY <2>2, StepInOK
  <2>5. CASE done.outcome # "found"
    BY <2>1, <2>5, FailsOK DEF Stepped
  <2>6. CASE done.outcome = "found" /\ done.keep
    BY <2>1, <2>3, <2>4, <2>6 DEF Stepped
  <2>7. CASE done.outcome = "found" /\ ~done.keep
    BY <2>1, <2>7, FailsOK DEF Stepped
  <2>. QED
    BY <2>5, <2>6, <2>7
<1>. QED
  BY <1>2, <1>3, <1>4, <1>5, <1>6, <1>7, <1>8, <1>9, <1>10, NodeIs

\* A function that is parse() for the nodes up to a height.
Parser(f, g, height) ==
  f = [x \in Table \X Elements |-> IF Height[x[2]] < height THEN Parse(f, g, x[1], x[2]) ELSE <<>>]

LEMMA ParserIs ==
  ASSUME NEW f, NEW g, NEW height, Parser(f, g, height),
         NEW t \in Table, NEW node \in Elements, Height[node] < height
  PROVE  f[<<t, node>>] = Parse(f, g, t, node)
<1> DEFINE x == <<t, node>>
<1>1. x \in Table \X Elements /\ x[1] = t /\ x[2] = node
  OBVIOUS
<1>. HIDE DEF x
<1>2. f[x] = IF Height[x[2]] < height THEN Parse(f, g, x[1], x[2]) ELSE <<>>
  BY <1>1 DEF Parser
<1>. QED
  BY <1>1, <1>2 DEF x

\* There is one for each height at most.
LEMMA ParsersAgree ==
  ASSUME NEW g \in Groups, NEW p, NEW q, NEW low \in Nat, NEW high \in Nat, low <= high,
         Parser(p, g, low), Parser(q, g, high)
  PROVE  Agree(p, q, low)
<1> DEFINE Same(k) == Agree(p, q, k)
           Wrong == {k \in Nat : k <= low /\ ~Same(k)}
<1>1. Wrong = {}
  <2>1. SUFFICES ASSUME Wrong # {} PROVE FALSE
    OBVIOUS
  <2>2. PICK k \in Wrong : \A i \in Wrong : k <= i
    BY <2>1, MinExists
  <2>3. PICK t \in Table, node \in Elements :
          Height[node] < k /\ ~(p[<<t, node>>] = q[<<t, node>>] /\ ResultOK(p[<<t, node>>]))
    BY <2>2 DEF Agree
  <2>. HIDE DEF Same
  <2>4. Height[node] \in Nat /\ Height[node] < low /\ Height[node] < high /\ Height[node] <= low /\ ~(k <= Height[node])
    BY <2>2, <2>3, NodeIs
  <2>5. Agree(p, q, Height[node])
    BY <2>2, <2>4 DEF Same
  <2>6. p[<<t, node>>] = Parse(p, g, t, node) /\ q[<<t, node>>] = Parse(q, g, t, node)
    BY <2>4, ParserIs
  <2>7. Parse(p, g, t, node) = Parse(q, g, t, node) /\ ResultOK(Parse(p, g, t, node))
    BY <2>5, ParseAgrees
  <2>. QED
    BY <2>3, <2>6, <2>7
<1>. QED
  BY <1>1

LEMMA ParserExists ==
  ASSUME NEW g \in Groups, NEW height \in Nat
  PROVE  \E f : Parser(f, g, height)
<1> DEFINE Wrong == {k \in Nat : ~\E f : Parser(f, g, k)}
<1>1. Wrong = {}
  <2>1. SUFFICES ASSUME Wrong # {} PROVE FALSE
    OBVIOUS
  <2>2. PICK k \in Wrong : \A i \in Wrong : k <= i
    BY <2>1, MinExists
  <2>3. CASE k = 0
    <3> DEFINE f == [x \in Table \X Elements |-> <<>>]
    <3>1. \A x \in Table \X Elements : ~(Height[x[2]] < 0)
      <4>1. TAKE x \in Table \X Elements
      <4>2. x[2] \in Elements
        BY <4>1
      <4>. QED
        BY <4>2, NodeIs
    <3>2. Parser(f, g, 0)
      BY <3>1 DEF Parser
    <3>. QED
      BY <2>2, <2>3, <3>2
  <2>4. CASE k # 0
    <3>1. k \in Nat /\ k - 1 \in Nat /\ ~(k <= k - 1)
      BY <2>4
    <3>2. PICK p : Parser(p, g, k - 1)
      BY <2>2, <3>1
    <3> DEFINE q == [x \in Table \X Elements |-> IF Height[x[2]] < k THEN Parse(p, g, x[1], x[2]) ELSE <<>>]
    <3>3. Agree(p, p, k - 1)
      BY <3>1, <3>2, ParsersAgree
    <3>4. \A t \in Table, node \in Elements :
            q[<<t, node>>] = IF Height[node] < k THEN Parse(p, g, t, node) ELSE <<>>
      <4>1. TAKE t \in Table, node \in Elements
      <4> DEFINE x == <<t, node>>
      <4>2. x \in Table \X Elements /\ x[1] = t /\ x[2] = node
        OBVIOUS
      <4>. HIDE DEF x
      <4>3. q[x] = IF Height[x[2]] < k THEN Parse(p, g, x[1], x[2]) ELSE <<>>
        BY <4>2
      <4>. QED
        BY <4>2, <4>3 DEF x
    <3>. HIDE DEF q
    <3>5. Agree(p, q, k - 1)
      <4>1. SUFFICES ASSUME NEW t \in Table, NEW node \in Elements, Height[node] < k - 1
                     PROVE  p[<<t, node>>] = q[<<t, node>>] /\ ResultOK(p[<<t, node>>])
        BY DEF Agree
      <4>2. Height[node] < k
        BY <3>1, <4>1, NodeIs
      <4>3. q[<<t, node>>] = Parse(p, g, t, node)
        BY <3>4, <4>2
      <4>4. p[<<t, node>>] = Parse(p, g, t, node)
        BY <3>2, <4>1, ParserIs
      <4>5. ResultOK(p[<<t, node>>])
        BY <3>3, <4>1 DEF Agree
      <4>. QED
        BY <4>3, <4>4, <4>5
    <3>6. \A t \in Table, node \in Elements : Height[node] < k => Parse(p, g, t, node) = Parse(q, g, t, node)
      <4>1. SUFFICES ASSUME NEW t \in Table, NEW node \in Elements, Height[node] < k
                     PROVE  Parse(p, g, t, node) = Parse(q, g, t, node)
        OBVIOUS
      <4>2. \A low \in Elements : Height[low] < Height[node] => Height[low] < k - 1
        BY <3>1, <4>1, NodeIs
      <4>3. Agree(p, q, Height[node])
        BY <3>5, <4>2 DEF Agree
      <4>. QED
        BY <4>3, ParseAgrees
    <3>7. \A x \in Table \X Elements :
            (IF Height[x[2]] < k THEN Parse(p, g, x[1], x[2]) ELSE <<>>)
              = (IF Height[x[2]] < k THEN Parse(q, g, x[1], x[2]) ELSE <<>>)
      <4>1. TAKE x \in Table \X Elements
      <4>2. x[1] \in Table /\ x[2] \in Elements
        BY <4>1
      <4>. QED
        BY <3>6, <4>2
    <3>8. Parser(q, g, k)
      BY <3>7 DEF Parser, q
    <3>. QED
      BY <2>2, <3>8
  <2>. QED
    BY <2>3, <2>4
<1>. QED
  BY <1>1

\* parse() is defined for every document.
LEMMA ParsingIs ==
  ASSUME NEW g \in Groups
  PROVE  \A t \in Table, node \in Elements :
           /\ Parsing(g)[<<t, node>>] = Parse(Parsing(g), g, t, node)
           /\ ResultOK(Parsing(g)[<<t, node>>])
<1> DEFINE P(k) == CHOOSE f : Parser(f, g, k)
           F == [x \in Table \X Elements |-> P(Height[x[2]] + 1)[x]]
<1>1. \A k \in Nat : Parser(P(k), g, k)
  BY ParserExists
<1>2. \A t \in Table, node \in Elements : F[<<t, node>>] = P(Height[node] + 1)[<<t, node>>]
  <2>1. TAKE t \in Table, node \in Elements
  <2> DEFINE x == <<t, node>>
  <2>2. x \in Table \X Elements /\ x[2] = node
    OBVIOUS
  <2>. HIDE DEF x, P
  <2>3. F[x] = P(Height[x[2]] + 1)[x]
    BY <2>2
  <2>. QED
    BY <2>2, <2>3 DEF x
<1>. HIDE DEF P, F
<1>3. \A k \in Nat : Agree(P(k), F, k)
  <2>1. TAKE k \in Nat
  <2>2. SUFFICES ASSUME NEW t \in Table, NEW node \in Elements, Height[node] < k
                 PROVE  P(k)[<<t, node>>] = F[<<t, node>>] /\ ResultOK(P(k)[<<t, node>>])
    BY DEF Agree
  <2> DEFINE h == Height[node] + 1
  <2>3. h \in Nat /\ h <= k /\ Height[node] < h
    BY <2>2, NodeIs
  <2>4. Agree(P(h), P(k), h)
    BY <1>1, <2>3, ParsersAgree
  <2>5. P(h)[<<t, node>>] = P(k)[<<t, node>>] /\ ResultOK(P(h)[<<t, node>>])
    BY <2>3, <2>4 DEF Agree
  <2>. QED
    BY <1>2, <2>5
<1>4. \A t \in Table, node \in Elements : F[<<t, node>>] = Parse(F, g, t, node) /\ ResultOK(F[<<t, node>>])
  <2>1. TAKE t \in Table, node \in Elements
  <2> DEFINE h == Height[node]
  <2>2. h \in Nat /\ h + 1 \in Nat /\ h < h + 1
    BY NodeIs
  <2>3. P(h + 1)[<<t, node>>] = Parse(P(h + 1), g, t, node)
    BY <1>1, <2>2, ParserIs
  <2>4. Agree(P(h + 1), F, h)
    <3>1. \A low \in Elements : Height[low] < h => Height[low] < h + 1
      BY <2>2, NodeIs
    <3>. QED
      BY <1>3, <2>2, <3>1 DEF Agree
  <2>5. Parse(P(h + 1), g, t, node) = Parse(F, g, t, node) /\ ResultOK(Parse(P(h + 1), g, t, node))
    BY <2>4, ParseAgrees
  <2>. QED
    BY <1>2, <2>3, <2>5
<1>5. F = [x \in Table \X Elements |-> Parse(F, g, x[1], x[2])]
  <2>1. \A x \in Table \X Elements : P(Height[x[2]] + 1)[x] = Parse(F, g, x[1], x[2])
    <3>1. TAKE x \in Table \X Elements
    <3>2. x[1] \in Table /\ x[2] \in Elements /\ x = <<x[1], x[2]>>
      BY <3>1
    <3>3. F[<<x[1], x[2]>>] = P(Height[x[2]] + 1)[<<x[1], x[2]>>]
      BY <1>2, <3>2
    <3>4. F[<<x[1], x[2]>>] = Parse(F, g, x[1], x[2])
      BY <1>4, <3>2
    <3>. QED
      BY <3>2, <3>3, <3>4
  <2>2. F = [x \in Table \X Elements |-> P(Height[x[2]] + 1)[x]]
    BY DEF F
  <2>. QED
    BY <2>1, <2>2
<1> DEFINE Whole(f) == f = [x \in Table \X Elements |-> Parse(f, g, x[1], x[2])]
<1>6. \E f : Whole(f)
  BY <1>5
<1>7. Whole(Parsing(g))
  BY <1>6 DEF Parsing
<1>8. \A t \in Table, node \in Elements : Parsing(g)[<<t, node>>] = Parse(Parsing(g), g, t, node)
  <2>1. TAKE t \in Table, node \in Elements
  <2> DEFINE x == <<t, node>>
             f == Parsing(g)
  <2>2. x \in Table \X Elements /\ x[1] = t /\ x[2] = node
    OBVIOUS
  <2>3. Whole(f)
    BY <1>7
  <2>. HIDE DEF x, f
  <2>4. f[x] = Parse(f, g, x[1], x[2])
    BY <2>2, <2>3
  <2>. QED
    BY <2>2, <2>4 DEF x, f
<1>9. \A k \in Nat : Agree(Parsing(g), Parsing(g), k)
  <2> DEFINE f == Parsing(g)
             Wrong == {k \in Nat : ~Agree(f, f, k)}
  <2>1. Wrong = {}
    <3>1. SUFFICES ASSUME Wrong # {} PROVE FALSE
      OBVIOUS
    <3>2. PICK k \in Wrong : \A i \in Wrong : k <= i
      BY <3>1, MinExists
    <3>3. PICK t \in Table, node \in Elements : Height[node] < k /\ ~ResultOK(f[<<t, node>>])
      BY <3>2 DEF Agree
    <3>4. Height[node] \in Nat /\ ~(k <= Height[node])
      BY <3>2, <3>3, NodeIs
    <3>5. Agree(f, f, Height[node])
      BY <3>2, <3>4
    <3>6. ResultOK(Parse(f, g, t, node))
      BY <3>5, ParseAgrees
    <3>. QED
      BY <1>8, <3>3, <3>6
  <2>. QED
    BY <2>1
<1>10. \A t \in Table, node \in Elements : ResultOK(Parsing(g)[<<t, node>>])
  <2>1. TAKE t \in Table, node \in Elements
  <2>2. Height[node] + 1 \in Nat /\ Height[node] < Height[node] + 1
    BY NodeIs
  <2>. QED
    BY <1>9, <2>2 DEF Agree
<1>. QED
  BY <1>8, <1>10

-----------------------------------------------------------------------------
(* What documents mean *)

LEMMA SequenceIs ==
  ASSUME NEW of, NEW env, NEW nodes, Len(nodes) \in Nat
  PROVE  Sequence(of, env, nodes) =
           [i \in 0 .. Len(nodes) |->
              IF i = 0 THEN [env |-> env, nodes |-> <<>>]
              ELSE Behind(of, Sequence(of, env, nodes)[i - 1], nodes[i])]
<1> DEFINE Is(f, n) == f = [i \in 0 .. n |-> IF i = 0 THEN [env |-> env, nodes |-> <<>>] ELSE Behind(of, f[i - 1], nodes[i])]
           Wrong == {n \in Nat : ~\E f : Is(f, n)}
<1>1. Wrong = {}
  <2>1. SUFFICES ASSUME Wrong # {} PROVE FALSE
    OBVIOUS
  <2>2. PICK n \in Wrong : \A k \in Wrong : n <= k
    BY <2>1, MinExists
  <2>3. CASE n = 0
    <3>1. Is([i \in 0 .. 0 |-> [env |-> env, nodes |-> <<>>]], 0)
      OBVIOUS
    <3>. QED
      BY <2>3, <3>1
  <2>4. CASE n # 0
    <3>1. n - 1 \in Nat /\ n - 1 \notin Wrong
      <4>1. n \in Nat /\ n - 1 \in Nat /\ ~(n <= n - 1)
        BY <2>4
      <4>. QED
        BY <2>2, <4>1
    <3>2. PICK f : Is(f, n - 1)
      BY <3>1
    <3> DEFINE g == [i \in 0 .. n |-> IF i = n THEN Behind(of, f[n - 1], nodes[n]) ELSE f[i]]
    <3>3. \A i \in 0 .. n : g[i] = IF i = 0 THEN [env |-> env, nodes |-> <<>>] ELSE Behind(of, g[i - 1], nodes[i])
      BY <2>4, <3>1, <3>2
    <3>4. Is(g, n)
      BY <3>3
    <3>. QED
      BY <3>4
  <2>. QED
    BY <2>3, <2>4
<1>2. PICK f : Is(f, Len(nodes))
  BY <1>1
<1>. QED
  BY <1>2 DEF Sequence

LEMMA RepeatingIs ==
  ASSUME NEW of, NEW env, NEW node, NEW indices, Len(indices) \in Nat
  PROVE  \A i \in 0 .. Len(indices) :
           Repeating(of, env, node, indices)[i] =
             IF i = 0 THEN <<>>
             ELSE Repeating(of, env, node, indices)[i - 1] \o RoundMeans(of, env, node, indices[i])
<1> DEFINE Is(f, n) == f = [i \in 0 .. n |-> IF i = 0 THEN <<>> ELSE f[i - 1] \o RoundMeans(of, env, node, indices[i])]
           Wrong == {n \in Nat : ~\E f : Is(f, n)}
<1>1. Wrong = {}
  <2>1. SUFFICES ASSUME Wrong # {} PROVE FALSE
    OBVIOUS
  <2>2. PICK n \in Wrong : \A k \in Wrong : n <= k
    BY <2>1, MinExists
  <2>3. CASE n = 0
    <3>1. Is([i \in 0 .. 0 |-> <<>>], 0)
      OBVIOUS
    <3>. QED
      BY <2>3, <3>1
  <2>4. CASE n # 0
    <3>1. n - 1 \in Nat /\ n - 1 \notin Wrong
      <4>1. n \in Nat /\ n - 1 \in Nat /\ ~(n <= n - 1)
        BY <2>4
      <4>. QED
        BY <2>2, <4>1
    <3>2. PICK f : Is(f, n - 1)
      BY <3>1
    <3> DEFINE g == [i \in 0 .. n |-> IF i = n THEN f[n - 1] \o RoundMeans(of, env, node, indices[n]) ELSE f[i]]
    <3>3. \A i \in 0 .. n : g[i] = IF i = 0 THEN <<>> ELSE g[i - 1] \o RoundMeans(of, env, node, indices[i])
      BY <2>4, <3>1, <3>2
    <3>4. Is(g, n)
      BY <3>3
    <3>. QED
      BY <3>4
  <2>. QED
    BY <2>3, <2>4
<1>2. \E f : Is(f, Len(indices))
  BY <1>1
<1> DEFINE f == Repeating(of, env, node, indices)
<1>3. Is(f, Len(indices))
  BY <1>2 DEF Repeating
<1>. HIDE DEF f
<1>4. \A i \in 0 .. Len(indices) : f[i] = IF i = 0 THEN <<>> ELSE f[i - 1] \o RoundMeans(of, env, node, indices[i])
  BY <1>3
<1>. QED
  BY <1>4 DEF f

LEMMA AnyNodeIs ==
  ASSUME NEW node \in Node
  PROVE  /\ NodeOK(node) /\ Height[node] \in Nat \ {0}
         /\ node.is \in {"pcdata", "block", "var", "for", "if", "text", "html", "eval", "view", "plain"}
         /\ node.is \in Parents =>
              /\ node.children \in Seq(Node)
              /\ \A i \in DOMAIN node.children : Height[node.children[i]] < Height[node]
BY NodeAssumption DEF NodeOK

LEMMA BindType ==
  ASSUME NEW env \in Envs, NEW key, KeyOK(key), NEW ref \in Path
  PROVE  Bind(env, key, ref) \in Envs
<1>1. CASE Bind(env, key, ref) = env
  BY <1>1
<1>2. CASE Bind(env, key, ref) # env
  <2>1. IsName(key) /\ Bind(env, key, ref) = [env EXCEPT ![key[1].name] = Lookup(TableOf(env), ref)]
    BY <1>2 DEF Bind
  <2>2. Lookup(TableOf(env), ref) \in Steps
    BY TableOfType, LookupType DEF Path
  <2>. QED
    BY <2>1, <2>2 DEF Envs
<1>. QED
  BY <1>1, <1>2

\* Two functions that mean the same by the nodes up to a height.
SameMeaning(p, q, height) ==
  \A env \in Envs, node \in Node :
    Height[node] < height => p[<<env, node>>] = q[<<env, node>>] /\ p[<<env, node>>].env \in Envs

LEMMA AllAgrees ==
  ASSUME NEW p, NEW q, NEW height, SameMeaning(p, q, height), NEW env \in Envs, NEW nodes \in Seq(Node),
         \A i \in DOMAIN nodes : Height[nodes[i]] < height
  PROVE  All(p, env, nodes) = All(q, env, nodes) /\ All(p, env, nodes).env \in Envs
<1> DEFINE n == Len(nodes)
           f == Sequence(p, env, nodes)
           g == Sequence(q, env, nodes)
           Wrong == {j \in Nat : j <= n /\ ~(f[j] = g[j] /\ f[j].env \in Envs)}
<1>1. n \in Nat /\ \A i \in 1 .. n : nodes[i] \in Node /\ Height[nodes[i]] < height
  BY LenProperties
<1>2. f = [i \in 0 .. n |-> IF i = 0 THEN [env |-> env, nodes |-> <<>>] ELSE Behind(p, f[i - 1], nodes[i])]
  BY <1>1, SequenceIs
<1>3. g = [i \in 0 .. n |-> IF i = 0 THEN [env |-> env, nodes |-> <<>>] ELSE Behind(q, g[i - 1], nodes[i])]
  BY <1>1, SequenceIs
<1>. HIDE DEF f, g, n
<1>4. Wrong = {}
  <2>1. SUFFICES ASSUME Wrong # {} PROVE FALSE
    OBVIOUS
  <2>2. PICK j \in Wrong : \A i \in Wrong : j <= i
    BY <2>1, MinExists
  <2>3. j \in Nat /\ j <= n /\ j \in 0 .. n
    BY <1>1, <2>2
  <2>4. CASE j = 0
    BY <1>2, <1>3, <2>2, <2>3, <2>4
  <2>5. CASE j # 0
    <3> DEFINE node == nodes[j]
               st == f[j - 1]
    <3>1. j - 1 \in Nat /\ j - 1 <= n /\ ~(j <= j - 1) /\ j \in 1 .. n
      BY <1>1, <2>3, <2>5
    <3>2. g[j - 1] = st /\ st.env \in Envs
      BY <2>2, <3>1
    <3>3. f[j] = Behind(p, st, node) /\ g[j] = Behind(q, st, node)
      BY <1>2, <1>3, <2>3, <2>5, <3>2
    <3>4. node \in Node /\ Height[node] < height
      BY <1>1, <3>1
    <3>. HIDE DEF st, node
    <3>5. p[<<st.env, node>>] = q[<<st.env, node>>] /\ p[<<st.env, node>>].env \in Envs
      BY <3>2, <3>4 DEF SameMeaning
    <3>6. f[j] = g[j] /\ f[j].env \in Envs
      BY <3>3, <3>5 DEF Behind
    <3>. QED
      BY <2>2, <3>6
  <2>. QED
    BY <2>4, <2>5
<1>5. n \in Nat /\ n <= n
  BY <1>1
<1>6. f[n] = g[n] /\ f[n].env \in Envs
  BY <1>4, <1>5
<1>. QED
  BY <1>6 DEF f, g, n, All

LEMMA RepeatedAgrees ==
  ASSUME NEW node \in Node, node.is = "for", NEW p, NEW q, SameMeaning(p, q, Height[node]),
         NEW env \in Envs, NEW indices \in Seq(STRING)
  PROVE  Repeated(p, env, node, indices) = Repeated(q, env, node, indices)
<1> DEFINE n == Len(indices)
           f == Repeating(p, env, node, indices)
           g == Repeating(q, env, node, indices)
           Wrong == {j \in Nat : j <= n /\ f[j] # g[j]}
<1>1. n \in Nat /\ \A i \in 1 .. n : indices[i] \in STRING
  BY LenProperties
<1>2. \A i \in 0 .. n : f[i] = IF i = 0 THEN <<>> ELSE f[i - 1] \o RoundMeans(p, env, node, indices[i])
  BY <1>1, RepeatingIs
<1>3. \A i \in 0 .. n : g[i] = IF i = 0 THEN <<>> ELSE g[i - 1] \o RoundMeans(q, env, node, indices[i])
  BY <1>1, RepeatingIs
<1>4. \A i \in 1 .. n : RoundMeans(p, env, node, indices[i]) = RoundMeans(q, env, node, indices[i])
  <2>1. TAKE i \in 1 .. n
  <2>2. KeyOK(node.key) /\ Indexed(node.in, indices[i]) \in Path
    BY <1>1, AnyNodeIs, IndexedType DEF NodeOK
  <2>3. Bind(env, node.key, Indexed(node.in, indices[i])) \in Envs
    BY <2>2, BindType
  <2>4. node.children \in Seq(Node) /\ \A c \in DOMAIN node.children : Height[node.children[c]] < Height[node]
    BY AnyNodeIs DEF Parents
  <2>. QED
    BY <2>3, <2>4, AllAgrees DEF RoundMeans
<1>. HIDE DEF f, g, n
<1>5. Wrong = {}
  <2>1. SUFFICES ASSUME Wrong # {} PROVE FALSE
    OBVIOUS
  <2>2. PICK j \in Wrong : \A i \in Wrong : j <= i
    BY <2>1, MinExists
  <2>3. j \in Nat /\ j <= n /\ j \in 0 .. n
    BY <1>1, <2>2
  <2>4. CASE j = 0
    BY <1>2, <1>3, <2>2, <2>3, <2>4
  <2>5. CASE j # 0
    <3>1. j - 1 \in Nat /\ j - 1 <= n /\ ~(j <= j - 1) /\ j \in 1 .. n
      BY <1>1, <2>3, <2>5
    <3>2. f[j - 1] = g[j - 1]
      BY <2>2, <3>1
    <3>3. f[j] = f[j - 1] \o RoundMeans(p, env, node, indices[j])
          /\ g[j] = g[j - 1] \o RoundMeans(q, env, node, indices[j])
      BY <1>2, <1>3, <2>3, <2>5
    <3>. QED
      BY <1>4, <2>2, <3>1, <3>2, <3>3
  <2>. QED
    BY <2>4, <2>5
<1>6. n \in Nat /\ n <= n
  BY <1>1
<1>7. f[n] = g[n]
  BY <1>5, <1>6
<1>. QED
  BY <1>7 DEF f, g, n, Repeated

\* What a node means depends on what the nodes below it mean.
LEMMA OfAgrees ==
  ASSUME NEW data \in Groups, NEW node \in Node, NEW p, NEW q, SameMeaning(p, q, Height[node]), NEW env \in Envs
  PROVE  Of(p, data, env, node) = Of(q, data, env, node) /\ Of(p, data, env, node).env \in Envs
<1>1. node.is \in Parents => All(p, env, node.children) = All(q, env, node.children)
                             /\ All(p, env, node.children).env \in Envs
  BY AnyNodeIs, AllAgrees
<1>2. CASE node.is \in {"pcdata", "text", "html", "eval"}
  BY <1>2 DEF Of
<1>3. CASE node.is = "var"
  <2>1. Bind(env, node.key, node.ref) \in Envs
    BY <1>3, AnyNodeIs, BindType DEF NodeOK
  <2>. QED
    BY <1>3, <2>1 DEF Of
<1>4. CASE node.is = "for"
  <2> DEFINE keys == KeysIn(data, node.in)
             says(of) == IF keys.outcome = "found" THEN Repeated(of, env, node, keys.value) ELSE <<>>
  <2>1. node.in \in Path
    BY <1>4, AnyNodeIs DEF NodeOK
  <2>2. keys.outcome = "found" => keys.value \in Seq(STRING)
    BY <2>1, KeysType
  <2>3. \A of : Of(of, data, env, node) = [env |-> env, nodes |-> says(of)]
    BY <1>4 DEF Of
  <2>. HIDE DEF keys
  <2>4. says(p) = says(q)
    BY <1>4, <2>2, RepeatedAgrees
  <2>. HIDE DEF says
  <2>. QED
    BY <2>3, <2>4
<1>5. CASE node.is = "block"
  <2>1. \A of : Of(of, data, env, node) = [env |-> env, nodes |-> All(of, env, node.children).nodes]
    BY <1>5 DEF Of
  <2>. QED
    BY <1>1, <1>5, <2>1 DEF Parents
<1>6. CASE node.is = "if"
  <2>1. \A of : Of(of, data, env, node) =
          IF True(env, data, node.test) THEN All(of, env, node.children) ELSE [env |-> env, nodes |-> <<>>]
    BY <1>6 DEF Of
  <2>. QED
    BY <1>1, <1>6, <2>1 DEF Parents
<1>7. CASE node.is = "view"
  <2>1. \A of : Of(of, data, env, node) =
          [env |-> All(of, env, node.children).env,
           nodes |-> <<[is |-> "plain", name |-> node.name, attrs |-> node.attrs,
                        children |-> All(of, env, node.children).nodes]>>]
    BY <1>7 DEF Of
  <2>. QED
    BY <1>1, <1>7, <2>1 DEF Parents
<1>8. CASE node.is = "plain"
  <2> DEFINE gone == \E i \in DOMAIN node.attrs : node.attrs[i].is = "if" /\ ~True(env, data, node.attrs[i].test)
             attrs == AttributesOf(env, data, node.attrs)
  <2>1. \A of : Of(of, data, env, node) =
          IF gone THEN [env |-> env, nodes |-> <<>>]
          ELSE [env |-> All(of, env, node.children).env,
                nodes |-> <<[is |-> "plain", name |-> node.name, attrs |-> attrs,
                             children |-> All(of, env, node.children).nodes]>>]
    BY <1>8 DEF Of
  <2>. HIDE DEF gone, attrs
  <2>. QED
    BY <1>1, <1>8, <2>1 DEF Parents
<1>. QED
  BY <1>2, <1>3, <1>4, <1>5, <1>6, <1>7, <1>8, AnyNodeIs

\* A function that is what the nodes mean up to a height.
Meant(f, g, height) ==
  f = [x \in Envs \X Node |-> IF Height[x[2]] < height THEN Of(f, g, x[1], x[2]) ELSE <<>>]

LEMMA MeaningIs ==
  ASSUME NEW f, NEW g, NEW height, Meant(f, g, height),
         NEW env \in Envs, NEW node \in Node, Height[node] < height
  PROVE  f[<<env, node>>] = Of(f, g, env, node)
<1> DEFINE x == <<env, node>>
<1>1. x \in Envs \X Node /\ x[1] = env /\ x[2] = node
  OBVIOUS
<1>. HIDE DEF x
<1>2. f[x] = IF Height[x[2]] < height THEN Of(f, g, x[1], x[2]) ELSE <<>>
  BY <1>1 DEF Meant
<1>. QED
  BY <1>1, <1>2 DEF x

\* There is one for each height at most.
LEMMA MeaningsAgree ==
  ASSUME NEW g \in Groups, NEW p, NEW q, NEW low \in Nat, NEW high \in Nat, low <= high,
         Meant(p, g, low), Meant(q, g, high)
  PROVE  SameMeaning(p, q, low)
<1> DEFINE Same(k) == SameMeaning(p, q, k)
           Wrong == {k \in Nat : k <= low /\ ~Same(k)}
<1>1. Wrong = {}
  <2>1. SUFFICES ASSUME Wrong # {} PROVE FALSE
    OBVIOUS
  <2>2. PICK k \in Wrong : \A i \in Wrong : k <= i
    BY <2>1, MinExists
  <2>3. PICK env \in Envs, node \in Node :
          Height[node] < k /\ ~(p[<<env, node>>] = q[<<env, node>>] /\ p[<<env, node>>].env \in Envs)
    BY <2>2 DEF SameMeaning
  <2>. HIDE DEF Same
  <2>4. Height[node] \in Nat /\ Height[node] < low /\ Height[node] < high /\ Height[node] <= low /\ ~(k <= Height[node])
    BY <2>2, <2>3, AnyNodeIs
  <2>5. SameMeaning(p, q, Height[node])
    BY <2>2, <2>4 DEF Same
  <2>6. p[<<env, node>>] = Of(p, g, env, node) /\ q[<<env, node>>] = Of(q, g, env, node)
    BY <2>4, MeaningIs
  <2>7. Of(p, g, env, node) = Of(q, g, env, node) /\ Of(p, g, env, node).env \in Envs
    BY <2>5, OfAgrees
  <2>. QED
    BY <2>3, <2>6, <2>7
<1>. QED
  BY <1>1

LEMMA MeaningExists ==
  ASSUME NEW g \in Groups, NEW height \in Nat
  PROVE  \E f : Meant(f, g, height)
<1> DEFINE Wrong == {k \in Nat : ~\E f : Meant(f, g, k)}
<1>1. Wrong = {}
  <2>1. SUFFICES ASSUME Wrong # {} PROVE FALSE
    OBVIOUS
  <2>2. PICK k \in Wrong : \A i \in Wrong : k <= i
    BY <2>1, MinExists
  <2>3. CASE k = 0
    <3> DEFINE f == [x \in Envs \X Node |-> <<>>]
    <3>1. \A x \in Envs \X Node : ~(Height[x[2]] < 0)
      <4>1. TAKE x \in Envs \X Node
      <4>2. x[2] \in Node
        BY <4>1
      <4>. QED
        BY <4>2, AnyNodeIs
    <3>2. Meant(f, g, 0)
      BY <3>1 DEF Meant
    <3>. QED
      BY <2>2, <2>3, <3>2
  <2>4. CASE k # 0
    <3>1. k \in Nat /\ k - 1 \in Nat /\ ~(k <= k - 1)
      BY <2>4
    <3>2. PICK p : Meant(p, g, k - 1)
      BY <2>2, <3>1
    <3> DEFINE q == [x \in Envs \X Node |-> IF Height[x[2]] < k THEN Of(p, g, x[1], x[2]) ELSE <<>>]
    <3>3. SameMeaning(p, p, k - 1)
      BY <3>1, <3>2, MeaningsAgree
    <3>4. \A env \in Envs, node \in Node :
            q[<<env, node>>] = IF Height[node] < k THEN Of(p, g, env, node) ELSE <<>>
      <4>1. TAKE env \in Envs, node \in Node
      <4> DEFINE x == <<env, node>>
      <4>2. x \in Envs \X Node /\ x[1] = env /\ x[2] = node
        OBVIOUS
      <4>. HIDE DEF x
      <4>3. q[x] = IF Height[x[2]] < k THEN Of(p, g, x[1], x[2]) ELSE <<>>
        BY <4>2
      <4>. QED
        BY <4>2, <4>3 DEF x
    <3>. HIDE DEF q
    <3>5. SameMeaning(p, q, k - 1)
      <4>1. SUFFICES ASSUME NEW env \in Envs, NEW node \in Node, Height[node] < k - 1
                     PROVE  p[<<env, node>>] = q[<<env, node>>] /\ p[<<env, node>>].env \in Envs
        BY DEF SameMeaning
      <4>2. Height[node] < k
        BY <3>1, <4>1, AnyNodeIs
      <4>3. q[<<env, node>>] = Of(p, g, env, node)
        BY <3>4, <4>2
      <4>4. p[<<env, node>>] = Of(p, g, env, node)
        BY <3>2, <4>1, MeaningIs
      <4>5. p[<<env, node>>].env \in Envs
        BY <3>3, <4>1 DEF SameMeaning
      <4>. QED
        BY <4>3, <4>4, <4>5
    <3>6. \A env \in Envs, node \in Node : Height[node] < k => Of(p, g, env, node) = Of(q, g, env, node)
      <4>1. SUFFICES ASSUME NEW env \in Envs, NEW node \in Node, Height[node] < k
                     PROVE  Of(p, g, env, node) = Of(q, g, env, node)
        OBVIOUS
      <4>2. \A low \in Node : Height[low] < Height[node] => Height[low] < k - 1
        BY <3>1, <4>1, AnyNodeIs
      <4>3. SameMeaning(p, q, Height[node])
        BY <3>5, <4>2 DEF SameMeaning
      <4>. QED
        BY <4>3, OfAgrees
    <3>7. \A x \in Envs \X Node :
            (IF Height[x[2]] < k THEN Of(p, g, x[1], x[2]) ELSE <<>>)
              = (IF Height[x[2]] < k THEN Of(q, g, x[1], x[2]) ELSE <<>>)
      <4>1. TAKE x \in Envs \X Node
      <4>2. x[1] \in Envs /\ x[2] \in Node
        BY <4>1
      <4>. QED
        BY <3>6, <4>2
    <3>8. Meant(q, g, k)
      BY <3>7 DEF Meant, q
    <3>. QED
      BY <2>2, <3>8
  <2>. QED
    BY <2>3, <2>4
<1>. QED
  BY <1>1

\* Every document has a meaning.
LEMMA MeansIs ==
  ASSUME NEW g \in Groups
  PROVE  \A env \in Envs, node \in Node :
           /\ Means(g)[<<env, node>>] = Of(Means(g), g, env, node)
           /\ Means(g)[<<env, node>>].env \in Envs
<1> DEFINE P(k) == CHOOSE f : Meant(f, g, k)
           F == [x \in Envs \X Node |-> P(Height[x[2]] + 1)[x]]
<1>1. \A k \in Nat : Meant(P(k), g, k)
  BY MeaningExists
<1>2. \A env \in Envs, node \in Node : F[<<env, node>>] = P(Height[node] + 1)[<<env, node>>]
  <2>1. TAKE env \in Envs, node \in Node
  <2> DEFINE x == <<env, node>>
  <2>2. x \in Envs \X Node /\ x[2] = node
    OBVIOUS
  <2>. HIDE DEF x, P
  <2>3. F[x] = P(Height[x[2]] + 1)[x]
    BY <2>2
  <2>. QED
    BY <2>2, <2>3 DEF x
<1>. HIDE DEF P, F
<1>3. \A k \in Nat : SameMeaning(P(k), F, k)
  <2>1. TAKE k \in Nat
  <2>2. SUFFICES ASSUME NEW env \in Envs, NEW node \in Node, Height[node] < k
                 PROVE  P(k)[<<env, node>>] = F[<<env, node>>] /\ P(k)[<<env, node>>].env \in Envs
    BY DEF SameMeaning
  <2> DEFINE h == Height[node] + 1
  <2>3. h \in Nat /\ h <= k /\ Height[node] < h
    BY <2>2, AnyNodeIs
  <2>4. SameMeaning(P(h), P(k), h)
    BY <1>1, <2>3, MeaningsAgree
  <2>5. P(h)[<<env, node>>] = P(k)[<<env, node>>] /\ P(h)[<<env, node>>].env \in Envs
    BY <2>3, <2>4 DEF SameMeaning
  <2>. QED
    BY <1>2, <2>5
<1>4. \A env \in Envs, node \in Node : F[<<env, node>>] = Of(F, g, env, node) /\ F[<<env, node>>].env \in Envs
  <2>1. TAKE env \in Envs, node \in Node
  <2> DEFINE h == Height[node]
  <2>2. h \in Nat /\ h + 1 \in Nat /\ h < h + 1
    BY AnyNodeIs
  <2>3. P(h + 1)[<<env, node>>] = Of(P(h + 1), g, env, node)
    BY <1>1, <2>2, MeaningIs
  <2>4. SameMeaning(P(h + 1), F, h)
    <3>1. \A low \in Node : Height[low] < h => Height[low] < h + 1
      BY <2>2, AnyNodeIs
    <3>. QED
      BY <1>3, <2>2, <3>1 DEF SameMeaning
  <2>5. Of(P(h + 1), g, env, node) = Of(F, g, env, node) /\ Of(P(h + 1), g, env, node).env \in Envs
    BY <2>4, OfAgrees
  <2>. QED
    BY <1>2, <2>3, <2>5
<1>5. F = [x \in Envs \X Node |-> Of(F, g, x[1], x[2])]
  <2>1. \A x \in Envs \X Node : P(Height[x[2]] + 1)[x] = Of(F, g, x[1], x[2])
    <3>1. TAKE x \in Envs \X Node
    <3>2. x[1] \in Envs /\ x[2] \in Node /\ x = <<x[1], x[2]>>
      BY <3>1
    <3>3. F[<<x[1], x[2]>>] = P(Height[x[2]] + 1)[<<x[1], x[2]>>]
      BY <1>2, <3>2
    <3>4. F[<<x[1], x[2]>>] = Of(F, g, x[1], x[2])
      BY <1>4, <3>2
    <3>. QED
      BY <3>2, <3>3, <3>4
  <2>2. F = [x \in Envs \X Node |-> P(Height[x[2]] + 1)[x]]
    BY DEF F
  <2>. QED
    BY <2>1, <2>2
<1> DEFINE Whole(f) == f = [x \in Envs \X Node |-> Of(f, g, x[1], x[2])]
<1>6. \E f : Whole(f)
  BY <1>5
<1>7. Whole(Means(g))
  BY <1>6 DEF Means
<1>8. \A env \in Envs, node \in Node : Means(g)[<<env, node>>] = Of(Means(g), g, env, node)
  <2>1. TAKE env \in Envs, node \in Node
  <2> DEFINE x == <<env, node>>
             f == Means(g)
  <2>2. x \in Envs \X Node /\ x[1] = env /\ x[2] = node
    OBVIOUS
  <2>3. Whole(f)
    BY <1>7
  <2>. HIDE DEF x, f
  <2>4. f[x] = Of(f, g, x[1], x[2])
    BY <2>2, <2>3
  <2>. QED
    BY <2>2, <2>4 DEF x, f
<1>9. \A k \in Nat : SameMeaning(Means(g), Means(g), k)
  <2> DEFINE f == Means(g)
             Wrong == {k \in Nat : ~SameMeaning(f, f, k)}
  <2>1. Wrong = {}
    <3>1. SUFFICES ASSUME Wrong # {} PROVE FALSE
      OBVIOUS
    <3>2. PICK k \in Wrong : \A i \in Wrong : k <= i
      BY <3>1, MinExists
    <3>3. PICK env \in Envs, node \in Node : Height[node] < k /\ f[<<env, node>>].env \notin Envs
      BY <3>2 DEF SameMeaning
    <3>4. Height[node] \in Nat /\ ~(k <= Height[node])
      BY <3>2, <3>3, AnyNodeIs
    <3>5. SameMeaning(f, f, Height[node])
      BY <3>2, <3>4
    <3>6. Of(f, g, env, node).env \in Envs
      BY <3>5, OfAgrees
    <3>. QED
      BY <1>8, <3>3, <3>6
  <2>. QED
    BY <2>1
<1>10. \A env \in Envs, node \in Node : Means(g)[<<env, node>>].env \in Envs
  <2>1. TAKE env \in Envs, node \in Node
  <2>2. Height[node] + 1 \in Nat /\ Height[node] < Height[node] + 1
    BY AnyNodeIs
  <2>. QED
    BY <1>9, <2>2 DEF SameMeaning
<1>. QED
  BY <1>8, <1>10

-----------------------------------------------------------------------------
(* Views keep to what they mean *)

\* No alias is deeper than the level.
Flat(t) == \A n \in Name : t.aliases[n].depth <= t.level

\* What a piece of a view may make of a table: the level is not less, no alias
\* is lost, and those it has declared are not further out.
Within(t, u) ==
  /\ u.level >= t.level
  /\ \A n \in Name :
       \/ u.aliases[n] = t.aliases[n]
       \/ t.aliases[n] = NoAlias /\ t.level <= u.aliases[n].depth /\ u.aliases[n].depth <= u.level

\* The result of a piece of a view that means m: if it ends well it says so, at
\* the same level.
Keeps(t, st, m) ==
  /\ ResultOK(st)
  /\ Within(t, st.table)
  /\ st.outcome = "found" =>
       st.table.level = t.level /\ Env(st.table) = m.env /\ st.nodes = m.nodes

LEMMA TableIs ==
  ASSUME NEW t \in Table
  PROVE  /\ t.level \in Nat /\ t.level < Levels /\ Levels \in Nat
         /\ t = [level |-> t.level, aliases |-> t.aliases] /\ t.aliases = [n \in Name |-> t.aliases[n]]
         /\ \A n \in Name : t.aliases[n].depth \in Nat
  <1>1. Levels \in Nat
    BY ScopeAssumption
  <1>. QED
    BY <1>1, PlaceType DEF Table

LEMMA SameTable ==
  ASSUME NEW t \in Table, NEW u \in Table, t.level = u.level,
         \A n \in Name : t.aliases[n] = u.aliases[n]
  PROVE  t = u
<1>1. [n \in Name |-> t.aliases[n]] = [n \in Name |-> u.aliases[n]]
  OBVIOUS
<1>2. t.aliases = [n \in Name |-> t.aliases[n]] /\ u.aliases = [n \in Name |-> u.aliases[n]]
  BY TableIs
<1>3. t = [level |-> t.level, aliases |-> t.aliases] /\ u = [level |-> u.level, aliases |-> u.aliases]
  BY TableIs
<1>. QED
  BY <1>1, <1>2, <1>3

LEMMA WithinItself ==
  ASSUME NEW t \in Table
  PROVE  Within(t, t)
<1>1. t.level \in Nat
  BY TableIs
<1>. QED
  BY <1>1 DEF Within

LEMMA WithinFlat ==
  ASSUME NEW t \in Table, NEW u \in Table, Flat(t), Within(t, u)
  PROVE  Flat(u)
<1>1. t.level \in Nat /\ u.level \in Nat /\ t.level <= u.level
  BY TableIs DEF Within
<1>2. ASSUME NEW n \in Name PROVE u.aliases[n].depth <= u.level
  <2>1. t.aliases[n].depth \in Nat /\ t.aliases[n].depth <= t.level
    BY TableIs DEF Flat
  <2>. QED
    BY <1>1, <2>1 DEF Within
<1>. QED
  BY <1>2 DEF Flat

LEMMA WithinBoth ==
  ASSUME NEW t \in Table, NEW u \in Table, NEW v \in Table, Within(t, u), Within(u, v)
  PROVE  Within(t, v)
<1>1. t.level \in Nat /\ u.level \in Nat /\ v.level \in Nat
      /\ \A n \in Name : u.aliases[n].depth \in Nat /\ v.aliases[n].depth \in Nat
  BY TableIs
<1>2. t.level <= u.level /\ u.level <= v.level
  BY DEF Within
<1>3. ASSUME NEW n \in Name
      PROVE  \/ v.aliases[n] = t.aliases[n]
             \/ t.aliases[n] = NoAlias /\ t.level <= v.aliases[n].depth /\ v.aliases[n].depth <= v.level
  <2>1. \/ u.aliases[n] = t.aliases[n]
        \/ t.aliases[n] = NoAlias /\ t.level <= u.aliases[n].depth /\ u.aliases[n].depth <= u.level
    BY DEF Within
  <2>2. \/ v.aliases[n] = u.aliases[n]
        \/ u.aliases[n] = NoAlias /\ u.level <= v.aliases[n].depth /\ v.aliases[n].depth <= v.level
    BY DEF Within
  <2>3. CASE u.aliases[n] = t.aliases[n]
    BY <1>1, <1>2, <2>2, <2>3
  <2>4. CASE u.aliases[n] # t.aliases[n] /\ v.aliases[n] = u.aliases[n]
    BY <1>1, <1>2, <2>1, <2>4
  <2>5. CASE u.aliases[n] # t.aliases[n] /\ v.aliases[n] # u.aliases[n]
    BY <1>1, <1>2, <2>1, <2>2, <2>5
  <2>. QED
    BY <2>3, <2>4, <2>5
<1>. QED
  BY <1>1, <1>2, <1>3 DEF Within

\* A scope that was entered and is left: the table is as it was.
LEMMA ScopeKeeps ==
  ASSUME NEW t \in Table, Flat(t), NEW u \in Table, u.level = t.level + 1,
         \A n \in Name :
           \/ u.aliases[n] = t.aliases[n]
           \/ t.aliases[n] = NoAlias /\ u.aliases[n].depth = u.level,
         NEW st, NEW m, Keeps(u, st, m)
  PROVE  /\ ResultOK(LeaveScope(st))
         /\ LeaveScope(st).outcome = st.outcome
         /\ LeaveScope(st).nodes = st.nodes
         /\ Within(t, LeaveScope(st).table)
         /\ st.outcome = "found" => LeaveScope(st).table = t
<1>1. t.level \in Nat /\ u.level \in Nat
      /\ \A n \in Name : t.aliases[n].depth \in Nat /\ u.aliases[n].depth \in Nat /\ t.aliases[n].depth <= t.level
  BY TableIs DEF Flat
<1>2. ResultOK(st) /\ Within(u, st.table) /\ st.table \in Table
  BY DEF Keeps, ResultOK
<1>3. Within(t, u)
  BY <1>1 DEF Within
<1>4. CASE st.outcome # "found"
  <2>1. Within(t, st.table)
    BY <1>2, <1>3, WithinBoth
  <2>. QED
    BY <1>2, <1>4, <2>1 DEF LeaveScope
<1>5. CASE st.outcome = "found"
  <2> DEFINE v == st.table
  <2>1. v \in Table /\ v.level = t.level + 1
    BY <1>2, <1>5 DEF Keeps
  <2>2. \A n \in Name : v.aliases[n].depth \in Nat
    BY <2>1, TableIs
  <2>3. \A n \in Name :
          \/ v.aliases[n] = t.aliases[n]
          \/ t.aliases[n] = NoAlias /\ v.aliases[n].depth = v.level
    <3>1. TAKE n \in Name
    <3>2. \/ v.aliases[n] = u.aliases[n]
          \/ u.aliases[n] = NoAlias /\ u.level <= v.aliases[n].depth /\ v.aliases[n].depth <= v.level
      BY <1>2 DEF Within
    <3>3. u.aliases[n] = NoAlias => t.aliases[n] = NoAlias
      <4>1. NoAlias.depth = 0
        BY DEF NoAlias
      <4>. QED
        BY <1>1, <4>1
    <3>4. v.aliases[n].depth \in Nat /\ v.level = u.level /\ u.level \in Nat
      BY <1>1, <2>1, <2>2
    <3>. HIDE DEF v
    <3>5. CASE v.aliases[n] = u.aliases[n]
      <4>1. \/ u.aliases[n] = t.aliases[n]
            \/ t.aliases[n] = NoAlias /\ u.aliases[n].depth = u.level
        OBVIOUS
      <4>. QED
        BY <3>4, <3>5, <4>1
    <3>6. CASE v.aliases[n] # u.aliases[n]
      BY <3>2, <3>3, <3>4, <3>6
    <3>. QED
      BY <3>5, <3>6
  <2>. HIDE DEF v
  <2>4. Up(v) \in Table /\ Up(v).level = t.level
        /\ \A n \in Name : Up(v).aliases[n] = IF v.aliases[n].depth = v.level THEN NoAlias ELSE v.aliases[n]
    <3>1. v.level > 0 /\ v.level - 1 = t.level
      BY <1>1, <2>1
    <3>. QED
      BY <2>1, <3>1, UpIs
  <2>5. \A n \in Name : Up(v).aliases[n] = t.aliases[n]
    <3>1. TAKE n \in Name
    <3>2. Up(v).aliases[n] = IF v.aliases[n].depth = v.level THEN NoAlias ELSE v.aliases[n]
      BY <2>4
    <3>3. t.aliases[n].depth # v.level
      BY <1>1, <2>1
    <3>. QED
      BY <2>3, <3>2, <3>3
  <2>6. Up(v) = t
    BY <2>4, <2>5, SameTable
  <2>7. st = [outcome |-> st.outcome, table |-> v, nodes |-> st.nodes]
    BY <1>2 DEF ResultOK, v
  <2>8. LeaveScope(st) = [st EXCEPT !.table = t]
    BY <1>5, <2>6 DEF LeaveScope, v
  <2>9. LeaveScope(st) = [outcome |-> st.outcome, table |-> t, nodes |-> st.nodes]
    BY <2>7, <2>8
  <2>. QED
    BY <2>9, WithinItself DEF ResultOK
<1>. QED
  BY <1>4, <1>5

\* A declaration, and what it means.
LEMMA EnvAdd ==
  ASSUME NEW t \in Table, NEW key, KeyOK(key), NEW ref \in Path, NEW depth \in 0 .. Levels - 1
  PROVE  Env(AddAt(t, key, ref, depth)) = Bind(Env(t), key, ref)
<1> DEFINE name == key[1].name
           u == AddAt(t, key, ref, depth)
           found == Lookup(t, ref)
<1>1. Lookup(TableOf(Env(t)), ref) = found
  BY SameLookup
<1>2. IsName(key) => name \in Name
  BY DEF KeyOK
<1>3. \A n \in Name : n \notin Aliases(t) <=> t.aliases[n].ref = <<>>
  <2>1. <<>> \notin Path
    BY DEF Path
  <2>2. NoAlias.ref = <<>>
    BY DEF NoAlias
  <2>3. \A n \in Name : t.aliases[n] # NoAlias => t.aliases[n].ref \in Path
    BY PlaceType
  <2>. QED
    BY <2>1, <2>2, <2>3 DEF Aliases
<1>4. \A n \in Name : Env(t)[n] = t.aliases[n].ref
  BY DEF Env
<1>5. CASE IsName(key) /\ name \notin Aliases(t)
  <2>1. u = Declare(t, name, found, depth)
    BY <1>5 DEF AddAt
  <2>2. Bind(Env(t), key, ref) = [Env(t) EXCEPT ![name] = found]
    <3>1. Env(t)[name] = <<>>
      BY <1>2, <1>3, <1>4, <1>5
    <3>. QED
      BY <1>1, <1>5, <3>1 DEF Bind
  <2>. HIDE DEF found, name, u
  <2>3. u = [t EXCEPT !.aliases[name] = [ref |-> found, depth |-> depth]]
    BY <2>1 DEF Declare
  <2>4. t.aliases = [n \in Name |-> t.aliases[n]] /\ t = [level |-> t.level, aliases |-> t.aliases]
    BY TableIs
  <2>5. u.aliases = [t.aliases EXCEPT ![name] = [ref |-> found, depth |-> depth]]
    BY <2>3, <2>4
  <2>6. \A n \in Name : u.aliases[n].ref = IF n = name THEN found ELSE t.aliases[n].ref
    <3>1. \A n \in Name : u.aliases[n] = IF n = name THEN [ref |-> found, depth |-> depth] ELSE t.aliases[n]
      BY <2>4, <2>5
    <3>2. [ref |-> found, depth |-> depth].ref = found
      OBVIOUS
    <3>. QED
      BY <3>1, <3>2
  <2>7. Env(u) = [n \in Name |-> IF n = name THEN found ELSE t.aliases[n].ref]
    BY <2>6 DEF Env
  <2>8. [Env(t) EXCEPT ![name] = found] = [n \in Name |-> IF n = name THEN found ELSE t.aliases[n].ref]
    BY DEF Env
  <2>. QED
    BY <2>2, <2>7, <2>8 DEF u
<1>6. CASE ~(IsName(key) /\ name \notin Aliases(t))
  <2>1. u = t
    BY <1>6 DEF AddAt
  <2>2. Bind(Env(t), key, ref) = Env(t)
    <3>1. ~(IsName(key) /\ Env(t)[name] = <<>>)
      BY <1>2, <1>3, <1>4, <1>6
    <3>. QED
      BY <3>1 DEF Bind
  <2>. QED
    BY <2>1, <2>2
<1>. QED
  BY <1>5, <1>6

LEMMA EnvDown ==
  ASSUME NEW t \in Table
  PROVE  Env(Down(t)) = Env(t)
BY DownIs DEF Env

\* parse() keeps to what the nodes up to a height mean, where the level does not
\* wrap.
KeepsBelow(p, of, height) ==
  \A t \in Table, node \in Elements :
    Height[node] < height /\ Flat(t) /\ t.level + Height[node] < Levels =>
      Keeps(t, p[<<t, node>>], of[<<Env(t), node>>])

\* A text means itself.
TextsMean(of) ==
  \A env \in Envs, node \in Node :
    node.is = "pcdata" => of[<<env, node>>] = [env |-> env, nodes |-> <<node>>]

LEMMA TravarseKeeps ==
  ASSUME NEW p, NEW of, NEW height, KeepsBelow(p, of, height), TextsMean(of),
         NEW t \in Table, Flat(t), NEW children \in Seq(Node),
         \A i \in DOMAIN children : Height[children[i]] < height /\ t.level + Height[children[i]] < Levels
  PROVE  Keeps(t, Travarse(p, t, children), All(of, Env(t), children))
<1> DEFINE n == Len(children)
           f == Children(p, t, children)
           g == Sequence(of, Env(t), children)
           Wrong == {j \in Nat : j <= n /\ ~Keeps(t, f[j], g[j])}
<1>1. n \in Nat /\ \A i \in 1 .. n : /\ children[i] \in Node /\ Height[children[i]] < height
                                      /\ t.level + Height[children[i]] < Levels
  BY LenProperties
<1>2. f = [i \in 0 .. n |-> IF i = 0 THEN Rendered(t, <<>>) ELSE Child(p, f[i - 1], children[i])]
  BY <1>1, ChildrenIs
<1>3. g = [i \in 0 .. n |-> IF i = 0 THEN [env |-> Env(t), nodes |-> <<>>] ELSE Behind(of, g[i - 1], children[i])]
  BY <1>1, SequenceIs
<1>. HIDE DEF f, g, n
<1>4. Wrong = {}
  <2>1. SUFFICES ASSUME Wrong # {} PROVE FALSE
    OBVIOUS
  <2>2. PICK j \in Wrong : \A i \in Wrong : j <= i
    BY <2>1, MinExists
  <2>3. j \in Nat /\ j <= n /\ j \in 0 .. n
    BY <1>1, <2>2
  <2>4. CASE j = 0
    <3>1. f[j] = Rendered(t, <<>>) /\ g[j] = [env |-> Env(t), nodes |-> <<>>]
      BY <1>2, <1>3, <2>3, <2>4
    <3>2. Keeps(t, Rendered(t, <<>>), [env |-> Env(t), nodes |-> <<>>])
      BY WithinItself DEF Rendered, ResultOK, Keeps
    <3>. QED
      BY <2>2, <3>1, <3>2
  <2>5. CASE j # 0
    <3> DEFINE child == children[j]
               st == f[j - 1]
               sofar == g[j - 1]
    <3>1. j - 1 \in Nat /\ j - 1 <= n /\ ~(j <= j - 1) /\ j \in 1 .. n
      BY <1>1, <2>3, <2>5
    <3>2. Keeps(t, st, sofar)
      BY <2>2, <3>1
    <3>3. f[j] = Child(p, st, child) /\ g[j] = Behind(of, sofar, child)
      BY <1>2, <1>3, <2>3, <2>5
    <3>4. child \in Node /\ Height[child] < height /\ t.level + Height[child] < Levels
      BY <1>1, <3>1
    <3>. HIDE DEF st, child, sofar
    <3> DEFINE u == st.table
    <3>5. ResultOK(st) /\ Within(t, u) /\ u \in Table /\ Flat(u)
      BY <3>2, WithinFlat DEF Keeps, ResultOK
    <3>6. CASE st.outcome # "found"
      <4>1. Child(p, st, child) = st
        BY <3>6 DEF Child
      <4>2. Keeps(t, st, g[j])
        BY <3>5, <3>6 DEF Keeps
      <4>. QED
        BY <2>2, <3>3, <4>1, <4>2
    <3>7. CASE st.outcome = "found"
      <4> DEFINE next == IF child.is = "pcdata" THEN Rendered(u, <<child>>) ELSE p[<<u, child>>]
                 means == of[<<Env(u), child>>]
      <4>1. u.level = t.level /\ Env(u) = sofar.env /\ st.nodes = sofar.nodes /\ Env(u) \in Envs
        BY <3>2, <3>5, <3>7, EnvType DEF Keeps
      <4>2. Child(p, st, child) = Then(st, next)
        BY <3>7 DEF Child
      <4>3. Behind(of, sofar, child) = [env |-> means.env, nodes |-> st.nodes \o means.nodes]
        BY <4>1 DEF Behind
      <4>4. Keeps(u, next, means)
        <5>1. CASE child.is = "pcdata"
          <6>1. means = [env |-> Env(u), nodes |-> <<child>>]
            BY <3>4, <4>1, <5>1 DEF TextsMean
          <6>2. ResultOK(Rendered(u, <<child>>)) /\ Within(u, u)
            BY <3>5, FailsOK, WithinItself
          <6>3. next = Rendered(u, <<child>>)
            BY <5>1
          <6>. HIDE DEF u, means, next
          <6>4. next.outcome = "found" /\ next.table = u /\ next.nodes = <<child>>
            BY <6>3 DEF Rendered
          <6>. QED
            BY <6>1, <6>2, <6>3, <6>4 DEF Keeps
        <5>2. CASE child.is # "pcdata"
          <6>1. child \in Elements /\ u.level + Height[child] < Levels
            BY <3>4, <4>1, <5>2 DEF Elements
          <6>. QED
            BY <3>4, <3>5, <5>2, <6>1 DEF KeepsBelow
        <5>. QED
          BY <5>1, <5>2
      <4>. HIDE DEF next, means, u
      <4>5. ResultOK(next) /\ next.table \in Table /\ Within(t, next.table)
        BY <3>5, <4>4, WithinBoth DEF Keeps, ResultOK
      <4> DEFINE new == Then(st, next)
      <4>6. ResultOK(new) /\ new.outcome = next.outcome /\ new.table = next.table /\ new.nodes = st.nodes \o next.nodes
        BY <4>5, ThenOK DEF Then
      <4>. HIDE DEF new
      <4>7. next.outcome = "found" => next.table.level = t.level /\ Env(next.table) = means.env /\ next.nodes = means.nodes
        BY <4>1, <4>4 DEF Keeps
      <4>8. Keeps(t, new, [env |-> means.env, nodes |-> st.nodes \o means.nodes])
        BY <4>5, <4>6, <4>7 DEF Keeps
      <4>. QED
        BY <2>2, <3>3, <4>2, <4>3, <4>8 DEF new
    <3>. QED
      BY <3>6, <3>7
  <2>. QED
    BY <2>4, <2>5
<1>5. n \in Nat /\ n <= n
  BY <1>1
<1>6. Keeps(t, f[n], g[n])
  BY <1>4, <1>5
<1>. QED
  BY <1>6 DEF f, g, n, Travarse, All

\* A loop leaves the table as it was, and says what its rounds mean.
LEMMA RoundsKeep ==
  ASSUME NEW node \in Elements, node.is = "for", NEW p, NEW of, KeepsBelow(p, of, Height[node]), TextsMean(of),
         NEW t \in Table, Flat(t), t.level + Height[node] < Levels, NEW indices \in Seq(STRING)
  PROVE  Keeps(t, Rounds(p, t, node, indices)[Len(indices)],
               [env |-> Env(t), nodes |-> Repeated(of, Env(t), node, indices)])
<1> DEFINE n == Len(indices)
           f == Rounds(p, t, node, indices)
           g == Repeating(of, Env(t), node, indices)
           Right(j) == /\ ResultOK(f[j]) /\ Within(t, f[j].table)
                       /\ f[j].outcome = "found" => f[j].table = t /\ f[j].nodes = g[j]
           Wrong == {j \in Nat : j <= n /\ ~Right(j)}
<1>1. n \in Nat /\ \A i \in 1 .. n : indices[i] \in STRING
  BY LenProperties
<1>2. f = [i \in 0 .. n |-> IF i = 0 THEN Rendered(t, <<>>) ELSE Round(p, f[i - 1], node, indices[i])]
  BY <1>1, RoundsIs
<1>3. \A i \in 0 .. n : g[i] = IF i = 0 THEN <<>> ELSE g[i - 1] \o RoundMeans(of, Env(t), node, indices[i])
  BY <1>1, RepeatingIs
<1>. HIDE DEF f, g, n
<1>4. Wrong = {}
  <2>1. SUFFICES ASSUME Wrong # {} PROVE FALSE
    OBVIOUS
  <2>2. PICK j \in Wrong : \A i \in Wrong : j <= i
    BY <2>1, MinExists
  <2>3. j \in Nat /\ j <= n /\ j \in 0 .. n
    BY <1>1, <2>2
  <2>4. CASE j = 0
    <3>1. f[j] = Rendered(t, <<>>) /\ g[j] = <<>>
      BY <1>2, <1>3, <2>3, <2>4
    <3>2. ResultOK(f[j]) /\ Within(t, t) /\ f[j].table = t /\ f[j].nodes = <<>>
      BY <3>1, FailsOK, WithinItself DEF Rendered
    <3>. QED
      BY <2>2, <3>1, <3>2
  <2>5. CASE j # 0
    <3> DEFINE index == indices[j]
               st == f[j - 1]
    <3>1. j - 1 \in Nat /\ j - 1 <= n /\ ~(j <= j - 1) /\ j \in 1 .. n
      BY <1>1, <2>3, <2>5
    <3>2. Right(j - 1)
      <4>1. j - 1 \notin Wrong
        BY <2>2, <3>1
      <4>. HIDE DEF Right
      <4>. QED
        BY <3>1, <4>1
    <3>3. f[j] = Round(p, st, node, index) /\ g[j] = g[j - 1] \o RoundMeans(of, Env(t), node, index)
      BY <1>2, <1>3, <2>3, <2>5
    <3>4. index \in STRING
      BY <1>1, <3>1
    <3>. HIDE DEF st, index
    <3>5. CASE st.outcome # "found"
      <4>1. f[j] = st
        BY <3>3, <3>5 DEF Round
      <4>2. ResultOK(st) /\ Within(t, st.table)
        BY <3>2 DEF st
      <4>. QED
        BY <2>2, <3>5, <4>1, <4>2
    <3>6. CASE st.outcome = "found"
      <4> DEFINE u == RoundTable(t, node, index)
                 ref == Indexed(node.in, index)
                 inner == Travarse(p, u, node.children)
                 means == All(of, Env(u), node.children)
      <4>1. st.table = t /\ st.nodes = g[j - 1] /\ ResultOK(st)
        BY <3>2, <3>6 DEF st
      <4>2. KeyOK(node.key) /\ ref \in Path
        BY <3>4, NodeIs, IndexedType DEF NodeOK
      <4>3. /\ t.level \in Nat /\ Height[node] \in Nat \ {0} /\ Levels \in Nat /\ t.level + 1 < Levels
            /\ Down(t) \in Table /\ Down(t).level = t.level + 1 /\ Down(t).aliases = t.aliases
            /\ t.level + 1 \in 0 .. Levels - 1
        <5>1. t.level \in Nat /\ Height[node] \in Nat \ {0} /\ Levels \in Nat
          BY TableIs, NodeIs
        <5>2. t.level + 1 < Levels /\ t.level + 1 \in 0 .. Levels - 1
          BY <5>1
        <5>. QED
          BY <5>1, <5>2, DownIs
      <4>4. u = AddAt(Down(t), node.key, ref, t.level + 1)
        BY <4>3 DEF RoundTable, Add
      <4>5. /\ u \in Table /\ u.level = t.level + 1
            /\ \A x \in Name :
                 \/ u.aliases[x] = t.aliases[x]
                 \/ t.aliases[x] = NoAlias /\ u.aliases[x].depth = u.level
        <5>1. /\ u \in Table /\ u.level = Down(t).level
              /\ \A x \in Name : \/ u.aliases[x] = Down(t).aliases[x]
                                 \/ Down(t).aliases[x] = NoAlias /\ u.aliases[x].depth = t.level + 1
          BY <4>2, <4>3, <4>4, AddIs, SMTT(30)
        <5>. HIDE DEF u
        <5>. QED
          BY <4>3, <5>1
      <4>6. Env(u) = Bind(Env(t), node.key, ref)
        BY <4>2, <4>3, <4>4, EnvAdd, EnvDown
      <4>7. f[j] = Then(st, LeaveScope(inner))
        BY <3>3, <3>6, <4>1 DEF Round, RoundTable
      <4>8. RoundMeans(of, Env(t), node, index) = means.nodes
        BY <4>6 DEF RoundMeans
      <4>9. /\ node.children \in Seq(Node)
            /\ \A i \in DOMAIN node.children : Height[node.children[i]] < Height[node] /\ Height[node.children[i]] \in Nat
        <5>1. /\ node.children \in Seq(Node)
              /\ \A i \in DOMAIN node.children : Height[node.children[i]] < Height[node]
          BY NodeIs DEF Parents
        <5>2. \A i \in DOMAIN node.children : node.children[i] \in Node
          BY <5>1, LenProperties
        <5>. QED
          BY <5>1, <5>2, AnyNodeIs
      <4>. HIDE DEF u, ref
      <4>10. Flat(u)
        <5>1. Within(t, u)
          BY <4>3, <4>5 DEF Within
        <5>. QED
          BY <4>5, <5>1, WithinFlat
      <4>11. \A i \in DOMAIN node.children : u.level + Height[node.children[i]] < Levels
        <5>1. TAKE i \in DOMAIN node.children
        <5>2. /\ Height[node.children[i]] \in Nat /\ Height[node.children[i]] < Height[node]
              /\ u.level = t.level + 1 /\ t.level + Height[node] < Levels
          BY <4>5, <4>9
        <5>. QED
          BY <4>3, <5>2
      <4>12. Keeps(u, inner, means)
        BY <4>5, <4>9, <4>10, <4>11, TravarseKeeps, SMTT(30)
      <4>. HIDE DEF inner, means
      <4> DEFINE left == LeaveScope(inner)
      <4>13. /\ ResultOK(left) /\ left.outcome = inner.outcome /\ left.nodes = inner.nodes
             /\ Within(t, left.table) /\ (left.outcome = "found" => left.table = t)
        BY <4>5, <4>12, ScopeKeeps
      <4>14. left.outcome = "found" => left.nodes = means.nodes
        BY <4>12, <4>13 DEF Keeps
      <4>. HIDE DEF left
      <4>15. /\ ResultOK(Then(st, left)) /\ Then(st, left).outcome = left.outcome
             /\ Then(st, left).table = left.table /\ Then(st, left).nodes = st.nodes \o left.nodes
        BY <4>13, ThenOK DEF Then
      <4>16. Right(j)
        BY <3>3, <4>1, <4>7, <4>8, <4>13, <4>14, <4>15 DEF left
      <4>. HIDE DEF Right
      <4>. QED
        BY <2>2, <4>16
    <3>. QED
      BY <3>5, <3>6
  <2>. QED
    BY <2>4, <2>5
<1>5. n \in Nat /\ n <= n
  BY <1>1
<1>6. Right(n)
  <2>. HIDE DEF Right
  <2>. QED
    BY <1>4, <1>5
<1>. HIDE DEF Right
<1>7. Keeps(t, f[n], [env |-> Env(t), nodes |-> g[n]])
  BY <1>6, TableIs DEF Right, Keeps
<1>. QED
  BY <1>7 DEF f, g, n, Repeated

-----------------------------------------------------------------------------
(* The attributes while they are processed *)

\* Of n attributes k are processed: those that stay, those still to come and
\* those that were appended lie one behind the other, as they are now.
Laid(list, front, k, n, back, now) ==
  /\ IsList(list) /\ Len(list) = Len(front) + (n - k) + Len(back)
  /\ \A p \in 1 .. Len(front) : list[p] = now[front[p]]
  /\ \A p \in 1 .. n - k : list[Len(front) + p] = now[k + p]
  /\ \A p \in 1 .. Len(back) : list[Len(front) + (n - k) + p] = now[back[p]]

Places(front, k, n, back) ==
  /\ n \in Nat /\ k \in Nat /\ k <= n
  /\ IsList(front) /\ \A p \in 1 .. Len(front) : front[p] \in 1 .. n /\ front[p] <= k
  /\ IsList(back) /\ \A p \in 1 .. Len(back) : back[p] \in 1 .. n /\ back[p] <= k

\* Attribute k + 1 stays where it is.
LEMMA LaidStays ==
  ASSUME NEW front, NEW k, NEW n, NEW back, Places(front, k, n, back), k < n,
         NEW list, NEW now, Laid(list, front, k, n, back, now),
         NEW longer, Longer(longer, front, k + 1),
         NEW new, IsList(new), Len(new) = Len(list), NEW then,
         \A p \in 1 .. Len(list) : new[p] = IF p = Len(front) + 1 THEN then[k + 1] ELSE list[p],
         \A j \in 1 .. n : j # k + 1 => then[j] = now[j]
  PROVE  Laid(new, longer, k + 1, n, back, then)
<1> DEFINE a == Len(front)
           c == Len(back)
<1>1. n \in Nat /\ k \in Nat /\ a \in Nat /\ c \in Nat /\ Len(longer) = a + 1 /\ Len(list) = a + (n - k) + c
  BY ListIs DEF Places, Longer, Laid
<1>. HIDE DEF a, c
<1>2. Len(new) = Len(longer) + (n - (k + 1)) + c
  BY <1>1
<1>3. ASSUME NEW p \in 1 .. Len(longer) PROVE new[p] = then[longer[p]]
  <2>1. CASE p = a + 1
    <3>1. p \in 1 .. Len(list)
      BY <1>1, <2>1
    <3>. QED
      BY <2>1, <3>1 DEF Longer, a
  <2>2. CASE p # a + 1
    <3>1. p \in 1 .. a /\ p \in 1 .. Len(list)
      BY <1>1, <2>2
    <3>2. new[p] = now[front[p]] /\ longer[p] = front[p]
      BY <2>2, <3>1 DEF Longer, Laid, a
    <3>3. front[p] \in 1 .. n /\ front[p] # k + 1
      BY <1>1, <3>1 DEF Places, a
    <3>. QED
      BY <3>2, <3>3
  <2>. QED
    BY <2>1, <2>2
<1>4. ASSUME NEW p \in 1 .. n - (k + 1) PROVE new[Len(longer) + p] = then[k + 1 + p]
  <2> DEFINE q == p + 1
  <2>1. q \in 1 .. n - k /\ a + q \in 1 .. Len(list) /\ a + q # a + 1 /\ a + q = Len(longer) + p
        /\ k + q \in 1 .. n /\ k + q # k + 1 /\ k + q = k + 1 + p
    BY <1>1
  <2>. HIDE DEF q
  <2>2. list[a + q] = now[k + q]
    BY <2>1 DEF Laid, a
  <2>3. new[a + q] = list[a + q]
    BY <2>1 DEF a
  <2>4. then[k + q] = now[k + q]
    BY <2>1
  <2>5. new[Len(longer) + p] = new[a + q] /\ then[k + 1 + p] = then[k + q]
    BY <2>1
  <2>. QED
    BY <2>2, <2>3, <2>4, <2>5
<1>5. ASSUME NEW p \in 1 .. c PROVE new[Len(longer) + (n - (k + 1)) + p] = then[back[p]]
  <2> DEFINE q == a + (n - k) + p
  <2>1. q \in 1 .. Len(list) /\ q # a + 1 /\ q = Len(longer) + (n - (k + 1)) + p
    BY <1>1
  <2>2. list[q] = now[back[p]]
    BY DEF Laid, a, c
  <2>. HIDE DEF q
  <2>3. new[q] = list[q]
    BY <2>1 DEF a
  <2>4. back[p] \in 1 .. n /\ back[p] # k + 1
    BY <1>1 DEF Places, c
  <2>5. new[Len(longer) + (n - (k + 1)) + p] = new[q]
    BY <2>1
  <2>. QED
    BY <2>2, <2>3, <2>4, <2>5
<1>. QED
  BY <1>2, <1>3, <1>4, <1>5 DEF Laid, c

\* Attribute k + 1 is removed.
LEMMA LaidGoes ==
  ASSUME NEW front, NEW k, NEW n, NEW back, Places(front, k, n, back), k < n,
         NEW list, NEW now, Laid(list, front, k, n, back, now),
         NEW then, \A j \in 1 .. n : j # k + 1 => then[j] = now[j]
  PROVE  Laid(RemoveAt(list, Len(front) + 1), front, k + 1, n, back, then)
<1> DEFINE a == Len(front)
           c == Len(back)
           new == RemoveAt(list, a + 1)
<1>1. n \in Nat /\ k \in Nat /\ a \in Nat /\ c \in Nat /\ Len(list) = a + (n - k) + c /\ IsList(list)
  BY ListIs DEF Places, Laid
<1>2. a + 1 \in 1 .. Len(list)
  BY <1>1
<1>3. /\ IsList(new) /\ Len(new) = Len(list) - 1
      /\ \A p \in 1 .. Len(list) - 1 : new[p] = IF p < a + 1 THEN list[p] ELSE list[p + 1]
  BY <1>1, <1>2, RemoveAtIs
<1>. HIDE DEF new, a, c
<1>4. Len(new) = a + (n - (k + 1)) + c
  BY <1>1, <1>3
<1>5. ASSUME NEW p \in 1 .. a PROVE new[p] = then[front[p]]
  <2>1. p \in 1 .. Len(list) - 1 /\ p < a + 1
    BY <1>1
  <2>2. list[p] = now[front[p]]
    BY DEF Laid, a
  <2>3. front[p] \in 1 .. n /\ front[p] # k + 1
    BY <1>1 DEF Places, a
  <2>. QED
    BY <1>3, <2>1, <2>2, <2>3
<1>6. ASSUME NEW p \in 1 .. n - (k + 1) PROVE new[a + p] = then[k + 1 + p]
  <2> DEFINE q == p + 1
  <2>1. q \in 1 .. n - k /\ a + p \in 1 .. Len(list) - 1 /\ ~(a + p < a + 1) /\ a + q = a + p + 1
        /\ k + q \in 1 .. n /\ k + q # k + 1 /\ k + q = k + 1 + p
    BY <1>1
  <2>. HIDE DEF q
  <2>2. list[a + q] = now[k + q]
    BY <2>1 DEF Laid, a
  <2>3. new[a + p] = list[a + q]
    BY <1>3, <2>1
  <2>4. then[k + q] = now[k + q]
    BY <2>1
  <2>5. then[k + 1 + p] = then[k + q]
    BY <2>1
  <2>. QED
    BY <2>2, <2>3, <2>4, <2>5
<1>7. ASSUME NEW p \in 1 .. c PROVE new[a + (n - (k + 1)) + p] = then[back[p]]
  <2> DEFINE q == a + (n - (k + 1)) + p
  <2>1. q \in 1 .. Len(list) - 1 /\ ~(q < a + 1) /\ q + 1 = a + (n - k) + p
    BY <1>1
  <2>2. list[a + (n - k) + p] = now[back[p]]
    BY DEF Laid, a, c
  <2>. HIDE DEF q
  <2>3. new[q] = list[a + (n - k) + p]
    BY <1>3, <2>1
  <2>4. back[p] \in 1 .. n /\ back[p] # k + 1
    BY <1>1 DEF Places, c
  <2>. QED
    BY <2>2, <2>3, <2>4 DEF q
<1>8. Laid(new, front, k + 1, n, back, then)
  BY <1>3, <1>4, <1>5, <1>6, <1>7 DEF Laid, a, c
<1>. QED
  BY <1>8 DEF new, a

\* One more is appended.
LEMMA LaidBehind ==
  ASSUME NEW front, NEW k, NEW n, NEW back, Places(front, k, n, back),
         NEW list, NEW now, Laid(list, front, k, n, back, now),
         NEW j, NEW longer, Longer(longer, back, j)
  PROVE  Laid(Append(list, now[j]), front, k, n, longer, now)
<1> DEFINE a == Len(front)
           c == Len(back)
           new == Append(list, now[j])
<1>1. n \in Nat /\ k \in Nat /\ a \in Nat /\ c \in Nat /\ Len(list) = a + (n - k) + c /\ IsList(list)
      /\ k <= n /\ Len(longer) = c + 1
  BY ListIs DEF Places, Laid, Longer
<1>2. /\ IsList(new) /\ Len(new) = Len(list) + 1 /\ new[Len(list) + 1] = now[j]
      /\ \A p \in 1 .. Len(list) : new[p] = list[p]
  BY <1>1, AppendIs DEF Longer
<1>. HIDE DEF new, a, c
<1>3. Len(new) = a + (n - k) + Len(longer)
  BY <1>1, <1>2
<1>4. ASSUME NEW p \in 1 .. a PROVE new[p] = now[front[p]]
  <2>1. p \in 1 .. Len(list)
    BY <1>1
  <2>. QED
    BY <1>2, <2>1 DEF Laid, a
<1>5. ASSUME NEW p \in 1 .. n - k PROVE new[a + p] = now[k + p]
  <2>1. a + p \in 1 .. Len(list)
    BY <1>1
  <2>. QED
    BY <1>2, <2>1 DEF Laid, a
<1>6. ASSUME NEW p \in 1 .. Len(longer) PROVE new[a + (n - k) + p] = now[longer[p]]
  <2>1. CASE p = c + 1
    <3>1. a + (n - k) + p = Len(list) + 1
      BY <1>1, <2>1
    <3>2. longer[p] = j
      BY <2>1 DEF Longer, c
    <3>. QED
      BY <1>2, <3>1, <3>2
  <2>2. CASE p # c + 1
    <3>1. p \in 1 .. c /\ a + (n - k) + p \in 1 .. Len(list)
      BY <1>1, <2>2
    <3>2. longer[p] = back[p] /\ list[a + (n - k) + p] = now[back[p]]
      BY <3>1 DEF Longer, Laid, a, c
    <3>. QED
      BY <1>2, <3>1, <3>2
  <2>. QED
    BY <2>1, <2>2
<1>7. Laid(new, front, k, n, longer, now)
  BY <1>2, <1>3, <1>4, <1>5, <1>6 DEF Laid, a
<1>. QED
  BY <1>7 DEF new

\* The attribute that lies at place p.
Source(front, k, n, back, p) ==
  IF p <= Len(front) THEN front[p]
  ELSE IF p <= Len(front) + (n - k) THEN k + (p - Len(front))
  ELSE back[p - (Len(front) + (n - k))]

LEMMA LaidSource ==
  ASSUME NEW front, NEW k, NEW n, NEW back, Places(front, k, n, back), NEW list, NEW now,
         IsList(list), Len(list) = Len(front) + (n - k) + Len(back)
  PROVE  /\ \A p \in 1 .. Len(list) : Source(front, k, n, back, p) \in 1 .. n
         /\ Laid(list, front, k, n, back, now) <=>
              \A p \in 1 .. Len(list) : list[p] = now[Source(front, k, n, back, p)]
<1> DEFINE a == Len(front)
           c == Len(back)
           src(p) == Source(front, k, n, back, p)
<1>1. n \in Nat /\ k \in Nat /\ k <= n /\ a \in Nat /\ c \in Nat /\ Len(list) = a + (n - k) + c
  BY ListIs DEF Places
<1>2. \A p \in 1 .. a : src(p) = front[p] /\ p \in 1 .. Len(list)
  BY <1>1 DEF Source
<1>3. \A p \in 1 .. n - k : src(a + p) = k + p /\ a + p \in 1 .. Len(list)
  <2>1. TAKE p \in 1 .. n - k
  <2>2. ~(a + p <= a) /\ a + p <= a + (n - k) /\ k + (a + p - a) = k + p /\ a + p \in 1 .. Len(list)
    BY <1>1
  <2>. QED
    BY <2>2 DEF Source
<1>4. \A p \in 1 .. c : src(a + (n - k) + p) = back[p] /\ a + (n - k) + p \in 1 .. Len(list)
  <2>1. TAKE p \in 1 .. c
  <2>2. /\ ~(a + (n - k) + p <= a) /\ ~(a + (n - k) + p <= a + (n - k))
        /\ a + (n - k) + p - (a + (n - k)) = p /\ a + (n - k) + p \in 1 .. Len(list)
    BY <1>1
  <2> DEFINE x == a + (n - k) + p
             y == x - (a + (n - k))
  <2>3. src(x) = back[y]
    BY <2>2 DEF Source
  <2>4. y = p
    BY <1>1
  <2>. HIDE DEF src, y
  <2>. QED
    BY <2>2, <2>3, <2>4
<1>. HIDE DEF src
<1>5. ASSUME NEW p \in 1 .. Len(list)
      PROVE  \/ p \in 1 .. a
             \/ \E q \in 1 .. n - k : p = a + q
             \/ \E q \in 1 .. c : p = a + (n - k) + q
  <2>1. CASE p <= a
    BY <1>1, <2>1
  <2>2. CASE p > a /\ p <= a + (n - k)
    <3>1. p - a \in 1 .. n - k /\ p = a + (p - a)
      BY <1>1, <2>2
    <3>. QED
      BY <3>1
  <2>3. CASE p > a + (n - k)
    <3>1. p - (a + (n - k)) \in 1 .. c /\ p = a + (n - k) + (p - (a + (n - k)))
      BY <1>1, <2>3
    <3>. QED
      BY <3>1
  <2>. QED
    BY <1>1, <2>1, <2>2, <2>3
<1>. HIDE DEF a, c
<1>6. \A p \in 1 .. Len(list) : src(p) \in 1 .. n
  <2>1. \A p \in 1 .. a : front[p] \in 1 .. n
    BY DEF Places, a
  <2>2. \A p \in 1 .. n - k : k + p \in 1 .. n
    BY <1>1
  <2>3. \A p \in 1 .. c : back[p] \in 1 .. n
    BY DEF Places, c
  <2>. QED
    BY <1>2, <1>3, <1>4, <1>5, <2>1, <2>2, <2>3
<1>7. Laid(list, front, k, n, back, now) <=>
        /\ \A p \in 1 .. a : list[p] = now[src(p)]
        /\ \A p \in 1 .. n - k : list[a + p] = now[src(a + p)]
        /\ \A p \in 1 .. c : list[a + (n - k) + p] = now[src(a + (n - k) + p)]
  BY <1>2, <1>3, <1>4 DEF Laid, a, c
<1>8. (\A p \in 1 .. Len(list) : list[p] = now[src(p)]) <=>
        /\ \A p \in 1 .. a : list[p] = now[src(p)]
        /\ \A p \in 1 .. n - k : list[a + p] = now[src(a + p)]
        /\ \A p \in 1 .. c : list[a + (n - k) + p] = now[src(a + (n - k) + p)]
  BY <1>2, <1>3, <1>4, <1>5
<1>. QED
  BY <1>6, <1>7, <1>8 DEF src

Rising(s) == \A p, q \in 1 .. Len(s) : p < q => s[p] < s[q]

\* An attribute lies in one place only; those that stay and those to come lie in
\* their order, and so do those that were appended.
LEMMA SourceOrder ==
  ASSUME NEW front, NEW k, NEW n, NEW back, Places(front, k, n, back), Rising(front), Rising(back),
         \A p \in 1 .. Len(front), q \in 1 .. Len(back) : front[p] # back[q]
  PROVE  /\ \A p, q \in 1 .. Len(front) + (n - k) :
              p < q => Source(front, k, n, back, p) < Source(front, k, n, back, q)
         /\ \A p, q \in Len(front) + (n - k) + 1 .. Len(front) + (n - k) + Len(back) :
              p < q => Source(front, k, n, back, p) < Source(front, k, n, back, q)
         /\ \A p \in 1 .. Len(front) + (n - k), q \in Len(front) + (n - k) + 1 .. Len(front) + (n - k) + Len(back) :
              Source(front, k, n, back, p) # Source(front, k, n, back, q)
<1> DEFINE a == Len(front)
           c == Len(back)
           l == a + (n - k)
           src(p) == Source(front, k, n, back, p)
<1>1. n \in Nat /\ k \in Nat /\ k <= n /\ a \in Nat /\ c \in Nat /\ l \in Nat
  BY ListIs DEF Places
<1>2. \A p \in 1 .. a : src(p) = front[p] /\ src(p) \in Nat /\ src(p) <= k
  BY <1>1 DEF Source, Places
<1>3. \A p \in a + 1 .. l : src(p) = k + (p - a) /\ src(p) \in Nat /\ src(p) > k
  <2>1. TAKE p \in a + 1 .. l
  <2>2. ~(p <= a) /\ p <= l /\ k + (p - a) \in Nat /\ k + (p - a) > k
    BY <1>1
  <2>. QED
    BY <2>2 DEF Source
<1>4. \A p \in l + 1 .. l + c : src(p) = back[p - l] /\ p - l \in 1 .. c /\ src(p) \in Nat /\ src(p) <= k
  <2>1. TAKE p \in l + 1 .. l + c
  <2>2. ~(p <= a) /\ ~(p <= l) /\ p - l \in 1 .. c
    BY <1>1
  <2>3. back[p - l] \in Nat /\ back[p - l] <= k
    BY <2>2 DEF Places
  <2>. QED
    BY <2>2, <2>3 DEF Source
<1>. HIDE DEF src
<1>5. \A p \in 1 .. l : p \in 1 .. a \/ p \in a + 1 .. l
  BY <1>1
<1>6. ASSUME NEW p \in 1 .. l, NEW q \in 1 .. l, p < q PROVE src(p) < src(q)
  <2>1. CASE q \in 1 .. a
    <3>1. p \in 1 .. a
      BY <1>1, <1>6, <2>1
    <3>. QED
      BY <1>2, <1>6, <2>1, <3>1 DEF Rising
  <2>2. CASE p \in 1 .. a /\ q \in a + 1 .. l
    <3>1. src(p) \in Nat /\ src(p) <= k /\ src(q) \in Nat /\ src(q) > k
      BY <1>2, <1>3, <2>2
    <3>. QED
      BY <1>1, <3>1
  <2>3. CASE p \in a + 1 .. l /\ q \in a + 1 .. l
    <3>1. src(p) = k + (p - a) /\ src(q) = k + (q - a)
      BY <1>3, <2>3
    <3>. QED
      BY <1>1, <1>6, <3>1
  <2>. QED
    BY <1>5, <2>1, <2>2, <2>3
<1>7. ASSUME NEW p \in l + 1 .. l + c, NEW q \in l + 1 .. l + c, p < q PROVE src(p) < src(q)
  <2>1. p - l \in 1 .. c /\ q - l \in 1 .. c /\ src(p) = back[p - l] /\ src(q) = back[q - l]
    BY <1>4
  <2>2. p - l < q - l
    BY <1>1, <1>7
  <2>. QED
    BY <2>1, <2>2 DEF Rising
<1>8. ASSUME NEW p \in 1 .. l, NEW q \in l + 1 .. l + c PROVE src(p) # src(q)
  <2>1. src(q) = back[q - l] /\ q - l \in 1 .. c /\ src(q) \in Nat /\ src(q) <= k
    BY <1>4
  <2>2. CASE p \in 1 .. a
    BY <1>2, <2>1, <2>2
  <2>3. CASE p \in a + 1 .. l
    BY <1>1, <1>3, <2>1, <2>3
  <2>. QED
    BY <1>5, <2>2, <2>3
<1>. QED
  BY <1>6, <1>7, <1>8 DEF src

\* What lies at one place changes.
LEMMA LaidChanges ==
  ASSUME NEW front, NEW k, NEW n, NEW back, Places(front, k, n, back), Rising(front), Rising(back),
         \A p \in 1 .. Len(front), q \in 1 .. Len(back) : front[p] # back[q],
         NEW list, NEW now, Laid(list, front, k, n, back, now),
         NEW place \in 1 .. Len(list), NEW then, NEW j, j = Source(front, k, n, back, place),
         \A i \in 1 .. n : i # j => then[i] = now[i]
  PROVE  Laid(ReplaceAt(list, place, then[j]), front, k, n, back, then)
<1> DEFINE l == Len(front) + (n - k)
           m == l + Len(back)
           src(p) == Source(front, k, n, back, p)
           new == ReplaceAt(list, place, then[j])
<1>1. /\ l \in Nat /\ m \in Nat /\ Len(list) = m /\ IsList(list)
      /\ \A p \in 1 .. m : p \in Nat /\ (p \in 1 .. l \/ p \in l + 1 .. m)
  BY ListIs DEF Places, Laid
<1>2. \A p \in 1 .. m : src(p) \in 1 .. n /\ list[p] = now[src(p)]
  BY <1>1, LaidSource
<1>3. IsList(new) /\ Len(new) = m /\ \A p \in 1 .. m : new[p] = IF p = place THEN then[j] ELSE list[p]
  BY <1>1, ReplaceIs
<1>4. /\ \A p, q \in 1 .. l : p < q => src(p) < src(q)
      /\ \A p, q \in l + 1 .. m : p < q => src(p) < src(q)
      /\ \A p \in 1 .. l, q \in l + 1 .. m : src(p) # src(q)
  BY SourceOrder
<1>. HIDE DEF src, l, m, new
<1>5. ASSUME NEW p \in 1 .. m, p # place PROVE src(p) # src(place)
  <2>1. place \in 1 .. m /\ src(p) \in Nat /\ src(place) \in Nat /\ p \in Nat /\ place \in Nat
    BY <1>1, <1>2
  <2>2. p < place \/ place < p
    BY <1>5, <2>1
  <2>3. CASE (p \in 1 .. l /\ place \in 1 .. l) \/ (p \in l + 1 .. m /\ place \in l + 1 .. m)
    <3>1. src(p) < src(place) \/ src(place) < src(p)
      BY <1>4, <2>2, <2>3
    <3>. QED
      BY <2>1, <3>1
  <2>4. CASE (p \in 1 .. l /\ place \in l + 1 .. m) \/ (place \in 1 .. l /\ p \in l + 1 .. m)
    BY <1>4, <2>4
  <2>. QED
    BY <1>1, <2>1, <2>3, <2>4
<1>6. \A p \in 1 .. m : new[p] = then[src(p)]
  <2>1. TAKE p \in 1 .. m
  <2>2. CASE p = place
    BY <1>3, <2>2 DEF src
  <2>3. CASE p # place
    <3>1. src(p) # j
      BY <1>5, <2>3 DEF src
    <3>. QED
      BY <1>2, <1>3, <2>3, <3>1
  <2>. QED
    BY <2>2, <2>3
<1>7. Laid(new, front, k, n, back, then)
  <2>1. Len(new) = Len(front) + (n - k) + Len(back)
    BY <1>3 DEF l, m
  <2>. QED
    BY <1>3, <1>6, <2>1, LaidSource DEF src
<1>. QED
  BY <1>7 DEF new

AttrsOK(attrs) == IsList(attrs) /\ \A i \in 1 .. Len(attrs) : AttributeOK(attrs[i])

\* Of the first k attributes: those that stay, and those that were appended.
Stayed(env, g, attrs, k) == Ascending(Staying(env, g, attrs), Len(attrs))[k]

Appended(env, g, attrs, k) == Ascending(Chosen(env, g, attrs, "target"), Len(attrs))[k]

\* Each attribute as it is when the first k were processed.
Present(env, g, attrs, k) ==
  [j \in 1 .. Len(attrs) |->
     IF j > k /\ attrs[j].is # "plain" THEN attrs[j]
     ELSE Plain(attrs[j].name, TextsOf(env, g, attrs, j)[k])]

LEMMA PlacesAre ==
  ASSUME NEW env, NEW g, NEW attrs, IsList(attrs), NEW k \in 0 .. Len(attrs)
  PROVE  /\ Places(Stayed(env, g, attrs, k), k, Len(attrs), Appended(env, g, attrs, k))
         /\ Sorted(Stayed(env, g, attrs, k), Staying(env, g, attrs), k)
         /\ Sorted(Appended(env, g, attrs, k), Chosen(env, g, attrs, "target"), k)
         /\ Rising(Stayed(env, g, attrs, k)) /\ Rising(Appended(env, g, attrs, k))
         /\ \A p \in 1 .. Len(Stayed(env, g, attrs, k)), q \in 1 .. Len(Appended(env, g, attrs, k)) :
              Stayed(env, g, attrs, k)[p] # Appended(env, g, attrs, k)[q]
         /\ k > 0 =>
              /\ k \in Staying(env, g, attrs) =>
                   Longer(Stayed(env, g, attrs, k), Stayed(env, g, attrs, k - 1), k)
              /\ k \notin Staying(env, g, attrs) =>
                   Stayed(env, g, attrs, k) = Stayed(env, g, attrs, k - 1)
              /\ k \in Chosen(env, g, attrs, "target") =>
                   Longer(Appended(env, g, attrs, k), Appended(env, g, attrs, k - 1), k)
              /\ k \notin Chosen(env, g, attrs, "target") =>
                   Appended(env, g, attrs, k) = Appended(env, g, attrs, k - 1)
<1> DEFINE n == Len(attrs)
           S == Staying(env, g, attrs)
           T == Chosen(env, g, attrs, "target")
           s == Ascending(S, n)
           t == Ascending(T, n)
<1>1. n \in Nat /\ DOMAIN attrs = 1 .. n
  BY ListIs
<1>2. S \subseteq 1 .. n /\ T \subseteq 1 .. n /\ \A j \in S : attrs[j].is # "target"
  BY <1>1 DEF Staying, Chosen
<1>3. \A j \in T : attrs[j].is = "target"
  BY DEF Chosen
<1>0. k \in 0 .. n
  OBVIOUS
<1>. HIDE DEF n, S, T
<1>4. /\ Sorted(s[k], S, k)
      /\ k > 0 /\ k \in S => Longer(s[k], s[k - 1], k)
      /\ k > 0 /\ k \notin S => s[k] = s[k - 1]
  BY <1>0, <1>1, <1>2, AscendingIs
<1>5. /\ Sorted(t[k], T, k)
      /\ k > 0 /\ k \in T => Longer(t[k], t[k - 1], k)
      /\ k > 0 /\ k \notin T => t[k] = t[k - 1]
  BY <1>0, <1>1, <1>2, AscendingIs
<1>. HIDE DEF s, t
<1>6. Places(s[k], k, n, t[k])
  <2>1. k \in Nat /\ k <= n
    BY <1>0, <1>1
  <2>2. \A p \in 1 .. Len(s[k]) : s[k][p] \in 1 .. n /\ s[k][p] <= k
    BY <1>2, <1>4 DEF Sorted
  <2>3. \A p \in 1 .. Len(t[k]) : t[k][p] \in 1 .. n /\ t[k][p] <= k
    BY <1>2, <1>5 DEF Sorted
  <2>4. IsList(s[k]) /\ IsList(t[k])
    BY <1>4, <1>5 DEF Sorted
  <2>. QED
    BY <1>1, <2>1, <2>2, <2>3, <2>4 DEF Places
<1>7. Rising(s[k]) /\ Rising(t[k])
  BY <1>4, <1>5 DEF Rising, Sorted
<1>8. \A p \in 1 .. Len(s[k]), q \in 1 .. Len(t[k]) : s[k][p] # t[k][q]
  BY <1>2, <1>3, <1>4, <1>5 DEF Sorted
<1>. QED
  BY <1>4, <1>5, <1>6, <1>7, <1>8 DEF Stayed, Appended, s, t, n, S, T

\* Which attribute a class is received by.
LEMMA ReceiverIs ==
  ASSUME NEW env, NEW g, NEW attrs, IsList(attrs), NEW k, Receiver(env, g, attrs, k) # 0
  PROVE  /\ Receiver(env, g, attrs, k) \in 1 .. Len(attrs)
         /\ attrs[Receiver(env, g, attrs, k)].name = "class"
         /\ \/ Receiver(env, g, attrs, k) < k
            \/ attrs[Receiver(env, g, attrs, k)].is = "plain"
<1> DEFINE named(S) == {j \in S : attrs[j].name = "class" /\ (j < k \/ attrs[j].is = "plain")}
           inside == named(Staying(env, g, attrs))
           behind == named(Chosen(env, g, attrs, "target"))
           r == Receiver(env, g, attrs, k)
<1>1. r = IF inside # {} THEN Min(inside) ELSE IF behind # {} THEN Min(behind) ELSE 0
  BY DEF Receiver, ClassesFor, FirstOf
<1>2. DOMAIN attrs = 1 .. Len(attrs) /\ Len(attrs) \in Nat
  BY ListIs
<1>3. Staying(env, g, attrs) \subseteq 1 .. Len(attrs) /\ Chosen(env, g, attrs, "target") \subseteq 1 .. Len(attrs)
  BY <1>2 DEF Staying, Chosen
<1>4. inside \subseteq Nat /\ behind \subseteq Nat
  BY <1>2, <1>3
<1>5. r \in inside \/ r \in behind
  <2>. HIDE DEF inside, behind, r
  <2>. QED
    BY <1>1, <1>4, MinExists DEF r
<1>. QED
  BY <1>3, <1>5

\* Attribute j receives class k.
Receives(env, g, attrs, j, k) == k \in Chosen(env, g, attrs, "add-class") /\ Receiver(env, g, attrs, k) = j

LEMMA TextsBegin ==
  ASSUME NEW env, NEW g, NEW attrs, IsList(attrs), NEW j
  PROVE  TextsOf(env, g, attrs, j)[0] = OwnText(env, g, attrs[j])
<1> DEFINE f == [i \in DOMAIN attrs |-> Class(env, g, attrs[i])]
           S == {i \in Chosen(env, g, attrs, "add-class") : Receiver(env, g, attrs, i) = j}
           h == TextsOf(env, g, attrs, j)
           base == OwnText(env, g, attrs[j])
           n == Len(attrs)
<1>1. n \in Nat
  BY ListIs
<1>2. h = Gathered(base, f, S, n)
  BY DEF TextsOf
<1>. HIDE DEF f, S, h, base, n
<1>3. 0 \in 0 .. n
  BY <1>1
<1>4. h[0] = base
  BY <1>1, <1>2, <1>3, GatheredIs
<1>. QED
  BY <1>4 DEF h, base

LEMMA TextsStay ==
  ASSUME NEW env, NEW g, NEW attrs, IsList(attrs), NEW j, NEW k \in Nat, k <= Len(attrs),
         k # 0, ~Receives(env, g, attrs, j, k)
  PROVE  TextsOf(env, g, attrs, j)[k] = TextsOf(env, g, attrs, j)[k - 1]
<1> DEFINE f == [i \in DOMAIN attrs |-> Class(env, g, attrs[i])]
           S == {i \in Chosen(env, g, attrs, "add-class") : Receiver(env, g, attrs, i) = j}
           h == TextsOf(env, g, attrs, j)
           base == OwnText(env, g, attrs[j])
           n == Len(attrs)
<1>1. n \in Nat
  BY ListIs
<1>2. h = Gathered(base, f, S, n)
  BY DEF TextsOf
<1>3. k \notin S
  BY DEF Receives
<1>4. k \in 0 .. n
  BY <1>1
<1>. HIDE DEF f, S, h, base, n
<1>5. h[k] = h[k - 1]
  BY <1>1, <1>2, <1>3, <1>4, GatheredIs
<1>. QED
  BY <1>5 DEF h

\* The class comes behind what the attribute has received.
Grows(env, g, attrs, j, k) ==
  TextsOf(env, g, attrs, j)[k] = TextsOf(env, g, attrs, j)[k - 1] \o Class(env, g, attrs[k])

LEMMA TextsGrow ==
  ASSUME NEW env, NEW g, NEW attrs, IsList(attrs), NEW j, NEW k \in Nat, Receives(env, g, attrs, j, k)
  PROVE  Grows(env, g, attrs, j, k)
<1> DEFINE f == [i \in DOMAIN attrs |-> Class(env, g, attrs[i])]
           S == {i \in Chosen(env, g, attrs, "add-class") : Receiver(env, g, attrs, i) = j}
           h == TextsOf(env, g, attrs, j)
           base == OwnText(env, g, attrs[j])
           n == Len(attrs)
<1>1. n \in Nat
  BY ListIs
<1>2. h = Gathered(base, f, S, n)
  BY DEF TextsOf
<1>3. k \in S /\ k \in DOMAIN attrs /\ k \in 1 .. n
  BY ListIs DEF Receives, Chosen
<1>4. f[k] = Class(env, g, attrs[k])
  BY <1>3
<1>. HIDE DEF f, S, h, base
<1>5. Gathered(base, f, S, n)[k] = Gathered(base, f, S, n)[k - 1] \o f[k]
  <2>1. k \in 0 .. n /\ k # 0
    BY <1>1, <1>3
  <2>. HIDE DEF n
  <2>. QED
    <3> DEFINE z == Gathered(base, f, S, n)
    <3>1. \A i \in 0 .. n :
            z[i] = IF i = 0 THEN base ELSE IF i \in S THEN z[i - 1] \o f[i] ELSE z[i - 1]
      BY <1>1, GatheredIs
    <3>. HIDE DEF z
    <3>2. z[k] = z[k - 1] \o f[k]
      BY <1>3, <2>1, <3>1
    <3>. QED
      BY <3>2 DEF z
<1>6. h[k] = h[k - 1] \o Class(env, g, attrs[k])
  BY <1>2, <1>4, <1>5, Zenon
<1>. QED
  BY <1>6 DEF h, Grows

\* No class is received before an attribute is there.
LEMMA OwnTexts ==
  ASSUME NEW env, NEW g, NEW attrs, IsList(attrs), NEW j \in 1 .. Len(attrs), attrs[j].is # "plain"
  PROVE  \A k \in 0 .. Len(attrs) : k <= j => TextsOf(env, g, attrs, j)[k] = OwnText(env, g, attrs[j])
<1> DEFINE h == TextsOf(env, g, attrs, j)
           Wrong == {k \in Nat : k <= j /\ ~(h[k] = OwnText(env, g, attrs[j]))}
<1>1. Len(attrs) \in Nat /\ \A k \in Nat : k <= j => k <= Len(attrs)
  BY ListIs
<1>2. \A k \in Nat : k <= Len(attrs) =>
        /\ k = 0 => h[k] = OwnText(env, g, attrs[j])
        /\ k # 0 /\ ~Receives(env, g, attrs, j, k) => h[k] = h[k - 1]
  BY <1>1, TextsBegin, TextsStay
<1>. HIDE DEF h
<1>3. Wrong = {}
  <2>. SUFFICES ASSUME Wrong # {} PROVE FALSE
    OBVIOUS
  <2>1. PICK k \in Wrong : \A i \in Wrong : k <= i
    BY MinExists
  <2>2. k \in Nat /\ k <= j /\ k <= Len(attrs)
    BY <1>1
  <2>3. CASE k = 0
    BY <1>2, <2>2, <2>3
  <2>4. CASE k # 0
    <3>1. k - 1 \in Nat /\ k - 1 <= j /\ ~(k <= k - 1)
      BY <2>2, <2>4
    <3>2. h[k - 1] = OwnText(env, g, attrs[j])
      BY <2>1, <3>1
    <3>3. ~Receives(env, g, attrs, j, k)
      <4>1. j # 0 /\ ~(j < k)
        BY <2>2
      <4>. QED
        BY <4>1, ReceiverIs DEF Receives
    <3>4. h[k] = h[k - 1]
      BY <1>2, <2>2, <2>4, <3>3
    <3>. QED
      BY <3>2, <3>4
  <2>. QED
    BY <2>3, <2>4
<1>. QED
  BY <1>3 DEF h

\* What changes when attribute k is processed.
LEMMA PresentIs ==
  ASSUME NEW env, NEW g, NEW attrs, AttrsOK(attrs), NEW k \in 1 .. Len(attrs)
  PROVE  \A j \in 1 .. Len(attrs) :
           j # k /\ ~Receives(env, g, attrs, j, k) =>
             Present(env, g, attrs, k)[j] = Present(env, g, attrs, k - 1)[j]
<1> DEFINE n == Len(attrs)
           T(j) == TextsOf(env, g, attrs, j)
           P(i) == Present(env, g, attrs, i)
           received(j) == Receives(env, g, attrs, j, k)
<1>1. n \in Nat /\ IsList(attrs) /\ k # 0 /\ k \in Nat /\ k <= n
  BY ListIs DEF AttrsOK
<1>2. \A j \in 1 .. n : ~received(j) => T(j)[k] = T(j)[k - 1]
  BY <1>1, TextsStay
<1>3. \A i : \A j \in 1 .. n : P(i)[j] = IF j > i /\ attrs[j].is # "plain" THEN attrs[j] ELSE Plain(attrs[j].name, T(j)[i])
  BY DEF Present
<1>4. ASSUME NEW j \in 1 .. n, j # k, ~received(j) PROVE P(k)[j] = P(k - 1)[j]
  <2>1. j > k <=> j > k - 1
    BY <1>1, <1>4
  <2>. HIDE DEF P, T, received
  <2>. QED
    BY <1>2, <1>3, <1>4, <2>1
<1>. QED
  BY <1>4

LEMMA PresentBefore ==
  ASSUME NEW env, NEW g, NEW attrs, AttrsOK(attrs), NEW k \in 1 .. Len(attrs), attrs[k].is # "plain"
  PROVE  Present(env, g, attrs, k - 1)[k] = attrs[k]
<1>1. k > k - 1
  BY ListIs DEF AttrsOK
<1>. QED
  BY <1>1 DEF Present

LEMMA PresentPlain ==
  ASSUME NEW env, NEW g, NEW attrs, AttrsOK(attrs), NEW k \in 1 .. Len(attrs), attrs[k].is = "plain"
  PROVE  /\ Present(env, g, attrs, k)[k] = Present(env, g, attrs, k - 1)[k]
         /\ Present(env, g, attrs, k)[k].is = "plain"
<1>1. IsList(attrs) /\ k # 0 /\ k \in Nat /\ k <= Len(attrs)
  BY ListIs DEF AttrsOK
<1>2. ~Receives(env, g, attrs, k, k)
  BY DEF Chosen, Receives
<1>3. TextsOf(env, g, attrs, k)[k] = TextsOf(env, g, attrs, k)[k - 1]
  BY <1>1, <1>2, TextsStay
<1>4. /\ Present(env, g, attrs, k)[k] = Plain(attrs[k].name, TextsOf(env, g, attrs, k)[k])
      /\ Present(env, g, attrs, k - 1)[k] = Plain(attrs[k].name, TextsOf(env, g, attrs, k)[k - 1])
  BY DEF Present
<1>. QED
  BY <1>3, <1>4 DEF Plain

LEMMA PresentOwn ==
  ASSUME NEW env, NEW g, NEW attrs, AttrsOK(attrs), NEW k \in 1 .. Len(attrs), attrs[k].is \in {"target", "eval"}
  PROVE  Present(env, g, attrs, k)[k] = Plain(attrs[k].name, OwnText(env, g, attrs[k]))
<1>1. IsList(attrs) /\ k \in 0 .. Len(attrs) /\ k <= k /\ ~(k > k)
  BY ListIs DEF AttrsOK
<1>2. TextsOf(env, g, attrs, k)[k] = OwnText(env, g, attrs[k])
  BY <1>1, OwnTexts
<1>. QED
  BY <1>1, <1>2 DEF Present

LEMMA PresentFirst ==
  ASSUME NEW env, NEW g, NEW attrs, AttrsOK(attrs), NEW j \in 1 .. Len(attrs)
  PROVE  Present(env, g, attrs, 0)[j] = attrs[j]
<1>1. Len(attrs) \in Nat /\ IsList(attrs) /\ 0 \in 0 .. Len(attrs) /\ j > 0
  BY ListIs DEF AttrsOK
<1>2. TextsOf(env, g, attrs, j)[0] = OwnText(env, g, attrs[j])
  BY <1>1, TextsBegin
<1>3. CASE attrs[j].is = "plain"
  <2>1. attrs[j] = Plain(attrs[j].name, attrs[j].text)
    BY <1>3 DEF AttrsOK, AttributeOK, Plain
  <2>. QED
    BY <1>2, <1>3, <2>1 DEF Present, OwnText
<1>4. CASE attrs[j].is # "plain"
  BY <1>1, <1>4 DEF Present
<1>. QED
  BY <1>3, <1>4

\* An attribute that receives a class.
LEMMA PresentReceives ==
  ASSUME NEW env, NEW g, NEW attrs, AttrsOK(attrs), NEW k \in 1 .. Len(attrs),
         k \in Chosen(env, g, attrs, "add-class"), NEW r, r = Receiver(env, g, attrs, k), r # 0
  PROVE  /\ r \in 1 .. Len(attrs) /\ r # k
         /\ Present(env, g, attrs, k - 1)[r] = Plain(attrs[r].name, TextsOf(env, g, attrs, r)[k - 1])
         /\ Present(env, g, attrs, k)[r] =
              Plain(attrs[r].name, TextsOf(env, g, attrs, r)[k - 1] \o Class(env, g, attrs[k]))
<1>1. Len(attrs) \in Nat /\ IsList(attrs) /\ k \in Nat /\ k <= Len(attrs) /\ k # 0
  BY ListIs DEF AttrsOK
<1>2. r \in 1 .. Len(attrs) /\ (r < k \/ attrs[r].is = "plain")
  BY <1>1, ReceiverIs
<1>3. attrs[k].is = "add-class"
  BY DEF Chosen
<1>4. r # k /\ (r > k => attrs[r].is = "plain") /\ (r > k - 1 => attrs[r].is = "plain")
  BY <1>1, <1>2, <1>3
<1>5. TextsOf(env, g, attrs, r)[k] = TextsOf(env, g, attrs, r)[k - 1] \o Class(env, g, attrs[k])
  <2>1. Receives(env, g, attrs, r, k)
    BY DEF Receives
  <2>2. Grows(env, g, attrs, r, k)
    BY <1>1, <2>1, TextsGrow
  <2>. QED
    BY <2>2 DEF Grows
<1>. QED
  BY <1>2, <1>4, <1>5 DEF Present

\* S are the places of the attributes in two sets: those of one are among the
\* first l places, those of the other among the others.
Split(front, k, n, back, l, m, inside, behind, S) ==
  /\ Places(front, k, n, back) /\ Rising(front) /\ Rising(back)
  /\ \A p \in 1 .. Len(front), q \in 1 .. Len(back) : front[p] # back[q]
  /\ l = Len(front) + (n - k) /\ m = l + Len(back)
  /\ inside \subseteq Nat /\ behind \subseteq Nat /\ S \subseteq 1 .. m
  /\ \A p \in 1 .. l : p \in S <=> Source(front, k, n, back, p) \in inside
  /\ \A p \in l + 1 .. m : p \in S <=> Source(front, k, n, back, p) \in behind
  /\ \A j \in inside : \E p \in 1 .. l : Source(front, k, n, back, p) = j
  /\ \A j \in behind : \E p \in l + 1 .. m : Source(front, k, n, back, p) = j

LEMMA FirstPlace ==
  ASSUME NEW front, NEW k, NEW n, NEW back, NEW l, NEW m, NEW inside, NEW behind, NEW S,
         Split(front, k, n, back, l, m, inside, behind, S)
  PROVE  /\ S = {} => inside = {} /\ behind = {}
         /\ S # {} =>
              /\ Min(S) \in S /\ (inside # {} \/ behind # {})
              /\ inside # {} => Source(front, k, n, back, Min(S)) = Min(inside)
              /\ inside = {} => Source(front, k, n, back, Min(S)) = Min(behind)
<1> DEFINE src(p) == Source(front, k, n, back, p)
<1>. USE DEF Split
<1>1. l \in Nat /\ m \in Nat /\ l <= m /\ \A p \in 1 .. m : p \in Nat /\ (p \in 1 .. l \/ p \in l + 1 .. m)
  BY ListIs DEF Places
<1>2. /\ \A p, q \in 1 .. l : p < q => src(p) < src(q)
      /\ \A p, q \in l + 1 .. m : p < q => src(p) < src(q)
  BY SourceOrder
<1>. HIDE DEF src
<1>3. inside # {} => \E p \in 1 .. l : p \in S /\ src(p) = Min(inside)
  <2>1. inside # {} => Min(inside) \in inside
    BY MinExists
  <2>. QED
    BY <2>1, ZenonT(30) DEF src
<1>4. behind # {} => \E p \in l + 1 .. m : p \in S /\ src(p) = Min(behind)
  <2>1. behind # {} => Min(behind) \in behind
    BY MinExists
  <2>. QED
    BY <2>1 DEF src
<1>5. S = {} => inside = {} /\ behind = {}
  BY <1>3, <1>4
<1>6. ASSUME S # {}
      PROVE  /\ Min(S) \in S /\ (inside # {} \/ behind # {})
             /\ inside # {} => src(Min(S)) = Min(inside)
             /\ inside = {} => src(Min(S)) = Min(behind)
  <2> DEFINE p == Min(S)
  <2>1. p \in S /\ p \in 1 .. m /\ \A q \in S : p <= q
    <3>1. S \subseteq Nat
      OBVIOUS
    <3>. QED
      BY <1>6, <3>1, MinExists
  <2>. HIDE DEF p
  <2>2. CASE p \in 1 .. l
    <3>1. src(p) \in inside /\ src(p) \in Nat
      BY <2>1, <2>2 DEF src
    <3>2. Min(inside) \in inside /\ Min(inside) <= src(p) /\ Min(inside) \in Nat
      BY <3>1, MinExists
    <3>3. PICK q \in 1 .. l : q \in S /\ src(q) = Min(inside)
      BY <1>3, <3>1
    <3>4. ~(p < q)
      <4>1. p < q => src(p) < src(q)
        BY <1>2, <2>2
      <4>. QED
        BY <3>1, <3>2, <3>3, <4>1
    <3>5. p = q
      BY <1>1, <2>1, <2>2, <3>3, <3>4
    <3>. QED
      BY <2>1, <3>1, <3>3, <3>5 DEF p
  <2>3. CASE p \in l + 1 .. m
    <3>1. src(p) \in behind /\ src(p) \in Nat
      BY <2>1, <2>3 DEF src
    <3>2. Min(behind) \in behind /\ Min(behind) <= src(p) /\ Min(behind) \in Nat
      BY <3>1, MinExists
    <3>3. inside = {}
      <4>1. ASSUME NEW q \in 1 .. l, q \in S PROVE FALSE
        BY <1>1, <2>1, <2>3, <4>1
      <4>. QED
        BY <1>3, <4>1
    <3>4. PICK q \in l + 1 .. m : q \in S /\ src(q) = Min(behind)
      BY <1>4, <3>1
    <3>5. ~(p < q)
      <4>1. p < q => src(p) < src(q)
        BY <1>2, <2>3
      <4>. QED
        BY <3>1, <3>2, <3>4, <4>1
    <3>6. p = q
      BY <1>1, <2>1, <2>3, <3>4, <3>5
    <3>. QED
      BY <2>1, <3>1, <3>3, <3>4, <3>6 DEF p
  <2>. QED
    BY <1>1, <2>1, <2>2, <2>3
<1>. QED
  BY <1>5, <1>6 DEF src

Classes(list) == {p \in DOMAIN list : list[p].is = "plain" /\ list[p].name = "class"}

\* The first class among the attributes is that of the receiver.
FirstIs(env, g, attrs, k, front, back, list, classes) ==
  /\ classes = {} <=> Receiver(env, g, attrs, k) = 0
  /\ classes # {} =>
       /\ Min(classes) \in 1 .. Len(list)
       /\ Source(front, k - 1, Len(attrs), back, Min(classes)) = Receiver(env, g, attrs, k)

LEMMA FirstClass ==
  ASSUME NEW env, NEW g, NEW attrs, AttrsOK(attrs), NEW k \in 1 .. Len(attrs), attrs[k].is # "plain",
         NEW front, front = Stayed(env, g, attrs, k - 1), NEW back, back = Appended(env, g, attrs, k - 1),
         NEW list, Laid(list, front, k - 1, Len(attrs), back, Present(env, g, attrs, k - 1)),
         NEW classes, classes = Classes(list)
  PROVE  FirstIs(env, g, attrs, k, front, back, list, classes)
<1> SUFFICES /\ classes = {} <=> Receiver(env, g, attrs, k) = 0
             /\ classes # {} =>
                  /\ Min(classes) \in 1 .. Len(list)
                  /\ Source(front, k - 1, Len(attrs), back, Min(classes)) = Receiver(env, g, attrs, k)
  BY DEF FirstIs
<1> DEFINE n == Len(attrs)
           l == Len(front) + (n - (k - 1))
           m == l + Len(back)
           src(p) == Source(front, k - 1, n, back, p)
           now == Present(env, g, attrs, k - 1)
           named(S) == {j \in S : attrs[j].name = "class" /\ (j < k \/ attrs[j].is = "plain")}
           Stay == Staying(env, g, attrs)
           Last2 == Chosen(env, g, attrs, "target")
           inside == named(Stay)
           behind == named(Last2)
           r == Receiver(env, g, attrs, k)
<1>1. /\ n \in Nat /\ k - 1 \in 0 .. n /\ k \in Nat /\ IsList(attrs) /\ DOMAIN attrs = 1 .. n
      /\ Len(list) = m /\ IsList(list) /\ DOMAIN list = 1 .. m
  <2>1. IsList(attrs) /\ IsList(list) /\ Len(list) = m
    BY DEF AttrsOK, Laid
  <2>. QED
    BY <2>1, ListIs
<1>2. /\ Places(front, k - 1, n, back) /\ Rising(front) /\ Rising(back)
      /\ Sorted(front, Stay, k - 1) /\ Sorted(back, Last2, k - 1)
      /\ \A p \in 1 .. Len(front), q \in 1 .. Len(back) : front[p] # back[q]
  BY <1>1, PlacesAre
<1>3. \A p \in 1 .. m : src(p) \in 1 .. n /\ list[p] = now[src(p)]
  <2>. HIDE DEF now, n
  <2> DEFINE b == k - 1
  <2>1. Laid(list, front, b, n, back, now) /\ Places(front, b, n, back)
    BY <1>2 DEF now, n
  <2>2. IsList(list) /\ Len(list) = Len(front) + (n - b) + Len(back)
    BY <2>1 DEF Laid
  <2>. HIDE DEF b
  <2>3. \A p \in 1 .. Len(list) : Source(front, b, n, back, p) \in 1 .. n /\ list[p] = now[Source(front, b, n, back, p)]
    BY <2>1, <2>2, LaidSource
  <2>. QED
    BY <1>1, <2>3 DEF b
<1>4. r = IF inside # {} THEN Min(inside) ELSE IF behind # {} THEN Min(behind) ELSE 0
  BY DEF Receiver, ClassesFor, FirstOf
<1>5. Stay \subseteq 1 .. n /\ Last2 \subseteq 1 .. n /\ (\A j \in Last2 : attrs[j].is = "target")
      /\ (\A j \in 1 .. n : attrs[j].is = "plain" => j \in Stay)
  BY <1>1 DEF Staying, Chosen
<1>6. \A j \in 1 .. n :
        now[j].is = "plain" /\ now[j].name = "class" <=> attrs[j].name = "class" /\ (j < k \/ attrs[j].is = "plain")
  <2>1. TAKE j \in 1 .. n
  <2>2. now[j] = IF j > k - 1 /\ attrs[j].is # "plain" THEN attrs[j]
                 ELSE Plain(attrs[j].name, TextsOf(env, g, attrs, j)[k - 1])
    BY DEF Present
  <2>3. j > k - 1 <=> ~(j < k)
    BY <1>1
  <2>. HIDE DEF now
  <2>4. CASE j > k - 1 /\ attrs[j].is # "plain"
    BY <2>2, <2>3, <2>4
  <2>5. CASE ~(j > k - 1 /\ attrs[j].is # "plain")
    <3>1. now[j].is = "plain" /\ now[j].name = attrs[j].name
      BY <2>2, <2>5 DEF Plain
    <3>. QED
      BY <2>3, <2>5, <3>1
  <2>. QED
    BY <2>4, <2>5
<1>. HIDE DEF r, now
<1>7. \A p \in 1 .. m : p \in classes <=> attrs[src(p)].name = "class" /\ (src(p) < k \/ attrs[src(p)].is = "plain")
  <2>. HIDE DEF src, m
  <2>. QED
    BY <1>1, <1>3, <1>6 DEF Classes
<1>8. l \in Nat /\ m \in Nat /\ Len(front) \in Nat /\ Len(back) \in Nat
  BY <1>1, <1>2, ListIs DEF Places
\* Where an attribute lies.
<1>9. \A p \in 1 .. l : src(p) < k => src(p) \in Stay
  <2>1. TAKE p \in 1 .. l
  <2>2. CASE p <= Len(front)
    <3>1. src(p) = front[p] /\ p \in 1 .. Len(front)
      BY <1>8, <2>2 DEF Source
    <3>. QED
      BY <1>2, <3>1 DEF Sorted
  <2>3. CASE ~(p <= Len(front))
    <3>1. src(p) = k - 1 + (p - Len(front)) /\ p - Len(front) \in Nat \ {0}
      BY <1>1, <1>8, <2>3 DEF Source
    <3>. HIDE DEF src
    <3>2. ~(src(p) < k)
      BY <1>1, <1>8, <3>1
    <3>. QED
      BY <3>2
  <2>. QED
    BY <2>2, <2>3
<1>10. \A p \in l + 1 .. m : src(p) \in Last2 /\ src(p) < k
  <2>1. TAKE p \in l + 1 .. m
  <2>2. ~(p <= Len(front)) /\ ~(p <= l) /\ p - l \in 1 .. Len(back)
    BY <1>1, <1>8
  <2>3. src(p) = back[p - l]
    BY <2>2 DEF Source
  <2>. HIDE DEF src, l
  <2>4. src(p) \in Last2 /\ src(p) <= k - 1
    BY <1>2, <2>2, <2>3 DEF Sorted
  <2>5. src(p) \in Nat
    BY <1>5, <2>4
  <2>. QED
    BY <1>1, <2>4, <2>5
<1>11. \A p \in 1 .. l : p \in classes <=> src(p) \in inside
  <2>1. TAKE p \in 1 .. l
  <2>2. p \in 1 .. m /\ src(p) \in 1 .. n
    BY <1>3, <1>8
  <2>. HIDE DEF src, l, m, Stay
  <2>. QED
    BY <1>5, <1>7, <1>9, <2>2
<1>12. \A p \in l + 1 .. m : p \in classes <=> src(p) \in behind
  <2>1. TAKE p \in l + 1 .. m
  <2>2. p \in 1 .. m
    BY <1>8
  <2>. HIDE DEF src, l, m, Last2
  <2>. QED
    BY <1>7, <1>10, <2>2
<1>13. \A j \in inside : \E p \in 1 .. l : src(p) = j
  <2>1. TAKE j \in inside
  <2>2. j \in Stay /\ j \in 1 .. n
    BY <1>5
  <2>3. CASE j < k
    <3>1. j <= k - 1
      BY <1>1, <2>2, <2>3
    <3>2. PICK p \in 1 .. Len(front) : front[p] = j
      BY <1>2, <2>2, <3>1 DEF Sorted
    <3>3. src(p) = j /\ p \in 1 .. l
      <4>1. p <= Len(front) /\ p \in 1 .. l
        BY <1>1, <1>8
      <4>. QED
        BY <3>2, <4>1 DEF Source
    <3>. QED
      BY <3>3
  <2>4. CASE ~(j < k)
    <3> DEFINE p == Len(front) + (j - (k - 1))
    <3>1. p \in 1 .. l /\ ~(p <= Len(front)) /\ p <= l /\ k - 1 + (p - Len(front)) = j
      BY <1>1, <1>8, <2>2, <2>4
    <3>. HIDE DEF p
    <3>2. src(p) = j
      BY <3>1 DEF Source
    <3>. QED
      BY <3>1, <3>2
  <2>. QED
    BY <2>3, <2>4
<1>14. \A j \in behind : \E p \in l + 1 .. m : src(p) = j
  <2>1. TAKE j \in behind
  <2>2. j \in Last2 /\ j \in 1 .. n /\ j < k
    BY <1>5
  <2>3. j <= k - 1
    BY <1>1, <2>2
  <2>4. PICK q \in 1 .. Len(back) : back[q] = j
    BY <1>2, <2>2, <2>3 DEF Sorted
  <2> DEFINE p == l + q
             i == p - l
  <2>5. p \in l + 1 .. m /\ ~(p <= Len(front)) /\ ~(p <= l) /\ i = q
    BY <1>1, <1>8
  <2>6. src(p) = back[i]
    BY <2>5 DEF Source
  <2>. HIDE DEF i, src, p
  <2>. QED
    BY <2>4, <2>5, <2>6
<1>15. inside \subseteq Nat /\ behind \subseteq Nat /\ classes \subseteq 1 .. m
  BY <1>1, <1>5 DEF Classes
<1>. HIDE DEF inside, behind, l, m
<1>16. l = Len(front) + (n - (k - 1)) /\ m = l + Len(back)
  BY DEF l, m
<1>. HIDE DEF n, Stay, Last2
<1>17. /\ classes = {} => inside = {} /\ behind = {}
       /\ classes # {} =>
            /\ Min(classes) \in classes /\ (inside # {} \/ behind # {})
            /\ inside # {} => src(Min(classes)) = Min(inside)
            /\ inside = {} => src(Min(classes)) = Min(behind)
  <2> DEFINE b == k - 1
             at(p) == Source(front, b, n, back, p)
  <2>1. /\ Places(front, b, n, back) /\ Rising(front) /\ Rising(back)
        /\ \A p \in 1 .. Len(front), q \in 1 .. Len(back) : front[p] # back[q]
    BY <1>2
  <2>2. l = Len(front) + (n - b) /\ m = l + Len(back)
    BY <1>16
  <2>3. \A p \in 1 .. l : p \in classes <=> at(p) \in inside
    BY <1>11
  <2>4. \A p \in l + 1 .. m : p \in classes <=> at(p) \in behind
    BY <1>12
  <2>5. \A j \in inside : \E p \in 1 .. l : at(p) = j
    BY <1>13
  <2>6. \A j \in behind : \E p \in l + 1 .. m : at(p) = j
    BY <1>14
  <2>. HIDE DEF b
  <2>7. /\ classes = {} => inside = {} /\ behind = {}
        /\ classes # {} =>
             /\ Min(classes) \in classes /\ (inside # {} \/ behind # {})
             /\ inside # {} => at(Min(classes)) = Min(inside)
             /\ inside = {} => at(Min(classes)) = Min(behind)
    <3>1. Split(front, b, n, back, l, m, inside, behind, classes)
      BY <1>15, <2>1, <2>2, <2>3, <2>4, <2>5, <2>6 DEF Split
    <3>. QED
      BY <3>1, FirstPlace
  <2>. QED
    BY <2>7 DEF b
<1>18. classes # {} => src(Min(classes)) = r /\ Min(classes) \in 1 .. m /\ r \in 1 .. n
  <2>. HIDE DEF src
  <2>. QED
    BY <1>3, <1>4, <1>15, <1>17
<1>19. classes = {} => r = 0
  BY <1>4, <1>17
<1>. QED
  BY <1>1, <1>18, <1>19 DEF r, n

\* The state of the loop when the first k attributes were processed.
Midway(env, g, attrs, k, s) ==
  /\ s = [done |-> Kept(s.done.attrs), i |-> Len(Stayed(env, g, attrs, k)) + 1]
  /\ Laid(s.done.attrs, Stayed(env, g, attrs, k), k, Len(attrs), Appended(env, g, attrs, k), Present(env, g, attrs, k))

\* What attribute k is, where it is found.
LEMMA PlaceIs ==
  ASSUME NEW env, NEW g, NEW attrs, AttrsOK(attrs), NEW k \in 1 .. Len(attrs),
         NEW front, front = Stayed(env, g, attrs, k - 1), NEW back, back = Appended(env, g, attrs, k - 1),
         NEW list, NEW now, Laid(list, front, k - 1, Len(attrs), back, now)
  PROVE  /\ Len(front) + 1 \in 1 .. Len(list) /\ list[Len(front) + 1] = now[k]
         /\ IsList(list) /\ Len(front) \in Nat /\ Len(list) \in Nat
         /\ Places(front, k - 1, Len(attrs), back) /\ k - 1 < Len(attrs) /\ k - 1 + 1 = k /\ k - 1 \in Nat
         /\ Places(front, k, Len(attrs), back) /\ k \in 0 .. Len(attrs) /\ k > 0
<1>1. Len(attrs) \in Nat /\ IsList(attrs) /\ k - 1 \in 0 .. Len(attrs) /\ k \in Nat /\ k <= Len(attrs)
  BY ListIs DEF AttrsOK
<1>2. Places(front, k - 1, Len(attrs), back)
  BY <1>1, PlacesAre
<1>3. Len(front) \in Nat /\ Len(back) \in Nat /\ IsList(list) /\ Len(list) = Len(front) + (Len(attrs) - (k - 1)) + Len(back)
  BY <1>2, ListIs DEF Places, Laid
<1>4. 1 \in 1 .. Len(attrs) - (k - 1) /\ Len(front) + 1 \in 1 .. Len(list) /\ k - 1 + 1 = k
  BY <1>1, <1>3
<1>5. list[Len(front) + 1] = now[k - 1 + 1]
  BY <1>4 DEF Laid
<1>6. Places(front, k, Len(attrs), back)
  <2>1. \A p \in 1 .. Len(front) : front[p] \in 1 .. Len(attrs) /\ front[p] <= k
    <3>1. TAKE p \in 1 .. Len(front)
    <3>2. front[p] \in 1 .. Len(attrs) /\ front[p] <= k - 1
      BY <1>2 DEF Places
    <3>. QED
      BY <1>1, <3>2
  <2>2. \A p \in 1 .. Len(back) : back[p] \in 1 .. Len(attrs) /\ back[p] <= k
    <3>1. TAKE p \in 1 .. Len(back)
    <3>2. back[p] \in 1 .. Len(attrs) /\ back[p] <= k - 1
      BY <1>2 DEF Places
    <3>. QED
      BY <1>1, <3>2
  <2>. QED
    BY <1>1, <1>2, <2>1, <2>2 DEF Places
<1>. QED
  BY <1>1, <1>2, <1>3, <1>4, <1>5, <1>6

\* Attribute k is removed.
LEMMA MidwayGoes ==
  ASSUME NEW env, NEW g, NEW attrs, AttrsOK(attrs), NEW k \in 1 .. Len(attrs),
         NEW front, front = Stayed(env, g, attrs, k - 1), NEW back, back = Appended(env, g, attrs, k - 1),
         NEW list, NEW now, Laid(list, front, k - 1, Len(attrs), back, now),
         k \notin Staying(env, g, attrs),
         \A j \in 1 .. Len(attrs) : j # k => Present(env, g, attrs, k)[j] = now[j]
  PROVE  /\ Stayed(env, g, attrs, k) = front
         /\ Laid(RemoveAt(list, Len(front) + 1), front, k, Len(attrs), back, Present(env, g, attrs, k))
         /\ k \notin Chosen(env, g, attrs, "target") => Appended(env, g, attrs, k) = back
<1> DEFINE b == k - 1
           n == Len(attrs)
           then == Present(env, g, attrs, k)
<1>1. Places(front, b, n, back) /\ b < n /\ b + 1 = k /\ k \in 0 .. n /\ k > 0 /\ Laid(list, front, b, n, back, now)
      /\ IsList(attrs)
  BY PlaceIs DEF AttrsOK
<1>2. \A j \in 1 .. n : j # b + 1 => then[j] = now[j]
  BY <1>1
<1>3. Stayed(env, g, attrs, k) = front /\ (k \notin Chosen(env, g, attrs, "target") => Appended(env, g, attrs, k) = back)
  BY <1>1, PlacesAre
<1>. HIDE DEF b, n, then
<1>4. Laid(RemoveAt(list, Len(front) + 1), front, b + 1, n, back, then)
  BY <1>1, <1>2, LaidGoes
<1>. QED
  BY <1>1, <1>3, <1>4 DEF n, then

\* Attribute k stays.
LEMMA MidwayStays ==
  ASSUME NEW env, NEW g, NEW attrs, AttrsOK(attrs), NEW k \in 1 .. Len(attrs), k \in Staying(env, g, attrs),
         NEW front, front = Stayed(env, g, attrs, k - 1), NEW back, back = Appended(env, g, attrs, k - 1),
         NEW list, Laid(list, front, k - 1, Len(attrs), back, Present(env, g, attrs, k - 1)),
         NEW new, IsList(new), Len(new) = Len(list),
         \A p \in 1 .. Len(list) : p # Len(front) + 1 => new[p] = list[p],
         new[Len(front) + 1] = Present(env, g, attrs, k)[k]
  PROVE  /\ Len(Stayed(env, g, attrs, k)) = Len(front) + 1
         /\ Laid(new, Stayed(env, g, attrs, k), k, Len(attrs), Appended(env, g, attrs, k), Present(env, g, attrs, k))
<1> DEFINE b == k - 1
           n == Len(attrs)
           now == Present(env, g, attrs, k - 1)
           then == Present(env, g, attrs, k)
           longer == Stayed(env, g, attrs, k)
<1>1. Places(front, b, n, back) /\ b < n /\ b + 1 = k /\ k \in 0 .. n /\ k > 0 /\ IsList(attrs)
  BY PlaceIs DEF AttrsOK
<1>2. Longer(longer, front, b + 1) /\ Appended(env, g, attrs, k) = back
  <2>1. k \notin Chosen(env, g, attrs, "target")
    BY DEF Staying, Chosen
  <2>. QED
    BY <1>1, <2>1, PlacesAre
<1>3. \A j \in 1 .. n : j # b + 1 => then[j] = now[j]
  <2>1. \A j \in 1 .. n : ~Receives(env, g, attrs, j, k)
    BY DEF Staying, Chosen, Receives
  <2>. QED
    BY <1>1, <2>1, PresentIs
<1>4. Laid(list, front, b, n, back, now)
  OBVIOUS
<1>5. \A p \in 1 .. Len(list) : new[p] = IF p = Len(front) + 1 THEN then[b + 1] ELSE list[p]
  BY <1>1
<1>. HIDE DEF b, n, now, then, longer
<1>6. Laid(new, longer, b + 1, n, back, then)
  BY <1>1, <1>2, <1>3, <1>4, <1>5, LaidStays
<1>7. Len(longer) = Len(front) + 1
  BY <1>2 DEF Longer
<1>. QED
  BY <1>1, <1>2, <1>6, <1>7 DEF n, then, longer

\* What a round of the loop does with attribute k.
RoundOf(env, t, g, attrs, k, s, list, front, done) ==
  /\ list = s.done.attrs /\ front = Stayed(env, g, attrs, k - 1) /\ done = Processed(t, g, list, Len(front) + 1)
  /\ Laid(list, front, k - 1, Len(attrs), Appended(env, g, attrs, k - 1), Present(env, g, attrs, k - 1))
  /\ Onward(t, g, s) = [done |-> done, i |-> NextAttribute(list, Len(front) + 1, done)]
  /\ list[Len(front) + 1] = Present(env, g, attrs, k - 1)[k]
  /\ attrs[k].is # "plain" => list[Len(front) + 1] = attrs[k]
  /\ IsList(list) /\ Len(front) \in Nat /\ Len(front) + 1 \in 1 .. Len(list)

LEMMA RoundIs ==
  ASSUME NEW env, NEW t, NEW g, NEW attrs, AttrsOK(attrs), NEW k \in 1 .. Len(attrs),
         NEW s, Midway(env, g, attrs, k - 1, s)
  PROVE  \E list, front, done : RoundOf(env, t, g, attrs, k, s, list, front, done)
<1> DEFINE list == s.done.attrs
           front == Stayed(env, g, attrs, k - 1)
           done == Processed(t, g, list, Len(front) + 1)
<1>0. list = s.done.attrs /\ front = Stayed(env, g, attrs, k - 1) /\ done = Processed(t, g, list, Len(front) + 1)
  OBVIOUS
<1>. HIDE DEF list, front, done
<1>1. /\ Laid(list, front, k - 1, Len(attrs), Appended(env, g, attrs, k - 1), Present(env, g, attrs, k - 1))
      /\ s = [done |-> Kept(list), i |-> Len(front) + 1]
  BY <1>0 DEF Midway
<1> DEFINE now == Present(env, g, attrs, k - 1)
           back == Appended(env, g, attrs, k - 1)
<1>2. /\ Len(front) + 1 \in 1 .. Len(list) /\ list[Len(front) + 1] = now[k]
      /\ IsList(list) /\ Len(front) \in Nat /\ Len(list) \in Nat
  <2>1. back = Appended(env, g, attrs, k - 1) /\ Laid(list, front, k - 1, Len(attrs), back, now)
    BY <1>1
  <2>. HIDE DEF now, back
  <2>. QED
    BY <1>0, <2>1, PlaceIs
<1>3. attrs[k].is # "plain" => now[k] = attrs[k]
  BY PresentBefore
<1>. HIDE DEF now
<1>4. s.done.keep = TRUE /\ s.done.attrs = list /\ s.i = Len(front) + 1 /\ ~(s.i > Len(s.done.attrs))
  BY <1>1, <1>2 DEF Kept
<1>5. Onward(t, g, s) = [done |-> done, i |-> NextAttribute(list, Len(front) + 1, done)]
  BY <1>0, <1>4 DEF Onward, MovedOn
<1>6. RoundOf(env, t, g, attrs, k, s, list, front, done)
  BY <1>0, <1>1, <1>2, <1>3, <1>5 DEF now, RoundOf
<1>. QED
  BY <1>6

\* What attribute k leaves: the loop goes on, fails or drops the node.
Goes(env, g, attrs, k, s) ==
  \/ ~s.done.keep /\ s.done.outcome # "found"
  \/ ~s.done.keep /\ attrs[k].is = "if" /\ ~True(env, g, attrs[k].test)
  \/ Midway(env, g, attrs, k, s) /\ (attrs[k].is = "if" => True(env, g, attrs[k].test))

\* A directive that removes its attribute and changes no other one.
LEMMA MidwayRemoved ==
  ASSUME NEW env, NEW g, NEW attrs, AttrsOK(attrs), NEW k \in 1 .. Len(attrs),
         NEW list, NEW front, front = Stayed(env, g, attrs, k - 1),
         Laid(list, front, k - 1, Len(attrs), Appended(env, g, attrs, k - 1), Present(env, g, attrs, k - 1)),
         list[Len(front) + 1] = attrs[k], attrs[k].is \in {"if", "target", "eval", "add-class"},
         k \notin Staying(env, g, attrs), k \notin Chosen(env, g, attrs, "target"),
         \A j \in 1 .. Len(attrs) : ~Receives(env, g, attrs, j, k),
         NEW done, done = Kept(Without(list, Len(front) + 1)),
         NEW s, s = [done |-> done, i |-> NextAttribute(list, Len(front) + 1, done)]
  PROVE  Midway(env, g, attrs, k, s)
<1> DEFINE now == Present(env, g, attrs, k - 1)
           then == Present(env, g, attrs, k)
           back == Appended(env, g, attrs, k - 1)
           new == RemoveAt(list, Len(front) + 1)
<1>1. Laid(list, front, k - 1, Len(attrs), back, now)
  OBVIOUS
<1>2. \A j \in 1 .. Len(attrs) : j # k => then[j] = now[j]
  BY PresentIs
<1>3. back = Appended(env, g, attrs, k - 1)
  OBVIOUS
<1>4. then = Present(env, g, attrs, k)
  OBVIOUS
<1>. HIDE DEF now, then, back
<1>5. /\ Stayed(env, g, attrs, k) = front /\ Appended(env, g, attrs, k) = back
      /\ Laid(new, front, k, Len(attrs), back, Present(env, g, attrs, k))
  BY <1>1, <1>2, <1>3, <1>4, MidwayGoes
<1>6. Len(front) + 1 \in 1 .. Len(list) /\ IsList(list) /\ Len(list) \in Nat
  BY <1>1, <1>3, PlaceIs
<1>7. Len(new) = Len(list) - 1
  BY <1>6, RemoveAtIs
<1>. HIDE DEF new
<1>8. done.attrs = new /\ done = Kept(new) /\ Len(new) < Len(list)
  BY <1>6, <1>7 DEF Kept, Without, new
<1>9. NextAttribute(list, Len(front) + 1, done) = Len(front) + 1
  BY <1>8 DEF NextAttribute
<1>. QED
  BY <1>5, <1>8, <1>9 DEF Midway

LEMMA MidwayPlain ==
  ASSUME NEW env, NEW t, NEW g, NEW attrs, AttrsOK(attrs), NEW k \in 1 .. Len(attrs),
         NEW s, Midway(env, g, attrs, k - 1, s), attrs[k].is = "plain"
  PROVE  Goes(env, g, attrs, k, Onward(t, g, s))
<1>0. PICK list, front, done : RoundOf(env, t, g, attrs, k, s, list, front, done)
  BY RoundIs
<1> DEFINE now == Present(env, g, attrs, k - 1)
           s2 == Onward(t, g, s)
<1>1. /\ front = Stayed(env, g, attrs, k - 1) /\ done = Processed(t, g, list, Len(front) + 1)
      /\ Laid(list, front, k - 1, Len(attrs), Appended(env, g, attrs, k - 1), now)
      /\ s2 = [done |-> done, i |-> NextAttribute(list, Len(front) + 1, done)]
      /\ list[Len(front) + 1] = now[k]
      /\ IsList(list) /\ Len(front) \in Nat
  BY <1>0 DEF RoundOf
<1>2. now[k] = Present(env, g, attrs, k)[k] /\ now[k].is = "plain"
  BY PresentPlain
<1>3. done = Kept(list)
  BY <1>1, <1>2 DEF Processed
<1>4. NextAttribute(list, Len(front) + 1, done) = Len(front) + 1 + 1
  BY <1>1, <1>2 DEF NextAttribute
<1>5. k \in Staying(env, g, attrs)
  <2>1. DOMAIN attrs = 1 .. Len(attrs)
    BY ListIs DEF AttrsOK
  <2>. QED
    BY <2>1 DEF Staying, Chosen
<1>6. /\ Len(Stayed(env, g, attrs, k)) = Len(front) + 1
      /\ Laid(list, Stayed(env, g, attrs, k), k, Len(attrs), Appended(env, g, attrs, k), Present(env, g, attrs, k))
  <2>1. list[Len(front) + 1] = Present(env, g, attrs, k)[k]
    BY <1>1, <1>2
  <2> DEFINE back == Appended(env, g, attrs, k - 1)
  <2>3. back = Appended(env, g, attrs, k - 1) /\ Laid(list, front, k - 1, Len(attrs), back, Present(env, g, attrs, k - 1))
    BY <1>1
  <2>. HIDE DEF now, back, s2
  <2>4. Len(list) = Len(list) /\ \A p \in 1 .. Len(list) : p # Len(front) + 1 => list[p] = list[p]
    OBVIOUS
  <2>5. front = Stayed(env, g, attrs, k - 1) /\ IsList(list)
    BY <1>1
  <2>6. Len(Stayed(env, g, attrs, k)) = Len(front) + 1
    BY <1>5, <2>1, <2>3, <2>4, <2>5, MidwayStays, SMTT(30)
  <2>7. Laid(list, Stayed(env, g, attrs, k), k, Len(attrs), Appended(env, g, attrs, k), Present(env, g, attrs, k))
    BY <1>5, <2>1, <2>3, <2>4, <2>5, MidwayStays, SMTT(30)
  <2>. QED
    BY <2>6, <2>7
<1>. HIDE DEF now, s2
<1>7. s2 = [done |-> Kept(list), i |-> Len(front) + 1 + 1] /\ s2.done.attrs = list
  <2>1. s2 = [done |-> Kept(list), i |-> Len(front) + 1 + 1]
    BY <1>1, <1>3, <1>4
  <2>2. s2.done = Kept(list) /\ Kept(list).attrs = list
    BY <2>1 DEF Kept
  <2>. QED
    BY <2>1, <2>2
<1>8. Midway(env, g, attrs, k, s2)
  BY <1>6, <1>7 DEF Midway
<1>. QED
  BY <1>8 DEF Goes, s2

LEMMA MidwayIf ==
  ASSUME NEW t \in Table, NEW env, env = Env(t), NEW g, NEW attrs, AttrsOK(attrs), NEW k \in 1 .. Len(attrs),
         NEW s, Midway(env, g, attrs, k - 1, s), attrs[k].is = "if"
  PROVE  Goes(env, g, attrs, k, Onward(t, g, s))
<1>0. PICK list, front, done : RoundOf(env, t, g, attrs, k, s, list, front, done)
  BY RoundIs
<1> DEFINE s2 == Onward(t, g, s)
           test == Evaluate(t, g, attrs[k].test)
<1>1. /\ front = Stayed(env, g, attrs, k - 1) /\ done = Processed(t, g, list, Len(front) + 1)
      /\ Laid(list, front, k - 1, Len(attrs), Appended(env, g, attrs, k - 1), Present(env, g, attrs, k - 1))
      /\ s2 = [done |-> done, i |-> NextAttribute(list, Len(front) + 1, done)]
      /\ list[Len(front) + 1] = attrs[k]
  BY <1>0 DEF RoundOf
<1>2. done = IfAttr(list, Len(front) + 1, test)
  BY <1>1 DEF Processed
<1>3. True(env, g, attrs[k].test) <=> test.value # 0
  BY SameValue DEF True
<1>4. k \notin Staying(env, g, attrs) /\ k \notin Chosen(env, g, attrs, "target") /\ k \notin Chosen(env, g, attrs, "add-class")
  BY DEF Staying, Chosen
<1>5. \A j \in 1 .. Len(attrs) : ~Receives(env, g, attrs, j, k)
  BY <1>4 DEF Receives
<1>. HIDE DEF s2, test
<1>7. CASE test.outcome # "found"
  <2>1. done = Broken(test.outcome)
    BY <1>2, <1>7 DEF IfAttr
  <2>2. ~s2.done.keep /\ s2.done.outcome # "found"
    BY <1>1, <1>7, <2>1 DEF Broken
  <2>. QED
    BY <2>2 DEF Goes, s2
<1>8. CASE test.outcome = "found" /\ test.value # 0
  <2>1. done = Kept(Without(list, Len(front) + 1))
    BY <1>2, <1>8 DEF IfAttr
  <2>2. Midway(env, g, attrs, k, s2)
    BY <1>1, <1>4, <1>5, <2>1, MidwayRemoved
  <2>. QED
    BY <1>3, <1>8, <2>2 DEF Goes, s2
<1>9. CASE test.outcome = "found" /\ ~(test.value # 0)
  <2>1. done = Dropped
    BY <1>2, <1>9 DEF IfAttr
  <2>2. ~s2.done.keep
    BY <1>1, <2>1 DEF Dropped
  <2>. QED
    BY <1>3, <1>9, <2>2 DEF Goes, s2
<1>. QED
  BY <1>7, <1>8, <1>9

\* The texts and tests of a directive do not depend on the depths of the aliases.
LEMMA HoldsIs ==
  ASSUME NEW t \in Table, NEW g, NEW test, Holds(t, g, test).outcome = "found"
  PROVE  Holds(t, g, test).value # 0 <=> test = <<>> \/ True(Env(t), g, test)
<1>1. CASE test = <<>>
  BY <1>1 DEF Holds, Number
<1>2. CASE test # <<>>
  BY <1>2, SameValue DEF Holds, True
<1>. QED
  BY <1>1, <1>2

LEMMA SameTexts ==
  ASSUME NEW t \in Table, NEW g, NEW pieces
  PROVE  Resolved(TableOf(Env(t)), g, pieces) = Resolved(t, g, pieces)
<1> DEFINE u == TableOf(Env(t))
<1>1. \A piece : PieceText(u, g, piece) = PieceText(t, g, piece)
  BY SameLookup DEF PieceText
<1>. HIDE DEF u
<1> DEFINE failed(v) == {i \in DOMAIN pieces : PieceText(v, g, pieces[i]).outcome # "found"}
           texts(v) == [i \in DOMAIN pieces |-> PieceText(v, g, pieces[i]).value]
           first(v) == PieceText(v, g, pieces[Min(failed(v))])
<1>2. failed(u) = failed(t) /\ texts(u) = texts(t)
  BY <1>1
<1>3. first(u) = first(t)
  BY <1>1, <1>2
<1>4. \A v : Resolved(v, g, pieces) = IF failed(v) # {} THEN first(v) ELSE Found("text", texts(v))
  BY DEF Resolved
<1>. HIDE DEF failed, texts, first
<1>5. Resolved(u, g, pieces) = Resolved(t, g, pieces)
  BY <1>2, <1>3, <1>4
<1>. QED
  BY <1>5 DEF u

LEMMA MidwayEval ==
  ASSUME NEW t \in Table, NEW env, env = Env(t), NEW g, NEW attrs, AttrsOK(attrs), NEW k \in 1 .. Len(attrs),
         NEW s, Midway(env, g, attrs, k - 1, s), attrs[k].is = "eval"
  PROVE  Goes(env, g, attrs, k, Onward(t, g, s))
<1>0. PICK list, front, done : RoundOf(env, t, g, attrs, k, s, list, front, done)
  BY RoundIs
<1> DEFINE s2 == Onward(t, g, s)
           test == Holds(t, g, attrs[k].test)
           value == Evaluate(t, g, attrs[k].expr)
           place == Len(front) + 1
           now == Present(env, g, attrs, k - 1)
           then == Present(env, g, attrs, k)
           back == Appended(env, g, attrs, k - 1)
<1>1. /\ front = Stayed(env, g, attrs, k - 1) /\ done = Processed(t, g, list, place)
      /\ Laid(list, front, k - 1, Len(attrs), back, now)
      /\ s2 = [done |-> done, i |-> NextAttribute(list, place, done)]
      /\ list[place] = attrs[k] /\ IsList(list) /\ place \in 1 .. Len(list) /\ place \in Nat
  BY <1>0 DEF RoundOf
<1>2. done = EvalAttr(list, place, test, value)
  BY <1>1 DEF Processed
<1>3. DOMAIN attrs = 1 .. Len(attrs)
  BY ListIs DEF AttrsOK
<1>4. k \notin Chosen(env, g, attrs, "target") /\ k \notin Chosen(env, g, attrs, "add-class")
  BY DEF Chosen
<1>5. test.outcome = "found" => (test.value # 0 <=> k \in Staying(env, g, attrs))
  <2>1. test.outcome = "found" => (test.value # 0 <=> attrs[k].test = <<>> \/ True(env, g, attrs[k].test))
    BY HoldsIs
  <2>. HIDE DEF test
  <2>2. k \in Chosen(env, g, attrs, "eval") <=> attrs[k].test = <<>> \/ True(env, g, attrs[k].test)
    BY <1>3 DEF Chosen
  <2>3. k \notin Chosen(env, g, attrs, "plain")
    BY DEF Chosen
  <2>. QED
    BY <2>1, <2>2, <2>3 DEF Staying
<1>6. \A j \in 1 .. Len(attrs) : ~Receives(env, g, attrs, j, k)
  BY <1>4 DEF Receives
<1>7. then[k] = Plain(attrs[k].name, <<ToString(value.value)>>)
  <2>0. attrs[k].is \in {"target", "eval"}
    OBVIOUS
  <2>1. then[k] = Plain(attrs[k].name, OwnText(env, g, attrs[k]))
    BY <2>0, PresentOwn
  <2>2. OwnText(env, g, attrs[k]) = <<ToString(value.value)>>
    BY SameValue DEF OwnText
  <2>. QED
    BY <2>1, <2>2
<1>. HIDE DEF s2, test, value
<1>8. CASE test.outcome # "found"
  <2>1. done = Broken(test.outcome)
    BY <1>2, <1>8 DEF EvalAttr
  <2>2. ~s2.done.keep /\ s2.done.outcome # "found"
    BY <1>1, <1>8, <2>1 DEF Broken
  <2>. QED
    BY <2>2 DEF Goes, s2
<1>9. CASE test.outcome = "found" /\ test.value = 0
  <2>1. done = Kept(Without(list, place))
    BY <1>2, <1>9 DEF EvalAttr
  <2>2. k \notin Staying(env, g, attrs)
    BY <1>5, <1>9
  <2>3. Midway(env, g, attrs, k, s2)
    BY <1>1, <1>4, <1>6, <2>1, <2>2, MidwayRemoved
  <2>. QED
    BY <2>3 DEF Goes, s2
<1>10. CASE test.outcome = "found" /\ test.value # 0 /\ value.outcome # "found"
  <2>1. done = Broken(value.outcome)
    BY <1>2, <1>10 DEF EvalAttr
  <2>2. ~s2.done.keep /\ s2.done.outcome # "found"
    BY <1>1, <1>10, <2>1 DEF Broken
  <2>. QED
    BY <2>2 DEF Goes, s2
<1>11. CASE test.outcome = "found" /\ test.value # 0 /\ value.outcome = "found"
  <2> DEFINE new == ReplaceAt(list, place, then[k])
  <2>. HIDE DEF then, now, place, back
  <2>1. done = Kept(new)
    BY <1>1, <1>2, <1>7, <1>11 DEF EvalAttr, ReplaceAt
  <2>2. k \in Staying(env, g, attrs)
    BY <1>5, <1>11
  <2>3. /\ IsList(new) /\ Len(new) = Len(list)
        /\ \A p \in 1 .. Len(list) : p # place => new[p] = list[p]
        /\ new[place] = then[k]
    BY <1>1, ReplaceIs
  <2>. HIDE DEF new
  <2>4. /\ Len(Stayed(env, g, attrs, k)) = place
        /\ Laid(new, Stayed(env, g, attrs, k), k, Len(attrs), Appended(env, g, attrs, k), then)
    <3>1. /\ Laid(list, front, k - 1, Len(attrs), back, Present(env, g, attrs, k - 1))
          /\ back = Appended(env, g, attrs, k - 1)
          /\ \A p \in 1 .. Len(list) : p # Len(front) + 1 => new[p] = list[p]
          /\ new[Len(front) + 1] = Present(env, g, attrs, k)[k]
      BY <1>1, <2>3 DEF now, then, back, place
    <3>. QED
      BY <1>1, <2>2, <2>3, <3>1, MidwayStays DEF place, then
  <2>5. s2.done = Kept(new) /\ Kept(new).attrs = new
    BY <1>1, <2>1 DEF Kept
  <2>6. NextAttribute(list, place, done) = place + 1
    <3>1. Len(done.attrs) = Len(list)
      BY <2>1, <2>3, <2>5 DEF Kept
    <3>2. ~(Len(done.attrs) < Len(list))
      BY <1>1, <3>1, ListIs
    <3>. QED
      BY <1>1, <3>2 DEF NextAttribute
  <2>7. Midway(env, g, attrs, k, s2)
    BY <1>1, <2>1, <2>4, <2>5, <2>6 DEF Midway, then
  <2>. QED
    BY <2>7 DEF Goes, s2
<1>. QED
  BY <1>8, <1>9, <1>10, <1>11

LEMMA MidwayTarget ==
  ASSUME NEW t \in Table, NEW env, env = Env(t), NEW g, NEW attrs, AttrsOK(attrs), NEW k \in 1 .. Len(attrs),
         NEW s, Midway(env, g, attrs, k - 1, s), attrs[k].is = "target"
  PROVE  Goes(env, g, attrs, k, Onward(t, g, s))
<1>0. PICK list, front, done : RoundOf(env, t, g, attrs, k, s, list, front, done)
  BY RoundIs
<1> DEFINE s2 == Onward(t, g, s)
           test == Holds(t, g, attrs[k].test)
           text == Resolved(t, g, attrs[k].pieces)
           place == Len(front) + 1
           now == Present(env, g, attrs, k - 1)
           then == Present(env, g, attrs, k)
           back == Appended(env, g, attrs, k - 1)
           T == Chosen(env, g, attrs, "target")
<1>1. /\ front = Stayed(env, g, attrs, k - 1) /\ done = Processed(t, g, list, place)
      /\ Laid(list, front, k - 1, Len(attrs), back, now)
      /\ s2 = [done |-> done, i |-> NextAttribute(list, place, done)]
      /\ list[place] = attrs[k] /\ IsList(list) /\ place \in 1 .. Len(list) /\ place \in Nat
  BY <1>0 DEF RoundOf
<1>2. done = TargetAttr(list, place, test, text)
  BY <1>1 DEF Processed
<1>3. DOMAIN attrs = 1 .. Len(attrs)
  BY ListIs DEF AttrsOK
<1>4. k \notin Staying(env, g, attrs) /\ k \notin Chosen(env, g, attrs, "add-class")
  BY DEF Chosen, Staying
<1>5. test.outcome = "found" => (test.value # 0 <=> k \in T)
  <2>1. test.outcome = "found" => (test.value # 0 <=> attrs[k].test = <<>> \/ True(env, g, attrs[k].test))
    BY HoldsIs
  <2>. HIDE DEF test
  <2>2. k \in T <=> attrs[k].test = <<>> \/ True(env, g, attrs[k].test)
    BY <1>3 DEF Chosen
  <2>. QED
    BY <2>1, <2>2
<1>6. \A j \in 1 .. Len(attrs) : ~Receives(env, g, attrs, j, k)
  BY <1>4 DEF Receives
<1>7. then[k] = Plain(attrs[k].name, text.value)
  <2>0. attrs[k].is \in {"target", "eval"}
    OBVIOUS
  <2>1. then[k] = Plain(attrs[k].name, OwnText(env, g, attrs[k]))
    BY <2>0, PresentOwn
  <2>2. OwnText(env, g, attrs[k]) = text.value
    BY SameTexts DEF OwnText
  <2>. QED
    BY <2>1, <2>2
<1>. HIDE DEF s2, test, text, T
<1>8. CASE test.outcome # "found"
  <2>1. done = Broken(test.outcome)
    BY <1>2, <1>8 DEF TargetAttr
  <2>2. ~s2.done.keep /\ s2.done.outcome # "found"
    BY <1>1, <1>8, <2>1 DEF Broken
  <2>. QED
    BY <2>2 DEF Goes, s2
<1>9. CASE test.outcome = "found" /\ test.value = 0
  <2>1. done = Kept(Without(list, place))
    BY <1>2, <1>9 DEF TargetAttr
  <2>2. k \notin T
    BY <1>5, <1>9
  <2>3. Midway(env, g, attrs, k, s2)
    BY <1>1, <1>4, <1>6, <2>1, <2>2, MidwayRemoved DEF T
  <2>. QED
    BY <2>3 DEF Goes, s2
<1>10. CASE test.outcome = "found" /\ test.value # 0 /\ text.outcome # "found"
  <2>1. done = Broken(text.outcome)
    BY <1>2, <1>10 DEF TargetAttr
  <2>2. ~s2.done.keep /\ s2.done.outcome # "found"
    BY <1>1, <1>10, <2>1 DEF Broken
  <2>. QED
    BY <2>2 DEF Goes, s2
<1>11. CASE test.outcome = "found" /\ test.value # 0 /\ text.outcome = "found"
  <2> DEFINE mid == RemoveAt(list, place)
             new == Append(mid, then[k])
  <2>0. k \in T
    BY <1>5, <1>11
  <2>. HIDE DEF then, now, place, back
  <2>1. done = Kept(new)
    BY <1>1, <1>2, <1>7, <1>11 DEF TargetAttr, Without
  <2>2. \A j \in 1 .. Len(attrs) : j # k => then[j] = now[j]
    BY <1>6, PresentIs DEF then, now
  <2>3. Stayed(env, g, attrs, k) = front /\ Laid(mid, front, k, Len(attrs), back, then)
    <3>1. then = Present(env, g, attrs, k) /\ back = Appended(env, g, attrs, k - 1)
      BY DEF then, back
    <3>. HIDE DEF mid
    <3>. QED
      BY <1>1, <1>4, <2>2, <3>1, MidwayGoes DEF place, mid
  <2>4. Places(front, k, Len(attrs), back) /\ k \in 0 .. Len(attrs) /\ k > 0
    <3>1. back = Appended(env, g, attrs, k - 1) /\ front = Stayed(env, g, attrs, k - 1)
      BY <1>1 DEF back
    <3>. QED
      BY <1>1, <3>1, PlaceIs
  <2>5. Longer(Appended(env, g, attrs, k), back, k)
    <3>1. IsList(attrs)
      BY DEF AttrsOK
    <3>. QED
      BY <2>0, <2>4, <3>1, PlacesAre DEF T, back
  <2>. HIDE DEF mid
  <2>6. Laid(new, front, k, Len(attrs), Appended(env, g, attrs, k), then)
    BY <2>3, <2>4, <2>5, LaidBehind
  <2>. HIDE DEF new
  <2>7. s2.done = Kept(new) /\ Kept(new).attrs = new
    BY <1>1, <2>1 DEF Kept
  <2>8. NextAttribute(list, place, done) = place
    BY <1>1 DEF NextAttribute
  <2>9. Midway(env, g, attrs, k, s2)
    BY <1>1, <2>1, <2>3, <2>6, <2>7, <2>8 DEF Midway, then, place
  <2>. QED
    BY <2>9 DEF Goes, s2
<1>. QED
  BY <1>8, <1>9, <1>10, <1>11

LEMMA PlacesBefore ==
  ASSUME NEW env, NEW g, NEW attrs, AttrsOK(attrs), NEW k \in 1 .. Len(attrs),
         NEW front, front = Stayed(env, g, attrs, k - 1), NEW back, back = Appended(env, g, attrs, k - 1)
  PROVE  /\ Places(front, k - 1, Len(attrs), back) /\ Rising(front) /\ Rising(back)
         /\ \A p \in 1 .. Len(front), q \in 1 .. Len(back) : front[p] # back[q]
<1>1. k - 1 \in 0 .. Len(attrs) /\ IsList(attrs)
  BY ListIs DEF AttrsOK
<1>2. Sorted(front, Staying(env, g, attrs), k - 1) /\ Sorted(back, Chosen(env, g, attrs, "target"), k - 1)
  BY <1>1, PlacesAre
<1>3. /\ \A p \in 1 .. Len(front) : front[p] \in Staying(env, g, attrs)
      /\ \A p \in 1 .. Len(back) : back[p] \in Chosen(env, g, attrs, "target")
  BY <1>2 DEF Sorted
<1>4. \A p \in 1 .. Len(front), q \in 1 .. Len(back) : front[p] # back[q]
  BY <1>3 DEF Staying, Chosen
<1>. QED
  BY <1>1, <1>4, PlacesAre

LEMMA MidwayClass ==
  ASSUME NEW t \in Table, NEW env, env = Env(t), NEW g, NEW attrs, AttrsOK(attrs), NEW k \in 1 .. Len(attrs),
         NEW s, Midway(env, g, attrs, k - 1, s), attrs[k].is = "add-class"
  PROVE  Goes(env, g, attrs, k, Onward(t, g, s))
<1>0. PICK list, front, done : RoundOf(env, t, g, attrs, k, s, list, front, done)
  BY RoundIs
<1> DEFINE s2 == Onward(t, g, s)
           test == IF attrs[k].name = "" THEN Number(1) ELSE Evaluate(t, g, attrs[k].test)
           class == IF attrs[k].name = "" THEN TextOf(g, Lookup(t, attrs[k].key)) ELSE Found("leaf", attrs[k].name)
           place == Len(front) + 1
           now == Present(env, g, attrs, k - 1)
           then == Present(env, g, attrs, k)
           back == Appended(env, g, attrs, k - 1)
           r == Receiver(env, g, attrs, k)
           classes == {j \in DOMAIN list : list[j].is = "plain" /\ list[j].name = "class"}
           C == Chosen(env, g, attrs, "add-class")
<1>1. /\ front = Stayed(env, g, attrs, k - 1) /\ done = Processed(t, g, list, place)
      /\ Laid(list, front, k - 1, Len(attrs), back, now)
      /\ s2 = [done |-> done, i |-> NextAttribute(list, place, done)]
      /\ list[place] = attrs[k] /\ IsList(list) /\ place \in 1 .. Len(list) /\ place \in Nat
  BY <1>0 DEF RoundOf
<1>2. done = AddClassAttr(list, place, test, class)
  <2>1. CASE attrs[k].name = ""
    BY <1>1, <2>1 DEF Processed
  <2>2. CASE attrs[k].name # ""
    BY <1>1, <2>2 DEF Processed
  <2>. QED
    BY <2>1, <2>2
<1>3. DOMAIN attrs = 1 .. Len(attrs)
  BY ListIs DEF AttrsOK
<1>4. k \notin Staying(env, g, attrs) /\ k \notin Chosen(env, g, attrs, "target")
  BY DEF Chosen, Staying
<1>5. test.outcome = "found" => (test.value # 0 <=> k \in C)
  <2>1. k \in C <=> attrs[k].name = "" \/ True(env, g, attrs[k].test)
    BY <1>3 DEF Chosen
  <2>2. CASE attrs[k].name = ""
    <3>1. test = Number(1)
      BY <2>2
    <3>. HIDE DEF test
    <3>2. test.value # 0
      BY <3>1 DEF Number
    <3>. QED
      BY <2>1, <2>2, <3>2
  <2>3. CASE attrs[k].name # ""
    <3>1. True(env, g, attrs[k].test) <=> test.value # 0
      BY <2>3, SameValue DEF True
    <3>. QED
      BY <2>1, <2>3, <3>1
  <2>. QED
    BY <2>2, <2>3
<1>6. Class(env, g, attrs[k]) = Spaced(class.value)
  <2>1. CASE attrs[k].name = ""
    BY <2>1, SameLookup DEF Class
  <2>2. CASE attrs[k].name # ""
    <3>1. class.value = attrs[k].name
      BY <2>2 DEF Found
    <3>. QED
      BY <2>2, <3>1 DEF Class
  <2>. QED
    BY <2>1, <2>2
<1>7. \A j \in 1 .. Len(attrs) : Receives(env, g, attrs, j, k) => k \in C /\ j = r
  BY DEF Receives
<1>. HIDE DEF s2, test, class, C, r
<1>8. CASE test.outcome # "found"
  <2>1. done = Broken(test.outcome)
    BY <1>2, <1>8 DEF AddClassAttr
  <2>2. ~s2.done.keep /\ s2.done.outcome # "found"
    BY <1>1, <1>8, <2>1 DEF Broken
  <2>. QED
    BY <2>2 DEF Goes, s2
<1>9. CASE test.outcome = "found" /\ test.value = 0
  <2>1. done = Kept(Without(list, place))
    BY <1>2, <1>9 DEF AddClassAttr
  <2>2. \A j \in 1 .. Len(attrs) : ~Receives(env, g, attrs, j, k)
    BY <1>5, <1>7, <1>9
  <2>3. Midway(env, g, attrs, k, s2)
    BY <1>1, <1>4, <2>1, <2>2, MidwayRemoved
  <2>. QED
    BY <2>3 DEF Goes, s2
<1>10. CASE test.outcome = "found" /\ test.value # 0 /\ class.outcome # "found"
  <2>1. done = Broken(class.outcome)
    BY <1>2, <1>10 DEF AddClassAttr
  <2>2. ~s2.done.keep /\ s2.done.outcome # "found"
    BY <1>1, <1>10, <2>1 DEF Broken
  <2>. QED
    BY <2>2 DEF Goes, s2
<1>11. /\ classes = {} <=> r = 0
       /\ classes # {} =>
            /\ Min(classes) \in 1 .. Len(list)
            /\ Source(front, k - 1, Len(attrs), back, Min(classes)) = r
  <2>1. /\ back = Appended(env, g, attrs, k - 1) /\ classes = Classes(list)
        /\ Laid(list, front, k - 1, Len(attrs), back, Present(env, g, attrs, k - 1))
        /\ front = Stayed(env, g, attrs, k - 1) /\ attrs[k].is # "plain"
    BY <1>1 DEF Classes
  <2>. HIDE DEF classes, back, now, then, place
  <2>2. FirstIs(env, g, attrs, k, front, back, list, classes)
    BY <2>1, FirstClass
  <2>. QED
    BY <2>2 DEF FirstIs, r
<1>12. CASE test.outcome = "found" /\ test.value # 0 /\ class.outcome = "found" /\ classes = {}
  <2>1. done = Kept(Without(list, place))
    BY <1>2, <1>12 DEF AddClassAttr
  <2>2. \A j \in 1 .. Len(attrs) : ~Receives(env, g, attrs, j, k)
    BY <1>7, <1>11, <1>12
  <2>3. Midway(env, g, attrs, k, s2)
    BY <1>1, <1>4, <2>1, <2>2, MidwayRemoved
  <2>. QED
    BY <2>3 DEF Goes, s2
<1>13. CASE test.outcome = "found" /\ test.value # 0 /\ class.outcome = "found" /\ classes # {}
  <2> DEFINE at == Min(classes)
             text == TextsOf(env, g, attrs, r)[k - 1]
             grown == Plain(attrs[r].name, text \o Spaced(class.value))
             mid == ReplaceAt(list, at, grown)
             new == RemoveAt(mid, place)
             n == Len(attrs)
             between == [j \in 1 .. n |-> IF j = r THEN grown ELSE now[j]]
  <2>1. r # 0 /\ at \in 1 .. Len(list) /\ Source(front, k - 1, n, back, at) = r
    BY <1>11, <1>13
  <2>2. k \in C
    BY <1>5, <1>13
  <2>3. /\ r \in 1 .. n /\ r # k
        /\ now[r] = Plain(attrs[r].name, text)
        /\ then[r] = grown
    BY <1>6, <2>1, <2>2, PresentReceives DEF C, r
  <2>4. /\ Places(front, k - 1, n, back) /\ Rising(front) /\ Rising(back)
        /\ \A p \in 1 .. Len(front), q \in 1 .. Len(back) : front[p] # back[q]
    <3>1. back = Appended(env, g, attrs, k - 1) /\ front = Stayed(env, g, attrs, k - 1)
      BY <1>1
    <3>. HIDE DEF back, now, then
    <3>2. Places(front, k - 1, Len(attrs), back)
      BY <1>1, <3>1, PlacesBefore
    <3>3. Rising(front) /\ Rising(back)
      BY <1>1, <3>1, PlacesBefore
    <3>4. \A p \in 1 .. Len(front), q \in 1 .. Len(back) : front[p] # back[q]
      BY <1>1, <3>1, PlacesBefore
    <3>. QED
      BY <3>2, <3>3, <3>4
  <2>. HIDE DEF now, then, back, place, at, text, n
  <2>5. list[at] = now[r]
    <3> DEFINE b == k - 1
    <3>1. Laid(list, front, b, n, back, now) /\ Places(front, b, n, back) /\ Source(front, b, n, back, at) = r
      BY <1>1, <2>1, <2>4 DEF n
    <3>2. IsList(list) /\ Len(list) = Len(front) + (n - b) + Len(back)
      BY <3>1 DEF Laid
    <3>. HIDE DEF b
    <3>3. \A p \in 1 .. Len(list) : list[p] = now[Source(front, b, n, back, p)]
      BY <3>1, <3>2, LaidSource
    <3>. QED
      BY <2>1, <3>1, <3>3
  <2>6. done = Kept(Without([list EXCEPT ![at].text = @ \o Spaced(class.value)], place))
    <3>. HIDE DEF at
    <3>. QED
      BY <1>2, <1>13 DEF AddClassAttr, at
  <2>7. done = Kept(new)
    <3>1. [list[at] EXCEPT !.text = @ \o Spaced(class.value)] = grown
      <4> DEFINE spaced == Spaced(class.value)
                 name == attrs[r].name
      <4>1. list[at] = Plain(name, text) /\ grown = Plain(name, text \o spaced)
        BY <2>3, <2>5
      <4>. HIDE DEF spaced, name, grown
      <4>2. list[at].text = text
        BY <4>1 DEF Plain
      <4> DEFINE longer == text \o spaced
                 a == list[at]
      <4>3. a = Plain(name, text) /\ grown = Plain(name, longer) /\ longer = a.text \o spaced
        BY <4>1, <4>2
      <4>. HIDE DEF longer, a
      <4>4. [a EXCEPT !.text = longer] = grown
        <5>1. a = Plain(name, text)
          BY <4>3
        <5>2. [a EXCEPT !.text = longer] = Plain(name, longer)
          BY <5>1 DEF Plain
        <5>. QED
          BY <4>3, <5>2
      <4>5. [a EXCEPT !.text = a.text \o spaced] = grown
        BY <4>3, <4>4
      <4>. QED
        BY <4>5 DEF spaced, a
    <3>. HIDE DEF grown
    <3>2. [list EXCEPT ![at].text = @ \o Spaced(class.value)] = [list EXCEPT ![at] = grown]
      BY <3>1
    <3>. QED
      BY <2>6, <3>2 DEF Without, ReplaceAt
  <2>. HIDE DEF grown
  <2>8. between[r] = grown /\ (\A i \in 1 .. n : i # r => between[i] = now[i])
    BY <2>3
  <2>9. Laid(mid, front, k - 1, n, back, between)
    <3> DEFINE b == k - 1
    <3>1. /\ Laid(list, front, b, n, back, now) /\ Places(front, b, n, back) /\ r = Source(front, b, n, back, at)
          /\ mid = ReplaceAt(list, at, between[r])
      BY <1>1, <2>1, <2>4, <2>8 DEF n
    <3>. HIDE DEF b, between, mid
    <3>2. Laid(ReplaceAt(list, at, between[r]), front, b, n, back, between)
      BY <2>1, <2>4, <2>8, <3>1, LaidChanges
    <3>. QED
      BY <3>1, <3>2 DEF b
  <2>10. \A j \in 1 .. n : j # k => then[j] = between[j]
    <3>1. TAKE j \in 1 .. n
    <3>2. CASE j = r
      BY <2>3, <2>8, <3>2
    <3>3. CASE j # r
      <4>1. ~Receives(env, g, attrs, j, k)
        BY <1>7, <3>3 DEF n
      <4>2. j # k => then[j] = now[j]
        BY <4>1, PresentIs DEF n, now, then
      <4>. QED
        BY <2>8, <3>3, <4>2
    <3>. QED
      BY <3>2, <3>3
  <2>. HIDE DEF between, mid
  <2>11. /\ Stayed(env, g, attrs, k) = front /\ Appended(env, g, attrs, k) = back
         /\ Laid(new, front, k, n, back, then)
    <3>1. then = Present(env, g, attrs, k) /\ back = Appended(env, g, attrs, k - 1) /\ n = Len(attrs)
      BY DEF then, back, n
    <3>. HIDE DEF new
    <3>2. Laid(mid, front, k - 1, Len(attrs), back, between)
      BY <2>9, <3>1
    <3>3. \A j \in 1 .. Len(attrs) : j # k => Present(env, g, attrs, k)[j] = between[j]
      BY <2>10, <3>1
    <3>. QED
      BY <1>1, <1>4, <3>1, <3>2, <3>3, MidwayGoes DEF place, new
  <2>. HIDE DEF new
  <2>12. s2.done = Kept(new) /\ Kept(new).attrs = new
    BY <1>1, <2>7 DEF Kept
  <2>13. NextAttribute(list, place, done) = place
    BY <1>1 DEF NextAttribute
  <2>14. Midway(env, g, attrs, k, s2)
    BY <1>1, <2>7, <2>11, <2>12, <2>13 DEF Midway, then, place, n
  <2>. QED
    BY <2>14 DEF Goes, s2
<1>. QED
  BY <1>8, <1>9, <1>10, <1>12, <1>13

\* The rounds of the loop.
LEMMA LoopingIs ==
  ASSUME NEW t, NEW g, NEW attrs, Len(attrs) \in Nat
  PROVE  \A k \in 0 .. 2 * Len(attrs) :
           /\ k = 0 => Looping(t, g, attrs)[k] = [done |-> Kept(attrs), i |-> 1]
           /\ k # 0 => Looping(t, g, attrs)[k] = Onward(t, g, Looping(t, g, attrs)[k - 1])
<1> DEFINE first == [done |-> Kept(attrs), i |-> 1]
           Is(f, n) == f = [k \in 0 .. n |-> IF k = 0 THEN first ELSE Onward(t, g, f[k - 1])]
           Wrong == {n \in Nat : ~\E f : Is(f, n)}
<1>. HIDE DEF first
<1>1. Wrong = {}
  <2>1. SUFFICES ASSUME Wrong # {} PROVE FALSE
    OBVIOUS
  <2>2. PICK n \in Wrong : \A k \in Wrong : n <= k
    BY <2>1, MinExists
  <2>3. CASE n = 0
    <3>1. Is([k \in 0 .. 0 |-> first], 0)
      OBVIOUS
    <3>. QED
      BY <2>3, <3>1
  <2>4. CASE n # 0
    <3>1. n - 1 \in Nat /\ n - 1 \notin Wrong
      <4>1. n \in Nat /\ n - 1 \in Nat /\ ~(n <= n - 1)
        BY <2>4
      <4>. QED
        BY <2>2, <4>1
    <3>2. PICK f : Is(f, n - 1)
      BY <3>1
    <3> DEFINE h == [k \in 0 .. n |-> IF k = n THEN Onward(t, g, f[n - 1]) ELSE f[k]]
    <3>3. \A k \in 0 .. n : h[k] = IF k = 0 THEN first ELSE Onward(t, g, h[k - 1])
      BY <2>4, <3>1, <3>2
    <3>4. Is(h, n)
      BY <3>3
    <3>. QED
      BY <3>4
  <2>. QED
    BY <2>3, <2>4
<1> DEFINE m == 2 * Len(attrs)
           f == Looping(t, g, attrs)
<1>2. m \in Nat
  OBVIOUS
<1>. HIDE DEF m
<1>3. \E h : Is(h, m)
  BY <1>1, <1>2
<1>4. Is(f, m)
  BY <1>3 DEF Looping, first, m
<1>. HIDE DEF f
<1>5. \A k \in 0 .. m : f[k] = IF k = 0 THEN first ELSE Onward(t, g, f[k - 1])
  BY <1>4
<1>6. \A k \in 0 .. m : (k = 0 => f[k] = first) /\ (k # 0 => f[k] = Onward(t, g, f[k - 1]))
  BY <1>5
<1>. QED
  BY <1>6 DEF f, first, m

LEMMA MidwayOn ==
  ASSUME NEW t \in Table, NEW env, env = Env(t), NEW g, NEW attrs, AttrsOK(attrs), NEW k \in 1 .. Len(attrs),
         NEW s, Midway(env, g, attrs, k - 1, s)
  PROVE  Goes(env, g, attrs, k, Onward(t, g, s))
<1>1. attrs[k].is \in {"plain", "if", "target", "eval", "add-class"}
  BY DEF AttrsOK, AttributeOK
<1>2. CASE attrs[k].is = "plain"
  BY <1>2, MidwayPlain
<1>3. CASE attrs[k].is = "if"
  BY <1>3, MidwayIf
<1>4. CASE attrs[k].is = "target"
  BY <1>4, MidwayTarget
<1>5. CASE attrs[k].is = "eval"
  BY <1>5, MidwayEval
<1>6. CASE attrs[k].is = "add-class"
  BY <1>6, MidwayClass
<1>. QED
  BY <1>1, <1>2, <1>3, <1>4, <1>5, <1>6

LEMMA MidwayFirst ==
  ASSUME NEW env, NEW g, NEW attrs, AttrsOK(attrs)
  PROVE  Midway(env, g, attrs, 0, [done |-> Kept(attrs), i |-> 1])
<1> DEFINE front == Stayed(env, g, attrs, 0)
           back == Appended(env, g, attrs, 0)
           now == Present(env, g, attrs, 0)
           n == Len(attrs)
<1>1. IsList(attrs) /\ n \in Nat /\ 0 \in 0 .. n
  BY ListIs DEF AttrsOK
<1>2. Places(front, 0, n, back)
  BY <1>1, PlacesAre
<1>3. \A p \in 1 .. n : now[p] = attrs[p]
  BY PresentFirst
<1>. HIDE DEF front, back, now, n
<1>4. Len(front) = 0 /\ Len(back) = 0
  <2>1. Len(front) \in Nat /\ Len(back) \in Nat
    BY <1>2, ListIs DEF Places
  <2>2. 1 \notin 1 .. Len(front)
    <3>1. 1 \in 1 .. Len(front) => front[1] \in 1 .. n /\ front[1] <= 0
      BY <1>2 DEF Places
    <3>. QED
      BY <1>1, <3>1
  <2>3. 1 \notin 1 .. Len(back)
    <3>1. 1 \in 1 .. Len(back) => back[1] \in 1 .. n /\ back[1] <= 0
      BY <1>2 DEF Places
    <3>. QED
      BY <1>1, <3>1
  <2>. QED
    BY <2>1, <2>2, <2>3
<1>5. Laid(attrs, front, 0, n, back, now)
  <2>1. Len(attrs) = Len(front) + (n - 0) + Len(back)
    BY <1>1, <1>4 DEF n
  <2>2. \A p \in 1 .. n - 0 : attrs[Len(front) + p] = now[0 + p]
    BY <1>1, <1>3, <1>4
  <2>3. 1 .. Len(front) = {} /\ 1 .. Len(back) = {}
    BY <1>4
  <2>. QED
    BY <1>1, <2>1, <2>2, <2>3 DEF Laid
<1>6. Kept(attrs).attrs = attrs /\ Len(front) + 1 = 1
  BY <1>4 DEF Kept
<1>. QED
  BY <1>5, <1>6 DEF Midway, front, back, now, n

\* Where the loop is behind the first k attributes.
Come(env, g, attrs, k, s) ==
  \/ ~s.done.keep /\ s.done.outcome # "found"
  \/ ~s.done.keep /\ \E i \in 1 .. Len(attrs) : attrs[i].is = "if" /\ ~True(env, g, attrs[i].test)
  \/ /\ Midway(env, g, attrs, k, s)
     /\ \A i \in 1 .. k : attrs[i].is = "if" => True(env, g, attrs[i].test)

LEMMA ComesOn ==
  ASSUME NEW t \in Table, NEW env, env = Env(t), NEW g, NEW attrs, AttrsOK(attrs), NEW k \in 1 .. Len(attrs),
         NEW s, Come(env, g, attrs, k - 1, s)
  PROVE  Come(env, g, attrs, k, Onward(t, g, s))
<1> DEFINE s2 == Onward(t, g, s)
<1>1. ASSUME ~s.done.keep PROVE s2 = s
  BY <1>1 DEF Onward, MovedOn
<1>2. CASE ~s.done.keep
  <2>1. Come(env, g, attrs, k, s)
    <3>1. ~Midway(env, g, attrs, k - 1, s)
      BY <1>2 DEF Midway, Kept
    <3>. QED
      BY <1>2, <3>1 DEF Come
  <2>. QED
    BY <1>1, <1>2, <2>1
<1>3. CASE s.done.keep
  <2>1. Midway(env, g, attrs, k - 1, s) /\ \A i \in 1 .. k - 1 : attrs[i].is = "if" => True(env, g, attrs[i].test)
    BY <1>3 DEF Come
  <2>2. Goes(env, g, attrs, k, s2)
    BY <2>1, MidwayOn
  <2>. HIDE DEF s2
  <2>3. CASE Midway(env, g, attrs, k, s2) /\ (attrs[k].is = "if" => True(env, g, attrs[k].test))
    <3>1. Len(attrs) \in Nat
      BY ListIs DEF AttrsOK
    <3>2. \A i \in 1 .. k : i = k \/ i \in 1 .. k - 1
      BY <3>1
    <3>3. \A i \in 1 .. k : attrs[i].is = "if" => True(env, g, attrs[i].test)
      BY <2>1, <2>3, <3>2
    <3>. QED
      BY <2>3, <3>3 DEF Come, s2
  <2>. QED
    BY <2>2, <2>3 DEF Goes, Come, s2
<1>. QED
  BY <1>2, <1>3

\* Those that were appended are not processed again.
LEMMA ComesToEnd ==
  ASSUME NEW env, NEW t, NEW g, NEW attrs, AttrsOK(attrs), NEW s, NEW i \in Nat \ {0},
         Midway(env, g, attrs, Len(attrs), [done |-> s.done, i |-> Len(Stayed(env, g, attrs, Len(attrs))) + 1]),
         s = [done |-> s.done, i |-> i]
  PROVE  \E j \in Nat \ {0} : Onward(t, g, s) = [done |-> s.done, i |-> j]
<1> DEFINE n == Len(attrs)
           list == s.done.attrs
           front == Stayed(env, g, attrs, n)
           back == Appended(env, g, attrs, n)
           now == Present(env, g, attrs, n)
<1>1. n \in Nat /\ IsList(attrs) /\ n \in 0 .. n
  BY ListIs DEF AttrsOK
<1>2. Laid(list, front, n, n, back, now) /\ s.done = Kept(list)
  BY DEF Midway
<1>3. Places(front, n, n, back)
  BY <1>1, PlacesAre
<1>4. \A j \in 1 .. n : now[j].is = "plain"
  <2>1. TAKE j \in 1 .. n
  <2>2. ~(j > n)
    BY <1>1
  <2>. QED
    BY <2>2 DEF Present, Plain
<1>. HIDE DEF now, front, back, list, n
<1>5. \A p \in 1 .. Len(list) : list[p].is = "plain"
  <2>1. IsList(list) /\ Len(list) = Len(front) + (n - n) + Len(back)
    BY <1>2 DEF Laid
  <2>2. \A p \in 1 .. Len(list) : Source(front, n, n, back, p) \in 1 .. n /\ list[p] = now[Source(front, n, n, back, p)]
    BY <1>2, <1>3, <2>1, LaidSource
  <2>. QED
    BY <1>4, <2>2
<1>6. CASE s.i > Len(s.done.attrs)
  BY <1>6 DEF Onward, MovedOn
<1>7. CASE ~(s.i > Len(s.done.attrs))
  <2>1. Len(list) \in Nat
    BY <1>2, ListIs DEF Laid
  <2>2. i \in 1 .. Len(list) /\ s.i = i
    BY <1>7, <2>1 DEF list
  <2>3. list[i].is = "plain"
    BY <1>5, <2>2
  <2>4. Processed(t, g, list, i) = Kept(list)
    BY <2>3 DEF Processed
  <2>5. NextAttribute(list, i, Kept(list)) = i + 1
    BY <2>3 DEF NextAttribute
  <2>6. s.done.keep = TRUE
    BY <1>2 DEF Kept
  <2>7. Onward(t, g, s) = [done |-> Kept(list), i |-> i + 1]
    BY <1>7, <2>2, <2>4, <2>5, <2>6 DEF Onward, MovedOn, list
  <2> DEFINE j == i + 1
  <2>8. j \in Nat \ {0} /\ Onward(t, g, s) = [done |-> s.done, i |-> j]
    BY <1>2, <2>7
  <2>. HIDE DEF j
  <2>. QED
    BY <2>8
<1>. QED
  BY <1>6, <1>7

\* What lies there in the end.
LEMMA LaidInTheEnd ==
  ASSUME NEW env, NEW g, NEW attrs, AttrsOK(attrs), NEW list,
         Laid(list, Stayed(env, g, attrs, Len(attrs)), Len(attrs), Len(attrs), Appended(env, g, attrs, Len(attrs)),
              Present(env, g, attrs, Len(attrs)))
  PROVE  list = AttributesOf(env, g, attrs)
<1> DEFINE n == Len(attrs)
           front == Stayed(env, g, attrs, n)
           back == Appended(env, g, attrs, n)
           now == Present(env, g, attrs, n)
           order == front \o back
           out(j) == Plain(attrs[j].name, TextsOf(env, g, attrs, j)[n])
<1>1. n \in Nat /\ IsList(attrs) /\ n \in 0 .. n
  BY ListIs DEF AttrsOK
<1>2. Places(front, n, n, back)
  BY <1>1, PlacesAre
<1>3. \A j \in 1 .. n : now[j] = out(j)
  <2>1. TAKE j \in 1 .. n
  <2>2. ~(j > n)
    BY <1>1
  <2>. QED
    BY <2>2 DEF Present
<1>4. AttributesOf(env, g, attrs) = [p \in DOMAIN order |-> out(order[p])]
  BY DEF AttributesOf, InOrder, Stayed, Appended
<1>5. Laid(list, front, n, n, back, now)
  OBVIOUS
<1>. HIDE DEF now, front, back, n, out
<1>6. /\ front \in Seq(Range(front)) /\ back \in Seq(Range(back))
      /\ Len(front) \in Nat /\ Len(back) \in Nat
      /\ \A p \in 1 .. Len(front) : front[p] \in 1 .. n
      /\ \A p \in 1 .. Len(back) : back[p] \in 1 .. n
  BY <1>2, ListIs DEF Places, IsList
<1>7. /\ Len(order) = Len(front) + Len(back)
      /\ DOMAIN order = 1 .. Len(front) + Len(back)
      /\ \A p \in 1 .. Len(front) + Len(back) : order[p] = IF p <= Len(front) THEN front[p] ELSE back[p - Len(front)]
  <2> DEFINE S == Range(front) \cup Range(back)
  <2>1. front \in Seq(S) /\ back \in Seq(S)
    BY <1>6, SeqDef
  <2>. HIDE DEF S
  <2>2. /\ order \in Seq(S) /\ Len(order) = Len(front) + Len(back)
        /\ \A p \in 1 .. Len(front) + Len(back) : order[p] = IF p <= Len(front) THEN front[p] ELSE back[p - Len(front)]
    BY <2>1, ConcatProperties
  <2>3. DOMAIN order = 1 .. Len(order)
    BY <2>2, LenProperties
  <2>. QED
    BY <2>2, <2>3
<1>. HIDE DEF order
<1>8. /\ IsList(list) /\ Len(list) = Len(front) + Len(back)
      /\ \A p \in 1 .. Len(front) : list[p] = now[front[p]]
      /\ \A p \in 1 .. Len(back) : list[Len(front) + p] = now[back[p]]
  <2>1. n - n = 0 /\ Len(front) + 0 = Len(front)
    BY <1>1, <1>6
  <2>. QED
    BY <1>5, <1>6, <2>1 DEF Laid
<1>9. \A p \in 1 .. Len(list) : list[p] = out(order[p])
  <2>1. TAKE p \in 1 .. Len(list)
  <2>2. CASE p <= Len(front)
    <3>1. p \in 1 .. Len(front) /\ p \in 1 .. Len(front) + Len(back)
      BY <1>6, <1>8, <2>2
    <3>2. order[p] = front[p] /\ front[p] \in 1 .. n /\ list[p] = now[front[p]]
      BY <1>6, <1>7, <1>8, <2>2, <3>1
    <3>. QED
      BY <1>3, <3>2
  <2>3. CASE ~(p <= Len(front))
    <3> DEFINE q == p - Len(front)
    <3>1. q \in 1 .. Len(back) /\ p \in 1 .. Len(front) + Len(back) /\ Len(front) + q = p
      BY <1>6, <1>8, <2>3
    <3>2. order[p] = back[q]
      BY <1>7, <2>3, <3>1
    <3>. HIDE DEF q
    <3>3. back[q] \in 1 .. n /\ list[Len(front) + q] = now[back[q]]
      BY <1>6, <1>8, <3>1
    <3>. QED
      BY <1>3, <3>1, <3>2, <3>3
  <2>. QED
    BY <2>2, <2>3
<1>10. list = [p \in 1 .. Len(list) |-> list[p]]
  BY <1>8, ListIs
<1>. QED
  BY <1>4, <1>7, <1>8, <1>9, <1>10

\* The attributes of an element come to what they mean, and an element is
\* dropped if one of its conditions is false.
LEMMA AttributesMean ==
  ASSUME NEW t \in Table, NEW env, env = Env(t), NEW g, NEW attrs, AttrsOK(attrs),
         NEW done, done = Attributes(t, g, attrs), done.outcome = "found"
  PROVE  /\ done.keep <=> ~\E i \in 1 .. Len(attrs) : attrs[i].is = "if" /\ ~True(env, g, attrs[i].test)
         /\ done.keep => done.attrs = AttributesOf(env, g, attrs)
<1> DEFINE n == Len(attrs)
           f == Looping(t, g, attrs)
           Wrong == {k \in Nat : k <= n /\ ~Come(env, g, attrs, k, f[k])}
<1>1. n \in Nat /\ IsList(attrs)
  BY ListIs DEF AttrsOK
<1>2. \A k \in 0 .. 2 * n : (k = 0 => f[k] = [done |-> Kept(attrs), i |-> 1]) /\ (k # 0 => f[k] = Onward(t, g, f[k - 1]))
  <2>1. \A k \in 0 .. 2 * Len(attrs) :
          /\ k = 0 => Looping(t, g, attrs)[k] = [done |-> Kept(attrs), i |-> 1]
          /\ k # 0 => Looping(t, g, attrs)[k] = Onward(t, g, Looping(t, g, attrs)[k - 1])
    BY <1>1, LoopingIs
  <2>. QED
    BY <2>1
<1>3. done = f[2 * n].done
  BY DEF Attributes
<1>. HIDE DEF f
<1>4. Come(env, g, attrs, 0, f[0])
  <2>1. f[0] = [done |-> Kept(attrs), i |-> 1]
    BY <1>1, <1>2
  <2>2. Midway(env, g, attrs, 0, f[0])
    BY <2>1, MidwayFirst
  <2>. QED
    BY <2>2 DEF Come
<1>5. Wrong = {}
  <2>1. SUFFICES ASSUME Wrong # {} PROVE FALSE
    OBVIOUS
  <2>2. PICK k \in Wrong : \A j \in Wrong : k <= j
    BY <2>1, MinExists
  <2>3. k \in Nat /\ k <= n /\ ~Come(env, g, attrs, k, f[k]) /\ k # 0
    BY <1>4, <2>2
  <2>4. k \in 1 .. n /\ k \in 0 .. 2 * n /\ k - 1 \in Nat /\ k - 1 <= n /\ ~(k <= k - 1)
    BY <1>1, <2>3
  <2>5. Come(env, g, attrs, k - 1, f[k - 1])
    <3> DEFINE b == k - 1
    <3>1. b \in Nat /\ b <= n /\ ~(k <= b)
      BY <2>4
    <3>. HIDE DEF b
    <3>2. Come(env, g, attrs, b, f[b])
      BY <2>2, <3>1
    <3>. QED
      BY <3>2 DEF b
  <2>6. f[k] = Onward(t, g, f[k - 1])
    BY <1>2, <2>3, <2>4
  <2>. HIDE DEF Wrong
  <2>7. Come(env, g, attrs, k, Onward(t, g, f[k - 1]))
    <3> DEFINE s == f[k - 1]
    <3>1. Come(env, g, attrs, k - 1, s)
      BY <2>5
    <3>. HIDE DEF s
    <3>2. Come(env, g, attrs, k, Onward(t, g, s))
      BY <2>4, <3>1, ComesOn
    <3>. QED
      BY <3>2 DEF s
  <2>. QED
    BY <2>3, <2>6, <2>7
<1>6. Come(env, g, attrs, n, f[n])
  BY <1>1, <1>5
<1> DEFINE last == f[n].done
           Ends(k) == \E j \in Nat \ {0} : f[k] = [done |-> last, i |-> j]
<1>. HIDE DEF Wrong
\* Once the node is dropped, nothing changes.
<1>7. CASE ~last.keep
  <2> DEFINE Later == {k \in Nat : n <= k /\ k <= 2 * n /\ f[k] # f[n]}
  <2>1. Later = {}
    <3>1. SUFFICES ASSUME Later # {} PROVE FALSE
      OBVIOUS
    <3>2. PICK k \in Later : \A j \in Later : k <= j
      BY <3>1, MinExists
    <3>3. k # n /\ k \in 0 .. 2 * n /\ k # 0 /\ k - 1 \in Nat /\ n <= k - 1 /\ k - 1 <= 2 * n /\ ~(k <= k - 1)
      BY <1>1, <3>2
    <3>4. f[k - 1] = f[n]
      BY <3>2, <3>3
    <3>5. f[k] = Onward(t, g, f[n])
      BY <1>2, <3>3, <3>4
    <3>6. f[k] = f[n]
      BY <1>7, <3>5 DEF Onward, MovedOn
    <3>. QED
      BY <3>2, <3>6
  <2>2. f[2 * n] = f[n]
    BY <1>1, <2>1
  <2>3. done = last /\ ~Midway(env, g, attrs, n, f[n])
    BY <1>3, <1>7, <2>2 DEF Midway, Kept
  <2>. HIDE DEF last
  <2>4. \E i \in 1 .. Len(attrs) : attrs[i].is = "if" /\ ~True(env, g, attrs[i].test)
    BY <1>6, <2>3 DEF Come, last
  <2>. QED
    BY <1>7, <2>3, <2>4
\* Else those that were appended are come to.
<1>8. CASE last.keep
  <2>1. /\ Midway(env, g, attrs, n, f[n])
        /\ \A i \in 1 .. n : attrs[i].is = "if" => True(env, g, attrs[i].test)
    BY <1>6, <1>8 DEF Come
  <2> DEFINE stayed == Len(Stayed(env, g, attrs, n)) + 1
  <2>2. f[n] = [done |-> last, i |-> stayed] /\ stayed \in Nat \ {0}
    <3>1. f[n] = [done |-> Kept(last.attrs), i |-> stayed]
      BY <2>1 DEF Midway
    <3>2. last = Kept(last.attrs)
      <4>. HIDE DEF stayed
      <4>. QED
        BY <3>1
    <3>3. Len(Stayed(env, g, attrs, n)) \in Nat
      <4>1. Places(Stayed(env, g, attrs, n), n, n, Appended(env, g, attrs, n))
        <5>1. n \in 0 .. n
          BY <1>1
        <5>. QED
          BY <1>1, <5>1, PlacesAre
      <4>. QED
        BY <4>1, ListIs DEF Places
    <3>. QED
      BY <3>1, <3>2, <3>3
  <2>3. Midway(env, g, attrs, n, [done |-> last, i |-> stayed])
    BY <2>1, <2>2
  <2>. HIDE DEF last
  <2> DEFINE Later == {k \in Nat : n <= k /\ k <= 2 * n /\ ~Ends(k)}
  <2>4. Ends(n)
    BY <2>2
  <2>5. Later = {}
    <3>1. SUFFICES ASSUME Later # {} PROVE FALSE
      OBVIOUS
    <3>2. PICK k \in Later : \A j \in Later : k <= j
      BY <3>1, MinExists
    <3>3. k # n /\ k \in 0 .. 2 * n /\ k # 0 /\ k - 1 \in Nat /\ n <= k - 1 /\ k - 1 <= 2 * n /\ ~(k <= k - 1)
      <4>1. k # n
        BY <2>4, <3>2
      <4>. QED
        BY <1>1, <3>2, <4>1
    <3>4. Ends(k - 1)
      <4>. HIDE DEF Ends
      <4> DEFINE b == k - 1
      <4>1. b \in Nat /\ n <= b /\ b <= 2 * n /\ ~(k <= b)
        BY <3>3
      <4>. HIDE DEF b
      <4>2. Ends(b)
        BY <3>2, <4>1
      <4>. QED
        BY <4>2 DEF b
    <3>5. PICK i \in Nat \ {0} : f[k - 1] = [done |-> last, i |-> i]
      BY <3>4
    <3> DEFINE s == f[k - 1]
    <3>6. s.done = last /\ s = [done |-> s.done, i |-> i]
      BY <3>5
    <3>7. f[k] = Onward(t, g, s)
      BY <1>2, <3>3
    <3>. HIDE DEF s, Ends
    <3>8. Midway(env, g, attrs, Len(attrs), [done |-> s.done, i |-> Len(Stayed(env, g, attrs, Len(attrs))) + 1])
      BY <2>3, <3>6
    <3>9. \E j \in Nat \ {0} : Onward(t, g, s) = [done |-> s.done, i |-> j]
      BY <3>6, <3>8, ComesToEnd
    <3>10. Ends(k)
      BY <3>6, <3>7, <3>9 DEF Ends
    <3>. QED
      BY <3>2, <3>10
  <2>6. Ends(2 * n)
    <3>. HIDE DEF Ends
    <3> DEFINE m == 2 * n
    <3>1. m \in Nat /\ n <= m /\ m <= m
      BY <1>1
    <3>2. m \notin Later
      BY <2>5
    <3>. QED
      BY <3>1, <3>2
  <2>7. done = last
    BY <1>3, <2>6
  <2>8. last.attrs = AttributesOf(env, g, attrs)
    <3> DEFINE s == [done |-> last, i |-> stayed]
    <3>1. s.done.attrs = last.attrs
      OBVIOUS
    <3>. HIDE DEF s
    <3>2. Laid(last.attrs, Stayed(env, g, attrs, n), n, n, Appended(env, g, attrs, n), Present(env, g, attrs, n))
      BY <2>3, <3>1 DEF Midway, s
    <3>. QED
      BY <3>2, LaidInTheEnd
  <2>. QED
    BY <1>8, <2>1, <2>7, <2>8
<1>. QED
  BY <1>7, <1>8

LEMMA AttributesAre ==
  ASSUME NEW t \in Table, NEW g, NEW node \in Elements, node.is = "plain",
         Attributes(t, g, node.attrs).outcome = "found"
  PROVE  /\ Attributes(t, g, node.attrs).keep <=>
              ~\E i \in DOMAIN node.attrs : node.attrs[i].is = "if" /\ ~True(Env(t), g, node.attrs[i].test)
         /\ Attributes(t, g, node.attrs).keep =>
              Attributes(t, g, node.attrs).attrs = AttributesOf(Env(t), g, node.attrs)
<1> DEFINE attrs == node.attrs
           done == Attributes(t, g, attrs)
           env == Env(t)
<1>1. attrs \in Seq(Range(attrs)) /\ \A i \in DOMAIN attrs : AttributeOK(attrs[i])
  BY NodeIs DEF NodeOK
<1>2. env = Env(t) /\ done = Attributes(t, g, attrs) /\ done.outcome = "found"
  OBVIOUS
<1>. HIDE DEF attrs, done, env
<1>3. IsList(attrs)
  BY <1>1 DEF IsList
<1>4. DOMAIN attrs = 1 .. Len(attrs)
  BY <1>3, ListIs
<1>5. AttrsOK(attrs)
  BY <1>1, <1>3, <1>4 DEF AttrsOK
<1>6. /\ done.keep <=> ~\E i \in 1 .. Len(attrs) : attrs[i].is = "if" /\ ~True(env, g, attrs[i].test)
      /\ done.keep => done.attrs = AttributesOf(env, g, attrs)
  BY <1>2, <1>5, AttributesMean
<1>. QED
  BY <1>4, <1>6 DEF attrs, done, env

-----------------------------------------------------------------------------
(* Directives *)

LEMMA FailsKeeps ==
  ASSUME NEW t \in Table, NEW outcome, outcome # "found", NEW m
  PROVE  Keeps(t, Fails(t, outcome), m)
<1>1. Fails(t, outcome).outcome = outcome /\ Fails(t, outcome).table = t
  BY DEF Fails
<1>. QED
  BY <1>1, FailsOK, WithinItself DEF Keeps

LEMMA RenderedKeeps ==
  ASSUME NEW t \in Table, NEW nodes, NEW m, m.env = Env(t), m.nodes = nodes
  PROVE  Keeps(t, Rendered(t, nodes), m)
<1>1. Rendered(t, nodes).table = t /\ Rendered(t, nodes).nodes = nodes
  BY DEF Rendered
<1>. QED
  BY <1>1, FailsOK, WithinItself DEF Keeps

LEMMA StepInKeeps ==
  ASSUME NEW parse, NEW t \in Table, NEW name, NEW attrs, NEW children, NEW inner,
         Keeps(t, Travarse(parse, t, children), inner),
         NEW m, m.env = inner.env,
         m.nodes = <<[is |-> "plain", name |-> name, attrs |-> attrs, children |-> inner.nodes]>>
  PROVE  Keeps(t, StepIn(parse, t, name, attrs, children), m)
<1> DEFINE st == Travarse(parse, t, children)
           in == StepIn(parse, t, name, attrs, children)
<1>1. ResultOK(st)
  BY DEF Keeps
<1>2. /\ ResultOK(in) /\ in.outcome = st.outcome /\ in.table = st.table
      /\ in.nodes = <<[is |-> "plain", name |-> name, attrs |-> attrs, children |-> st.nodes]>>
  BY <1>1, StepInOK
<1>. HIDE DEF st, in
<1>3. Keeps(t, st, inner)
  BY DEF st
<1>4. st.outcome = "found" => st.nodes = inner.nodes
  BY <1>3 DEF Keeps
<1>5. in.outcome = "found" => in.nodes = m.nodes
  BY <1>2, <1>4
<1>6. Keeps(t, in, m)
  BY <1>2, <1>3, <1>5 DEF Keeps
<1>. QED
  BY <1>6 DEF in

\* What parse() makes of a node keeps to what the node means.
LEMMA ParseKeeps ==
  ASSUME NEW g \in Groups, NEW node \in Elements, NEW p, NEW of, KeepsBelow(p, of, Height[node]), TextsMean(of),
         NEW t \in Table, Flat(t), t.level + Height[node] < Levels
  PROVE  Keeps(t, Parse(p, g, t, node), Of(of, g, Env(t), node))
<1> DEFINE env == Env(t)
           m == Of(of, g, env, node)
<1>0. /\ t.level \in Nat /\ Height[node] \in Nat \ {0} /\ Levels \in Nat
      /\ t.level + 1 < Levels /\ t.level \in 0 .. Levels - 1 /\ t.level + 1 \in 0 .. Levels - 1
  <2>1. t.level \in Nat /\ Height[node] \in Nat \ {0} /\ Levels \in Nat
    BY TableIs, NodeIs
  <2>. QED
    BY <2>1
<1>1. node.is \in Parents =>
        /\ node.children \in Seq(Node)
        /\ \A i \in DOMAIN node.children :
             /\ Height[node.children[i]] < Height[node]
             /\ t.level + Height[node.children[i]] < Levels
             /\ t.level + 1 + Height[node.children[i]] < Levels
  <2>1. SUFFICES ASSUME node.is \in Parents
                 PROVE  /\ node.children \in Seq(Node)
                        /\ \A i \in DOMAIN node.children :
                             /\ Height[node.children[i]] < Height[node]
                             /\ t.level + Height[node.children[i]] < Levels
                             /\ t.level + 1 + Height[node.children[i]] < Levels
    OBVIOUS
  <2>2. node.children \in Seq(Node) /\ \A i \in DOMAIN node.children : Height[node.children[i]] < Height[node]
    BY <2>1, NodeIs
  <2>3. \A i \in DOMAIN node.children : node.children[i] \in Node
    BY <2>2, LenProperties
  <2>4. \A i \in DOMAIN node.children : Height[node.children[i]] \in Nat
    BY <2>3, AnyNodeIs
  <2>5. \A i \in DOMAIN node.children :
          t.level + Height[node.children[i]] < Levels /\ t.level + 1 + Height[node.children[i]] < Levels
    <3>1. TAKE i \in DOMAIN node.children
    <3> DEFINE h == Height[node.children[i]]
               below == Height[node]
               level == t.level
    <3>2. h \in Nat /\ below \in Nat /\ level \in Nat /\ Levels \in Nat /\ h < below /\ level + below < Levels
      BY <1>0, <2>2, <2>4
    <3>. HIDE DEF h, below, level
    <3>3. level + h < Levels /\ level + 1 + h < Levels
      BY <3>2
    <3>. QED
      BY <3>3 DEF h, level
  <2>. QED
    BY <2>2, <2>5
<1>2. node.is \in Parents => Keeps(t, Travarse(p, t, node.children), All(of, env, node.children))
  BY <1>1, TravarseKeeps
<1>3. CASE node.is = "block"
  <2> DEFINE u == Down(t)
             st == Travarse(p, u, node.children)
             inner == All(of, env, node.children)
  <2>1. u \in Table /\ u.level = t.level + 1 /\ u.aliases = t.aliases /\ Env(u) = env
    BY <1>0, DownIs, EnvDown
  <2>2. Flat(u)
    <3>1. Within(t, u)
      BY <1>0, <2>1 DEF Within
    <3>. QED
      BY <2>1, <3>1, WithinFlat
  <2>3. Keeps(u, st, inner)
    BY <1>1, <1>3, <2>1, <2>2, TravarseKeeps DEF Parents
  <2>4. Parse(p, g, t, node) = LeaveScope(st) /\ m = [env |-> env, nodes |-> inner.nodes]
    BY <1>3 DEF Parse, Block, Of
  <2>. HIDE DEF u, st, inner
  <2> DEFINE left == LeaveScope(st)
  <2>5. /\ ResultOK(left) /\ left.outcome = st.outcome /\ left.nodes = st.nodes
        /\ Within(t, left.table) /\ (left.outcome = "found" => left.table = t)
    BY <2>1, <2>3, ScopeKeeps
  <2>6. left.outcome = "found" => left.nodes = inner.nodes
    BY <2>3, <2>5 DEF Keeps
  <2>. HIDE DEF left
  <2>7. Keeps(t, left, [env |-> env, nodes |-> inner.nodes])
    BY <2>5, <2>6 DEF Keeps
  <2>. QED
    BY <2>4, <2>7 DEF left
<1>4. CASE node.is = "var"
  <2> DEFINE u == AddAt(t, node.key, node.ref, t.level)
  <2>1. Parse(p, g, t, node) = Rendered(u, <<>>) /\ m = [env |-> Bind(env, node.key, node.ref), nodes |-> <<>>]
    BY <1>4 DEF Parse, Var, Add, Of
  <2>2. KeyOK(node.key) /\ node.ref \in Path
    BY <1>4, NodeIs DEF NodeOK
  <2>3. /\ u \in Table /\ u.level = t.level
        /\ \A n \in Name : \/ u.aliases[n] = t.aliases[n]
                           \/ t.aliases[n] = NoAlias /\ u.aliases[n].depth = t.level
    BY <1>0, <2>2, AddIs
  <2>4. Env(u) = Bind(env, node.key, node.ref)
    BY <1>0, <2>2, EnvAdd
  <2>. HIDE DEF u
  <2>5. Within(t, u)
    BY <1>0, <2>3 DEF Within
  <2>6. ResultOK(Rendered(u, <<>>)) /\ Rendered(u, <<>>).table = u /\ Rendered(u, <<>>).nodes = <<>>
    BY <2>3, FailsOK DEF Rendered
  <2>7. Keeps(t, Rendered(u, <<>>), [env |-> Bind(env, node.key, node.ref), nodes |-> <<>>])
    BY <2>3, <2>4, <2>5, <2>6 DEF Keeps
  <2>. QED
    BY <2>1, <2>7
<1>5. CASE node.is = "for"
  <2> DEFINE keys == KeysIn(g, node.in)
  <2>1. Parse(p, g, t, node) = (IF keys.outcome # "found" THEN Fails(t, keys.outcome)
                                ELSE Rounds(p, t, node, keys.value)[Len(keys.value)])
    BY <1>5 DEF Parse, For
  <2>2. m = [env |-> env, nodes |-> IF keys.outcome = "found" THEN Repeated(of, env, node, keys.value) ELSE <<>>]
    BY <1>5 DEF Of
  <2>3. keys.outcome = "found" => keys.value \in Seq(STRING)
    BY <1>5, NodeIs, KeysType DEF NodeOK
  <2>. HIDE DEF keys, m, env
  <2>4. CASE keys.outcome = "found"
    <3>1. Keeps(t, Rounds(p, t, node, keys.value)[Len(keys.value)],
                [env |-> env, nodes |-> Repeated(of, env, node, keys.value)])
      BY <1>5, <2>3, <2>4, RoundsKeep DEF env
    <3>. QED
      BY <2>1, <2>2, <2>4, <3>1 DEF m, env
  <2>5. CASE keys.outcome # "found"
    BY <2>1, <2>5, FailsKeeps
  <2>. QED
    BY <2>4, <2>5
<1>6. CASE node.is = "if"
  <2> DEFINE test == Evaluate(t, g, node.test)
  <2>1. Parse(p, g, t, node) =
          CASE test.outcome # "found" -> Fails(t, test.outcome)
            [] test.outcome = "found" /\ test.value # 0 -> Travarse(p, t, node.children)
            [] OTHER -> Rendered(t, <<>>)
    BY <1>6 DEF Parse, If
  <2>2. m = IF True(env, g, node.test) THEN All(of, env, node.children) ELSE [env |-> env, nodes |-> <<>>]
    BY <1>6 DEF Of
  <2>3. True(env, g, node.test) <=> test.value # 0
    BY SameValue DEF True
  <2>. HIDE DEF test, m, env
  <2>4. CASE test.outcome # "found"
    BY <2>1, <2>4, FailsKeeps
  <2>5. CASE test.outcome = "found" /\ test.value # 0
    <3>1. Keeps(t, Travarse(p, t, node.children), All(of, env, node.children))
      BY <1>2, <1>6 DEF Parents
    <3>2. m = All(of, env, node.children) /\ Parse(p, g, t, node) = Travarse(p, t, node.children)
      BY <2>1, <2>2, <2>3, <2>5
    <3>. QED
      BY <3>1, <3>2 DEF m, env
  <2>6. CASE test.outcome = "found" /\ ~(test.value # 0)
    <3>1. m = [env |-> env, nodes |-> <<>>] /\ Parse(p, g, t, node) = Rendered(t, <<>>)
      BY <2>1, <2>2, <2>3, <2>6
    <3>2. Keeps(t, Rendered(t, <<>>), [env |-> env, nodes |-> <<>>])
      BY RenderedKeeps DEF env
    <3>. QED
      BY <3>1, <3>2 DEF m, env
  <2>. QED
    BY <2>4, <2>5, <2>6
<1>7. CASE node.is = "text" \/ node.is = "html"
  <2> DEFINE text == TextOf(g, Lookup(t, node.key))
             says == IF node.is = "text" THEN <<PcData(<<text.value>>)>>
                     ELSE IF text.value \in DOMAIN Documents THEN Documents[text.value] ELSE <<>>
  <2>1. Parse(p, g, t, node) = IF text.outcome # "found" THEN Fails(t, text.outcome) ELSE Rendered(t, says)
    <3>1. CASE node.is = "text"
      BY <3>1 DEF Parse, Text
    <3>2. CASE node.is = "html"
      BY <3>2 DEF Parse, Html
    <3>. QED
      BY <1>7, <3>1, <3>2
  <2>2. m = [env |-> env, nodes |-> says]
    <3>1. Lookup(TableOf(env), node.key) = Lookup(t, node.key)
      BY SameLookup
    <3>2. CASE node.is = "text"
      BY <3>1, <3>2 DEF Of
    <3>3. CASE node.is = "html"
      BY <3>1, <3>3 DEF Of
    <3>. QED
      BY <1>7, <3>2, <3>3
  <2>. HIDE DEF text, says, m, env
  <2>3. Keeps(t, Rendered(t, says), [env |-> env, nodes |-> says])
    BY RenderedKeeps DEF env
  <2>4. CASE text.outcome # "found"
    BY <2>1, <2>4, FailsKeeps
  <2>5. CASE text.outcome = "found"
    BY <2>1, <2>2, <2>3, <2>5 DEF m, env
  <2>. QED
    BY <2>4, <2>5
<1>8. CASE node.is = "eval"
  <2> DEFINE value == Evaluate(t, g, node.expr)
             says == <<PcData(<<ToString(value.value)>>)>>
  <2>1. Parse(p, g, t, node) = IF value.outcome # "found" THEN Fails(t, value.outcome) ELSE Rendered(t, says)
    BY <1>8 DEF Parse, Eval
  <2>2. m = [env |-> env, nodes |-> says]
    <3>1. Evaluate(TableOf(env), g, node.expr) = value
      BY SameValue
    <3>. QED
      BY <1>8, <3>1 DEF Of
  <2>. HIDE DEF value, says, m, env
  <2>3. Keeps(t, Rendered(t, says), [env |-> env, nodes |-> says])
    BY RenderedKeeps DEF env
  <2>4. CASE value.outcome # "found"
    BY <2>1, <2>4, FailsKeeps
  <2>5. CASE value.outcome = "found"
    BY <2>1, <2>2, <2>3, <2>5 DEF m, env
  <2>. QED
    BY <2>4, <2>5
<1>9. CASE node.is = "view"
  <2> DEFINE inner == All(of, env, node.children)
  <2>1. Parse(p, g, t, node) = StepIn(p, t, node.name, node.attrs, node.children)
    BY <1>9 DEF Parse
  <2>2. /\ m.env = inner.env
        /\ m.nodes = <<[is |-> "plain", name |-> node.name, attrs |-> node.attrs, children |-> inner.nodes]>>
    BY <1>9 DEF Of
  <2>3. Keeps(t, Travarse(p, t, node.children), inner)
    BY <1>2, <1>9 DEF Parents
  <2>. HIDE DEF inner, m
  <2>4. Keeps(t, StepIn(p, t, node.name, node.attrs, node.children), m)
    BY <2>2, <2>3, StepInKeeps
  <2>. QED
    BY <2>1, <2>4 DEF m
<1>10. CASE node.is = "plain"
  <2> DEFINE inner == All(of, env, node.children)
             done == Attributes(t, g, node.attrs)
             gone == \E i \in DOMAIN node.attrs : node.attrs[i].is = "if" /\ ~True(env, g, node.attrs[i].test)
             attrs == AttributesOf(env, g, node.attrs)
  <2>1. Parse(p, g, t, node) =
          CASE done.outcome # "found" -> Fails(t, done.outcome)
            [] done.outcome = "found" /\ done.keep -> StepIn(p, t, node.name, done.attrs, node.children)
            [] OTHER -> Rendered(t, <<>>)
    BY <1>10 DEF Parse, Stepped
  <2>2. m = IF gone THEN [env |-> env, nodes |-> <<>>]
            ELSE [env |-> inner.env,
                  nodes |-> <<[is |-> "plain", name |-> node.name, attrs |-> attrs, children |-> inner.nodes]>>]
    BY <1>10 DEF Of
  <2>3. done.outcome = "found" => (done.keep <=> ~gone) /\ (done.keep => done.attrs = attrs)
    BY <1>10, AttributesAre
  <2>4. Keeps(t, Travarse(p, t, node.children), inner)
    BY <1>2, <1>10 DEF Parents
  <2>5. Keeps(t, Rendered(t, <<>>), [env |-> env, nodes |-> <<>>])
    BY RenderedKeeps
  <2>. HIDE DEF inner, m, done, gone, attrs, env
  <2>6. CASE done.outcome # "found"
    BY <2>1, <2>6, FailsKeeps
  <2>7. CASE done.outcome = "found" /\ done.keep
    <3>1. /\ m.env = inner.env
          /\ m.nodes = <<[is |-> "plain", name |-> node.name, attrs |-> done.attrs, children |-> inner.nodes]>>
      BY <2>2, <2>3, <2>7
    <3>2. Keeps(t, StepIn(p, t, node.name, done.attrs, node.children), m)
      BY <2>4, <3>1, StepInKeeps
    <3>. QED
      BY <2>1, <2>7, <3>2 DEF m, env
  <2>8. CASE done.outcome = "found" /\ ~done.keep
    <3>1. Parse(p, g, t, node) = Rendered(t, <<>>)
      BY <2>1, <2>8
    <3>2. m = [env |-> env, nodes |-> <<>>]
      BY <2>2, <2>3, <2>8
    <3>. QED
      BY <2>5, <3>1, <3>2 DEF m, env
  <2>. QED
    BY <2>6, <2>7, <2>8
<1>. QED
  BY <1>3, <1>4, <1>5, <1>6, <1>7, <1>8, <1>9, <1>10, NodeIs DEF env

\* parse() of a node, in a scope that does not wrap, keeps to what it means.
LEMMA ParsingKeeps ==
  ASSUME NEW g \in Groups
  PROVE  \A t \in Table, node \in Elements :
           Flat(t) /\ t.level + Height[node] < Levels =>
             Keeps(t, Parsing(g)[<<t, node>>], Means(g)[<<Env(t), node>>])
<1> DEFINE p == Parsing(g)
           of == Means(g)
           Unkept(t, node) == /\ Flat(t) /\ t.level + Height[node] < Levels
                              /\ ~Keeps(t, p[<<t, node>>], of[<<Env(t), node>>])
           Wrong == {h \in Nat : \E t \in Table, node \in Elements : Height[node] = h /\ Unkept(t, node)}
<1>1. \A t \in Table, node \in Elements : p[<<t, node>>] = Parse(p, g, t, node)
  BY ParsingIs
<1>2. \A env \in Envs, node \in Node : of[<<env, node>>] = Of(of, g, env, node)
  BY MeansIs
<1>. HIDE DEF p, of
<1>3. TextsMean(of)
  BY <1>2 DEF TextsMean, Of
<1>4. Wrong = {}
  <2>. SUFFICES ASSUME Wrong # {} PROVE FALSE
    OBVIOUS
  <2>1. PICK h \in Wrong : \A j \in Wrong : h <= j
    BY MinExists
  <2>2. h \in Nat
    OBVIOUS
  <2>3. PICK t \in Table, node \in Elements : Height[node] = h /\ Unkept(t, node)
    OBVIOUS
  <2>4. KeepsBelow(p, of, h)
    <3>1. ASSUME NEW u \in Table, NEW below \in Elements, Height[below] < h, Unkept(u, below)
          PROVE  FALSE
      <4>1. Height[below] \in Nat /\ ~(h <= Height[below])
        BY <2>2, <3>1, NodeIs
      <4>2. Height[below] \in Wrong
        <5>. HIDE DEF Unkept
        <5>. QED
          BY <3>1, <4>1
      <4>. HIDE DEF Wrong
      <4>. QED
        BY <2>1, <4>1, <4>2
    <3>. QED
      BY <3>1 DEF KeepsBelow
  <2>5. Keeps(t, Parse(p, g, t, node), Of(of, g, Env(t), node))
    BY <1>3, <2>3, <2>4, ParseKeeps
  <2>6. Env(t) \in Envs /\ node \in Node
    BY EnvType, NodeIs
  <2>. QED
    BY <1>1, <1>2, <2>3, <2>5, <2>6
<1>. QED
  <2>1. \A t \in Table, node \in Elements : ~Unkept(t, node)
    <3>. HIDE DEF Unkept
    <3>. QED
      BY <1>4, NodeIs
  <2>. QED
    BY <2>1 DEF p, of

\* A view that was rendered with a table whose aliases are not below its level.
LEMMA ProcessKeeps ==
  ASSUME NEW g \in Groups, NEW t \in Table, NEW page \in Pages, Shallow(t, page)
  PROVE  Keeps(t, Process(t, g, page), Means(g)[<<Env(t), page>>])
<1>1. t.level \in Nat /\ t.level + Height[page] < Levels /\ page \in Elements
  BY TableIs, ViewsAssumption DEF Shallow
<1>2. Flat(t)
  <2>1. NoAlias.depth = 0
    BY DEF NoAlias
  <2>2. ASSUME NEW n \in Name PROVE t.aliases[n].depth <= t.level
    <3>1. n \in Aliases(t) => t.aliases[n].depth <= t.level
      BY DEF Shallow
    <3>2. n \notin Aliases(t) => t.aliases[n].depth = 0
      BY <2>1 DEF Aliases
    <3>. QED
      BY <1>1, <3>1, <3>2
  <2>. QED
    BY <2>2 DEF Flat
<1>. QED
  BY <1>1, <1>2, ParsingKeeps DEF Process

\* What a view makes of a table, with or without what it means.
LEMMA ProcessScopes ==
  ASSUME NEW g \in Groups, NEW t \in Table, NEW page \in Pages, Shallow(t, page),
         NEW result, result = Process(t, g, page)
  PROVE  /\ result.table.level >= t.level
         /\ \A n \in Aliases(t) : n \in Aliases(result.table) /\ result.table.aliases[n] = t.aliases[n]
         /\ result.outcome = "found" =>
              /\ result.table.level = t.level
              /\ Env(result.table) = Means(g)[<<Env(t), page>>].env
              /\ \A n \in Aliases(result.table) \ Aliases(t) : result.table.aliases[n].depth = result.table.level
              /\ result.nodes = Means(g)[<<Env(t), page>>].nodes
<1> DEFINE m == Means(g)[<<Env(t), page>>]
           u == result.table
<1>1. Keeps(t, result, m)
  BY ProcessKeeps
<1>. HIDE DEF m
<1>2. u \in Table /\ Within(t, u)
  BY <1>1 DEF Keeps, ResultOK
<1>3. t.level \in Nat /\ u.level \in Nat /\ \A n \in Name : u.aliases[n].depth \in Nat
  BY <1>2, TableIs
<1>4. result.outcome = "found" => u.level = t.level /\ Env(u) = m.env /\ result.nodes = m.nodes
  BY <1>1 DEF Keeps
<1>. HIDE DEF u
<1>5. \A n \in Aliases(t) : n \in Aliases(u) /\ u.aliases[n] = t.aliases[n]
  BY <1>2 DEF Within, Aliases
<1>6. result.outcome = "found" => \A n \in Aliases(u) \ Aliases(t) : u.aliases[n].depth = u.level
  <2>1. SUFFICES ASSUME result.outcome = "found", NEW n \in Aliases(u), n \notin Aliases(t)
                 PROVE  u.aliases[n].depth = u.level
    OBVIOUS
  <2>2. n \in Name /\ u.aliases[n] # NoAlias /\ t.aliases[n] = NoAlias
    BY <2>1 DEF Aliases
  <2>3. t.level <= u.aliases[n].depth /\ u.aliases[n].depth <= u.level
    BY <1>2, <2>2 DEF Within
  <2>. QED
    BY <1>3, <1>4, <2>1, <2>2, <2>3
<1>. QED
  BY <1>2, <1>4, <1>5, <1>6 DEF m, u, Within

-----------------------------------------------------------------------------
(* The callable *)

\* The view that was just rendered is that of the history.
RenderedFrom(r, t, g) ==
  \/ r = None
  \/ r.page \in Pages /\ r.from \in Table /\ r.result = Process(r.from, g, r.page) /\ t = r.result.table

\* The expression that was just evaluated is that of the history.
EvaluatedFrom(e, t, g) ==
  \/ e = None
  \/ \E expression \in Expressions :
       e = [tree |-> expression.tree, result |-> Evaluate(t, g, expression.words)]

\* The inductive invariant of a callable, its views and its expressions.
ViewsOK ==
  /\ ScopesOK /\ group \in Groups
  /\ RenderedFrom(rendered, table, group)
  /\ EvaluatedFrom(evaluated, table, group)

\* A view is a use of the table.
LEMMA RenderScopesOK ==
  ASSUME ScopesOK, NEW g \in Groups, NEW page \in Pages, Use, table' = Process(table, g, page).table,
         wild' = (wild \/ table'.level # table.level \/ table.level + Height[page] >= Levels),
         UNCHANGED <<saved, entered>>
  PROVE  ScopesOK'
<1>1. table \in Table /\ page \in Elements /\ uses' \in 0 .. Uses /\ wild' \in BOOLEAN
  BY ScopeAssumption, ViewsAssumption DEF ScopesOK, Use
<1>2. table' \in Table
  BY <1>1, ParsingIs DEF Process, ResultOK
<1>3. CASE wild'
  BY <1>1, <1>2, <1>3 DEF ScopesOK
<1>4. CASE ~wild'
  <2>1. ~wild /\ table'.level = table.level /\ ~(table.level + Height[page] >= Levels)
    BY <1>4
  <2>2. Shallow(table, page)
    <3>1. Height[page] \in Nat /\ table.level \in Nat /\ Levels \in Nat
      BY <1>1, NodeIs, TableIs
    <3>. QED
      BY <2>1, <3>1 DEF Shallow, ScopesOK
  <2>3. Within(table, table')
    BY <1>1, <2>2, ProcessKeeps DEF Keeps
  <2>4. \A n \in Name : table'.aliases[n].depth \in Nat
    BY <1>2, TableIs
  <2>5. table.level \in Nat
    BY <1>1, TableIs
  <2>6. ASSUME NEW n \in Name
        PROVE  \/ table'.aliases[n] = table.aliases[n]
               \/ table.aliases[n] = NoAlias /\ (wild' \/ table'.aliases[n].depth = table.level)
    BY <2>1, <2>3, <2>4, <2>5 DEF Within
  <2>. QED
    BY <1>1, <1>2, <2>1, <2>6, GrownOK
<1>. QED
  BY <1>3, <1>4

LEMMA InitViewsOK == Init => ViewsOK
BY InitScopesOK DEF Init, ViewsOK, RenderedFrom, EvaluatedFrom

LEMMA RenderViewsOK ==
  ASSUME ViewsOK, NEW page \in Pages, Render(page)
  PROVE  ViewsOK'
<1> DEFINE result == Process(table, group, page)
<1>1. /\ Use /\ table' = result.table /\ rendered' = [page |-> page, from |-> table, result |-> result]
      /\ wild' = (wild \/ result.table.level # table.level \/ table.level + Height[page] >= Levels)
      /\ UNCHANGED <<saved, entered, group>>
  BY DEF Render
<1>2. ScopesOK'
  BY <1>1, RenderScopesOK DEF ViewsOK
<1>3. rendered'.page = page /\ rendered'.from = table /\ rendered'.result = result /\ table \in Table
  BY <1>1 DEF ViewsOK, ScopesOK
<1>4. group' = group /\ group \in Groups
  BY <1>1 DEF ViewsOK
<1>5. evaluated' = None
  BY DEF Render
<1>. QED
  BY <1>1, <1>2, <1>3, <1>4, <1>5 DEF ViewsOK, RenderedFrom, EvaluatedFrom

LEMMA NextViewsOK == ViewsOK /\ [Next]_vars => ViewsOK'
<1>. SUFFICES ASSUME ViewsOK, [Next]_vars PROVE ViewsOK'
  OBVIOUS
<1>1. CASE ByHand
  BY <1>1, NextScopesOK DEF ByHand, ViewsOK, RenderedFrom, EvaluatedFrom
<1>2. ASSUME NEW expression \in Expressions, Ask(expression)
      PROVE  ViewsOK'
  <2>1. ScopesOK'
    BY <1>2, ScopeAssumption DEF Ask, ViewsOK, ScopesOK, Use
  <2>2. EvaluatedFrom(evaluated', table', group')
    BY <1>2 DEF Ask, EvaluatedFrom
  <2>3. group' \in Groups /\ RenderedFrom(rendered', table', group')
    BY <1>2 DEF Ask, ViewsOK, RenderedFrom
  <2>. QED
    BY <2>1, <2>2, <2>3 DEF ViewsOK, EvaluatedFrom
<1>3. ASSUME NEW page \in Pages, Render(page)
      PROVE  ViewsOK'
  BY <1>3, RenderViewsOK
<1>4. CASE UNCHANGED vars
  BY <1>4 DEF vars, ViewsOK, ScopesOK, RenderedFrom, EvaluatedFrom
<1>. QED
  BY <1>1, <1>2, <1>3, <1>4 DEF Next, Done

THEOREM ViewsKept == Spec => []ViewsOK
BY InitViewsOK, NextViewsOK, PTL DEF Spec

\* Of a caller who enters, declares, leaves and renders, in any order: the table
\* when a scope was entered is that of the aliases declared outside of it.
THEOREM ScopesKept == Spec => []ScopesOK
<1>1. ViewsOK => ScopesOK
  BY DEF ViewsOK
<1>. QED
  BY <1>1, ViewsKept, PTL

\* Leaving a scope restores the table as it was when the scope was entered.
THEOREM ScopesRestored == Spec => ScopesRestore
<1> DEFINE restores == ~wild /\ ~wild' /\ entered' < entered => table' = saved[entered']
<1>1. ViewsOK /\ [Next]_vars => [restores]_scopeVars
  <2>. SUFFICES ASSUME ViewsOK, [Next]_vars, ~wild', entered' < entered
                PROVE  table' = saved[entered']
    OBVIOUS
  <2>1. ScopesOK /\ entered \in Nat /\ entered' # entered
    BY DEF ViewsOK, ScopesOK
  <2>2. ByHand
    BY <2>1 DEF Next, Ask, Render, Done, vars
  <2>3. Leave
    BY <2>1, <2>2 DEF ByHand, ScopeNext, DeclareAlias, DeclareAliasAt, ClearAliases, Enter
  <2>. QED
    BY <2>1, <2>3, LeaveRestores
<1>. QED
  BY <1>1, ViewsKept, PTL DEF Spec, ScopesRestore

\* keys() and count() tell the indices under which elements are found.
THEOREM CountsKept == Spec => []CountsWhatIsFound
<1>1. ViewsOK => CountsWhatIsFound
  BY CountsIs DEF ViewsOK
<1>. QED
  BY <1>1, ViewsKept, PTL

\* What tokenize(), rpn() and evaluate() make of the words of a tree that has a
\* value is this value.
THEOREM ExpressionsEvaluated == Spec => []EvaluatesAsWritten
<1>1. ViewsOK => EvaluatesAsWritten
  <2>. SUFFICES ASSUME ViewsOK, evaluated # None, evaluated.tree # None, Meaning(table, group)[evaluated.tree] # {}
                PROVE  evaluated.result.outcome = "found" /\ evaluated.result.value \in Meaning(table, group)[evaluated.tree]
    BY DEF EvaluatesAsWritten
  <2>1. PICK expression \in Expressions :
          evaluated = [tree |-> expression.tree, result |-> Evaluate(table, group, expression.words)]
    BY DEF ViewsOK, EvaluatedFrom
  <2>2. evaluated.tree = expression.tree /\ evaluated.result = Evaluate(table, group, expression.words)
    BY <2>1
  <2>3. evaluated.tree \in Tree /\ expression.words = Infix[evaluated.tree]
    BY <2>2, ExpressionsAssumption
  <2>. QED
    BY <2>2, <2>3, EvaluateIs
<1>. QED
  BY <1>1, ViewsKept, PTL

\* What holds of every rendered view.
LEMMA RenderedIs ==
  ASSUME ViewsOK, rendered # None, Shallow(rendered.from, rendered.page)
  PROVE  LeavesItsScopes /\ RendersAsWritten
<1> DEFINE page == rendered.page
           t == rendered.from
           result == rendered.result
<1>1. group \in Groups /\ page \in Pages /\ t \in Table /\ result = Process(t, group, page) /\ table = result.table
  BY DEF ViewsOK, RenderedFrom
<1>. QED
  BY <1>1, ProcessScopes DEF LeavesItsScopes, RendersAsWritten

\* A view leaves the scopes it has entered.
THEOREM ScopesLeft == Spec => []LeavesItsScopes
<1>1. ViewsOK => LeavesItsScopes
  BY RenderedIs DEF LeavesItsScopes
<1>. QED
  BY <1>1, ViewsKept, PTL

\* A view says what is written.
THEOREM ViewsRendered == Spec => []RendersAsWritten
<1>1. ViewsOK => RendersAsWritten
  BY RenderedIs DEF RendersAsWritten
<1>. QED
  BY <1>1, ViewsKept, PTL
=============================================================================
