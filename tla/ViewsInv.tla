------------------------------ MODULE ViewsInv -------------------------------
(***************************************************************************)
(* What expressions, data and views promise: each is compared with a       *)
(* meaning that knows no tokens, no stack, no level and no order of        *)
(* members.                                                                *)
(***************************************************************************)
EXTENDS Views

CONSTANTS
  Tree,    \* the trees that expressions stand for
  Depth    \* Depth[tree]: how many operators, calls and parentheses are nested in it

-----------------------------------------------------------------------------
(* Expressions.  A tree is [is |-> "word", word], [is |-> "call", name,    *)
(* arg], [is |-> "paren", arg] or [is |-> "op", op, l, r].                 *)

Ints == -Largest .. Largest

Rank(tree) == IF tree.is = "op" THEN Precedence[tree.op] ELSE 5

Below(tree) ==
  CASE tree.is = "word" -> {}
    [] tree.is \in {"call", "paren"} -> {tree.arg}
    [] tree.is = "op" -> {tree.l, tree.r}

\* An operator binds its operands: the left ones of its precedence first.
TreeOK(tree) ==
  /\ tree.is \in {"word", "call", "paren", "op"}
  /\ Depth[tree] \in Nat
  /\ \A below \in Below(tree) : below \in Tree /\ Depth[below] < Depth[tree]
  /\ tree.is = "word" => Token(tree.word).type \in {"real", "id"}
  /\ tree.is = "call" => tree.name \in FunctionNames
  /\ tree.is = "paren" => tree.arg.is # "word"
  /\ tree.is = "op" =>
       /\ tree.op \in DOMAIN Precedence \ {"!="}
       /\ Precedence[tree.op] <= Rank(tree.l) /\ Precedence[tree.op] < Rank(tree.r)

\* The characters of an operator are words of their own.
Spelled(op) ==
  CASE op = "<=" -> <<"<", "=">>
    [] op = ">=" -> <<">", "=">>
    [] op = "==" -> <<"=", "=">>
    [] op = "&&" -> <<"&", "&">>
    [] op = "||" -> <<"|", "|">>
    [] OTHER -> <<op>>

\* A tree as one writes it.
InfixOf(infix, tree) ==
  CASE tree.is = "word" -> <<tree.word>>
    [] tree.is = "call" -> <<tree.name, "(">> \o infix[tree.arg] \o <<")">>
    [] tree.is = "paren" -> <<"(">> \o infix[tree.arg] \o <<")">>
    [] tree.is = "op" -> infix[tree.l] \o Spelled(tree.op) \o infix[tree.r]

Infix[tree \in Tree] == InfixOf(Infix, tree)

\* An expression that stands for a tree is written like it.  A text that is read
\* as an int is none of the words that mean something else.
ASSUME ExpressionsAssumption ==
  /\ Largest \in Nat
  /\ \A m, n \in Ints : ToString(m) = ToString(n) => m = n
  /\ Numeral \cap (DOMAIN Precedence \cup FunctionNames \cup {",", "(", ")"}) = {}
  /\ \A tree \in Tree : TreeOK(tree)
  /\ \A expression \in Expressions :
       expression.tree # None =>
         expression.tree \in Tree /\ expression.words = Infix[expression.tree]

\* The value of a tree as a set: empty if it has none, or it is not an int.  Of
\* a junction the right operand does not need one if the left decides and it is
\* a key.
WordMeans(t, data, word) ==
  LET found == FindIn(data, Lookup(t, Key(word)))
  IN IF word \in Numeral THEN {IntOf[word]}
     ELSE IF found.outcome = "found" /\ found.of = "leaf" /\ found.value \in Numeral
     THEN {IntOf[found.value]} ELSE {}

SizeMeans(data, tree) ==
  LET size == CountIn(data, Key(tree.word))
  IN IF tree.is = "word" /\ tree.word \notin Numeral /\ size.outcome = "found"
     THEN {size.value} ELSE {}

OpMeans(op, l, r, late) ==
  LET both == {Apply(op, a, b) : a \in l, b \in r}
      or == {Truth(a # 0 \/ b # 0) : a \in l, b \in r}
      and == {Truth(a # 0 /\ b # 0) : a \in l, b \in r}
  IN CASE op = "/" -> IF 0 \in r THEN {} ELSE both
       [] op \in {"&", "&&"} -> IF l = {0} /\ late THEN {0} ELSE and
       [] op \in {"|", "||"} -> IF l # {} /\ 0 \notin l /\ late THEN {1} ELSE or
       [] OTHER -> both

MeaningOf(meaning, t, data, tree) ==
  Ints \cap
  CASE tree.is = "word" -> WordMeans(t, data, tree.word)
    [] tree.is = "call" ->
         CASE tree.name = "not" -> {Truth(v = 0) : v \in meaning[tree.arg]}
           [] tree.name = "count" -> SizeMeans(data, tree.arg)
           [] OTHER -> {}
    [] tree.is = "paren" -> meaning[tree.arg]
    [] tree.is = "op" ->
         OpMeans(tree.op, meaning[tree.l], meaning[tree.r], tree.r.is = "word")

Meaning(t, data) ==
  LET meaning[tree \in Tree] == MeaningOf(meaning, t, data, tree)
  IN meaning

\* An expression that has a value evaluates to it: the precedence and the
\* associativity of the operators, the parentheses and the calls, from
\* tokenize() through rpn() to evaluate().
EvaluatesAsWritten ==
  evaluated # None /\ evaluated.tree # None =>
    LET meaning == Meaning(table, group)[evaluated.tree]
    IN meaning # {} =>
         evaluated.result.outcome = "found" /\ evaluated.result.value \in meaning

-----------------------------------------------------------------------------
(* Data *)

\* On the way of a path no object has a member behind that of the path which
\* holds objects too: count() and keys() would not come to that of the path.
InSight(object, path) ==
  \A k \in 1 .. Len(path) - 1 :
    LET found == Finding(object, path)[k - 1]
        matched == Matched(found.value, path[k].name)
    IN found.outcome = "found" => matched = {} \/ matched = {Max(Nested(found.value) \cup {0})}

\* keys() and count() of a collection tell the indices under which its elements
\* are found: the visitors of find(), count() and keys() agree.
CountsWhatIsFound ==
  \A path \in Collections :
    LET keys == KeysIn(group, path)
        count == CountIn(group, path)
        indices == {index \in Index \cup Range(keys.value) : FindIn(group, Indexed(path, index)).outcome = "found"}
        plain == FindIn(group, path).outcome = "found"
    IN Len(group) = 1 /\ InSight(group[1], path) =>
         \/ keys.outcome # "found"
         \/ plain
         \/ Range(keys.value) = indices /\ count.value = Cardinality(indices)

-----------------------------------------------------------------------------
(* Views *)

\* An environment: what each name stands for, <<>> if it is no alias.
Envs == [Name -> Steps]

Env(t) == [n \in Name |-> t.aliases[n].ref]

\* A table for an environment.
TableOf(env) == [level |-> 0, aliases |-> [n \in Name |-> [ref |-> env[n], depth |-> 0]]]

\* The environment with one more alias, unless it has one of this name.
Bind(env, key, ref) ==
  IF IsName(key) /\ env[key[1].name] = <<>>
  THEN [env EXCEPT ![key[1].name] = Lookup(TableOf(env), ref)] ELSE env

True(env, data, test) == Evaluate(TableOf(env), data, test).value # 0

\* base, and behind it f[k] for each k of S, in their order; [k] is up to k.
Gathered(base, f, S, n) ==
  LET gathered[k \in 0 .. n] ==
        IF k = 0 THEN base ELSE IF k \in S THEN gathered[k - 1] \o f[k] ELSE gathered[k - 1]
  IN gathered

Ascending(S, n) == Gathered(<<>>, [k \in 1 .. n |-> <<k>>], S, n)

\* The attributes of a kind whose test is true.
Chosen(env, data, attrs, is) ==
  {i \in DOMAIN attrs :
     /\ attrs[i].is = is
     /\ CASE is = "plain" -> TRUE
          [] is \in {"target", "eval"} -> attrs[i].test = <<>> \/ True(env, data, attrs[i].test)
          [] is = "add-class" -> attrs[i].name = "" \/ True(env, data, attrs[i].test)}

\* Those that stay in their place.
Staying(env, data, attrs) == Chosen(env, data, attrs, "plain") \cup Chosen(env, data, attrs, "eval")

\* The classes of S that are there when attribute k is processed.
ClassesFor(attrs, k, S) ==
  {j \in S : attrs[j].name = "class" /\ (j < k \/ attrs[j].is = "plain")}

FirstOf(inside, behind) ==
  IF inside # {} THEN Min(inside) ELSE IF behind # {} THEN Min(behind) ELSE 0

\* The attribute that receives the class of attribute k: the first class there
\* is when k is processed, 0 if there is none.
Receiver(env, data, attrs, k) ==
  FirstOf(ClassesFor(attrs, k, Staying(env, data, attrs)),
          ClassesFor(attrs, k, Chosen(env, data, attrs, "target")))

\* The text an attribute has without the classes, and the classes one by one.
OwnText(env, data, a) ==
  CASE a.is = "plain" -> a.text
    [] a.is = "eval" -> <<ToString(Evaluate(TableOf(env), data, a.expr).value)>>
    [] a.is = "target" -> Resolved(TableOf(env), data, a.pieces).value

Class(env, data, a) ==
  Spaced(IF a.name = "" THEN TextOf(data, Lookup(TableOf(env), a.key)).value ELSE a.name)

TextsOf(env, data, attrs, i) ==
  Gathered(OwnText(env, data, attrs[i]), [k \in DOMAIN attrs |-> Class(env, data, attrs[k])],
           {k \in Chosen(env, data, attrs, "add-class") : Receiver(env, data, attrs, k) = i}, Len(attrs))

\* The attributes in an order, each with its own text and its classes.
InOrder(env, data, attrs, order) ==
  [p \in DOMAIN order |->
     Plain(attrs[order[p]].name, TextsOf(env, data, attrs, order[p])[Len(attrs)])]

\* The attributes of a node in the output: those that stay, and those that are
\* appended.
AttributesOf(env, data, attrs) ==
  InOrder(env, data, attrs,
          Ascending(Staying(env, data, attrs), Len(attrs))[Len(attrs)] \o
          Ascending(Chosen(env, data, attrs, "target"), Len(attrs))[Len(attrs)])

\* What nodes mean one behind the other: their output, and the environment
\* behind them.  of[<<env, node>>] is what a node means.
Behind(of, sofar, node) ==
  [env |-> of[<<sofar.env, node>>].env, nodes |-> sofar.nodes \o of[<<sofar.env, node>>].nodes]

Sequence(of, env, nodes) ==
  LET sofar[i \in 0 .. Len(nodes)] ==
        IF i = 0 THEN [env |-> env, nodes |-> <<>>] ELSE Behind(of, sofar[i - 1], nodes[i])
  IN sofar

All(of, env, nodes) == Sequence(of, env, nodes)[Len(nodes)]

\* What a round of a loop means, and what the rounds mean.
RoundMeans(of, env, node, index) ==
  All(of, Bind(env, node.key, Indexed(node.in, index)), node.children).nodes

Repeating(of, env, node, indices) ==
  LET sofar[i \in 0 .. Len(indices)] ==
        IF i = 0 THEN <<>>
        ELSE sofar[i - 1] \o RoundMeans(of, env, node, indices[i])
  IN sofar

Repeated(of, env, node, indices) == Repeating(of, env, node, indices)[Len(indices)]

\* A block and each round of a loop has an environment of its own, a condition
\* and an element have not.
Of(of, data, env, node) ==
  LET text == TextOf(data, Lookup(TableOf(env), node.key)).value
      keys == KeysIn(data, node.in)
      inner == All(of, env, node.children)
      says(nodes) == [env |-> env, nodes |-> nodes]
      element(attrs) ==
        <<[is |-> "plain", name |-> node.name, attrs |-> attrs, children |-> inner.nodes]>>
  IN CASE node.is = "pcdata" -> says(<<node>>)
       [] node.is = "var" -> [env |-> Bind(env, node.key, node.ref), nodes |-> <<>>]
       [] node.is = "text" -> says(<<PcData(<<text>>)>>)
       [] node.is = "html" -> says(IF text \in DOMAIN Documents THEN Documents[text] ELSE <<>>)
       [] node.is = "eval" -> says(<<PcData(<<ToString(Evaluate(TableOf(env), data, node.expr).value)>>)>>)
       [] node.is = "block" -> says(inner.nodes)
       [] node.is = "for" -> says(IF keys.outcome = "found" THEN Repeated(of, env, node, keys.value) ELSE <<>>)
       [] node.is = "if" -> IF True(env, data, node.test) THEN inner ELSE says(<<>>)
       [] node.is = "view" -> [env |-> inner.env, nodes |-> element(node.attrs)]
       [] node.is = "plain" ->
            IF \E i \in DOMAIN node.attrs : node.attrs[i].is = "if" /\ ~True(env, data, node.attrs[i].test)
            THEN says(<<>>)
            ELSE [env |-> inner.env, nodes |-> element(AttributesOf(env, data, node.attrs))]

Means(data) ==
  LET of[x \in Envs \X Node] == Of(of, data, x[1], x[2])
  IN of

\* No alias is declared below the level one is at, and the level does not wrap.
Shallow(t, page) ==
  t.level + Height[page] < Levels /\ \A n \in Aliases(t) : t.aliases[n].depth <= t.level

\* A view that was rendered says what its nodes mean one by one, each in the
\* environment of the aliases declared in front of it, in its block or around,
\* and leaves that of those declared outside of all blocks and loops: the
\* traversal of xml, the directives and their use of the table.
RendersAsWritten ==
  rendered # None =>
    (rendered.result.outcome = "found" /\ Shallow(rendered.from, rendered.page) =>
       \E means \in {Means(group)[<<Env(rendered.from), rendered.page>>]} :
         rendered.result.nodes = means.nodes /\ Env(table) = means.env)

\* A view leaves the table at the level it was, with the aliases it had and others
\* of this level: every down() of a directive has its up().  One that ends with an
\* exception leaves the level below, but no alias the table had is lost.
LeavesItsScopes ==
  rendered # None /\ Shallow(rendered.from, rendered.page) =>
    /\ table.level >= rendered.from.level
    /\ \A n \in Aliases(rendered.from) :
         n \in Aliases(table) /\ table.aliases[n] = rendered.from.aliases[n]
    /\ rendered.result.outcome = "found" =>
         /\ table.level = rendered.from.level
         /\ \A n \in Aliases(table) \ Aliases(rendered.from) : table.aliases[n].depth = table.level
=============================================================================
