------------------------------ MODULE Template -------------------------------
(***************************************************************************)
(* The views (includes/udho/parser.h: xml, the directives of tags and      *)
(* attributes, and parser::process()).                                     *)
(*                                                                         *)
(* A node is a text or an element [is, name, attrs, children]; "is" tells  *)
(* which directive its name begins with, "plain" if none.  An attribute is *)
(* [is, name, ...] likewise.  Of a document only the elements, texts and   *)
(* attributes are kept; a text is a sequence of pieces.                    *)
(***************************************************************************)
EXTENDS Expression

CONSTANTS
  Node,       \* the nodes of the documents
  Height,     \* Height[node]: how many nodes are on the longest way down from it
  Documents   \* Documents[text]: the nodes of a text that is a document

\* The nodes that have children.
Parents == {"block", "for", "if", "view", "plain"}

AttributeOK(a) ==
  /\ a.is \in {"plain", "if", "target", "eval", "add-class"}
  /\ a.is = "plain" => a = [is |-> "plain", name |-> a.name, text |-> a.text]
  /\ a.is = "target" => a.pieces \in Seq([is : {"literal", "key", "unmatched"}, key : Path, text : STRING])

\* A document is a tree.
NodeOK(node) ==
  /\ node.is \in {"pcdata", "block", "var", "for", "if", "text", "html", "eval", "view", "plain"}
  /\ Height[node] \in Nat \ {0}
  /\ node.is = "var" => KeyOK(node.key) /\ node.ref \in Path
  /\ node.is = "for" => KeyOK(node.key) /\ node.in \in Path
  /\ node.is = "plain" =>
       /\ node.attrs \in Seq(Range(node.attrs))
       /\ \A i \in DOMAIN node.attrs : AttributeOK(node.attrs[i])
  /\ node.is \in Parents =>
       /\ node.children \in Seq(Node)
       /\ \A i \in DOMAIN node.children : Height[node.children[i]] < Height[node]

\* What parse() is given; a text is copied.
Elements == {node \in Node : node.is # "pcdata"}

ASSUME NodeAssumption == \A node \in Node : NodeOK(node)

\* The result of a piece of a view: the table, the nodes it appends to the
\* target, and how it ended.
Rendered(t, nodes) == [outcome |-> "found", table |-> t, nodes |-> nodes]

Fails(t, outcome) == [outcome |-> outcome, table |-> t, nodes |-> <<>>]

\* One piece behind another.
Then(st, next) ==
  [outcome |-> next.outcome, table |-> next.table, nodes |-> st.nodes \o next.nodes]

PcData(text) == [is |-> "pcdata", text |-> text]

\* An attribute of the output; its text may come from several places.
Plain(name, text) == [is |-> "plain", name |-> name, text |-> text]

-----------------------------------------------------------------------------
(* The directives of attributes *)

\* "test ? value": without a test it is always true.
Holds(t, group, test) == IF test = <<>> THEN Number(1) ELSE Evaluate(t, group, test)

\* The text of `key` and literal pieces; an unmatched quote throws.
PieceText(t, group, piece) ==
  CASE piece.is = "literal" -> Found("leaf", piece.text)
    [] piece.is = "key" -> TextOf(group, Lookup(t, piece.key))
    [] piece.is = "unmatched" -> Throws

Resolved(t, group, pieces) ==
  LET failing == {i \in DOMAIN pieces : PieceText(t, group, pieces[i]).outcome # "found"}
  IN IF failing # {} THEN PieceText(t, group, pieces[Min(failing)])
     ELSE Found("text", [i \in DOMAIN pieces |-> PieceText(t, group, pieces[i]).value])

Without(attrs, i) == RemoveAt(attrs, i)

\* Attribute i of a node is processed: what has become of the attributes, and
\* whether the node is kept.
Kept(attrs) == [outcome |-> "found", keep |-> TRUE, attrs |-> attrs]
Dropped == [outcome |-> "found", keep |-> FALSE, attrs |-> <<>>]
Broken(outcome) == [outcome |-> outcome, keep |-> FALSE, attrs |-> <<>>]

\* udho:if.
IfAttr(attrs, i, test) ==
  CASE test.outcome # "found" -> Broken(test.outcome)
    [] test.outcome = "found" /\ test.value # 0 -> Kept(Without(attrs, i))
    [] OTHER -> Dropped

\* udho:target:name: the attribute is appended, behind all others.
TargetAttr(attrs, i, test, text) ==
  IF test.outcome # "found" THEN Broken(test.outcome)
  ELSE IF test.value = 0 THEN Kept(Without(attrs, i))
  ELSE IF text.outcome # "found" THEN Broken(text.outcome)
  ELSE Kept(Append(Without(attrs, i), Plain(attrs[i].name, text.value)))

\* udho:eval:name: the attribute stays where it is.
EvalAttr(attrs, i, test, value) ==
  IF test.outcome # "found" THEN Broken(test.outcome)
  ELSE IF test.value = 0 THEN Kept(Without(attrs, i))
  ELSE IF value.outcome # "found" THEN Broken(value.outcome)
  ELSE Kept([attrs EXCEPT ![i] = Plain(attrs[i].name, <<ToString(value.value)>>)])

\* A class as it comes behind the text there is.
Spaced(class) == <<" ", class>>

\* udho:add-class[:name]: a node without a class gets none, the attribute that
\* would be copied does not exist.
AddClassAttr(attrs, i, test, class) ==
  LET classes == {j \in DOMAIN attrs : attrs[j].is = "plain" /\ attrs[j].name = "class"}
  IN IF test.outcome # "found" THEN Broken(test.outcome)
     ELSE IF test.value = 0 THEN Kept(Without(attrs, i))
     ELSE IF class.outcome # "found" THEN Broken(class.outcome)
     ELSE IF classes = {} THEN Kept(Without(attrs, i))
     ELSE Kept(Without([attrs EXCEPT ![Min(classes)].text = @ \o Spaced(class.value)], i))

\* Attribute i with what its test, its text, expression or class evaluate to.
Processed(t, group, attrs, i) ==
  LET a == attrs[i]
  IN CASE a.is = "plain" -> Kept(attrs)
       [] a.is = "if" -> IfAttr(attrs, i, Evaluate(t, group, a.test))
       [] a.is = "target" -> TargetAttr(attrs, i, Holds(t, group, a.test), Resolved(t, group, a.pieces))
       [] a.is = "eval" -> EvalAttr(attrs, i, Holds(t, group, a.test), Evaluate(t, group, a.expr))
       [] a.is = "add-class" /\ a.name = "" ->
            AddClassAttr(attrs, i, Number(1), TextOf(group, Lookup(t, a.key)))
       [] a.is = "add-class" /\ a.name # "" ->
            AddClassAttr(attrs, i, Evaluate(t, group, a.test), Found("leaf", a.name))

\* Mutated: the attributes that are left move up, and one of them is missed.
NextSkipping(attrs, i, done) == i + 1

\* Where the iterator stands after attribute i: it has moved before a directive
\* removes its attribute.
NextAttribute(attrs, i, done) ==
  LET removed == attrs[i].is \in {"if", "target", "add-class"}
                   \/ (attrs[i].is = "eval" /\ Len(done.attrs) < Len(attrs))
  IN IF removed THEN i ELSE i + 1

\* The attributes with attribute i processed, and where the iterator stands then.
MovedOn(attrs, i, done) == [done |-> done, i |-> NextAttribute(attrs, i, done)]

\* One round of the loop over the attributes.
Onward(t, group, s) ==
  IF ~s.done.keep \/ s.i > Len(s.done.attrs) THEN s
  ELSE MovedOn(s.done.attrs, s.i, Processed(t, group, s.done.attrs, s.i))

\* The rounds.  It comes to those that were appended, of which each attribute
\* appends one at most.
Looping(t, group, attrs) ==
  LET state[k \in 0 .. 2 * Len(attrs)] ==
        IF k = 0 THEN [done |-> Kept(attrs), i |-> 1] ELSE Onward(t, group, state[k - 1])
  IN state

Attributes(t, group, attrs) == Looping(t, group, attrs)[2 * Len(attrs)].done

-----------------------------------------------------------------------------
(* The directives of tags, for a table.  parse[<<t, node>>] is what parse() *)
(* makes of a node.                                                         *)

\* udho:var.
Var(t, node) == Rendered(Add(t, node.key, node.ref), <<>>)

\* udho:text.
Text(group, t, node) ==
  LET text == TextOf(group, Lookup(t, node.key))
  IN IF text.outcome # "found" THEN Fails(t, text.outcome)
     ELSE Rendered(t, <<PcData(<<text.value>>)>>)

\* udho:html: the nodes of a text, without directives; a text that is no
\* document has none.
Html(group, t, node) ==
  LET text == TextOf(group, Lookup(t, node.key))
  IN IF text.outcome # "found" THEN Fails(t, text.outcome)
     ELSE Rendered(t, IF text.value \in DOMAIN Documents THEN Documents[text.value] ELSE <<>>)

\* udho:eval.
Eval(group, t, node) ==
  LET value == Evaluate(t, group, node.expr)
  IN IF value.outcome # "found" THEN Fails(t, value.outcome)
     ELSE Rendered(t, <<PcData(<<ToString(value.value)>>)>>)

\* travarse(): a text is copied, any other child parsed.
Child(parse, st, child) ==
  IF st.outcome # "found" THEN st
  ELSE Then(st, IF child.is = "pcdata" THEN Rendered(st.table, <<child>>)
                ELSE parse[<<st.table, child>>])

Children(parse, t, children) ==
  LET st[i \in 0 .. Len(children)] ==
        IF i = 0 THEN Rendered(t, <<>>) ELSE Child(parse, st[i - 1], children[i])
  IN st

Travarse(parse, t, children) == Children(parse, t, children)[Len(children)]

\* An exception leaves the table a level down.
LeaveScope(st) == IF st.outcome # "found" THEN st ELSE [st EXCEPT !.table = Up(@)]

\* udho:block.
Block(parse, t, node) == LeaveScope(Travarse(parse, Down(t), node.children))

\* The path with an index behind it.
Indexed(path, index) ==
  [path EXCEPT ![Len(path)] = [name |-> path[Len(path)].name, at |-> Append(path[Len(path)].at, index)]]

\* Mutated: the scope of a round is not left.
RoundOpen(parse, st, node, index) ==
  IF st.outcome # "found" THEN st
  ELSE Then(st, Travarse(parse, Add(Down(st.table), node.key, Indexed(node.in, index)), node.children))

\* A round of udho:for, in a scope of its own.
Round(parse, st, node, index) ==
  IF st.outcome # "found" THEN st
  ELSE Then(st, LeaveScope(
         Travarse(parse, Add(Down(st.table), node.key, Indexed(node.in, index)), node.children)))

Rounds(parse, t, node, indices) ==
  LET st[i \in 0 .. Len(indices)] ==
        IF i = 0 THEN Rendered(t, <<>>) ELSE Round(parse, st[i - 1], node, indices[i])
  IN st

\* udho:for.  The collection is asked for by its key as it stands: an alias is
\* not looked up.
For(parse, group, t, node) ==
  LET keys == KeysIn(group, node.in)
  IN IF keys.outcome # "found" THEN Fails(t, keys.outcome)
     ELSE Rounds(parse, t, node, keys.value)[Len(keys.value)]

\* udho:if.
If(parse, group, t, node) ==
  LET test == Evaluate(t, group, node.test)
  IN CASE test.outcome # "found" -> Fails(t, test.outcome)
       [] test.outcome = "found" /\ test.value # 0 -> Travarse(parse, t, node.children)
       [] OTHER -> Rendered(t, <<>>)

\* step_in(): an element with the attributes, and what its children append.
StepIn(parse, t, name, attrs, children) ==
  [Travarse(parse, t, children) EXCEPT !.nodes =
     <<[is |-> "plain", name |-> name, attrs |-> attrs, children |-> @]>>]

\* An element whose attributes were processed: it stays or goes.
Stepped(parse, t, node, done) ==
  CASE done.outcome # "found" -> Fails(t, done.outcome)
    [] done.outcome = "found" /\ done.keep -> StepIn(parse, t, node.name, done.attrs, node.children)
    [] OTHER -> Rendered(t, <<>>)

\* parse().
Parse(parse, group, t, node) ==
  CASE node.is = "block" -> Block(parse, t, node)
    [] node.is = "var" -> Var(t, node)
    [] node.is = "for" -> For(parse, group, t, node)
    [] node.is = "if" -> If(parse, group, t, node)
    [] node.is = "text" -> Text(group, t, node)
    [] node.is = "html" -> Html(group, t, node)
    [] node.is = "eval" -> Eval(group, t, node)
    [] node.is = "view" -> StepIn(parse, t, node.name, node.attrs, node.children)
    [] node.is = "plain" -> Stepped(parse, t, node, Attributes(t, group, node.attrs))

Parsing(group) ==
  LET parse[x \in Table \X Elements] == Parse(parse, group, x[1], x[2])
  IN parse

\* process() with a parser of its own, as bridge::render() has it.
Process(t, group, root) == Parsing(group)[<<t, root>>]
=============================================================================
