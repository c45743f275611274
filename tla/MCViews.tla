------------------------------ MODULE MCViews --------------------------------
(***************************************************************************)
(* Small instances of Views: the objects of tests/parsing.cpp, and views   *)
(* with every directive, nested and in sequence.                           *)
(***************************************************************************)
EXTENDS ViewsInv

-----------------------------------------------------------------------------
(* Data *)

Leaf(name, text) == [name |-> name, is |-> "one", of |-> "leaf", holds |-> text]
List(name, of, items) == [name |-> name, is |-> "list", of |-> of, holds |-> items]
OfMap(name, order, items) == [name |-> name, is |-> "map", of |-> "leaf", order |-> order, holds |-> items]

Book(title, year, authors) ==
  <<Leaf("title", title), List("authors", "leaf", authors), Leaf("year", year)>>

Books == List("books", "object", <<Book("One", "2", <<"Ann", "Bob">>), Book("Two", "3", <<"Cy">>)>>)

Student == <<Leaf("roll", "2"), Leaf("first", "<b>Neel</b>"), Books,
             OfMap("marks", <<"art", "math">>, [art |-> "-3", math |-> "5"]), Leaf("none", "0")>>

\* A member with objects declared behind the books.
Popular == Append(Student, List("friends", "object", <<<<Leaf("first", "Zoe")>>>>))

Publisher == <<Leaf("label", "Pub"), Leaf("roll", "7"), List("towns", "leaf", <<"x">>)>>

\* An object and those it holds.
RECURSIVE Held(_)
Held(object) ==
  LET nested == {object[i] : i \in Nested(object)}
      held(m) == IF m.is = "one" THEN {m.holds} ELSE Range(m.holds)
  IN {object} \cup UNION {UNION {Held(o) : o \in held(m)} : m \in nested}

MCObject == UNION {Held(object) : object \in {Student, Popular, Publisher}}

MCGroups == {<<Student>>, <<Popular>>, <<Student, Publisher>>}

MCIndex == {"0", "1", "2", "3"}

-----------------------------------------------------------------------------
(* Keys *)

S(name, at) == [name |-> name, at |-> at]
K(name) == <<S(name, <<>>)>>

Book0 == <<S("books", <<"0">>)>>
Book1Year == <<S("books", <<"1">>), S("year", <<>>)>>
Book0Authors == <<S("books", <<"0">>), S("authors", <<>>)>>

MCKeyOf == ("books:1.year" :> Book1Year) @@ ("paper.year" :> <<S("paper", <<>>), S("year", <<>>)>>)
             @@ ("marks:art" :> <<S("marks", <<"art">>)>>) @@ ("marks:bio" :> <<S("marks", <<"bio">>)>>)
             @@ ("books:0.authors" :> Book0Authors)

MCKeys == {K("paper"), K("thesis"), Book0}
MCRefs == {Book0, K("paper")}
MCCollections == {K("books"), Book0Authors, K("marks"), K("towns"), K("roll"), K("paper")}

-----------------------------------------------------------------------------
(* Expressions *)

W(word) == [is |-> "word", word |-> word]
Op(op, l, r) == [is |-> "op", op |-> op, l |-> l, r |-> r]
CallOf(name, arg) == [is |-> "call", name |-> name, arg |-> arg]
Paren(arg) == [is |-> "paren", arg |-> arg]

\* An operator with the parentheses its operands need.
OpOf(op, l, r) ==
  Op(op, IF Rank(l) < Precedence[op] THEN Paren(l) ELSE l,
         IF Rank(r) <= Precedence[op] THEN Paren(r) ELSE r)

Ops == {"-", "/", "<=", "&&", "|"}
Triples == {<<W("7"), W("roll"), W("3")>>, <<W("roll"), W("lost"), W("none")>>,
            <<CallOf("count", W("books")), CallOf("not", W("paper.year")), W("books:1.year")>>}

Written ==
  UNION {{OpOf(p, OpOf(q, a[1], a[2]), a[3]), OpOf(p, a[1], OpOf(q, a[2], a[3]))} :
           p \in Ops, q \in Ops, a \in Triples} \cup
  {CallOf("not", OpOf("<", CallOf("count", W("books")), W("3"))),
   OpOf("&&", CallOf("not", W("marks:bio")), W("1")),
   OpOf("||", OpOf("<=", W("2"), W("1")), OpOf(">=", W("marks:art"), OpOf("-", W("1"), W("4")))),
   CallOf("max", W("roll")), W("lost"), W("first"), CallOf("count", W("books:0.authors")),
   OpOf("==", CallOf("not", CallOf("not", W("roll"))), W("1")),
   OpOf("*", Paren(Paren(OpOf("+", W("1"), W("2")))), W("roll"))}

RECURSIVE WithinTree(_), DepthOf(_)
WithinTree(tree) == {tree} \cup UNION {WithinTree(below) : below \in Below(tree)}
DepthOf(tree) == IF Below(tree) = {} THEN 0 ELSE 1 + Max({DepthOf(below) : below \in Below(tree)})

MCTree == UNION {WithinTree(tree) : tree \in Written}
MCDepth == [tree \in MCTree |-> DepthOf(tree)]

NoTree(words) == [tree |-> None, words |-> words]

\* Those of trees, and some no tree stands for.
MCExpressions ==
  {[tree |-> tree, words |-> Infix[tree]] : tree \in Written} \cup
  {NoTree(<<"-", "1">>), NoTree(<<"roll", "!", "=", "3">>), NoTree(<<")", "1", "(">>), NoTree(<<>>),
   NoTree(<<"max", "(", "1", ",", "2", ")">>), NoTree(<<"not", "roll">>), NoTree(<<"roll", "%", "2">>)}

-----------------------------------------------------------------------------
(* Pages *)

El(name, attrs, children) == [is |-> "plain", name |-> name, attrs |-> attrs, children |-> children]
TextTag(key) == [is |-> "text", key |-> key]
VarTag(key, ref) == [is |-> "var", key |-> key, ref |-> ref]
Tag(is, children) == [is |-> is, name |-> is, attrs |-> <<>>, children |-> children]
ForTag(key, in, children) == [is |-> "for", key |-> key, in |-> in, children |-> children]
IfTag(test, children) == [is |-> "if", test |-> test, children |-> children]

IfA(test) == [is |-> "if", name |-> "udho:if", test |-> test]
TargetA(name, test, pieces) == [is |-> "target", name |-> name, test |-> test, pieces |-> pieces]
EvalA(name, test, expr) == [is |-> "eval", name |-> name, test |-> test, expr |-> expr]
ClassA(name, test, key) == [is |-> "add-class", name |-> name, test |-> test, key |-> key]
KeyPiece(key) == [is |-> "key", key |-> key, text |-> ""]
Literal(text) == [is |-> "literal", key |-> K(""), text |-> text]

PaperTitle == <<S("paper", <<>>), S("title", <<>>)>>
Many == <<"count", "(", "books", ")", ">", "1">>

Bodies ==
  {\* a block hides what it declares, an outer alias stays
   <<VarTag(K("paper"), <<S("books", <<"1">>)>>),
     Tag("block", <<VarTag(K("paper"), Book0), VarTag(K("thesis"), K("paper")),
                    TextTag(<<S("thesis", <<>>), S("title", <<>>)>>)>>),
     TextTag(<<S("thesis", <<>>), S("title", <<>>)>>), TextTag(PaperTitle)>>,
   \* the rounds of a loop, and one inside another
   <<ForTag(K("paper"), K("books"),
       <<TextTag(PaperTitle),
         ForTag(K("who"), Book0Authors, <<TextTag(K("who")), [is |-> "pcdata", text |-> <<", ">>]>>),
         ForTag(K("paper"), K("marks"), <<TextTag(K("paper"))>>),
         ForTag(K("no"), <<S("paper", <<>>), S("authors", <<>>)>>, <<TextTag(K("no"))>>)>>),
     TextTag(PaperTitle)>>,
   \* attributes
   <<El("div", <<Plain("class", <<"c">>), TargetA("title", <<>>, <<KeyPiece(K("first"))>>),
                 EvalA("n", Many, <<"roll", "+", "1">>), ClassA("many", Many, K("")),
                 ClassA("", <<>>, K("label")), TargetA("alt", <<"none">>, <<KeyPiece(K("roll"))>>),
                 IfA(Many), EvalA("m", <<"none">>, <<"1">>), Plain("id", <<"i">>)>>,
        <<TextTag(K("roll"))>>),
     El("q", <<ClassA("a", Many, K("")), EvalA("class", <<>>, <<"1">>), ClassA("b", Many, K("")),
               TargetA("class", <<>>, <<Literal("c")>>), ClassA("d", Many, K(""))>>, <<>>),
     El("s", <<TargetA("class", <<>>, <<Literal("c")>>), ClassA("e", Many, K(""))>>, <<>>),
     El("p", <<IfA(<<"none">>), TargetA("title", <<>>, <<Literal("a"), KeyPiece(K("roll"))>>)>>,
        <<VarTag(K("thesis"), Book0)>>)>>,
   \* conditions have no scope
   <<IfTag(Many, <<VarTag(K("thesis"), Book0)>>), IfTag(<<"none">>, <<VarTag(K("paper"), Book0)>>),
     El("b", <<>>, <<VarTag(K("paper"), K("thesis"))>>), TextTag(PaperTitle),
     [is |-> "html", key |-> K("first")], [is |-> "eval", expr |-> <<"2", "*", "roll">>]>>,
   \* exceptions, in a scope and in a loop
   <<Tag("block", <<VarTag(K("paper"), Book0), IfTag(<<"first">>, <<>>)>>)>>,
   <<ForTag(K("paper"), K("books"), <<TextTag(<<S("marks", <<"bio">>)>>)>>)>>,
   <<ForTag(K("town"), K("towns"), <<TextTag(K("town"))>>),
     El("a", <<TargetA("title", <<"roll">>, <<Literal("a"), [Literal("") EXCEPT !.is = "unmatched"]>>)>>, <<>>)>>}

MCPages == {[Tag("view", body) EXCEPT !.attrs = <<Plain("id", <<"v">>)>>] : body \in Bodies}

RECURSIVE WithinNode(_), HeightOf(_)
WithinNode(node) ==
  {node} \cup (IF node.is \in Parents THEN UNION {WithinNode(child) : child \in Range(node.children)} ELSE {})
HeightOf(node) ==
  1 + (IF node.is \in Parents THEN Max({0} \cup {HeightOf(child) : child \in Range(node.children)}) ELSE 0)

MCNode == UNION {WithinNode(page) : page \in MCPages}
MCHeight == [node \in MCNode |-> HeightOf(node)]

MCDocuments == "<b>Neel</b>" :> <<El("b", <<>>, <<[is |-> "pcdata", text |-> <<"Neel">>]>>)>>
=============================================================================
