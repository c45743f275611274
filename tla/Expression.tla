----------------------------- MODULE Expression ------------------------------
(***************************************************************************)
(* The expressions of a view (includes/udho/parser.h: token, tokenize and  *)
(* expression), evaluated as int, over a lookup table and the data.        *)
(*                                                                         *)
(* An infix expression is the sequence of the words boost::tokenizer makes *)
(* of it: each of , + - * / % ( ) & | < > = is a word of its own.          *)
(***************************************************************************)
EXTENDS Scope, Access, SequencesExt

CONSTANTS
  KeyOf,     \* KeyOf[word]: the path a word is, if it has more than its name
  Largest    \* bound: the numbers have absolute values up to this

\* The texts lexical_cast reads as an int, and what it writes.
Numeral == {ToString(n) : n \in -Largest .. Largest}
IntOf == [text \in Numeral |-> CHOOSE n \in -Largest .. Largest : ToString(n) = text]

Key(word) ==
  IF word \in DOMAIN KeyOf THEN KeyOf[word] ELSE <<[name |-> word, at |-> <<>>]>>

-----------------------------------------------------------------------------
(* Tokens *)

FunctionNames == {"count", "not", "max", "min", "avg"}

Precedence ==
  [op \in {"&&", "||", "&", "|", "<=", ">=", "<", ">", "==", "=", "!=", "+", "-", "*", "/"} |->
     CASE op \in {"&&", "||", "&", "|"} -> 1
       [] op \in {"<=", ">=", "<", ">", "==", "=", "!="} -> 2
       [] op \in {"+", "-"} -> 3
       [] op \in {"*", "/"} -> 4]

\* token::create().
Token(word) ==
  [value |-> word,
   type |-> CASE word \in Numeral -> "real"
              [] word = "," -> "comma"
              [] word = "(" -> "open"
              [] word = ")" -> "close"
              [] word \in DOMAIN Precedence -> "op"
              [] word \in FunctionNames -> "function"
              [] OTHER -> "id"]

\* The words tokenize() takes together: there is no "!=" among them.
Joined(word, next) ==
  CASE <<word, next>> = <<"<", "=">> -> "<="
    [] <<word, next>> = <<">", "=">> -> ">="
    [] <<word, next>> = <<"=", "=">> -> "=="
    [] <<word, next>> = <<"&", "&">> -> "&&"
    [] <<word, next>> = <<"|", "|">> -> "||"
    [] OTHER -> ""

\* The tokens of the words, from word i on.
Tokenizing(words) ==
  LET from[i \in 1 .. Len(words) + 1] ==
        IF i > Len(words) THEN <<>>
        ELSE IF i < Len(words) /\ Joined(words[i], words[i + 1]) # ""
        THEN <<Token(Joined(words[i], words[i + 1]))>> \o from[i + 2]
        ELSE <<Token(words[i])>> \o from[i + 1]
  IN from

Tokenize(words) == Tokenizing(words)[1]

-----------------------------------------------------------------------------
(* rpn(): the output and the stack.  A comma is counted, but nothing asks   *)
(* how many there were.                                                    *)

\* Pops what lies above the highest of the places of the stack that stop it.
PopTo(s, stops) ==
  LET kept == Max({0} \cup stops)
  IN [s EXCEPT !.out = @ \o Reverse(SubSeq(s.stack, kept + 1, Len(s.stack))),
               !.stack = SubSeq(s.stack, 1, kept)]

\* The parenthesis on top goes, if there is one.
DropOpen(s) == [s EXCEPT !.stack = IF @ = <<>> THEN <<>> ELSE Front(@)]

\* A function on top is called.
CallTop(s) ==
  IF s.stack # <<>> /\ Last(s.stack).type = "function"
  THEN [out |-> Append(s.out, [type |-> "call", value |-> Last(s.stack).value]),
        stack |-> Front(s.stack)]
  ELSE s

\* ")".
Close(s) == CallTop(DropOpen(PopTo(s, {i \in DOMAIN s.stack : s.stack[i].type = "open"})))

\* The places of a stack that an operator does not pop: what is there binds
\* less than a given precedence or is no operator.
Weaker(stack, least) ==
  {i \in DOMAIN stack : stack[i].type # "op" \/ Precedence[stack[i].value] < least}

\* Mutated: an operator does not pop those of its own precedence.
OperatorRight(s, t) ==
  [PopTo(s, Weaker(s.stack, Precedence[t.value] + 1)) EXCEPT !.stack = Append(@, t)]

Operator(s, t) ==
  [PopTo(s, Weaker(s.stack, Precedence[t.value])) EXCEPT !.stack = Append(@, t)]

Shunt(s, t) ==
  CASE t.type \in {"real", "id"} -> [s EXCEPT !.out = Append(@, t)]
    [] t.type \in {"function", "open"} -> [s EXCEPT !.stack = Append(@, t)]
    [] t.type = "comma" -> s
    [] t.type = "close" -> Close(s)
    [] t.type = "op" -> Operator(s, t)

\* The output and the stack behind the first i tokens.
Shunting(tokens) ==
  LET state[i \in 0 .. Len(tokens)] ==
        IF i = 0 THEN [out |-> <<>>, stack |-> <<>>] ELSE Shunt(state[i - 1], tokens[i])
  IN state

RpnOf(tokens) == PopTo(Shunting(tokens)[Len(tokens)], {}).out

Rpn(words) == RpnOf(Tokenize(words))

-----------------------------------------------------------------------------
(* evaluate() *)

\* std::divides<int>: undefined for 0.
Quotient(l, r) ==
  LET abs(n) == IF n < 0 THEN -n ELSE n
      q == abs(l) \div abs(r)
  IN IF (l < 0) = (r < 0) THEN q ELSE -q

Truth(holds) == IF holds THEN 1 ELSE 0

Apply(op, l, r) ==
  CASE op = "+" -> l + r
    [] op = "-" -> l - r
    [] op = "*" -> l * r
    [] op = "/" -> Quotient(l, r)
    [] op = "<" -> Truth(l < r)
    [] op = ">" -> Truth(l > r)
    [] op = "<=" -> Truth(l <= r)
    [] op = ">=" -> Truth(l >= r)
    [] op \in {"==", "="} -> Truth(l = r)

Number(n) == [outcome |-> "found", value |-> n]
Undefined == [outcome |-> "undefined"]

\* What the extractor of fetch<int>() makes of what was found: an id that is
\* missing or an object leaves it without a value.
Extracted(found) ==
  CASE found.outcome = "missing" -> Undefined
    [] found.outcome = "found" ->
         CASE found.of = "object" -> Undefined
           [] found.of = "leaf" /\ found.value \in Numeral -> Number(IntOf[found.value])
           [] OTHER -> Throws
    [] OTHER -> found

\* fetch<int>(): any token but a number and an id is T().
Fetch(t, group, token) ==
  CASE token.type = "real" -> Number(IntOf[token.value])
    [] token.type = "id" -> Extracted(FindIn(group, Lookup(t, Key(token.value))))
    [] OTHER -> Number(0)

\* count(): of the key as it stands, an alias is not looked up.
Count(group, token) ==
  IF token.type = "id" THEN CountIn(group, Key(token.value)) ELSE Number(0)

\* & and | fetch the right operand only if the left does not decide.
Junction(op, l, r) ==
  LET decided == IF op \in {"&", "&&"} THEN l.value = 0 ELSE l.value # 0
  IN IF l.outcome # "found" THEN l
     ELSE IF decided THEN Number(Truth(op \in {"|", "||"}))
     ELSE IF r.outcome # "found" THEN r
     ELSE Number(Truth(r.value # 0))

\* An operator and its operands as they were fetched.
Binary(op, l, r) ==
  IF Precedence[op] = 1 THEN Junction(op, l, r)
  ELSE IF l.outcome # "found" THEN l
  ELSE IF r.outcome # "found" THEN r
  ELSE IF op = "/" /\ r.value = 0 THEN Undefined
  ELSE Number(Apply(op, l.value, r.value))

\* not().
Not(l) ==
  CASE l.outcome = "found" -> Number(Truth(l.value = 0))
    [] l.outcome = "out_of_range" -> Number(0)
    [] OTHER -> l

\* A call takes one operand, however many it has; max, min and avg have no
\* result.
Call(t, group, name, operand) ==
  CASE name = "count" -> Count(group, operand)
    [] name = "not" -> Not(Fetch(t, group, operand))
    [] OTHER -> Undefined

Arity(token) == IF token.type = "op" THEN 2 ELSE 1

\* The result takes the place of the operands; what does not end well stays.
Replaced(s, arity, result) ==
  IF result.outcome # "found" THEN [s EXCEPT !.outcome = result.outcome]
  ELSE [s EXCEPT !.stack = Append(SubSeq(@, 1, Len(@) - arity), Token(ToString(result.value)))]

\* One token of the rpn on the stack of tokens.
Step(t, group, s, token) ==
  LET n == Len(s.stack)
  IN CASE s.outcome # "found" -> s
       [] s.outcome = "found" /\ token.type \notin {"op", "call"} ->
            [s EXCEPT !.stack = Append(@, token)]
       [] s.outcome = "found" /\ token.type \in {"op", "call"} /\ n < Arity(token) ->
            [s EXCEPT !.outcome = "undefined"]
       [] OTHER ->
            Replaced(s, Arity(token),
              IF token.type = "op"
              THEN Binary(token.value, Fetch(t, group, s.stack[n - 1]), Fetch(t, group, s.stack[n]))
              ELSE Call(t, group, token.value, s.stack[n]))

\* The value of what is on top in the end.
Topmost(t, group, s) ==
  CASE s.outcome # "found" -> [outcome |-> s.outcome]
    [] s.outcome = "found" /\ s.stack = <<>> -> Undefined
    [] OTHER -> Fetch(t, group, Last(s.stack))

\* The stack behind the first i tokens.
Running(t, group, rpn) ==
  LET state[i \in 0 .. Len(rpn)] ==
        IF i = 0 THEN [outcome |-> "found", stack |-> <<>>]
        ELSE Step(t, group, state[i - 1], rpn[i])
  IN state

Result(t, group, rpn) == Topmost(t, group, Running(t, group, rpn)[Len(rpn)])

Evaluate(t, group, words) == Result(t, group, Rpn(words))
=============================================================================
