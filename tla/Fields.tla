------------------------------- MODULE Fields --------------------------------
(***************************************************************************)
(* The fields of a form and their validation (includes/udho/forms.h:       *)
(* field<T, Required>, constrained_field, accumulated and validated).      *)
(*                                                                         *)
(* A callable declares fields, constrains them, reads them from the forms  *)
(* of a request and adds them to one accumulated object, in any order.  A  *)
(* field object keeps what it fetched first; constrain() makes a copy of   *)
(* it with one more constraint.                                            *)
(***************************************************************************)
EXTENDS FormBody

CONSTANTS
  Form,          \* the forms a callable has: the query, ctx.form(), ...
  Requests,      \* what the forms may be made from: functions on Form
  Object,        \* the field objects of the callable
  Declarations,  \* what it declares them to be: the kinds and the chains of constraints
  Constraint,    \* the constraints it puts on them
  Later,         \* those it adds to a field it has declared
  Wordings,      \* the messages it gives to a constraint afterwards
  Calls,         \* bound: how many calls it makes
  None

ASSUME FieldsAssumption ==
  /\ None \notin Form
  /\ Calls \in Nat
  /\ Later \subseteq Constraint
  /\ Wordings \subseteq STRING
  /\ \A c \in Constraint : "says" \in DOMAIN c /\ c.says \in STRING
  /\ \A d \in Declarations :
       /\ d.chain \in [Object -> Seq(Constraint)]
       /\ DOMAIN d.kind = Object
       /\ \A o \in Object : d.kind[o] # None =>
            /\ d.kind[o].name # <<>> /\ d.kind[o].type \in Type
            /\ d.kind[o].absent \in STRING /\ d.kind[o].unparsable \in STRING

VARIABLES
  request,   \* request[f]: what form f was made from
  form,      \* form[f]: what its driver has read
  kind,      \* kind[o]: the name, the type, the default (as a text) and the wording of field o, or None
  chain,     \* chain[o]: its constraints, the first is the innermost
  data,      \* data[o]: its field_data
  acc,       \* the accumulated object
  calls,     \* calls made so far
  source,    \* history: the form that field o was fetched from, or None
  ran,       \* history: how many constraints of o it was validated with
  through    \* history: the fields that went through validated::add()

vars == <<request, form, kind, chain, data, acc, calls, source, ran, through>>

-----------------------------------------------------------------------------
(* Constraints *)

\* The comparisons of a number.
AcceptsNumber(c, value) ==
  CASE c.is = "gte" -> value >= c.than
    [] c.is = "gt" -> value > c.than
    [] c.is = "lte" -> value <= c.than
    [] c.is = "lt" -> value < c.than
    [] c.is = "eq" -> value = c.than
    [] c.is = "neq" -> value # c.than
    [] c.is = "in" -> value \in c.than

\* Of a text gte, gt, lte, lt and length_eq compare the length.
AcceptsText(c, value) ==
  CASE c.is = "gte" -> Len(value) >= c.than
    [] c.is = "gt" -> Len(value) > c.than
    [] c.is = "lte" -> Len(value) <= c.than
    [] c.is = "lt" -> Len(value) < c.than
    [] c.is = "length_eq" -> Len(value) = c.than
    [] c.is = "eq" -> value = c.than
    [] c.is = "neq" -> value # c.than
    [] c.is = "in" -> value \in c.than
    [] c.is = "all_digits" -> \A i \in DOMAIN value : <<value[i]>> \in DOMAIN Number
    [] c.is = "no_space" -> \A i \in DOMAIN value : value[i] # " "

Accepts(c, type, value) ==
  IF type.is = "text" THEN AcceptsText(c, value) ELSE AcceptsNumber(c, value)

\* The constraints of a chain that a value violates.
Violated(constraints, type, value) ==
  {i \in DOMAIN constraints : ~Accepts(constraints[i], type, value)}

-----------------------------------------------------------------------------
(* Fields *)

New == [absent |-> TRUE, unparsable |-> TRUE, fetched |-> FALSE, valid |-> TRUE,
        message |-> "", value |-> Unset]

\* The message of a field whose value cannot be read.
Malformed(k) == IF k.unparsable = "" THEN k.absent ELSE k.unparsable

\* field<T, true>::fetch() and field<T, false>::fetch() of a field not fetched
\* yet: an optional field that is absent gets its default and stays valid.
FetchNow(d, k, f) ==
  LET has == Has(form[f], k.name)
      got == FieldOf(request[f].driver, form[f], k.name, k.type)
  IN CASE has -> [absent |-> FALSE, unparsable |-> ~got.okay, fetched |-> TRUE,
                  valid |-> got.okay, value |-> got.value,
                  message |-> IF got.okay THEN d.message ELSE Malformed(k)]
       [] ~has /\ k.required -> [d EXCEPT !.absent = TRUE, !.fetched = TRUE,
                                          !.valid = FALSE, !.message = k.absent]
       [] ~has /\ ~k.required -> [d EXCEPT !.absent = TRUE, !.fetched = TRUE,
                                           !.valid = TRUE,
                                           !.value = Value(k.type, k.default)]

\* Mutated: a field is fetched whenever it is read.
FetchAgain(d, k, f) == FetchNow(d, k, f)

Fetch(d, k, f) == IF d.fetched THEN d ELSE FetchNow(d, k, f)

\* Mutated: the default of an optional field that is absent is validated too.
ValidateAbsent(d, k, constraints) ==
  LET violated == Violated(constraints, k.type, d.value)
  IN IF ~d.valid \/ violated = {} THEN d
     ELSE [d EXCEPT !.valid = FALSE, !.message = constraints[Min(violated)].says]

\* Mutated: the constraint that was added last is asked first.
ValidateOutermost(d, k, constraints) ==
  LET violated == Violated(constraints, k.type, d.value)
  IN IF ~d.valid \/ d.absent THEN d
     ELSE IF violated = {} THEN d
     ELSE [d EXCEPT !.valid = FALSE, !.message = constraints[Max(violated)].says]

\* basic_field::validate() with each constraint, the innermost first: nothing
\* is asked of a field that is absent or not valid, the first constraint that
\* is violated makes it so.
Validate(d, k, constraints) ==
  LET violated == Violated(constraints, k.type, d.value)
  IN IF ~d.valid \/ d.absent THEN d
     ELSE IF violated = {} THEN d
     ELSE [d EXCEPT !.valid = FALSE, !.message = constraints[Min(violated)].says]

\* form >> field.
Extracted(o, f) == Validate(Fetch(data[o], kind[o], f), kind[o], chain[o])

-----------------------------------------------------------------------------
(* accumulated *)

Empty == [valid |-> TRUE, submitted |-> FALSE, errors |-> <<>>, fields |-> <<>>]

\* Mutated: the verdict is that of the field added last.
AddedLast(a, k, constrained, d) ==
  [valid |-> d.valid,
   submitted |-> a.submitted \/ (constrained /\ d.fetched),
   errors |-> IF d.valid THEN a.errors ELSE Append(a.errors, d.message),
   fields |-> IF k.name \in DOMAIN a.fields THEN a.fields
              ELSE [n \in DOMAIN a.fields \cup {k.name} |->
                      IF n = k.name THEN d ELSE a.fields[n]]]

\* add(): a field without constraints is not looked at for _submitted; of two
\* fields with one name the first stays in _fields.
Added(a, k, constrained, d) ==
  [valid |-> a.valid /\ d.valid,
   submitted |-> a.submitted \/ (constrained /\ d.fetched),
   errors |-> IF d.valid THEN a.errors ELSE Append(a.errors, d.message),
   fields |-> IF k.name \in DOMAIN a.fields THEN a.fields
              ELSE [n \in DOMAIN a.fields \cup {k.name} |->
                      IF n = k.name THEN d ELSE a.fields[n]]]

-----------------------------------------------------------------------------
Init ==
  /\ request \in Requests
  /\ form = [f \in Form |-> Driven(request[f])]
  /\ \E declared \in Declarations : kind = declared.kind /\ chain = declared.chain
  /\ data = [o \in Object |-> New]
  /\ acc = Empty
  /\ calls = 0
  /\ source = [o \in Object |-> None]
  /\ ran = [o \in Object |-> 0]
  /\ through = {}

Call ==
  /\ calls < Calls
  /\ calls' = calls + 1
  /\ UNCHANGED <<request, form>>

Declared(o) == kind[o] # None

\* o.constrain(c): p is a copy of o, with what o has fetched, and c around it.
Constrain(o, c, p) ==
  /\ Call
  /\ Declared(o) /\ ~Declared(p)
  /\ kind' = [kind EXCEPT ![p] = kind[o]]
  /\ chain' = [chain EXCEPT ![p] = Append(chain[o], c)]
  /\ data' = [data EXCEPT ![p] = data[o]]
  /\ source' = [source EXCEPT ![p] = source[o]]
  /\ ran' = [ran EXCEPT ![p] = ran[o]]
  /\ UNCHANGED <<acc, through>>

\* o.constrain<i>().error(says), before the field is read.
Reword(o, i, says) ==
  /\ Call
  /\ ~data[o].fetched
  /\ i \in DOMAIN chain[o]
  /\ chain' = [chain EXCEPT ![o][i].says = says]
  /\ UNCHANGED <<kind, data, acc, source, ran, through>>

ReadInto(o, f) ==
  /\ Call
  /\ Declared(o)
  /\ form[f].outcome = "read"
  /\ data' = [data EXCEPT ![o] = Extracted(o, f)]
  /\ source' = [source EXCEPT ![o] = IF data[o].fetched THEN @ ELSE f]
  /\ ran' = [ran EXCEPT ![o] = Len(chain[o])]
  /\ UNCHANGED <<kind, chain>>

\* form >> o.
Extract(o, f) == ReadInto(o, f) /\ UNCHANGED <<acc, through>>

\* validated >> o, where validated was made from form f.
ReadAndAdd(o, f) ==
  /\ ReadInto(o, f)
  /\ acc' = Added(acc, kind[o], chain[o] # <<>>, data'[o])
  /\ through' = through \cup {o}

\* acc << o, whether it was read or not.
Accumulate(o) ==
  /\ Call
  /\ Declared(o)
  /\ acc' = Added(acc, kind[o], chain[o] # <<>>, data[o])
  /\ UNCHANGED <<kind, chain, data, source, ran, through>>

\* The errors of the application do not make the form invalid.
AddError(says) ==
  /\ Call
  /\ acc' = [acc EXCEPT !.errors = Append(@, says)]
  /\ UNCHANGED <<kind, chain, data, source, ran, through>>

\* The callable returns.
Done == calls = Calls /\ UNCHANGED vars

Next ==
  \/ \E o \in Object : \E c \in Later, p \in Object : Constrain(o, c, p)
  \/ \E o \in Object : \E says \in Wordings : \E i \in DOMAIN chain[o] : Reword(o, i, says)
  \/ \E o \in Object, f \in Form : Extract(o, f) \/ ReadAndAdd(o, f)
  \/ \E o \in Object : Accumulate(o)
  \/ \E says \in Wordings : AddError(says)
  \/ Done

Spec == Init /\ [][Next]_vars
=============================================================================
