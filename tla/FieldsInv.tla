------------------------------ MODULE FieldsInv ------------------------------
(***************************************************************************)
(* What the validation of a form promises, and the inductive invariant of  *)
(* Fields.                                                                 *)
(***************************************************************************)
EXTENDS Fields

-----------------------------------------------------------------------------
(* What is right for a field, said of the form it was fetched from *)

Given(o) == Has(form[source[o]], kind[o].name)

Got(o) == FieldOf(request[source[o]].driver, form[source[o]], kind[o].name, kind[o].type)

\* The value of field o violates constraint i of its chain.
Breaks(o, i) == ~Accepts(chain[o][i], kind[o].type, Got(o).value)

\* The form gives field o what its declaration and its first n constraints ask.
Right(o, n) ==
  IF Given(o) THEN Got(o).okay /\ \A i \in 1 .. n : ~Breaks(o, i) ELSE ~kind[o].required

\* The message that says why it does not: the first thing that is wrong.
Explains(o, n, message) ==
  CASE ~Given(o) -> message = kind[o].absent
    [] Given(o) /\ ~Got(o).okay -> message = Malformed(kind[o])
    [] Given(o) /\ Got(o).okay ->
         \E i \in 1 .. n : /\ Breaks(o, i)
                           /\ \A j \in 1 .. i - 1 : ~Breaks(o, j)
                           /\ message = chain[o][i].says

-----------------------------------------------------------------------------
\* What a user reads, or nothing.
Message == STRING \cup {""}

\* A record of a field, and one of accumulated.
IsData(d) ==
  /\ d = [absent |-> d.absent, unparsable |-> d.unparsable, fetched |-> d.fetched,
          valid |-> d.valid, message |-> d.message, value |-> d.value]
  /\ d.absent \in BOOLEAN /\ d.unparsable \in BOOLEAN
  /\ d.fetched \in BOOLEAN /\ d.valid \in BOOLEAN
  /\ d.message \in Message

IsAccumulated(a) ==
  /\ a = [valid |-> a.valid, submitted |-> a.submitted, errors |-> a.errors,
          fields |-> a.fields]
  /\ a.valid \in BOOLEAN
  /\ a.errors \in Seq(Message)

\* The constraints with the messages they may be given.
Worded == Constraint \cup {[c EXCEPT !.says = says] : c \in Constraint, says \in Wordings}

TypeOK ==
  /\ request \in Requests
  /\ DOMAIN kind = Object
  /\ \A o \in Object : Declared(o) =>
       /\ kind[o].name # <<>> /\ kind[o].type \in Type
       /\ kind[o].absent \in STRING /\ kind[o].unparsable \in STRING
  /\ chain \in [Object -> Seq(Worded)]
  /\ DOMAIN data = Object /\ \A o \in Object : IsData(data[o])
  /\ IsAccumulated(acc)
  /\ calls \in 0 .. Calls
  /\ source \in [Object -> Form \cup {None}]
  /\ ran \in [Object -> Nat]
  /\ through \subseteq Object

\* A field that was fetched is valid exactly when the form it was fetched from
\* gives it what its declaration and the constraints it was validated with
\* ask, however often and from whatever forms it is read, and however it was
\* copied; else its message names the first thing that is wrong: field::fetch(),
\* basic_field::validate() and the chain of constrained_field::validate().
FirstFailureExplains ==
  \A o \in Object : Declared(o) /\ data[o].fetched =>
    /\ data[o].valid <=> Right(o, ran[o])
    /\ ~data[o].valid => Explains(o, ran[o], data[o].message)

\* If the verdict of accumulated is that the form is valid, every field that
\* went through validated is as its declaration and all its constraints ask;
\* if one is not, its message is among the errors: validated::add() and
\* accumulated::add().
VerdictHolds ==
  \A o \in through :
    \/ Right(o, Len(chain[o]))
    \/ ~acc.valid /\ \E i \in DOMAIN acc.errors : Explains(o, Len(chain[o]), acc.errors[i])

\* What field o holds is what its form gave, judged by the constraints it was
\* validated with.
FieldOK(o) ==
  data[o].fetched =>
    /\ Declared(o) /\ source[o] \in Form
    /\ ran[o] <= Len(chain[o])
    /\ data[o].absent <=> ~Given(o)
    /\ Given(o) => data[o].value = Got(o).value /\ (data[o].unparsable <=> ~Got(o).okay)
    /\ data[o].valid <=> Right(o, ran[o])
    /\ ~data[o].valid => Explains(o, ran[o], data[o].message)

\* A field that went through validated was validated with its whole chain, and
\* if it is not valid, the verdict and the errors know.
VerdictOK ==
  \A o \in through :
    /\ data[o].fetched
    /\ ran[o] = Len(chain[o])
    /\ data[o].valid \/ (~acc.valid /\ \E i \in DOMAIN acc.errors : acc.errors[i] = data[o].message)

\* A form is what its driver has read of its body, once.
FormsAreRead == form = [f \in Form |-> Driven(request[f])]

\* Type correctness, what every field holds and what accumulated knows of it:
\* what fetch(), validate(), constrain() and add() preserve.
IInv ==
  /\ TypeOK
  /\ FormsAreRead
  /\ \A o \in Object : FieldOK(o)
  /\ VerdictOK

\* The value a field once fetched is there to stay, from whatever form it is
\* read again, and a field that is not valid is not touched again: the early
\* return of field::fetch() and the guard of basic_field::validate().
FetchedOnce ==
  [][\A o \in Object : data[o].fetched =>
       /\ data'[o] = [data[o] EXCEPT !.valid = data'[o].valid, !.message = data'[o].message]
       /\ ~data[o].valid => data'[o] = data[o]
       /\ source'[o] = source[o]]_vars

-----------------------------------------------------------------------------
(* What the browser has sent: pairs of a name and a text, in a body that    *)
(* they determine.                                                         *)

\* The characters of a text are none of a set.
Avoids(text, characters) == \A k \in DOMAIN text : text[k] \notin characters

\* An urlencoded body: pair i begins at at[i], a '&' is between two pairs.
UrlencodedAt(body, sent, at) ==
  /\ at[1] = 1 /\ at[Len(sent) + 1] = Len(body) + 2
  /\ \A i \in DOMAIN sent :
       LET name == sent[i].name
           text == sent[i].text
           end == at[i + 1] - 1
       IN /\ Avoids(name, {"&", "="}) /\ Avoids(text, {"&"})
          /\ end = at[i] + Len(name) + 1 + Len(text)
          /\ Slice(body, at[i], end) = name \o <<"=">> \o text
          /\ end <= Len(body) => body[end] = "&"

PartIntro == <<"Content-Disposition", ":", " ", "form-data", ";", " ", "name=", "\"">>

\* A multipart body: part i has its boundary at at[i].  The first line of its
\* head tells the name; more parameters and lines may follow, up to the first
\* empty line.
MultipartAt(body, sent, at) ==
  /\ \A p \in DOMAIN body : body[p] = Boundary => \E i \in DOMAIN at : at[i] = p
  /\ \A i \in DOMAIN sent :
       LET name == sent[i].name
           text == sent[i].text
           head == at[i] + 3
           empty == at[i + 1] - 6 - Len(text)
       IN /\ Avoids(name, {"\"", ";", "\r"})
          /\ head + 9 + Len(name) <= empty
          /\ Slice(body, head - 2, head) = Crlf
          /\ Slice(body, head, head + 9 + Len(name)) = PartIntro \o name \o <<"\"">>
          /\ \A p \in head .. empty : Slice(body, p, p + 4) = Crlf \o Crlf <=> p = empty
          /\ Slice(body, empty + 4, at[i + 1]) = text \o Crlf

\* The places where a pair may begin, or would after the last.
Begins(body) == {1, Len(body) + 2} \cup {p + 1 : p \in {q \in DOMAIN body : body[q] = "&"}}
Boundaries(body) == {p \in DOMAIN body : body[p] = Boundary}

IsUrlencoded(body, sent) ==
  IF sent = <<>> THEN body = <<>>
  ELSE \E at \in [1 .. Len(sent) + 1 -> Begins(body)] : UrlencodedAt(body, sent, at)

IsMultipart(body, sent) ==
  \E at \in [1 .. Len(sent) + 1 -> Boundaries(body)] : MultipartAt(body, sent, at)

\* The body of a request is of its content type; a query is urlencoded.
AsSent(r) ==
  /\ r.sent \in Seq([name : Seq(STRING), text : Seq(STRING)])
  /\ r.body \in Seq(STRING)
  /\ \/ r.driver = "query" /\ IsUrlencoded(r.body, r.sent)
     \/ r.driver = "combo" /\ r.content = "urlencoded" /\ IsUrlencoded(r.body, r.sent)
     \/ /\ r.driver \in {"combo", "multipart"} /\ r.content = "multipart" /\ r.bounded
        /\ IsMultipart(r.body, r.sent)

ASSUME RequestsAssumption ==
  \A made \in Requests : \A f \in Form : made[f].sent # None => AsSent(made[f])

-----------------------------------------------------------------------------
\* The pairs of a name.
Named(r, name) == {i \in DOMAIN r.sent : r.sent[i].name = name}

\* A part is trimmed.
Seen(r, text) == IF r.driver = "multipart" THEN Trim(text) ELSE text

\* ctx.form() has no fields of a multipart body.
Served(r) == r.sent # None /\ ~(r.driver = "combo" /\ r.content = "multipart")

\* form_part::parsed() reads a time in the default format only.
Legible(r, type) ==
  r.driver = "multipart" /\ type.is = "time" => type.format = DefaultFormat

\* A field holds what the browser has sent first under its name, or is known
\* to be absent or not to be readable: urlencoded_::parse(), multipart_::parse(),
\* parse_part() and form::field().
SeesWhatWasSent ==
  \A o \in Object : Declared(o) /\ data[o].fetched =>
    LET r == request[source[o]]
        type == kind[o].type
        named == Named(r, kind[o].name)
    IN Served(r) /\ Legible(r, type) =>
         /\ data[o].absent <=> named = {}
         /\ named # {} =>
              LET text == r.sent[Min(named)].text IN
              IF text # <<>> /\ Reads(type, Seen(r, text))
              THEN ~data[o].unparsable /\ data[o].value = Value(type, Seen(r, text))
              ELSE data[o].unparsable

\* What a browser sends is read; in particular a multipart body has all its
\* fields behind ctx.form(), as sphinx/source/pages/form.rst:5 has it.
MultipartIsRead ==
  \A f \in Form : request[f].sent # None =>
    /\ form[f].outcome = "read"
    /\ \A i \in DOMAIN request[f].sent : Has(form[f], request[f].sent[i].name)
=============================================================================
