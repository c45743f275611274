------------------------------ MODULE FormBody -------------------------------
(***************************************************************************)
(* Reading the body of a submitted form (includes/udho/forms.h: the        *)
(* drivers urlencoded_, multipart_ and combo, and form::field()).          *)
(*                                                                         *)
(* A body is a sequence of characters; a word of a name or a value, a key  *)
(* of a header and the boundary of a multipart body stand for one          *)
(* character each.  Iterators are positions, Len(s) + 1 is end().          *)
(***************************************************************************)
EXTENDS Integers, Sequences, FiniteSetsExt

CONSTANTS
  Boundary,     \* "--" and the boundary of the request, one character here
  Number,       \* Number[text]: the texts lexical_cast reads as a number
  Moment,       \* Moment[format][text]: the texts get_time() reads under a format
  Unset         \* no value yet

\* default_datetime_format.
DefaultFormat == "default"

-----------------------------------------------------------------------------
(* Searching *)

End(s) == Len(s) + 1

\* std::find() and _search() in [from, to).
Find(s, from, to, ch) == Min({i \in from .. to - 1 : s[i] = ch} \cup {to})

Search(s, from, to, pattern) ==
  Min({i \in from .. to - Len(pattern) :
         \A k \in DOMAIN pattern : s[i + k - 1] = pattern[k]} \cup {to})

Slice(s, from, to) == SubSeq(s, from, to - 1)

\* bounded_str: a text and its std::distance(), which an inverted range has too.
Bounded(s, from, to) == [text |-> Slice(s, from, to), size |-> to - from]

\* boost::trim_copy().
Trim(text) ==
  LET ink == {i \in DOMAIN text : text[i] \notin {" ", "\r", "\n"}}
  IN IF ink = {} THEN <<>> ELSE SubSeq(text, Min(ink), Max(ink))

-----------------------------------------------------------------------------
(* What a driver has read: the outcome of parse() and its fields *)

Read(fields) == [outcome |-> "read", fields |-> fields]
Nothing == Read(<<>>)
Throws == [outcome |-> "throws", fields |-> <<>>]
Undefined == [outcome |-> "undefined", fields |-> <<>>]

\* std::map::insert() keeps the first of the entries with one key.
FirstOf(entries, inserted) ==
  [key \in {entries[i].key : i \in inserted} |->
     entries[Min({i \in inserted : entries[i].key = key})].value]

\* Mutated: the last of the entries with one key.
LastOfEach(entries) ==
  [key \in {entries[i].key : i \in DOMAIN entries} |->
     entries[Max({i \in DOMAIN entries : entries[i].key = key})].value]

FirstOfEach(entries) == FirstOf(entries, DOMAIN entries)

\* The positions of a set in ascending order.
Ascending(S) ==
  [i \in 1 .. Cardinality(S) |-> CHOOSE p \in S : Cardinality({q \in S : q < p}) = i - 1]

(***************************************************************************)
(* urlencoded_::parse(): a field from each '&' to the next.  Without a '=' *)
(* the value begins behind its end: nothing is copied from it, but its     *)
(* size is not 0.  Nothing is decoded.                                     *)
(***************************************************************************)
UrlencodedField(s, begin) ==
  LET it == Find(s, begin, End(s), "&")
      assign == Find(s, begin, it, "=")
  IN [key |-> Slice(s, begin, assign), value |-> Bounded(s, assign + 1, it)]

Urlencoded(s) ==
  LET begins == Ascending({1} \cup {i + 1 : i \in {j \in DOMAIN s : s[j] = "&"}})
  IN Read(FirstOfEach([i \in DOMAIN begins |-> UrlencodedField(s, begins[i])]))

-----------------------------------------------------------------------------
(* multipart_ *)

Crlf == <<"\r", "\n">>

(***************************************************************************)
(* parse_part(): the lines up to an empty one are headers.  The end of the *)
(* last line of the headers is the first CRLF that another CRLF, or the    *)
(* end of the part, follows; without one the search runs past the part.    *)
(***************************************************************************)
LineEnds(s, begin, end) ==
  {p \in begin .. end - 2 : SubSeq(s, p, p + 1) = Crlf}

HeaderEnds(s, begin, end) ==
  {p \in LineEnds(s, begin, end) :
     p + 2 = end \/ p + 2 \in LineEnds(s, begin, end)}

HeaderLine(s, from, to) ==
  LET colon == Find(s, from, to, ":")
      text == {i \in colon + 1 .. to - 1 : s[i] # " "}
  IN [named |-> colon # to,
      key |-> Slice(s, from, colon),
      value |-> Slice(s, Min(text \cup {to}), to)]

Headers(s, begin, last) ==
  LET ends == Ascending({p \in LineEnds(s, begin, last + 2) : p <= last})
      lines == [i \in DOMAIN ends |->
                  HeaderLine(s, IF i = 1 THEN begin ELSE ends[i - 1] + 2, ends[i])]
  IN FirstOf(lines, {i \in DOMAIN lines : lines[i].named})

\* Mutated: the name ends with the value of the header, not at its ';'.
HeaderPartWhole(value, sub) ==
  LET begin == Search(value, 1, End(value), sub)
      quote == Find(value, begin, End(value), "\"")
  IN IF quote = End(value) THEN Slice(value, begin, End(value))
     ELSE Slice(value, quote + 1, End(value))

\* form_part::header(key, sub): the quoted text behind "sub" up to a ';', or
\* "sub" and all that follows when there is no quote.
HeaderPart(value, sub) ==
  LET begin == Search(value, 1, End(value), sub)
      end == Find(value, begin, End(value), ";")
      quote == Find(value, begin, end, "\"")
  IN IF quote = end THEN Slice(value, begin, end)
     ELSE Slice(value, quote + 1, Find(value, quote + 1, end, "\""))

\* The part in [begin, end): its name and its body, which leaves out the CRLF
\* in front of the boundary; _headers.at() throws without the header.
Part(s, begin, end) ==
  IF HeaderEnds(s, begin, end) = {} THEN Undefined
  ELSE LET last == Min(HeaderEnds(s, begin, end))
           headers == Headers(s, begin, last)
       IN IF <<"Content-Disposition">> \notin DOMAIN headers THEN Throws
          ELSE [outcome |-> "read",
                key |-> HeaderPart(headers[<<"Content-Disposition">>], <<"name=">>),
                value |-> Bounded(s, last + 4, end - 2)]

(***************************************************************************)
(* multipart_::parse(): a part between each boundary and the next.  A body *)
(* without a boundary is searched from behind its end.                     *)
(***************************************************************************)
Multipart(s) ==
  LET at == Ascending({i \in DOMAIN s : s[i] = Boundary})
      parts == [i \in 1 .. Len(at) - 1 |-> Part(s, at[i] + 3, at[i + 1])]
      bad == {i \in DOMAIN parts : parts[i].outcome # "read"}
  IN CASE at = <<>> -> Undefined
       [] at # <<>> /\ bad # {} -> parts[Min(bad)]
       [] OTHER -> Read(FirstOfEach(parts))

(***************************************************************************)
(* The driver of a form: a query string is read as urlencoded, ctx.form()  *)
(* is a combo, form_multipart() a multipart.  A combo reads a multipart    *)
(* body, but its _type stays "unparsed", and then it has no fields.        *)
(***************************************************************************)
Combo(r) ==
  CASE r.content = "urlencoded" -> Urlencoded(r.body)
    [] r.content = "multipart" /\ r.bounded ->
         IF Multipart(r.body).outcome = "read" THEN Nothing ELSE Multipart(r.body)
    [] OTHER -> Nothing

Driven(r) ==
  CASE r.driver = "query" -> Urlencoded(r.body)
    [] r.driver = "combo" -> Combo(r)
    [] r.driver = "multipart" -> IF r.bounded THEN Multipart(r.body) ELSE Nothing

-----------------------------------------------------------------------------
(* form::has() and form::field(): what a form answers for a name *)

\* The types of fields; the text of a time has a format.
Type == [is : {"text", "number"}] \cup [is : {"time"}, format : STRING]

\* deserializer::check() and deserialize().
Reads(type, text) ==
  CASE type.is = "text" -> TRUE
    [] type.is = "number" -> text \in DOMAIN Number
    [] type.is = "time" -> text \in DOMAIN Moment[type.format]

Value(type, text) ==
  CASE type.is = "text" -> text
    [] type.is = "number" -> Number[text]
    [] type.is = "time" -> Moment[type.format][text]

\* T().
Blank(type) == IF type.is = "text" THEN <<>> ELSE 0

\* A part is trimmed, a field of a query or an urlencoded body is not.
Text(driver, field) == IF driver = "multipart" THEN Trim(field.text) ELSE field.text

\* form_part::parsed() tries the default format, whichever it is given.
Parsed(driver, type, text) ==
  IF driver = "multipart" /\ type.is = "time" /\ ~Reads([type EXCEPT !.format = DefaultFormat], text)
  THEN Blank(type)
  ELSE Value(type, text)

Has(driven, name) == name \in DOMAIN driven.fields

\* Mutated: the test for an empty field is missing.
FieldOfEmpty(driver, driven, name, type) ==
  LET field == driven.fields[name]
      text == Text(driver, field)
  IN IF Reads(type, text)
     THEN [okay |-> TRUE, value |-> Parsed(driver, type, text)]
     ELSE [okay |-> FALSE, value |-> Blank(type)]

FieldOf(driver, driven, name, type) ==
  LET field == driven.fields[name]
      text == Text(driver, field)
  IN IF Reads(type, text) /\ field.size # 0
     THEN [okay |-> TRUE, value |-> Parsed(driver, type, text)]
     ELSE [okay |-> FALSE, value |-> Blank(type)]
=============================================================================
