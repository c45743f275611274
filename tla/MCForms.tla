------------------------------- MODULE MCForms -------------------------------
(***************************************************************************)
(* Small instances of Fields: what a browser sends for a form, malformed   *)
(* bodies, and a few fields that a callable reads from them.               *)
(***************************************************************************)
EXTENDS FieldsInv, SequencesExt

MCBoundary == "--boundary"
MCNumber == (<<"2">> :> 2) @@ (<<"7">> :> 7)
MCMoment == [default |-> (<<"noon">> :> 12), iso |-> (<<"T12">> :> 12)]
MCForm == {"query", "body"}

-----------------------------------------------------------------------------
(* What a browser sends *)

Pair(name, text) == [name |-> name, text |-> text]

AsUrlencoded(pairs) ==
  FlattenSeq([i \in DOMAIN pairs |->
    (IF i = 1 THEN <<>> ELSE <<"&">>) \o pairs[i].name \o <<"=">> \o pairs[i].text])

AsMultipart(pairs) ==
  FlattenSeq([i \in DOMAIN pairs |->
    <<MCBoundary, "\r", "\n", "Content-Disposition", ":", " ", "form-data", ";", " ",
      "name=", "\"">> \o pairs[i].name \o
    (IF Len(pairs[i].text) > 1
     THEN <<"\"", ";", " ", "file", "name=", "\"", "f", "\"", "\r", "\n", "Content-Type", ":", " ", "text">>
     ELSE <<"\"">>) \o
    <<"\r", "\n", "\r", "\n">> \o pairs[i].text \o <<"\r", "\n">>])
  \o <<MCBoundary, "-", "-", "\r", "\n">>

Query(pairs) ==
  [driver |-> "query", content |-> "none", bounded |-> FALSE,
   body |-> AsUrlencoded(pairs), sent |-> pairs]

Body(driver, pairs) ==
  IF driver = "combo"
  THEN [driver |-> "combo", content |-> "urlencoded", bounded |-> FALSE,
        body |-> AsUrlencoded(pairs), sent |-> pairs]
  ELSE [driver |-> "multipart", content |-> "multipart", bounded |-> TRUE,
        body |-> AsMultipart(pairs), sent |-> pairs]

\* A multipart body that is read through ctx.form().
Mixed(pairs) == [Body("multipart", pairs) EXCEPT !.driver = "combo"]

\* Bodies no browser sends.
Odd(driver, body) ==
  [driver |-> driver, content |-> IF driver = "multipart" THEN "multipart" ELSE "urlencoded",
   bounded |-> TRUE, body |-> body, sent |-> None]

OnePart(lines) == <<MCBoundary, "\r", "\n">> \o lines \o <<MCBoundary, "-", "-">>

OddRequests ==
  {Odd("query", <<>>), Odd("query", <<"n">>), Odd("query", <<"n", "&", "&", "t", "=", "=">>),
   Odd("combo", <<"n", "&", "n", "=", "2">>),
   [Odd("multipart", <<>>) EXCEPT !.bounded = FALSE],
   Odd("multipart", <<>>),
   Odd("multipart", OnePart(<<"Content-Disposition", ":", "name=", "n", "\r", "\n", "\r", "\n", "2", "\r", "\n">>)),
   Odd("multipart", OnePart(<<"Content-Disposition", ":", "name=", "\"", "n", "\"", "\r", "\n">>)),
   Odd("multipart", OnePart(<<"Content-Type", ":", "text", "\r", "\n", "\r", "\n", "2", "\r", "\n">>)),
   Odd("multipart", OnePart(<<"x">>)),
   [Odd("multipart", <<>>) EXCEPT !.driver = "combo"],
   [Odd("combo", <<>>) EXCEPT !.content = "none"]}

-----------------------------------------------------------------------------
(* The requests and the fields of the run *)

Texts == {<<>>, <<"2">>, <<"7">>, <<"x">>, <<"noon">>, <<"T12">>, <<"x", " ", "2">>, <<" ", "2">>}

Filled ==
  {<<>>} \cup
  {<<Pair(<<"n">>, a)>> : a \in Texts} \cup
  {<<Pair(<<"n">>, a), Pair(<<"t">>, b)>> : a \in Texts, b \in {<<>>, <<"7">>, <<"x", " ", "2">>}} \cup
  {<<Pair(<<"n">>, <<"2">>), Pair(<<"t">>, <<"x">>), Pair(<<"n">>, <<"7">>)>>}

MCRequests ==
  {[query |-> q, body |-> b] :
     q \in {Query(<<Pair(<<"n">>, <<"7">>)>>)},
     b \in {Body(d, pairs) : d \in {"combo", "multipart"}, pairs \in Filled} \cup OddRequests}

MixedRequests ==
  {[query |-> Query(<<>>), body |-> Mixed(pairs)] : pairs \in Filled}

A_Number == [name |-> <<"n">>, type |-> [is |-> "number"], required |-> TRUE,
             absent |-> "n absent", unparsable |-> "n malformed"]
A_Text == [name |-> <<"t">>, type |-> [is |-> "text"], required |-> FALSE,
           absent |-> "t absent", unparsable |-> "", default |-> <<"x">>]
A_Time(format, default) == [name |-> <<"n">>, type |-> [is |-> "time", format |-> format], required |-> FALSE,
                   absent |-> "n absent", unparsable |-> "n malformed", default |-> default]

C(is, than) == [is |-> is, than |-> than, says |-> is]

\* Two fields the callable declares, and room for a copy of one.
Declare(k1, chain1, k2, chain2) ==
  [kind |-> [o1 |-> k1, o2 |-> k2, o3 |-> None],
   chain |-> [o1 |-> chain1, o2 |-> chain2, o3 |-> <<>>]]

MCDeclarations ==
  {Declare(A_Number, <<C("gt", 3), C("lte", 5)>>, A_Text, <<>>),
   Declare(A_Number, <<C("lt", 7), C("eq", 2)>>, A_Text, <<C("no_space", 0), C("length_eq", 1)>>),
   Declare(A_Number, <<C("in", {2}), C("lt", 9)>>, A_Text, <<C("all_digits", 0), C("lt", 2)>>),
   Declare(A_Time("iso", <<"T12">>), <<C("gt", 12)>>, A_Text, <<C("neq", <<"x">>)>>),
   Declare(A_Time("default", <<"noon">>), <<>>, A_Text, <<C("gt", 1), C("lte", 2)>>)}

MCLater == {C("gte", 3)}

MCConstraint ==
  MCLater \cup UNION {UNION {{d.chain[o][i] : i \in DOMAIN d.chain[o]} : o \in DOMAIN d.chain} :
                       d \in MCDeclarations}
=============================================================================
