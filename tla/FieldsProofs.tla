---------------------------- MODULE FieldsProofs -----------------------------
(***************************************************************************)
(* Proofs about Fields, for every set of forms, requests, fields and       *)
(* constraints.  What a form answers (Driven, FieldOf) is opaque but for   *)
(* the type of its verdict up to the theorems on the verdict; the sections *)
(* behind them open it and prove what the drivers read of a body.          *)
(***************************************************************************)
EXTENDS FieldsInv, TLAPS, WellFoundedInduction, FiniteSetTheorems, SequenceTheorems

\* A nonempty set of naturals has a least element, so Min() finds it.
LEMMA MinExists ==
  ASSUME NEW S, S \subseteq Nat, S # {}
  PROVE  Min(S) \in S /\ \A j \in S : Min(S) <= j
<1>1. PICK m \in S : \A j \in S : ~(<<j, m>> \in OpToRel(<, Nat))
  BY NatLessThanWellFounded, WFMin
<1>2. \A j \in S : <<j, m>> \in Nat \X Nat /\ (j < m => <<j, m>> \in OpToRel(<, Nat))
  BY DEF OpToRel
<1>3. \A j \in S : j \in Nat /\ m \in Nat /\ ~(j < m)
  BY <1>1, <1>2
<1>4. \A j \in S : m <= j
  BY <1>3
<1>. QED
  BY <1>1, <1>4 DEF Min

LEMMA GotTypes ==
  ASSUME NEW driver, NEW driven, NEW name, NEW type
  PROVE  FieldOf(driver, driven, name, type).okay \in BOOLEAN
BY DEF FieldOf

\* Constraints may be given other messages, which are texts.
LEMMA WordedSays ==
  ASSUME NEW c \in Worded
  PROVE  "says" \in DOMAIN c /\ c.says \in STRING
BY FieldsAssumption DEF Worded

-----------------------------------------------------------------------------
(* What the operators on a field do *)

\* What validate() with the chain cs makes of the record d.
Judged(d, v, k, cs) ==
  /\ IsData(v)
  /\ v = [d EXCEPT !.valid = v.valid, !.message = v.message]
  /\ ~d.valid \/ d.absent => v = d
  /\ d.valid /\ ~d.absent =>
       /\ v.valid <=> \A i \in 1 .. Len(cs) : Accepts(cs[i], k.type, d.value)
       /\ ~v.valid => \E i \in 1 .. Len(cs) :
            /\ ~Accepts(cs[i], k.type, d.value)
            /\ \A j \in 1 .. i - 1 : Accepts(cs[j], k.type, d.value)
            /\ v.message = cs[i].says

LEMMA ValidateFacts ==
  ASSUME NEW d, IsData(d), NEW k, NEW cs \in Seq(Worded)
  PROVE  Judged(d, Validate(d, k, cs), k, cs)
<1> DEFINE bad == Violated(cs, k.type, d.value)
           v == Validate(d, k, cs)
<1>1. DOMAIN cs = 1 .. Len(cs) /\ Len(cs) \in Nat
  OBVIOUS
<1>2. bad = {i \in 1 .. Len(cs) : ~Accepts(cs[i], k.type, d.value)}
  BY <1>1 DEF Violated
<1>3. CASE ~d.valid \/ d.absent \/ bad = {}
  <2>1. v = d
    BY <1>3 DEF Validate
  <2>2. d = [d EXCEPT !.valid = d.valid, !.message = d.message]
    BY DEF IsData
  <2>3. d.valid /\ ~d.absent => \A i \in 1 .. Len(cs) : Accepts(cs[i], k.type, d.value)
    BY <1>2, <1>3
  <2>. QED
    BY <2>1, <2>2, <2>3 DEF Judged
<1>4. CASE d.valid /\ ~d.absent /\ bad # {}
  <2>1. bad \subseteq Nat
    BY <1>1, <1>2
  <2>2. PICK m \in bad : m = Min(bad) /\ \A j \in bad : m <= j
    BY <1>4, <2>1, MinExists
  <2>3. v = [d EXCEPT !.valid = FALSE, !.message = cs[m].says]
    BY <1>4, <2>2 DEF Validate
  <2>4. m \in 1 .. Len(cs) /\ ~Accepts(cs[m], k.type, d.value)
    BY <1>2, <2>2
  <2>5. \A j \in 1 .. m - 1 : Accepts(cs[j], k.type, d.value)
    BY <1>1, <1>2, <2>2, <2>4
  <2>6. cs[m].says \in Message
    <3>1. cs[m] \in Worded
      BY <2>4
    <3>. QED
      BY <3>1, WordedSays DEF Message
  <2>7. IsData(v) /\ ~v.valid /\ v.message = cs[m].says
        /\ v = [d EXCEPT !.valid = v.valid, !.message = v.message]
    BY <2>3, <2>6 DEF IsData
  <2>. HIDE DEF v, bad
  <2>8. Judged(d, v, k, cs)
    BY <1>4, <2>4, <2>5, <2>7 DEF Judged
  <2>. QED
    BY <2>8 DEF v
<1>. QED
  BY <1>3, <1>4 DEF IsData

\* What the first fetch() from form f makes of a record.
FetchedFrom(d, v, k, f) ==
  LET has == Has(form[f], k.name)
      got == FieldOf(request[f].driver, form[f], k.name, k.type)
  IN /\ IsData(v)
     /\ v.fetched
     /\ v.absent <=> ~has
     /\ has => v.value = got.value /\ (v.valid <=> got.okay) /\ (v.unparsable <=> ~got.okay)
     /\ has /\ ~got.okay => v.message = Malformed(k)
     /\ ~has => (v.valid <=> ~k.required)
     /\ ~has /\ k.required => v.message = k.absent

LEMMA FetchFacts ==
  ASSUME NEW d, IsData(d), NEW k, k.absent \in STRING, k.unparsable \in STRING, NEW f
  PROVE  FetchedFrom(d, FetchNow(d, k, f), k, f)
<1> DEFINE has == Has(form[f], k.name)
           got == FieldOf(request[f].driver, form[f], k.name, k.type)
           v == FetchNow(d, k, f)
<1>1. got.okay \in BOOLEAN
  BY GotTypes
<1>2. Malformed(k) \in Message /\ d.message \in Message
  BY DEF Malformed, IsData, Message
<1> HIDE DEF got, has
<1>3. CASE has
  <2>1. v = [absent |-> FALSE, unparsable |-> ~got.okay, fetched |-> TRUE,
             valid |-> got.okay, value |-> got.value,
             message |-> IF got.okay THEN d.message ELSE Malformed(k)]
    BY <1>3 DEF FetchNow, has, got
  <2>2. IsData(v)
    BY <1>1, <1>2, <2>1 DEF IsData
  <2>3. /\ v.fetched /\ ~v.absent /\ v.value = got.value
        /\ v.valid = got.okay /\ v.unparsable = ~got.okay
        /\ ~got.okay => v.message = Malformed(k)
    BY <1>1, <2>1
  <2>. HIDE DEF v
  <2>4. FetchedFrom(d, v, k, f)
    BY <1>1, <1>3, <2>2, <2>3 DEF FetchedFrom, has, got
  <2>. QED
    BY <2>4 DEF v
<1>4. CASE ~has /\ k.required
  <2>1. v = [d EXCEPT !.absent = TRUE, !.fetched = TRUE, !.valid = FALSE, !.message = k.absent]
    BY <1>4 DEF FetchNow, has
  <2>. QED
    BY <1>4, <2>1 DEF FetchedFrom, IsData, Message, has, got
<1>5. CASE ~has /\ ~k.required
  <2>1. v = [d EXCEPT !.absent = TRUE, !.fetched = TRUE, !.valid = TRUE,
                      !.value = Value(k.type, k.default)]
    BY <1>5 DEF FetchNow, has
  <2>. QED
    BY <1>5, <2>1 DEF FetchedFrom, IsData, has, got
<1>. QED
  BY <1>3, <1>4, <1>5

-----------------------------------------------------------------------------
(* The inductive invariant *)

LEMMA InitIInv ==
  ASSUME Init
  PROVE  IInv
<1>1. PICK d \in Declarations : kind = d.kind /\ chain = d.chain
  BY DEF Init
<1>2. TypeOK
  <2>1. chain \in [Object -> Seq(Worded)]
    <3>1. chain \in [Object -> Seq(Constraint)]
      BY <1>1, FieldsAssumption
    <3>2. Constraint \subseteq Worded
      BY DEF Worded
    <3>. QED
      BY <3>1, <3>2
  <2>2. /\ DOMAIN kind = Object
        /\ \A o \in Object : Declared(o) =>
             /\ kind[o].name # <<>> /\ kind[o].type \in Type
             /\ kind[o].absent \in STRING /\ kind[o].unparsable \in STRING
    BY <1>1, FieldsAssumption DEF Declared
  <2>3. IsData(New) /\ IsAccumulated(Empty)
    <3>1. <<>> \in Seq(Message) /\ "" \in Message
      BY DEF Message
    <3>2. IsData(New)
      BY <3>1 DEF IsData, New
    <3>. QED
      BY <3>1, <3>2 DEF IsAccumulated, Empty
  <2>4. calls \in 0 .. Calls
    BY FieldsAssumption DEF Init
  <2>. QED
    BY <2>1, <2>2, <2>3, <2>4 DEF Init, TypeOK
<1>3. \A o \in Object : FieldOK(o)
  BY DEF Init, New, FieldOK
<1>4. VerdictOK
  BY DEF Init, VerdictOK
<1>5. FormsAreRead
  BY DEF Init, FormsAreRead
<1>. QED
  BY <1>2, <1>3, <1>4, <1>5 DEF IInv

\* No action reads a body again.
LEMMA FormsKept ==
  ASSUME FormsAreRead, UNCHANGED <<form, request>>
  PROVE  FormsAreRead'
BY DEF FormsAreRead

\* A step that leaves what belongs to field o alone.
Spared(o) ==
  /\ form' = form /\ request' = request
  /\ kind'[o] = kind[o] /\ data'[o] = data[o]
  /\ data[o].fetched => chain'[o] = chain[o]
  /\ source'[o] = source[o] /\ ran'[o] = ran[o]

LEMMA SparedOK ==
  ASSUME NEW o \in Object, FieldOK(o), Spared(o)
  PROVE  FieldOK(o)'
BY DEF Spared, FieldOK, Declared, Given, Got, Right, Explains, Breaks

\* What is wrong with the first n constraints is wrong with more of them.
LEMMA MoreConstraints ==
  ASSUME NEW o \in Object, NEW n \in Nat, NEW m \in Nat, n <= m
  PROVE  /\ Right(o, m) => Right(o, n)
         /\ \A message : Explains(o, n, message) => Explains(o, m, message)
<1>1. 1 .. n \subseteq 1 .. m
  OBVIOUS
<1>. QED
  BY <1>1 DEF Right, Explains

\* The first n constraints of an extended chain are those of the chain.
LEMMA CopyOK ==
  ASSUME IInv, NEW o \in Object, NEW c \in Later, NEW p \in Object, Constrain(o, c, p)
  PROVE  FieldOK(p)'
<1>1. /\ form' = form /\ request' = request
      /\ kind'[p] = kind[o] /\ data'[p] = data[o] /\ source'[p] = source[o]
      /\ ran'[p] = ran[o] /\ chain'[p] = Append(chain[o], c)
  BY DEF Constrain, Call, IInv, TypeOK
<1>2. FieldOK(o) /\ chain[o] \in Seq(Worded) /\ ran[o] \in Nat /\ c \in Worded
  <2>1. FieldOK(o) /\ chain[o] \in Seq(Worded) /\ ran[o] \in Nat
    BY DEF IInv, TypeOK
  <2>. QED
    BY <2>1, FieldsAssumption DEF Worded
<1>3. SUFFICES ASSUME data[o].fetched
               PROVE  FieldOK(p)'
  BY <1>1 DEF FieldOK
<1>4. /\ Len(chain'[p]) = Len(chain[o]) + 1
      /\ \A i \in 1 .. Len(chain[o]) : chain'[p][i] = chain[o][i]
  BY <1>1, <1>2
<1>5. ran[o] <= Len(chain[o]) /\ Len(chain[o]) \in Nat
  BY <1>2, <1>3 DEF FieldOK
<1>6. \A i \in 1 .. ran[o] : Breaks(p, i)' <=> Breaks(o, i)
  BY <1>1, <1>2, <1>4, <1>5 DEF Breaks, Got
<1>7. (Given(p)' <=> Given(o)) /\ Got(p)' = Got(o)
  BY <1>1 DEF Given, Got
<1>8. Right(p, ran[p])' <=> Right(o, ran[o])
  BY <1>1, <1>6, <1>7 DEF Right
<1>9. Explains(o, ran[o], data[o].message) => Explains(p, ran[p], data[p].message)'
  <2>1. \A i \in 1 .. ran[o] : chain'[p][i] = chain[o][i] /\ 1 .. i - 1 \subseteq 1 .. ran[o]
    BY <1>2, <1>4, <1>5
  <2>2. kind'[p].absent = kind[o].absent /\ Malformed(kind[p])' = Malformed(kind[o])
    BY <1>1
  <2>. QED
    BY <1>1, <1>6, <1>7, <2>1, <2>2 DEF Explains
<1>. QED
  BY <1>1, <1>2, <1>3, <1>4, <1>5, <1>7, <1>8, <1>9 DEF FieldOK, Declared

-----------------------------------------------------------------------------
(* Reading a field *)

\* The record d is what a form that has the name (or not) and gives "got" for
\* it makes of a field of kind k, judged by the first n constraints of cs.
Fits(d, k, cs, has, got, n) ==
  /\ d.absent <=> ~has
  /\ has => d.value = got.value /\ (d.unparsable <=> ~got.okay)
  /\ has => (d.valid <=> got.okay /\ \A i \in 1 .. n : Accepts(cs[i], k.type, got.value))
  /\ ~has => (d.valid <=> ~k.required)
  /\ ~d.valid /\ ~has => d.message = k.absent
  /\ ~d.valid /\ has /\ ~got.okay => d.message = Malformed(k)
  /\ ~d.valid /\ has /\ got.okay =>
       \E i \in 1 .. n : /\ ~Accepts(cs[i], k.type, got.value)
                         /\ \A j \in 1 .. i - 1 : Accepts(cs[j], k.type, got.value)
                         /\ d.message = cs[i].says

\* validate() with the whole chain keeps what the first n constraints said.
LEMMA ValidateFits ==
  ASSUME NEW d, IsData(d), NEW k, NEW cs \in Seq(Worded), NEW has \in BOOLEAN, NEW got,
         got.okay \in BOOLEAN, NEW n \in Nat, n <= Len(cs), Fits(d, k, cs, has, got, n)
  PROVE  Fits(Validate(d, k, cs), k, cs, has, got, Len(cs))
<1> DEFINE v == Validate(d, k, cs)
<1>1. Judged(d, v, k, cs)
  BY ValidateFacts
<1>2. Len(cs) \in Nat /\ 1 .. n \subseteq 1 .. Len(cs)
  OBVIOUS
<1> HIDE DEF v
<1>3. v.absent = d.absent /\ v.value = d.value /\ v.unparsable = d.unparsable
  <2>1. v = [d EXCEPT !.valid = v.valid, !.message = v.message]
    BY <1>1 DEF Judged
  <2>. QED
    BY <2>1 DEF IsData
<1>4. CASE ~d.valid \/ d.absent
  <2>1. v = d
    BY <1>1, <1>4 DEF Judged
  <2>. QED
    BY <1>2, <1>4, <2>1 DEF Fits, v
<1>5. CASE d.valid /\ ~d.absent
  <2>1. has /\ got.okay /\ d.value = got.value
    BY <1>5 DEF Fits
  <2>. QED
    BY <1>1, <1>3, <1>5, <2>1 DEF Fits, Judged, v
<1>. QED
  BY <1>4, <1>5 DEF IsData

\* FieldOK() in the words of Fits().
LEMMA FieldFits ==
  ASSUME NEW o \in Object, data[o].fetched
  PROVE  FieldOK(o) <=>
           /\ Declared(o) /\ source[o] \in Form
           /\ ran[o] <= Len(chain[o])
           /\ Fits(data[o], kind[o], chain[o], Given(o), Got(o), ran[o])
<1>1. Got(o).okay \in BOOLEAN /\ Given(o) \in BOOLEAN
  BY GotTypes DEF Got, Given, Has
<1>. QED
  BY <1>1 DEF FieldOK, Fits, Right, Explains, Breaks

LEMMA ReadOK ==
  ASSUME IInv, NEW o \in Object, NEW f \in Form, ReadInto(o, f)
  PROVE  /\ FieldOK(o)'
         /\ IsData(data'[o]) /\ data'[o].fetched
         /\ ran'[o] = Len(chain[o]) /\ chain' = chain
         /\ source'[o] \in Form
         /\ data[o].fetched => source'[o] = source[o]
         /\ \A p \in Object \ {o} : Spared(p)
<1> DEFINE k == kind[o]
           cs == chain[o]
           d == Fetch(data[o], k, f)
           v == Validate(d, k, cs)
           s == IF data[o].fetched THEN source[o] ELSE f
           has == Has(form[s], k.name)
           got == FieldOf(request[s].driver, form[s], k.name, k.type)
           n == IF data[o].fetched THEN ran[o] ELSE 0
<1>1. /\ IsData(data[o]) /\ cs \in Seq(Worded) /\ ran[o] \in Nat /\ FieldOK(o)
      /\ Declared(o) /\ k.absent \in STRING /\ k.unparsable \in STRING
      /\ DOMAIN data = Object /\ DOMAIN ran = Object /\ DOMAIN source = Object
  BY DEF IInv, TypeOK, ReadInto
<1>2. /\ form' = form /\ request' = request /\ kind' = kind /\ chain' = chain
      /\ data' = [data EXCEPT ![o] = v]
      /\ source' = [source EXCEPT ![o] = s]
      /\ ran' = [ran EXCEPT ![o] = Len(cs)]
  BY DEF ReadInto, Call, Extracted
<1>3. data'[o] = v /\ source'[o] = s /\ ran'[o] = Len(cs)
  BY <1>1, <1>2
<1>4. \A p \in Object \ {o} : Spared(p)
  BY <1>1, <1>2 DEF Spared
<1>5. has \in BOOLEAN /\ got.okay \in BOOLEAN
  BY GotTypes DEF Has
<1>6. /\ IsData(d) /\ d.fetched /\ s \in Form
      /\ n \in Nat /\ n <= Len(cs)
      /\ Fits(d, k, cs, has, got, n)
  <2>1. CASE data[o].fetched
    <3>1. d = data[o] /\ s = source[o] /\ n = ran[o]
      BY <2>1 DEF Fetch
    <3>2. has = Given(o) /\ got = Got(o)
      BY <3>1 DEF Given, Got
    <3>3. /\ source[o] \in Form /\ ran[o] <= Len(cs)
          /\ Fits(data[o], kind[o], chain[o], Given(o), Got(o), ran[o])
      BY <1>1, <2>1, FieldFits
    <3>. HIDE DEF d, s, n, has, got
    <3>4. Fits(d, kind[o], chain[o], has, got, n)
      BY <3>1, <3>2, <3>3
    <3>. QED
      BY <1>1, <2>1, <3>1, <3>3, <3>4
  <2>2. CASE ~data[o].fetched
    <3>1. d = FetchNow(data[o], k, f) /\ s = f /\ n = 0
      BY <2>2 DEF Fetch
    <3>2. FetchedFrom(data[o], d, k, f)
      BY <1>1, <3>1, FetchFacts
    <3>3. IsData(d) /\ d.fetched
      BY <3>2 DEF FetchedFrom
    <3>4. Fits(d, k, cs, has, got, 0)
      BY <1>5, <3>1, <3>2 DEF FetchedFrom, Fits, IsData
    <3>5. 0 <= Len(cs)
      BY <1>1
    <3>. HIDE DEF d, s, n, has, got
    <3>. QED
      BY <3>1, <3>3, <3>4, <3>5
  <2>. QED
    BY <2>1, <2>2, <1>1 DEF IsData
<1>7. Fits(v, k, cs, has, got, Len(cs))
  <2>. HIDE DEF d, n, has, got, k, cs
  <2>. QED
    BY <1>1, <1>5, <1>6, ValidateFits
<1>8. IsData(v) /\ v.fetched
  <2>1. Judged(d, v, k, cs)
    BY <1>1, <1>6, ValidateFacts
  <2>2. v = [d EXCEPT !.valid = v.valid, !.message = v.message] /\ IsData(v)
    BY <2>1 DEF Judged
  <2>. HIDE DEF v, d
  <2>. QED
    BY <1>6, <2>2 DEF IsData
<1>9. FieldOK(o)'
  <2>1. Given(o)' = has /\ Got(o)' = got
    BY <1>2, <1>3 DEF Given, Got
  <2>2. Len(cs) <= Len(cs)
    BY <1>1
  <2>. HIDE DEF v, s, has, got
  <2>3. (has => got.okay \in BOOLEAN) /\ kind'[o] = k /\ chain'[o] = cs
    BY <1>2, <1>5
  <2>. HIDE DEF k, cs
  <2>4. \A i \in 1 .. Len(cs) : Breaks(o, i)' <=> ~Accepts(cs[i], k.type, got.value)
    BY <2>1, <2>3 DEF Breaks
  <2>5. v.valid <=> Right(o, ran[o])'
    BY <1>3, <1>5, <1>7, <2>1, <2>3, <2>4 DEF Fits, Right
  <2>6. ~v.valid => Explains(o, ran[o], data[o].message)'
    <3>1. \A i \in 1 .. Len(cs) : \A j \in 1 .. i - 1 : j \in 1 .. Len(cs)
      BY <1>1
    <3>2. CASE ~has
      BY <1>3, <1>7, <2>1, <2>3, <3>2 DEF Fits, Explains
    <3>3. CASE has /\ ~got.okay
      BY <1>3, <1>7, <2>1, <2>3, <3>3 DEF Fits, Explains, Malformed
    <3>4. CASE has /\ got.okay
      <4>. SUFFICES ASSUME ~v.valid PROVE Explains(o, ran[o], data[o].message)'
        OBVIOUS
      <4>1. PICK i \in 1 .. Len(cs) :
              /\ ~Accepts(cs[i], k.type, got.value)
              /\ \A j \in 1 .. i - 1 : Accepts(cs[j], k.type, got.value)
              /\ v.message = cs[i].says
        BY <1>7, <3>4 DEF Fits
      <4>2. Breaks(o, i)' /\ \A j \in 1 .. i - 1 : ~Breaks(o, j)'
        BY <2>4, <3>1, <4>1
      <4>. QED
        BY <1>3, <2>1, <2>3, <3>4, <4>1, <4>2 DEF Explains
    <3>. QED
      BY <1>5, <3>2, <3>3, <3>4
  <2>7. Declared(o)' /\ source'[o] \in Form /\ ran'[o] <= Len(chain'[o])
    BY <1>1, <1>3, <1>6, <2>2, <2>3 DEF Declared, k
  <2>. QED
    BY <1>3, <1>7, <2>1, <2>5, <2>6, <2>7 DEF FieldOK, Fits
<1>. QED
  BY <1>2, <1>3, <1>4, <1>6, <1>8, <1>9

\* A field that is read again keeps what it holds, and its verdict falls only
\* for a constraint it was not judged with.
LEMMA ReadAgain ==
  ASSUME IInv, NEW o \in Object, NEW f \in Form, ReadInto(o, f), data[o].fetched
  PROVE  /\ data'[o] = [data[o] EXCEPT !.valid = data'[o].valid, !.message = data'[o].message]
         /\ ~data[o].valid => data'[o] = data[o]
         /\ data[o].valid /\ ran[o] = Len(chain[o]) => data'[o].valid
<1>1. Judged(data[o], data'[o], kind[o], chain[o])
  <2>1. IsData(data[o]) /\ chain[o] \in Seq(Worded) /\ DOMAIN data = Object
    BY DEF IInv, TypeOK
  <2>2. data'[o] = Validate(data[o], kind[o], chain[o])
    BY <2>1 DEF ReadInto, Extracted, Fetch
  <2>. QED
    BY <2>1, <2>2, ValidateFacts
<1>2. data[o].valid /\ ran[o] = Len(chain[o]) => data'[o].valid
  <2>1. /\ form' = form /\ request' = request /\ kind' = kind /\ chain' = chain
        /\ ran'[o] = Len(chain[o]) /\ source'[o] = source[o] /\ data'[o].fetched
    BY ReadOK DEF ReadInto, Call
  <2>2. FieldOK(o) /\ FieldOK(o)'
    BY ReadOK DEF IInv
  <2>3. Right(o, Len(chain[o]))' <=> Right(o, Len(chain[o]))
    BY <2>1 DEF Right, Given, Got, Breaks
  <2>. QED
    BY <2>1, <2>2, <2>3 DEF FieldOK
<1>. QED
  BY <1>1, <1>2 DEF Judged

-----------------------------------------------------------------------------
(* The verdict *)

LEMMA AddedFacts ==
  ASSUME NEW a, IsAccumulated(a), NEW d, IsData(d), NEW k, NEW constrained
  PROVE  LET b == Added(a, k, constrained, d)
         IN /\ IsAccumulated(b)
            /\ b.valid <=> a.valid /\ d.valid
            /\ \A i \in DOMAIN a.errors : i \in DOMAIN b.errors /\ b.errors[i] = a.errors[i]
            /\ ~d.valid => \E i \in DOMAIN b.errors : b.errors[i] = d.message
<1> DEFINE b == Added(a, k, constrained, d)
<1>1. /\ a.valid \in BOOLEAN /\ d.valid \in BOOLEAN
      /\ a.errors \in Seq(Message) /\ d.message \in Message
  BY DEF IsAccumulated, IsData
<1>2. /\ b = [valid |-> b.valid, submitted |-> b.submitted, errors |-> b.errors,
             fields |-> b.fields]
      /\ b.valid = (a.valid /\ d.valid)
      /\ b.errors = IF d.valid THEN a.errors ELSE Append(a.errors, d.message)
  BY DEF Added
<1> HIDE DEF b
<1>3. b.errors \in Seq(Message)
  BY <1>1, <1>2
<1>4. \A i \in DOMAIN a.errors : i \in DOMAIN b.errors /\ b.errors[i] = a.errors[i]
  BY <1>1, <1>2
<1>5. ~d.valid => \E i \in DOMAIN b.errors : b.errors[i] = d.message
  <2>. SUFFICES ASSUME ~d.valid PROVE Len(a.errors) + 1 \in DOMAIN b.errors
                                       /\ b.errors[Len(a.errors) + 1] = d.message
    OBVIOUS
  <2>. QED
    BY <1>1, <1>2
<1>6. IsAccumulated(b)
  BY <1>1, <1>2, <1>3 DEF IsAccumulated
<1>. QED
  BY <1>1, <1>2, <1>4, <1>5, <1>6 DEF b

\* The verdict falls and the errors grow.
AccGrows ==
  /\ ~acc.valid => ~acc'.valid
  /\ \A i \in DOMAIN acc.errors : i \in DOMAIN acc'.errors /\ acc'.errors[i] = acc.errors[i]

\* A field that stays judged by its whole chain, and whose verdict stands.
Stands(o) ==
  /\ data'[o].fetched
  /\ ran'[o] = Len(chain'[o])
  /\ data'[o].valid \/ (~data[o].valid /\ data'[o] = data[o])

\* What VerdictOK says of one field.
Known(o) ==
  /\ data[o].fetched
  /\ ran[o] = Len(chain[o])
  /\ data[o].valid \/ (~acc.valid /\ \E i \in DOMAIN acc.errors : acc.errors[i] = data[o].message)

LEMMA VerdictStep ==
  ASSUME VerdictOK, AccGrows,
         \A o \in through' : (o \in through /\ Stands(o)) \/ Known(o)'
  PROVE  VerdictOK'
<1>1. \A o \in through : Known(o)
  BY DEF VerdictOK, Known
<1>2. ASSUME NEW o \in through', o \in through, Stands(o)
      PROVE  Known(o)'
  BY <1>1, <1>2 DEF Known, Stands, AccGrows
<1>. QED
  BY <1>2 DEF VerdictOK, Known

-----------------------------------------------------------------------------
(* Every action preserves the invariant *)

\* The fields that went through validated are declared and fetched.
LEMMA ThroughDeclared ==
  ASSUME IInv, NEW o \in through
  PROVE  o \in Object /\ data[o].fetched /\ Declared(o) /\ ran[o] = Len(chain[o])
BY DEF IInv, TypeOK, VerdictOK, FieldOK

LEMMA ConstrainIInv ==
  ASSUME IInv, NEW o \in Object, NEW c \in Later, NEW p \in Object, Constrain(o, c, p)
  PROVE  IInv'
<1>1. \A q \in Object \ {p} : Spared(q)
  BY DEF Constrain, Call, Spared, IInv, TypeOK
<1>2. \A q \in Object : FieldOK(q)'
  BY <1>1, CopyOK, SparedOK DEF IInv
<1>3. c \in Worded
  BY FieldsAssumption DEF Worded
<1>4. TypeOK'
  <2>1. chain' \in [Object -> Seq(Worded)]
    <3>1. chain[o] \in Seq(Worded)
      BY DEF IInv, TypeOK
    <3>2. Append(chain[o], c) \in Seq(Worded)
      BY <1>3, <3>1
    <3>. QED
      BY <3>2 DEF Constrain, IInv, TypeOK
  <2>2. calls' \in 0 .. Calls
    BY FieldsAssumption DEF Constrain, Call, IInv, TypeOK
  <2>3. \A q \in Object : Declared(q)' =>
          /\ kind'[q].name # <<>> /\ kind'[q].type \in Type
          /\ kind'[q].absent \in STRING /\ kind'[q].unparsable \in STRING
    BY DEF Constrain, IInv, TypeOK, Declared
  <2>4. \A q \in Object : IsData(data'[q])
    BY DEF Constrain, IInv, TypeOK
  <2>. QED
    BY <2>1, <2>2, <2>3, <2>4 DEF Constrain, Call, IInv, TypeOK
<1>5. VerdictOK'
  <2>1. AccGrows /\ through' = through
    BY DEF Constrain, AccGrows
  <2>2. \A q \in through : Stands(q)
    <3>1. TAKE q \in through
    <3>2. q \in Object \ {p} /\ data[q].fetched /\ ran[q] = Len(chain[q])
      BY ThroughDeclared DEF Constrain
    <3>3. Spared(q) /\ IsData(data[q])
      BY <1>1, <3>2 DEF IInv, TypeOK
    <3>. QED
      BY <3>2, <3>3 DEF Spared, Stands, IsData
  <2>. QED
    BY <2>1, <2>2, VerdictStep DEF IInv
<1>6. FormsAreRead'
  BY FormsKept DEF Constrain, Call, IInv
<1>. QED
  BY <1>2, <1>4, <1>5, <1>6 DEF IInv

LEMMA RewordIInv ==
  ASSUME IInv, NEW o \in Object, NEW says \in Wordings, NEW i \in DOMAIN chain[o],
         Reword(o, i, says)
  PROVE  IInv'
<1>1. \A q \in Object : Spared(q)
  BY DEF Reword, Call, Spared, IInv, TypeOK
<1>2. \A q \in Object : FieldOK(q)'
  BY <1>1, SparedOK DEF IInv
<1>3. TypeOK'
  <2>1. chain' \in [Object -> Seq(Worded)]
    <3>1. chain[o] \in Seq(Worded) /\ chain[o][i] \in Worded
      BY DEF IInv, TypeOK
    <3>2. [chain[o][i] EXCEPT !.says = says] \in Worded
      <4>1. CASE chain[o][i] \in Constraint
        BY <4>1 DEF Worded
      <4>2. CASE chain[o][i] \notin Constraint
        <5>1. PICK c \in Constraint, other \in Wordings : chain[o][i] = [c EXCEPT !.says = other]
          BY <3>1, <4>2 DEF Worded
        <5>2. [[c EXCEPT !.says = other] EXCEPT !.says = says] = [c EXCEPT !.says = says]
          BY FieldsAssumption
        <5>. QED
          BY <5>1, <5>2 DEF Worded
      <4>. QED
        BY <4>1, <4>2
    <3>3. [chain[o] EXCEPT ![i] = [@ EXCEPT !.says = says]] \in Seq(Worded)
      BY <3>1, <3>2
    <3>4. chain' = [chain EXCEPT ![o] = [chain[o] EXCEPT ![i] = [chain[o][i] EXCEPT !.says = says]]]
      BY DEF Reword
    <3>. QED
      BY <3>3, <3>4 DEF IInv, TypeOK
  <2>2. calls' \in 0 .. Calls
    BY FieldsAssumption DEF Reword, Call, IInv, TypeOK
  <2>. QED
    BY <2>1, <2>2 DEF Reword, Call, IInv, TypeOK, Declared
<1>4. VerdictOK'
  <2>1. AccGrows /\ through' = through
    BY DEF Reword, AccGrows
  <2>2. \A q \in through : Stands(q)
    <3>1. TAKE q \in through
    <3>2. q \in Object /\ data[q].fetched /\ ran[q] = Len(chain[q])
      BY ThroughDeclared
    <3>3. Spared(q) /\ IsData(data[q])
      BY <1>1, <3>2 DEF IInv, TypeOK
    <3>. QED
      BY <3>2, <3>3 DEF Spared, Stands, IsData
  <2>. QED
    BY <2>1, <2>2, VerdictStep DEF IInv
<1>5. FormsAreRead'
  BY FormsKept DEF Reword, Call, IInv
<1>. QED
  BY <1>2, <1>3, <1>4, <1>5 DEF IInv

\* What both ways of reading a field share.
LEMMA ReadIntoIInv ==
  ASSUME IInv, NEW o \in Object, NEW f \in Form, ReadInto(o, f), IsAccumulated(acc)',
         through' \subseteq Object
  PROVE  /\ TypeOK' /\ FormsAreRead'
         /\ \A q \in Object : FieldOK(q)'
         /\ \A q \in through : Stands(q)
<1>1. \A q \in Object \ {o} : Spared(q)
  BY ReadOK
<1>2. \A q \in Object : FieldOK(q)'
  BY <1>1, ReadOK, SparedOK DEF IInv
<1>3. TypeOK'
  <2>1. calls' \in 0 .. Calls
    BY FieldsAssumption DEF ReadInto, Call, IInv, TypeOK
  <2>2. \A q \in Object : IsData(data'[q])
    BY <1>1, ReadOK DEF Spared, IInv, TypeOK
  <2>3. ran' \in [Object -> Nat]
    <3>1. Len(chain[o]) \in Nat
      BY DEF IInv, TypeOK
    <3>. QED
      BY <3>1 DEF ReadInto, IInv, TypeOK
  <2>4. source' \in [Object -> Form \cup {None}]
    BY DEF ReadInto, IInv, TypeOK
  <2>. QED
    BY <2>1, <2>2, <2>3, <2>4, SMTT(60) DEF ReadInto, Call, IInv, TypeOK, Declared
<1>4. ASSUME NEW q \in through
      PROVE  Stands(q)
  <2>1. q \in Object /\ data[q].fetched /\ ran[q] = Len(chain[q])
    BY ThroughDeclared
  <2>2. IsData(data[q])
    BY <2>1 DEF IInv, TypeOK
  <2>3. CASE q = o
    <3>1. data'[o].fetched /\ ran'[o] = Len(chain'[o])
      BY ReadOK
    <3>2. ~data[o].valid => data'[o] = data[o]
      BY <2>1, <2>3, ReadAgain
    <3>3. data[o].valid => data'[o].valid
      BY <2>1, <2>3, ReadAgain
    <3>. QED
      BY <2>2, <2>3, <3>1, <3>2, <3>3 DEF Stands, IsData
  <2>4. CASE q # o
    BY <1>1, <2>1, <2>2, <2>4 DEF Spared, Stands, IsData
  <2>. QED
    BY <2>3, <2>4
<1>5. FormsAreRead'
  BY FormsKept DEF ReadInto, Call, IInv
<1>. QED
  BY <1>2, <1>3, <1>4, <1>5

LEMMA ExtractIInv ==
  ASSUME IInv, NEW o \in Object, NEW f \in Form, Extract(o, f)
  PROVE  IInv'
<1>1. ReadInto(o, f) /\ acc' = acc /\ through' = through
  BY DEF Extract
<1>2. IsAccumulated(acc)' /\ through' \subseteq Object /\ AccGrows
  BY <1>1 DEF IInv, TypeOK, AccGrows
<1>3. TypeOK' /\ FormsAreRead' /\ (\A q \in Object : FieldOK(q)') /\ \A q \in through : Stands(q)
  BY <1>1, <1>2, ReadIntoIInv
<1>. QED
  BY <1>1, <1>2, <1>3, VerdictStep DEF IInv

LEMMA ReadAndAddIInv ==
  ASSUME IInv, NEW o \in Object, NEW f \in Form, ReadAndAdd(o, f)
  PROVE  IInv'
<1>1. /\ ReadInto(o, f)
      /\ acc' = Added(acc, kind[o], chain[o] # <<>>, data'[o])
      /\ through' = through \cup {o}
  BY DEF ReadAndAdd
<1>2. IsAccumulated(acc) /\ IsData(data'[o]) /\ through' \subseteq Object
  BY <1>1, ReadOK DEF IInv, TypeOK
<1>3. /\ IsAccumulated(acc)' /\ AccGrows
      /\ acc'.valid => data'[o].valid
      /\ ~data'[o].valid => \E i \in DOMAIN acc'.errors : acc'.errors[i] = data'[o].message
  BY <1>1, <1>2, AddedFacts DEF AccGrows
<1>4. TypeOK' /\ FormsAreRead' /\ (\A q \in Object : FieldOK(q)') /\ \A q \in through : Stands(q)
  BY <1>1, <1>2, <1>3, ReadIntoIInv
<1>5. Known(o)'
  BY <1>1, <1>2, <1>3, ReadOK DEF Known, IsData
<1>. QED
  BY <1>1, <1>3, <1>4, <1>5, VerdictStep DEF IInv

\* A step that changes nothing but the accumulated object.
LEMMA AccIInv ==
  ASSUME IInv, Call, UNCHANGED <<kind, chain, data, source, ran, through>>,
         IsAccumulated(acc)', AccGrows
  PROVE  IInv'
<1>1. TypeOK'
  BY FieldsAssumption DEF Call, IInv, TypeOK, Declared
<1>2. \A q \in Object : FieldOK(q)'
  <2>1. \A q \in Object : Spared(q)
    BY DEF Call, Spared
  <2>. QED
    BY <2>1, SparedOK DEF IInv
<1>3. VerdictOK'
  <2>1. \A q \in through : Stands(q)
    BY ThroughDeclared DEF Stands, IInv, TypeOK, IsData
  <2>. QED
    BY <2>1, VerdictStep DEF IInv
<1>4. FormsAreRead'
  BY FormsKept DEF Call, IInv
<1>. QED
  BY <1>1, <1>2, <1>3, <1>4 DEF IInv

LEMMA AccumulateIInv ==
  ASSUME IInv, NEW o \in Object, Accumulate(o)
  PROVE  IInv'
<1>1. IsAccumulated(acc) /\ IsData(data[o])
  BY DEF IInv, TypeOK
<1>2. IsAccumulated(acc)' /\ AccGrows
  BY <1>1, AddedFacts DEF Accumulate, AccGrows
<1>. QED
  BY <1>2, AccIInv DEF Accumulate

LEMMA AddErrorIInv ==
  ASSUME IInv, NEW says \in Wordings, AddError(says)
  PROVE  IInv'
<1>1. IsAccumulated(acc) /\ acc' = [acc EXCEPT !.errors = Append(@, says)]
  BY DEF AddError, IInv, TypeOK
<1>2. /\ acc' = [valid |-> acc.valid, submitted |-> acc.submitted,
                errors |-> Append(acc.errors, says), fields |-> acc.fields]
      /\ acc.errors \in Seq(Message) /\ says \in Message
  BY <1>1, FieldsAssumption DEF IsAccumulated, Message
<1>3. Append(acc.errors, says) \in Seq(Message)
  BY <1>2
<1>4. IsAccumulated(acc)'
  BY <1>1, <1>2, <1>3 DEF IsAccumulated
<1>5. AccGrows
  BY <1>2 DEF AccGrows
<1>. QED
  BY <1>4, <1>5, AccIInv DEF AddError

LEMMA NextIInv ==
  ASSUME IInv, [Next]_vars
  PROVE  IInv'
<1>1. CASE UNCHANGED vars
  <2>1. TypeOK'
    BY <1>1 DEF vars, IInv, TypeOK, Declared
  <2>2. \A q \in Object : FieldOK(q)'
    BY <1>1, SparedOK DEF vars, Spared, IInv
  <2>3. VerdictOK'
    BY <1>1 DEF vars, IInv, VerdictOK
  <2>4. FormsAreRead'
    BY <1>1, FormsKept DEF vars, IInv
  <2>. QED
    BY <2>1, <2>2, <2>3, <2>4 DEF IInv
<1>2. CASE Next
  BY <1>1, <1>2, ConstrainIInv, RewordIInv, ExtractIInv, ReadAndAddIInv, AccumulateIInv,
     AddErrorIInv DEF Next, Done
<1>. QED
  BY <1>1, <1>2

-----------------------------------------------------------------------------
(* The theorems *)

\* Whatever a callable declares, constrains and reads, in whatever order: every
\* field holds what its form gave, judged by the constraints it was validated
\* with, and accumulated knows of every field that is not valid.
THEOREM FieldsJudged == Spec => []IInv
<1>1. Init => IInv
  BY InitIInv
<1>2. IInv /\ [Next]_vars => IInv'
  BY NextIInv
<1>. QED
  BY <1>1, <1>2, PTL DEF Spec

\* A field is valid exactly when its form gives what was asked of it, and its
\* message names the first thing that is wrong.
THEOREM FailuresExplained == Spec => []FirstFailureExplains
<1>1. IInv => FirstFailureExplains
  BY DEF IInv, FieldOK, FirstFailureExplains
<1>. QED
  BY <1>1, FieldsJudged, PTL

\* A form is found valid only if every field that was validated is.
THEOREM VerdictSound == Spec => []VerdictHolds
<1>1. IInv => VerdictHolds
  <2>. SUFFICES ASSUME IInv, NEW o \in through
                PROVE  \/ Right(o, Len(chain[o]))
                       \/ /\ ~acc.valid
                          /\ \E i \in DOMAIN acc.errors :
                               Explains(o, Len(chain[o]), acc.errors[i])
    BY DEF VerdictHolds
  <2>1. o \in Object /\ data[o].fetched /\ ran[o] = Len(chain[o])
    BY ThroughDeclared
  <2>2. FieldOK(o)
    BY <2>1 DEF IInv
  <2>3. CASE data[o].valid
    BY <2>1, <2>2, <2>3 DEF FieldOK
  <2>4. CASE ~data[o].valid
    <3>1. Explains(o, Len(chain[o]), data[o].message)
      BY <2>1, <2>2, <2>4 DEF FieldOK
    <3>2. PICK i \in DOMAIN acc.errors : ~acc.valid /\ acc.errors[i] = data[o].message
      BY <2>4 DEF IInv, VerdictOK
    <3>. QED
      BY <3>1, <3>2
  <2>. QED
    BY <2>3, <2>4
<1>. QED
  BY <1>1, FieldsJudged, PTL

\* A field keeps what it has fetched.
THEOREM FieldsFetchedOnce == Spec => FetchedOnce
<1> DEFINE Kept(o) ==
      data[o].fetched =>
        /\ data'[o] = [data[o] EXCEPT !.valid = data'[o].valid, !.message = data'[o].message]
        /\ ~data[o].valid => data'[o] = data[o]
        /\ source'[o] = source[o]
<1>1. IInv /\ [Next]_vars => [\A o \in Object : Kept(o)]_vars
  <2>. SUFFICES ASSUME IInv, Next, NEW o \in Object, data[o].fetched
                PROVE  Kept(o)
    BY DEF Kept
  <2>1. IsData(data[o])
    BY DEF IInv, TypeOK
  <2>2. ASSUME data'[o] = data[o], source'[o] = source[o]
        PROVE  Kept(o)
    BY <2>1, <2>2 DEF IsData
  <2>3. ASSUME NEW p \in Object, NEW f \in Form, ReadInto(p, f)
        PROVE  Kept(o)
    <3>1. CASE p = o
      BY <2>3, <3>1, ReadAgain, ReadOK
    <3>2. CASE p # o
      BY <2>2, <2>3, <3>2, ReadOK DEF Spared
    <3>. QED
      BY <3>1, <3>2
  <2>4. ASSUME NEW p \in Object, NEW c \in Later, NEW q \in Object, Constrain(p, c, q)
        PROVE  Kept(o)
    <3>1. q # o
      BY <2>4 DEF Constrain, IInv, FieldOK
    <3>. QED
      BY <2>2, <2>4, <3>1 DEF Constrain, IInv, TypeOK
  <2>5. ASSUME UNCHANGED <<data, source>>
        PROVE  Kept(o)
    BY <2>2, <2>5
  <2>. HIDE DEF Kept
  <2>. QED
    BY <2>3, <2>4, <2>5 DEF Next, Extract, ReadAndAdd, Reword, Accumulate, AddError, Done, vars
<1>. QED
  BY <1>1, FieldsJudged, PTL DEF Spec, FetchedOnce

-----------------------------------------------------------------------------
(* Ascending positions *)

\* Positions that grow from one to the next grow.
LEMMA Growing ==
  ASSUME NEW n \in Nat, NEW at, \A i \in 1 .. n : at[i] \in Nat,
         \A i \in 1 .. n - 1 : at[i] < at[i + 1]
  PROVE  \A i, j \in 1 .. n : i < j => at[i] < at[j]
<1> DEFINE Wrong == {j \in 1 .. n : \E i \in 1 .. n : i < j /\ ~(at[i] < at[j])}
<1>1. SUFFICES ASSUME Wrong # {} PROVE FALSE
  OBVIOUS
<1>2. PICK j \in Wrong : \A k \in Wrong : j <= k
  <2>1. Wrong \subseteq Nat
    OBVIOUS
  <2>. QED
    BY <1>1, <2>1, MinExists
<1>3. PICK i \in 1 .. n : i < j /\ ~(at[i] < at[j])
  OBVIOUS
<1>4. j - 1 \in 1 .. n - 1 /\ j - 1 \notin Wrong /\ at[j - 1] < at[j]
  BY <1>2, <1>3
<1>5. i = j - 1 \/ at[i] < at[j - 1]
  BY <1>3, <1>4
<1>. QED
  BY <1>3, <1>4, <1>5

\* As many positions as there are before them.
LEMMA HowMany ==
  ASSUME NEW n \in Nat, NEW at, \A i, j \in 1 .. n : at[i] = at[j] => i = j
  PROVE  Cardinality({at[i] : i \in 1 .. n}) = n
<1> DEFINE S == {at[i] : i \in 1 .. n}
           f == [i \in 1 .. n |-> at[i]]
<1>1. f \in [1 .. n -> S]
  OBVIOUS
<1>2. \A i, j \in 1 .. n : f[i] = f[j] => i = j
  OBVIOUS
<1>3. \A s \in S : \E i \in 1 .. n : f[i] = s
  OBVIOUS
<1> HIDE DEF f
<1>4. f \in Bijection(1 .. n, S)
  BY <1>1, <1>2, <1>3 DEF Bijection, Injection, Surjection, IsInjective
<1>. QED
  BY <1>4, FS_CountingElements DEF ExistsBijection

\* Ascending() of a set that growing positions make up.
LEMMA AscendingIs ==
  ASSUME NEW n \in Nat, NEW at, \A i \in 1 .. n : at[i] \in Nat,
         \A i, j \in 1 .. n : i < j => at[i] < at[j]
  PROVE  Ascending({at[i] : i \in 1 .. n}) = [i \in 1 .. n |-> at[i]]
<1> DEFINE S == {at[i] : i \in 1 .. n}
           Before(p) == {q \in S : q < p}
<1>1. \A i, j \in 1 .. n : at[i] = at[j] => i = j
  OBVIOUS
<1>2. Cardinality(S) = n
  BY <1>1, HowMany
<1>3. ASSUME NEW i \in 1 .. n
      PROVE  Cardinality(Before(at[i])) = i - 1
  <2>1. Before(at[i]) = {at[j] : j \in 1 .. i - 1}
    OBVIOUS
  <2>2. i - 1 \in Nat /\ \A j, k \in 1 .. i - 1 : at[j] = at[k] => j = k
    BY <1>1
  <2>. QED
    BY <2>1, <2>2, HowMany
<1>4. ASSUME NEW i \in 1 .. n
      PROVE  (CHOOSE p \in S : Cardinality(Before(p)) = i - 1) = at[i]
  <2>1. at[i] \in S /\ Cardinality(Before(at[i])) = i - 1
    BY <1>3
  <2>2. ASSUME NEW p \in S, Cardinality(Before(p)) = i - 1
        PROVE  p = at[i]
    <3>1. PICK k \in 1 .. n : p = at[k]
      OBVIOUS
    <3>2. Cardinality(Before(p)) = k - 1
      BY <1>3, <3>1
    <3>. QED
      BY <2>2, <3>1, <3>2
  <2>. HIDE DEF S, Before
  <2>. QED
    BY <2>1, <2>2
<1>. QED
  BY <1>2, <1>4 DEF Ascending

\* The first of Ascending() is the least.
LEMMA AscendingFirst ==
  ASSUME NEW a \in Nat, NEW b \in Nat, NEW S, S \subseteq a .. b, S # {}
  PROVE  /\ Cardinality(S) \in Nat \ {0}
         /\ DOMAIN Ascending(S) = 1 .. Cardinality(S)
         /\ Ascending(S)[1] = Min(S)
<1> DEFINE Before(p) == {q \in S : q < p}
<1>1. IsFiniteSet(S) /\ \A p : IsFiniteSet(Before(p))
  <2>1. IsFiniteSet(a .. b)
    BY FS_Interval
  <2>. QED
    BY <2>1, FS_Subset
<1>2. Cardinality(S) \in Nat \ {0}
  BY <1>1, FS_CardinalityType, FS_EmptySet
<1>3. PICK m \in S : m = Min(S) /\ \A q \in S : m <= q
  <2>1. S \subseteq Nat
    OBVIOUS
  <2>. QED
    BY <2>1, MinExists
<1>4. \A p : Cardinality(Before(p)) = 0 <=> Before(p) = {}
  BY <1>1, FS_EmptySet
<1>5. Before(m) = {}
  <2>1. \A q \in S : ~(q < m)
    BY <1>3
  <2>. QED
    BY <2>1
<1>6. ASSUME NEW p \in S, Before(p) = {}
      PROVE  p = m
  BY <1>3, <1>6
<1> DEFINE Place(i) == CHOOSE p \in S : Cardinality(Before(p)) = i - 1
<1>7. Ascending(S) = [i \in 1 .. Cardinality(S) |-> Place(i)]
  BY DEF Ascending
<1> HIDE DEF Before
<1>8. Place(1) = m
  <2>1. \A p \in S : Cardinality(Before(p)) = 1 - 1 <=> p = m
    BY <1>4, <1>5, <1>6
  <2>. QED
    BY <2>1
<1> HIDE DEF Place
<1>. QED
  BY <1>2, <1>3, <1>7, <1>8

-----------------------------------------------------------------------------
(* Searching *)

LEMMA FindIs ==
  ASSUME NEW s, NEW from \in Nat, NEW to \in Nat, NEW ch, NEW p \in from .. to,
         p = to \/ s[p] = ch, \A q \in from .. p - 1 : s[q] # ch
  PROVE  Find(s, from, to, ch) = p
<1> DEFINE S == {i \in from .. to - 1 : s[i] = ch} \cup {to}
<1>1. p \in S /\ \A q \in S : p <= q
  OBVIOUS
<1>2. \A m \in S : (\A q \in S : m <= q) => m = p
  BY <1>1
<1>. HIDE DEF S
<1>3. Min(S) = p
  BY <1>1, <1>2 DEF Min
<1>. QED
  BY <1>3 DEF Find, S

\* What a search finds is in its range.
LEMMA FindIn ==
  ASSUME NEW s, NEW from \in Nat, NEW to \in Nat, from <= to, NEW ch
  PROVE  Find(s, from, to, ch) \in from .. to
<1> DEFINE S == {i \in from .. to - 1 : s[i] = ch} \cup {to}
<1>1. S \subseteq from .. to /\ S # {} /\ S \subseteq Nat
  OBVIOUS
<1>2. Min(S) \in S
  BY <1>1, MinExists
<1>. QED
  BY <1>1, <1>2 DEF Find

\* Slices and the characters in them.
LEMMA SliceIs ==
  ASSUME NEW s \in Seq(STRING), NEW from \in Nat \ {0}, NEW t \in Seq(STRING),
         from + Len(t) <= Len(s) + 1, \A k \in 1 .. Len(t) : s[from + k - 1] = t[k]
  PROVE  Slice(s, from, from + Len(t)) = t
<1> DEFINE u == SubSeq(s, from, from + Len(t) - 1)
<1>1. \A i \in from .. from + Len(t) - 1 : s[i] \in STRING
  OBVIOUS
<1>2. /\ u \in Seq(STRING) /\ Len(u) = Len(t)
      /\ \A k \in 1 .. Len(t) : u[k] = s[from + k - 1]
  <2>1. from \in Int /\ from + Len(t) - 1 \in Int /\ Len(t) \in Nat
    OBVIOUS
  <2>. QED
    BY <1>1, <2>1, SubSeqProperties
<1>. HIDE DEF u
<1>3. u = t
  BY <1>2
<1>. QED
  BY <1>3 DEF u, Slice

\* The text t is in s from there on.
Spells(s, from, t) == \A k \in 1 .. Len(t) : s[from + k - 1] = t[k]

LEMMA SliceSpells ==
  ASSUME NEW s \in Seq(STRING), NEW from \in Nat \ {0}, NEW to \in Nat, NEW t,
         from <= to, to <= Len(s) + 1, Slice(s, from, to) = t
  PROVE  Len(t) = to - from /\ Spells(s, from, t)
<1>1. \A i \in from .. to - 1 : s[i] \in STRING
  OBVIOUS
<1>2. /\ Len(SubSeq(s, from, to - 1)) = to - from
      /\ \A k \in 1 .. to - from : SubSeq(s, from, to - 1)[k] = s[from + k - 1]
  BY <1>1, SubSeqProperties
<1>. QED
  BY <1>2 DEF Slice, Spells

\* The parts of a text are where the parts before them end.
LEMMA SpellsParts ==
  ASSUME NEW s, NEW from \in Nat \ {0}, NEW S, NEW t \in Seq(S), NEW u \in Seq(S),
         Spells(s, from, t \o u)
  PROVE  Spells(s, from, t) /\ Spells(s, from + Len(t), u)
<1>1. /\ Len(t \o u) = Len(t) + Len(u) /\ Len(t) \in Nat /\ Len(u) \in Nat
      /\ \A i \in 1 .. Len(t) + Len(u) : (t \o u)[i] = IF i <= Len(t) THEN t[i] ELSE u[i - Len(t)]
  BY ConcatProperties
<1>2. \A i \in 1 .. Len(t) + Len(u) :
        s[from + i - 1] = IF i <= Len(t) THEN t[i] ELSE u[i - Len(t)]
  BY <1>1 DEF Spells
<1>3. Spells(s, from, t)
  BY <1>1, <1>2 DEF Spells
<1>4. ASSUME NEW k \in 1 .. Len(u)
      PROVE  s[from + Len(t) + k - 1] = u[k]
  <2>1. /\ Len(t) + k \in 1 .. Len(t) + Len(u) /\ ~(Len(t) + k <= Len(t))
        /\ from + (Len(t) + k) - 1 = from + Len(t) + k - 1 /\ (Len(t) + k) - Len(t) = k
    BY <1>1
  <2>2. s[from + (Len(t) + k) - 1] = u[(Len(t) + k) - Len(t)]
    BY <1>2, <2>1
  <2>. QED
    BY <2>1, <2>2
<1>. QED
  BY <1>3, <1>4 DEF Spells

-----------------------------------------------------------------------------
(* What a driver delivers of what was sent *)

Sent == Seq([name : Seq(STRING), text : Seq(STRING)])

LEMMA SentTypes ==
  ASSUME NEW sent \in Sent
  PROVE  /\ Len(sent) \in Nat /\ DOMAIN sent = 1 .. Len(sent)
         /\ sent # <<>> => Len(sent) \in Nat \ {0}
         /\ \A i \in 1 .. Len(sent) :
              /\ sent[i].name \in Seq(STRING) /\ sent[i].text \in Seq(STRING)
              /\ Len(sent[i].name) \in Nat /\ Len(sent[i].text) \in Nat
<1> DEFINE P == [name : Seq(STRING), text : Seq(STRING)]
<1>0. sent \in Seq(P)
  BY DEF Sent
<1> HIDE DEF P
<1>1. /\ Len(sent) \in Nat /\ DOMAIN sent = 1 .. Len(sent)
      /\ \A i \in 1 .. Len(sent) : sent[i] \in P
  BY <1>0
<1>3. sent # <<>> => Len(sent) \in Nat \ {0}
  BY <1>0
<1>2. \A i \in 1 .. Len(sent) : sent[i].name \in Seq(STRING) /\ sent[i].text \in Seq(STRING)
  BY <1>1 DEF P
<1>4. \A t \in Seq(STRING) : Len(t) \in Nat
  OBVIOUS
<1>. QED
  BY <1>1, <1>2, <1>3, <1>4

\* The entry of a pair.
Entry(pair) == [key |-> pair.name, value |-> [text |-> pair.text, size |-> Len(pair.text)]]

\* The fields are what was sent first under each name.
Delivers(fields, sent) ==
  \A name : name # <<>> =>
    LET named == {i \in DOMAIN sent : sent[i].name = name}
    IN /\ name \in DOMAIN fields <=> named # {}
       /\ named # {} => fields[name] = Entry(sent[Min(named)]).value

LEMMA EntriesDeliver ==
  ASSUME NEW sent \in Sent, NEW entries, DOMAIN entries = DOMAIN sent,
         \A i \in DOMAIN sent :
           entries[i].key = sent[i].name /\ entries[i].value = Entry(sent[i]).value
  PROVE  Delivers(FirstOfEach(entries), sent)
<1> SUFFICES ASSUME NEW name
             PROVE  LET named == {i \in DOMAIN sent : sent[i].name = name}
                        fields == FirstOfEach(entries)
                    IN /\ name \in DOMAIN fields <=> named # {}
                       /\ named # {} => fields[name] = Entry(sent[Min(named)]).value
  BY DEF Delivers
<1> DEFINE named == {i \in DOMAIN sent : sent[i].name = name}
           fields == FirstOfEach(entries)
           First(key) == Min({i \in DOMAIN entries : entries[i].key = key})
<1>1. fields = [key \in {entries[i].key : i \in DOMAIN entries} |-> entries[First(key)].value]
  BY DEF FirstOfEach, FirstOf
<1>2. name \in DOMAIN fields <=> named # {}
  BY <1>1
<1>3. ASSUME named # {}
      PROVE  fields[name] = Entry(sent[Min(named)]).value
  <2>1. {i \in DOMAIN entries : entries[i].key = name} = named
    OBVIOUS
  <2>2. First(name) = Min(named)
    BY <2>1
  <2>3. named \subseteq Nat
    BY DEF Sent
  <2>4. Min(named) \in named
    BY <1>3, <2>3, MinExists
  <2>. HIDE DEF First, named, fields
  <2>5. fields[name] = entries[First(name)].value
    BY <1>1, <1>2, <1>3
  <2>6. Min(named) \in DOMAIN sent
    BY <2>4 DEF named
  <2>. QED
    BY <2>2, <2>5, <2>6
<1>. QED
  BY <1>2, <1>3

-----------------------------------------------------------------------------
(* An urlencoded body *)

\* The pairs lie one behind the other.
LEMMA UrlencodedPlaces ==
  ASSUME NEW body \in Seq(STRING), NEW sent \in Sent,
         NEW at \in [1 .. Len(sent) + 1 -> Begins(body)], UrlencodedAt(body, sent, at)
  PROVE  /\ Len(sent) \in Nat /\ Len(body) \in Nat
         /\ \A i \in 1 .. Len(sent) + 1 : at[i] \in Nat \ {0}
         /\ \A i, j \in 1 .. Len(sent) + 1 : i < j => at[i] < at[j]
         /\ \A i \in 1 .. Len(sent) :
              at[i + 1] = at[i] + Len(sent[i].name) + Len(sent[i].text) + 2
         /\ \A i \in 1 .. Len(sent) : at[i + 1] - 1 <= Len(body) + 1
<1>1. Len(sent) \in Nat /\ Len(body) \in Nat /\ DOMAIN sent = 1 .. Len(sent)
  BY SentTypes
<1>2. \A i \in 1 .. Len(sent) : Len(sent[i].name) \in Nat /\ Len(sent[i].text) \in Nat
  BY SentTypes
<1>3. \A i \in 1 .. Len(sent) + 1 : at[i] \in Nat \ {0}
  BY <1>1 DEF Begins
<1>4. \A i \in 1 .. Len(sent) :
        at[i + 1] = at[i] + Len(sent[i].name) + Len(sent[i].text) + 2
  <2>1. TAKE i \in 1 .. Len(sent)
  <2> DEFINE a == at[i]
             b == at[i + 1]
             n == Len(sent[i].name)
             t == Len(sent[i].text)
  <2>2. b - 1 = a + n + 1 + t
    BY <1>1 DEF UrlencodedAt
  <2>3. a \in Nat /\ b \in Nat /\ n \in Nat /\ t \in Nat
    BY <1>1, <1>2, <1>3
  <2>. HIDE DEF a, b, n, t
  <2>4. b = a + n + t + 2
    BY <2>2, <2>3
  <2>. QED
    BY <2>4 DEF a, b, n, t
<1>5. \A i \in 1 .. Len(sent) + 1 - 1 : at[i] < at[i + 1]
  BY <1>1, <1>2, <1>3, <1>4
<1>6. \A i, j \in 1 .. Len(sent) + 1 : i < j => at[i] < at[j]
  <2> DEFINE n == Len(sent) + 1
  <2>1. n \in Nat /\ \A i \in 1 .. n : at[i] \in Nat
    BY <1>1, <1>3
  <2>2. \A i \in 1 .. n - 1 : at[i] < at[i + 1]
    BY <1>5
  <2>3. \A i, j \in 1 .. n : i < j => at[i] < at[j]
    <3>. HIDE DEF n
    <3>. QED
      BY <2>1, <2>2, Growing
  <2>. QED
    BY <2>3
<1>7. \A i \in 1 .. Len(sent) : at[i + 1] - 1 <= Len(body) + 1
  <2>1. TAKE i \in 1 .. Len(sent)
  <2>2. at[i + 1] <= at[Len(sent) + 1]
    BY <1>1, <1>3, <1>6
  <2>3. at[Len(sent) + 1] = Len(body) + 2
    BY DEF UrlencodedAt
  <2>. QED
    BY <1>1, <1>3, <2>2, <2>3
<1>. QED
  BY <1>1, <1>3, <1>4, <1>6, <1>7

\* A pair is read from its begin on, and has no '&' in it.
LEMMA UrlencodedPair ==
  ASSUME NEW body \in Seq(STRING), NEW sent \in Sent,
         NEW at \in [1 .. Len(sent) + 1 -> Begins(body)], UrlencodedAt(body, sent, at),
         NEW i \in 1 .. Len(sent)
  PROVE  /\ \A p \in at[i] .. at[i + 1] - 2 : body[p] # "&"
         /\ at[i + 1] - 1 <= Len(body) => body[at[i + 1] - 1] = "&"
         /\ UrlencodedField(body, at[i]).key = sent[i].name
         /\ UrlencodedField(body, at[i]).value = Entry(sent[i]).value
<1> DEFINE name == sent[i].name
           text == sent[i].text
           n == Len(name)
           t == Len(text)
           a == at[i]
           b == at[i + 1]
           m == a + n
           e == b - 1
<1>1. /\ name \in Seq(STRING) /\ text \in Seq(STRING)
      /\ i \in DOMAIN sent /\ i \in 1 .. Len(sent) + 1 /\ i + 1 \in 1 .. Len(sent) + 1
  BY SentTypes
<1>2. n \in Nat /\ t \in Nat
  BY <1>1
<1>3. /\ a \in Nat \ {0} /\ b \in Nat \ {0} /\ b = a + n + t + 2
      /\ e <= Len(body) + 1 /\ Len(body) \in Nat
  BY <1>1, UrlencodedPlaces
<1>4. /\ Avoids(name, {"&", "="}) /\ Avoids(text, {"&"})
      /\ Slice(body, a, e) = name \o <<"=">> \o text
      /\ e <= Len(body) => body[e] = "&"
  BY <1>1 DEF UrlencodedAt
<1>5. UrlencodedField(body, at[i]) = UrlencodedField(body, a)
  OBVIOUS
<1> HIDE DEF a, b, n, t
<1>6. m \in Nat \ {0} /\ a <= m /\ e \in Nat /\ e = m + 1 + t /\ b = e + 1 /\ a <= e
  BY <1>2, <1>3
<1>7. Spells(body, a, name) /\ body[m] = "=" /\ Spells(body, m + 1, text)
  <2> DEFINE sign == <<"=">>
             Chars == STRING \cup {"="}
  <2>0. sign \in Seq(Chars) /\ Len(sign) = 1 /\ sign[1] = "="
    OBVIOUS
  <2> HIDE DEF sign
  <2>1. Spells(body, a, name \o sign \o text)
    BY <1>3, <1>4, <1>6, SliceSpells DEF sign
  <2>2. name \in Seq(Chars) /\ text \in Seq(Chars) /\ name \o sign \in Seq(Chars)
    <3>1. STRING \subseteq Chars
      OBVIOUS
    <3>2. name \in Seq(Chars) /\ text \in Seq(Chars)
      BY <1>1, <3>1, SeqMonotonic
    <3>. QED
      BY <2>0, <3>2, ConcatProperties
  <2> HIDE DEF Chars
  <2>3. Len(name \o sign) = n + 1
    <3>1. Len(name \o sign) = Len(name) + Len(sign)
      BY <2>0, <2>2, ConcatProperties
    <3>. QED
      BY <2>0, <3>1 DEF n
  <2>4. Spells(body, a, name \o sign) /\ Spells(body, a + (n + 1), text)
    BY <1>3, <2>1, <2>2, <2>3, SpellsParts
  <2>5. Spells(body, a, name) /\ Spells(body, m, sign)
    BY <1>3, <2>0, <2>2, <2>4, SpellsParts DEF n
  <2>6. body[m + 1 - 1] = "=" /\ m + 1 - 1 = m /\ a + (n + 1) = m + 1
    BY <1>2, <1>3, <2>0, <2>5 DEF Spells
  <2>. QED
    BY <2>4, <2>5, <2>6
<1>8. \A p \in a .. m - 1 : body[p] # "&" /\ body[p] # "="
  <2>1. TAKE p \in a .. m - 1
  <2>2. p - a + 1 \in 1 .. n /\ a + (p - a + 1) - 1 = p
    BY <1>2, <1>3
  <2>3. body[p] = name[p - a + 1]
    BY <1>7, <2>2 DEF Spells, n
  <2>. QED
    BY <1>1, <1>4, <2>2, <2>3 DEF Avoids, n
<1>9. \A p \in m + 1 .. e - 1 : body[p] # "&"
  <2>1. TAKE p \in m + 1 .. e - 1
  <2>2. p - m \in 1 .. t /\ m + 1 + (p - m) - 1 = p
    BY <1>2, <1>3, <1>6
  <2>3. body[p] = text[p - m]
    BY <1>7, <2>2 DEF Spells, t
  <2>. QED
    BY <1>1, <1>4, <2>2, <2>3 DEF Avoids, t
<1>10. \A p \in a .. e - 1 : body[p] # "&"
  BY <1>2, <1>3, <1>6, <1>7, <1>8, <1>9
<1>11. Find(body, a, End(body), "&") = e
  <2>1. e \in a .. Len(body) + 1 /\ (e = Len(body) + 1 \/ body[e] = "&")
    BY <1>3, <1>4, <1>6
  <2>2. a \in Nat /\ Len(body) + 1 \in Nat
    BY <1>3
  <2>. HIDE DEF e
  <2>3. Find(body, a, Len(body) + 1, "&") = e
    BY <1>10, <2>1, <2>2, FindIs
  <2>. QED
    BY <2>3 DEF End
<1>12. Find(body, a, e, "=") = m
  <2>1. m \in a .. e /\ a \in Nat /\ e \in Nat
    BY <1>2, <1>3, <1>6
  <2>2. body[m] = "=" /\ \A p \in a .. m - 1 : body[p] # "="
    BY <1>7, <1>8
  <2>. HIDE DEF e, m
  <2>. QED
    BY <2>1, <2>2, FindIs
<1>13. Slice(body, a, m) = name
  <2>1. a + n <= Len(body) + 1
    BY <1>2, <1>3, <1>6
  <2>. QED
    BY <1>1, <1>3, <1>7, <2>1, SliceIs DEF Spells, n
<1>14. Slice(body, m + 1, e) = text /\ e - (m + 1) = t
  <2>1. m + 1 \in Nat \ {0} /\ m + 1 + t <= Len(body) + 1 /\ e = m + 1 + t
    BY <1>2, <1>3, <1>6
  <2>2. e - (m + 1) = t
    BY <1>2, <1>6
  <2>. HIDE DEF m, e
  <2>3. Slice(body, m + 1, m + 1 + t) = text
    BY <1>1, <1>7, <2>1, SliceIs DEF Spells, t
  <2>. QED
    BY <2>1, <2>2, <2>3
<1> HIDE DEF e, m
<1>15. UrlencodedField(body, a) = [key |-> name, value |-> [text |-> text, size |-> t]]
  BY <1>11, <1>12, <1>13, <1>14 DEF UrlencodedField, Bounded
<1>16. \A p \in a .. b - 2 : body[p] # "&"
  BY <1>3, <1>6, <1>10
<1>17. b - 1 <= Len(body) => body[b - 1] = "&"
  BY <1>4 DEF e
<1>. QED
  BY <1>5, <1>15, <1>16, <1>17 DEF Entry, a, b, t

LEMMA UrlencodedBegins ==
  ASSUME NEW body \in Seq(STRING), NEW sent \in Sent, sent # <<>>,
         NEW at \in [1 .. Len(sent) + 1 -> Begins(body)], UrlencodedAt(body, sent, at)
  PROVE  {1} \cup {p + 1 : p \in {q \in DOMAIN body : body[q] = "&"}}
           = {at[i] : i \in 1 .. Len(sent)}
<1>1. Len(sent) \in Nat \ {0} /\ Len(body) \in Nat /\ DOMAIN body = 1 .. Len(body)
  BY DEF Sent
<1>2. /\ at[1] = 1 /\ at[Len(sent) + 1] = Len(body) + 2
      /\ \A i \in 1 .. Len(sent) + 1 : at[i] \in Nat \ {0}
      /\ \A i, j \in 1 .. Len(sent) + 1 : i < j => at[i] < at[j]
  BY UrlencodedPlaces DEF UrlencodedAt
<1>3. ASSUME NEW q \in 1 .. Len(body), body[q] = "&"
      PROVE  \E i \in 1 .. Len(sent) : q + 1 = at[i]
  <2> DEFINE Behind == {j \in 1 .. Len(sent) + 1 : q + 1 < at[j]}
  <2>1. Len(sent) + 1 \in Behind /\ Behind \subseteq Nat
    BY <1>1, <1>2
  <2>2. PICK j \in Behind : \A k \in Behind : j <= k
    BY <2>1, MinExists
  <2>3. j # 1 /\ j - 1 \in 1 .. Len(sent) /\ j \in 1 .. Len(sent) + 1
    BY <1>1, <1>2, <1>3
  <2>4. j - 1 \notin Behind /\ j - 1 + 1 = j
    BY <2>2, <2>3
  <2>5. at[j - 1] <= q + 1 /\ q + 1 < at[j]
    BY <1>2, <2>2, <2>3, <2>4
  <2>6. \A p \in at[j - 1] .. at[j] - 2 : body[p] # "&"
    BY <2>3, <2>4, UrlencodedPair
  <2>7. at[j - 1] \in Nat /\ at[j] \in Nat
    BY <1>2, <2>3
  <2>8. ~(at[j - 1] <= q)
    BY <1>3, <2>5, <2>6, <2>7
  <2>9. q + 1 = at[j - 1]
    BY <2>5, <2>7, <2>8
  <2>. QED
    BY <2>3, <2>9
<1>4. ASSUME NEW i \in 1 .. Len(sent), i # 1
      PROVE  at[i] - 1 \in 1 .. Len(body) /\ body[at[i] - 1] = "&"
  <2>1. i - 1 \in 1 .. Len(sent) /\ i - 1 + 1 = i /\ 1 \in 1 .. Len(sent) + 1
        /\ i \in 1 .. Len(sent) + 1 /\ Len(sent) + 1 \in 1 .. Len(sent) + 1
    BY <1>1, <1>4
  <2>2. at[1] < at[i] /\ at[i] < at[Len(sent) + 1] /\ at[i] \in Nat
    BY <1>1, <1>2, <1>4, <2>1
  <2>3. at[i] - 1 \in 1 .. Len(body)
    BY <1>1, <1>2, <2>2
  <2>4. at[i - 1 + 1] - 1 <= Len(body) => body[at[i - 1 + 1] - 1] = "&"
    BY <2>1, UrlencodedPair
  <2>. QED
    BY <1>1, <2>1, <2>3, <2>4
<1>5. ASSUME NEW i \in 1 .. Len(sent)
      PROVE  at[i] \in {1} \cup {p + 1 : p \in {q \in DOMAIN body : body[q] = "&"}}
  <2>1. CASE i = 1
    BY <1>2, <2>1
  <2>2. CASE i # 1
    <3>1. at[i] - 1 \in {q \in DOMAIN body : body[q] = "&"}
      BY <1>1, <1>4, <2>2
    <3>2. at[i] = (at[i] - 1) + 1
      BY <1>1, <1>2
    <3>. QED
      BY <3>1, <3>2
  <2>. QED
    BY <2>1, <2>2
<1>6. 1 \in {at[i] : i \in 1 .. Len(sent)}
  <2>1. 1 \in 1 .. Len(sent)
    BY <1>1
  <2>. QED
    BY <1>2, <2>1
<1>. QED
  BY <1>1, <1>3, <1>5, <1>6

LEMMA UrlencodedDelivers ==
  ASSUME NEW body \in Seq(STRING), NEW sent \in Sent, IsUrlencoded(body, sent)
  PROVE  \E fields : Urlencoded(body) = Read(fields) /\ Delivers(fields, sent)
<1> DEFINE begins == Ascending({1} \cup {p + 1 : p \in {q \in DOMAIN body : body[q] = "&"}})
           entries == [i \in DOMAIN begins |-> UrlencodedField(body, begins[i])]
<1>1. Urlencoded(body) = Read(FirstOfEach(entries))
  BY DEF Urlencoded
<1>2. CASE sent = <<>>
  <2>1. body = <<>> /\ Len(body) = 0 /\ DOMAIN body = {}
    BY <1>2 DEF IsUrlencoded
  <2>2. {1} \cup {p + 1 : p \in {q \in DOMAIN body : body[q] = "&"}} = {1}
    BY <2>1
  <2>3. DOMAIN begins = {1} /\ begins[1] = 1
    <3>1. /\ DOMAIN Ascending({1}) = 1 .. Cardinality({1})
          /\ Ascending({1})[1] = Min({1})
      <4>1. 1 \in Nat /\ {1} \subseteq 1 .. 1 /\ {1} # {}
        OBVIOUS
      <4>. QED
        BY <4>1, AscendingFirst
    <3>2. Cardinality({1}) = 1 /\ Min({1}) = 1
      <4>1. {1} \subseteq Nat /\ {1} # {}
        OBVIOUS
      <4>. QED
        BY <4>1, FS_Singleton, MinExists
    <3>3. begins = Ascending({1})
      BY <2>2
    <3>. QED
      BY <3>1, <3>2, <3>3
  <2>4. UrlencodedField(body, 1).key = <<>>
    <3>1. Find(body, 1, End(body), "&") = 1 /\ Find(body, 1, 1, "=") = 1
      BY <2>1, FindIs DEF End
    <3>2. Slice(body, 1, 1) = <<>>
      BY SubSeqEmpty DEF Slice
    <3>. QED
      BY <3>1, <3>2 DEF UrlencodedField
  <2>5. DOMAIN FirstOfEach(entries) = {<<>>}
    <3>1. DOMAIN FirstOfEach(entries) = {entries[i].key : i \in DOMAIN entries}
      BY DEF FirstOfEach, FirstOf
    <3>2. DOMAIN entries = {1} /\ entries[1] = UrlencodedField(body, 1)
      BY <2>3
    <3>. HIDE DEF entries
    <3>. QED
      BY <2>4, <3>1, <3>2
  <2>6. Delivers(FirstOfEach(entries), sent)
    <3>1. DOMAIN sent = {}
      BY <1>2
    <3>. HIDE DEF entries
    <3>. QED
      BY <2>5, <3>1 DEF Delivers
  <2>. QED
    BY <1>1, <2>6
<1>3. CASE sent # <<>>
  <2>1. PICK at \in [1 .. Len(sent) + 1 -> Begins(body)] : UrlencodedAt(body, sent, at)
    BY <1>3 DEF IsUrlencoded
  <2>2. begins = [i \in 1 .. Len(sent) |-> at[i]]
    <3>1. {1} \cup {p + 1 : p \in {q \in DOMAIN body : body[q] = "&"}}
            = {at[i] : i \in 1 .. Len(sent)}
      BY <1>3, <2>1, UrlencodedBegins
    <3>2. /\ Len(sent) \in Nat /\ \A i \in 1 .. Len(sent) + 1 : at[i] \in Nat
          /\ \A i, j \in 1 .. Len(sent) + 1 : i < j => at[i] < at[j]
      BY <2>1, UrlencodedPlaces
    <3>3. /\ \A i \in 1 .. Len(sent) : at[i] \in Nat
          /\ \A i, j \in 1 .. Len(sent) : i < j => at[i] < at[j]
      BY <3>2
    <3>. QED
      BY <3>1, <3>2, <3>3, AscendingIs
  <2>3. DOMAIN sent = 1 .. Len(sent)
    BY DEF Sent
  <2>4. entries = [i \in 1 .. Len(sent) |-> UrlencodedField(body, at[i])]
    BY <2>2
  <2>5. \A i \in 1 .. Len(sent) :
          entries[i].key = sent[i].name /\ entries[i].value = Entry(sent[i]).value
    BY <2>1, <2>4, UrlencodedPair
  <2>. HIDE DEF entries
  <2>6. Delivers(FirstOfEach(entries), sent)
    BY <2>3, <2>4, <2>5, EntriesDeliver
  <2>. QED
    BY <1>1, <2>6
<1>. QED
  BY <1>2, <1>3

-----------------------------------------------------------------------------
(* A multipart body *)

\* Characters that the provers cannot take as literals.
Quote == "\""
Semicolon == ";"
Space == " "

LEMMA Distinct ==
  /\ Quote # "\r" /\ Quote # Semicolon /\ Quote # Space
  /\ Semicolon # "\r" /\ Space # "\r" /\ Semicolon # Space
  /\ "form-data" # Space /\ "form-data" # Semicolon /\ "form-data" # Quote
  /\ "name=" # Space /\ "name=" # Semicolon /\ "name=" # Quote
BY Zenon DEF Quote, Semicolon, Space

\* The characters of a body and of what a part begins with.
Chars == STRING \cup {"Content-Disposition", ":", Space, "form-data", Semicolon, "name=", Quote, "\r", "\n"}

LEMMA CharsOf ==
  ASSUME NEW t \in Seq(STRING)
  PROVE  t \in Seq(Chars)
<1>1. STRING \subseteq Chars
  BY DEF Chars
<1>. QED
  BY <1>1, SeqMonotonic

\* A CRLF, and two.
LEMMA CrlfAt ==
  ASSUME NEW s \in Seq(STRING), NEW p \in Nat \ {0}, p + 1 <= Len(s)
  PROVE  SubSeq(s, p, p + 1) = Crlf <=> s[p] = "\r" /\ s[p + 1] = "\n"
<1> DEFINE u == SubSeq(s, p, p + 1)
<1>1. s \in Seq(Chars)
  BY CharsOf
<1>2. \A i \in p .. p + 1 : s[i] \in Chars
  BY <1>1
<1>3. u \in Seq(Chars) /\ Len(u) = 2 /\ \A i \in 1 .. 2 : u[i] = s[p + i - 1]
  BY <1>2, SubSeqProperties
<1>4. Crlf \in Seq(Chars) /\ Len(Crlf) = 2 /\ Crlf[1] = "\r" /\ Crlf[2] = "\n"
  BY DEF Crlf, Chars
<1>5. u[1] = s[p] /\ u[2] = s[p + 1]
  BY <1>3
<1>. HIDE DEF u
<1>6. u = Crlf <=> u[1] = "\r" /\ u[2] = "\n"
  <2>1. ASSUME u[1] = "\r", u[2] = "\n"
        PROVE  u = Crlf
    <3>1. \A i \in 1 .. Len(u) : u[i] = Crlf[i]
      BY <1>3, <1>4, <2>1
    <3>. QED
      BY <1>3, <1>4, <3>1, SeqEqual
  <2>. QED
    BY <1>4, <2>1
<1>7. u = Crlf <=> s[p] = "\r" /\ s[p + 1] = "\n"
  BY <1>5, <1>6
<1>. QED
  BY <1>7 DEF u

LEMMA EmptyLineAt ==
  ASSUME NEW s \in Seq(STRING), NEW p \in Nat \ {0}, p + 3 <= Len(s)
  PROVE  Slice(s, p, p + 4) = Crlf \o Crlf <=>
           SubSeq(s, p, p + 1) = Crlf /\ SubSeq(s, p + 2, p + 3) = Crlf
<1> DEFINE u == SubSeq(s, p, p + 4 - 1)
           v == Crlf \o Crlf
<1>1. s \in Seq(Chars)
  BY CharsOf
<1>2. \A i \in p .. p + 4 - 1 : s[i] \in Chars
  BY <1>1
<1>3. u \in Seq(Chars) /\ Len(u) = 4 /\ \A i \in 1 .. 4 : u[i] = s[p + i - 1]
  BY <1>2, SubSeqProperties
<1>4. v \in Seq(Chars) /\ Len(v) = 4
      /\ v[1] = "\r" /\ v[2] = "\n" /\ v[3] = "\r" /\ v[4] = "\n"
  <2>1. Crlf \in Seq(Chars) /\ Len(Crlf) = 2 /\ Crlf[1] = "\r" /\ Crlf[2] = "\n"
    BY DEF Crlf, Chars
  <2>2. /\ v \in Seq(Chars) /\ Len(v) = Len(Crlf) + Len(Crlf)
        /\ \A i \in 1 .. Len(Crlf) + Len(Crlf) :
             v[i] = IF i <= Len(Crlf) THEN Crlf[i] ELSE Crlf[i - Len(Crlf)]
    BY <2>1, ConcatProperties
  <2>. HIDE DEF v
  <2>. QED
    BY <2>1, <2>2
<1>5. u[1] = s[p] /\ u[2] = s[p + 1] /\ u[3] = s[p + 2] /\ u[4] = s[p + 3]
  BY <1>3
<1>6. p + 1 <= Len(s) /\ p + 2 \in Nat \ {0} /\ p + 2 + 1 <= Len(s) /\ p + 2 + 1 = p + 3
  OBVIOUS
<1>7. /\ SubSeq(s, p, p + 1) = Crlf <=> s[p] = "\r" /\ s[p + 1] = "\n"
      /\ SubSeq(s, p + 2, p + 3) = Crlf <=> s[p + 2] = "\r" /\ s[p + 3] = "\n"
  <2>1. SubSeq(s, p + 2, p + 2 + 1) = Crlf <=> s[p + 2] = "\r" /\ s[p + 2 + 1] = "\n"
    BY <1>6, CrlfAt
  <2>. QED
    BY <1>6, <2>1, CrlfAt
<1>. HIDE DEF u, v
<1>8. u = v <=> u[1] = "\r" /\ u[2] = "\n" /\ u[3] = "\r" /\ u[4] = "\n"
  <2>1. ASSUME u[1] = "\r", u[2] = "\n", u[3] = "\r", u[4] = "\n"
        PROVE  u = v
    <3>1. \A i \in 1 .. Len(u) : u[i] = v[i]
      BY <1>3, <1>4, <2>1
    <3>. QED
      BY <1>3, <1>4, <3>1, SeqEqual
  <2>. QED
    BY <1>4, <2>1
<1>. QED
  BY <1>5, <1>7, <1>8 DEF u, v, Slice

LEMMA SpellsOne ==
  ASSUME NEW s, NEW from \in Nat, NEW t, Len(t) = 1, Spells(s, from, t)
  PROVE  s[from] = t[1]
<1>1. 1 \in 1 .. Len(t) /\ from + 1 - 1 = from
  OBVIOUS
<1>. QED
  BY <1>1 DEF Spells

\* A part whose head is in [h, c) and whose text ends 2 before e.
PartAt(s, h, c, e, name, text) ==
  /\ h \in Nat \ {0} /\ c \in Nat /\ e \in Nat
  /\ name \in Seq(STRING) /\ text \in Seq(STRING)
  /\ h + 9 + Len(name) <= c /\ e = c + 6 + Len(text) /\ e <= Len(s)
  /\ Avoids(name, {Quote, Semicolon, "\r"})
  /\ Slice(s, h, h + 9 + Len(name)) = PartIntro \o name \o <<Quote>>
  /\ \A p \in h .. c : Slice(s, p, p + 4) = Crlf \o Crlf <=> p = c
  /\ Slice(s, c + 4, e) = text \o Crlf

\* What the head begins with, character by character.
LEMMA PartBegins ==
  ASSUME NEW s \in Seq(STRING), NEW h, NEW c, NEW e, NEW name, NEW text,
         PartAt(s, h, c, e, name, text)
  PROVE  /\ s[h] = "Content-Disposition" /\ s[h + 1] = ":" /\ s[h + 2] = Space
         /\ s[h + 3] = "form-data" /\ s[h + 4] = Semicolon /\ s[h + 5] = Space
         /\ s[h + 6] = "name=" /\ s[h + 7] = Quote
         /\ Spells(s, h + 8, name)
         /\ s[h + 8 + Len(name)] = Quote
         /\ Spells(s, c + 4, text)
<1> DEFINE n == Len(name)
           t == Len(text)
           quote == <<Quote>>
<1>1. /\ h \in Nat \ {0} /\ c \in Nat /\ e \in Nat /\ n \in Nat /\ t \in Nat
      /\ name \in Seq(Chars) /\ text \in Seq(Chars)
      /\ h + 9 + n <= c /\ e = c + 6 + t /\ e <= Len(s) /\ Len(s) \in Nat
  <2>1. name \in Seq(STRING) /\ text \in Seq(STRING)
    BY DEF PartAt
  <2>2. n \in Nat /\ t \in Nat /\ Len(s) \in Nat
    BY <2>1
  <2>3. name \in Seq(Chars) /\ text \in Seq(Chars)
    BY <2>1, CharsOf
  <2>. QED
    BY <2>2, <2>3 DEF PartAt
<1>2. Slice(s, h, h + 9 + n) = PartIntro \o name \o quote /\ Slice(s, c + 4, e) = text \o Crlf
  BY DEF PartAt
<1>3. quote \in Seq(Chars) /\ Len(quote) = 1 /\ quote[1] = Quote
  BY DEF Chars
<1>4. /\ PartIntro \in Seq(Chars) /\ Len(PartIntro) = 8
      /\ PartIntro[1] = "Content-Disposition" /\ PartIntro[2] = ":" /\ PartIntro[3] = Space
      /\ PartIntro[4] = "form-data" /\ PartIntro[5] = Semicolon /\ PartIntro[6] = Space
      /\ PartIntro[7] = "name=" /\ PartIntro[8] = Quote
  <2>1. PartIntro = <<"Content-Disposition", ":", Space, "form-data", Semicolon, Space, "name=", Quote>>
    BY Zenon DEF PartIntro, Space, Semicolon, Quote
  <2>. QED
    BY <2>1 DEF Chars
<1>5. Crlf \in Seq(Chars)
  BY DEF Crlf, Chars
<1> HIDE DEF n, t, quote
<1>6. Spells(s, h, PartIntro \o name \o quote) /\ Spells(s, c + 4, text \o Crlf)
  <2>1. h <= h + 9 + n /\ h + 9 + n \in Nat /\ h + 9 + n <= Len(s) + 1
    BY <1>1
  <2>2. c + 4 \in Nat \ {0} /\ c + 4 <= e /\ e <= Len(s) + 1
    BY <1>1
  <2>. QED
    BY <1>1, <1>2, <2>1, <2>2, SliceSpells
<1>7. Spells(s, c + 4, text)
  <2>1. c + 4 \in Nat \ {0}
    BY <1>1
  <2>. QED
    BY <1>1, <1>5, <1>6, <2>1, SpellsParts
<1>8. PartIntro \o name \in Seq(Chars) /\ Len(PartIntro \o name) = 8 + n
  <2>1. PartIntro \o name \in Seq(Chars) /\ Len(PartIntro \o name) = Len(PartIntro) + Len(name)
    <3>1. PartIntro \in Seq(Chars) /\ name \in Seq(Chars)
      BY <1>1, <1>4
    <3>. QED
      BY <3>1, ConcatProperties
  <2>. QED
    BY <1>4, <2>1 DEF n
<1>9. Spells(s, h, PartIntro \o name) /\ Spells(s, h + (8 + n), quote)
  BY <1>1, <1>3, <1>6, <1>8, SpellsParts
<1>10. Spells(s, h, PartIntro) /\ Spells(s, h + 8, name)
  BY <1>1, <1>4, <1>9, SpellsParts
<1>11. s[h + (8 + n)] = Quote
  <2>1. h + (8 + n) \in Nat
    BY <1>1
  <2>. QED
    BY <1>3, <1>9, <2>1, SpellsOne
<1>12. h + (8 + n) = h + 8 + n
  BY <1>1
<1>13. \A k \in 1 .. 8 : s[h + k - 1] = PartIntro[k]
  BY <1>4, <1>10 DEF Spells
<1>14. /\ s[h] = "Content-Disposition" /\ s[h + 1] = ":" /\ s[h + 2] = Space
       /\ s[h + 3] = "form-data" /\ s[h + 4] = Semicolon /\ s[h + 5] = Space
       /\ s[h + 6] = "name=" /\ s[h + 7] = Quote
  <2>1. /\ h + 1 - 1 = h /\ h + 2 - 1 = h + 1 /\ h + 3 - 1 = h + 2 /\ h + 4 - 1 = h + 3
        /\ h + 5 - 1 = h + 4 /\ h + 6 - 1 = h + 5 /\ h + 7 - 1 = h + 6 /\ h + 8 - 1 = h + 7
    BY <1>1
  <2>2. /\ s[h + 1 - 1] = PartIntro[1] /\ s[h + 2 - 1] = PartIntro[2]
        /\ s[h + 3 - 1] = PartIntro[3] /\ s[h + 4 - 1] = PartIntro[4]
        /\ s[h + 5 - 1] = PartIntro[5] /\ s[h + 6 - 1] = PartIntro[6]
        /\ s[h + 7 - 1] = PartIntro[7] /\ s[h + 8 - 1] = PartIntro[8]
    BY <1>13
  <2>. QED
    BY <1>4, <2>1, <2>2
<1>. QED
  BY <1>7, <1>10, <1>11, <1>12, <1>14 DEF n

\* The head ends with its first empty line.
LEMMA HeadEnds ==
  ASSUME NEW s \in Seq(STRING), NEW h, NEW c, NEW e, NEW name, NEW text,
         PartAt(s, h, c, e, name, text)
  PROVE  /\ HeaderEnds(s, h, e) # {}
         /\ Min(HeaderEnds(s, h, e)) = c
<1> DEFINE t == Len(text)
           n == Len(name)
<1>1. h \in Nat \ {0} /\ c \in Nat /\ e \in Nat /\ t \in Nat /\ n \in Nat /\ Len(s) \in Nat
  <2>1. name \in Seq(STRING) /\ text \in Seq(STRING)
    BY DEF PartAt
  <2>2. n \in Nat /\ t \in Nat /\ Len(s) \in Nat
    BY <2>1
  <2>. QED
    BY <2>2 DEF PartAt
<1>2. h + 9 + n <= c /\ e = c + 6 + t /\ e <= Len(s)
  BY DEF PartAt
<1>3. \A p \in h .. c : Slice(s, p, p + 4) = Crlf \o Crlf <=> p = c
  BY DEF PartAt
<1> HIDE DEF t, n
<1>4. h <= c /\ c + 6 <= e /\ e <= Len(s)
  BY <1>1, <1>2
<1> DEFINE Lines == LineEnds(s, h, e)
           Ends == HeaderEnds(s, h, e)
<1>5. ASSUME NEW p \in h .. c
      PROVE  SubSeq(s, p, p + 1) = Crlf /\ SubSeq(s, p + 2, p + 3) = Crlf <=> p = c
  <2>1. p \in Nat \ {0} /\ p + 3 <= Len(s)
    BY <1>1, <1>4
  <2>. QED
    BY <1>3, <2>1, EmptyLineAt
<1>6. \A p \in h .. c : p \in Lines <=> SubSeq(s, p, p + 1) = Crlf
  BY <1>1, <1>4 DEF LineEnds
<1>7. \A p \in h .. c : p + 2 \in Lines <=> SubSeq(s, p + 2, p + 3) = Crlf
  <2>1. TAKE p \in h .. c
  <2>2. p + 2 \in h .. e - 2 /\ p + 2 + 1 = p + 3
    BY <1>1, <1>4
  <2>. QED
    BY <2>2 DEF LineEnds
<1>8. \A p : p \in Ends <=> p \in Lines /\ (p + 2 = e \/ p + 2 \in Lines)
  BY DEF HeaderEnds
<1>9. c \in Ends
  <2>1. c \in h .. c
    BY <1>1, <1>4
  <2>. HIDE DEF Ends, Lines
  <2>. QED
    BY <1>5, <1>6, <1>7, <1>8, <2>1
<1>10. Ends \subseteq Nat
  BY <1>1 DEF HeaderEnds, LineEnds
<1>11. \A p \in Ends : c <= p
  <2>1. SUFFICES ASSUME NEW p \in Ends, ~(c <= p) PROVE FALSE
    OBVIOUS
  <2>2. p \in h .. e - 2
    BY DEF HeaderEnds, LineEnds
  <2>3. p \in h .. c /\ p + 2 # e /\ p # c
    BY <1>1, <1>4, <2>1, <2>2
  <2>. HIDE DEF Ends, Lines
  <2>. QED
    BY <1>5, <1>6, <1>7, <1>8, <2>1, <2>3
<1>12. PICK m \in Ends : m = Min(Ends) /\ \A p \in Ends : m <= p
  BY <1>9, <1>10, MinExists
<1>13. m = c
  BY <1>1, <1>9, <1>10, <1>11, <1>12
<1>. QED
  BY <1>9, <1>12, <1>13

\* There is no end of a line in what the head begins with.
LEMMA FirstLine ==
  ASSUME NEW s \in Seq(STRING), NEW h, NEW c, NEW e, NEW name, NEW text,
         PartAt(s, h, c, e, name, text)
  PROVE  \A p \in h .. h + 8 + Len(name) : s[p] # "\r"
<1> DEFINE n == Len(name)
<1>1. h \in Nat \ {0} /\ n \in Nat /\ DOMAIN name = 1 .. n
  <2>1. name \in Seq(STRING) /\ h \in Nat \ {0}
    BY DEF PartAt
  <2>2. n \in Nat /\ DOMAIN name = 1 .. n
    BY <2>1
  <2>. QED
    BY <2>1, <2>2
<1>2. Avoids(name, {Quote, Semicolon, "\r"})
  BY DEF PartAt
<1>3. Spells(s, h + 8, name) /\ s[h + 8 + n] = Quote
  BY PartBegins
<1>4. /\ s[h] # "\r" /\ s[h + 1] # "\r" /\ s[h + 2] # "\r" /\ s[h + 3] # "\r"
      /\ s[h + 4] # "\r" /\ s[h + 5] # "\r" /\ s[h + 6] # "\r" /\ s[h + 7] # "\r"
  BY PartBegins, Distinct
<1> SUFFICES ASSUME NEW p \in h .. h + 8 + n PROVE s[p] # "\r"
  OBVIOUS
<1> HIDE DEF n
<1>5. CASE p \in h .. h + 7
  <2>1. p = h \/ p = h + 1 \/ p = h + 2 \/ p = h + 3 \/ p = h + 4 \/ p = h + 5 \/ p = h + 6
        \/ p = h + 7
    BY <1>1, <1>5
  <2>. QED
    BY <1>4, <2>1
<1>6. CASE p \in h + 8 .. h + 7 + n
  <2>1. p - h - 7 \in 1 .. n /\ h + 8 + (p - h - 7) - 1 = p
    BY <1>1, <1>6
  <2>2. s[p] = name[p - h - 7]
    BY <1>3, <2>1 DEF Spells, n
  <2>. QED
    BY <1>1, <1>2, <2>1, <2>2 DEF Avoids
<1>7. CASE p = h + 8 + n
  BY <1>3, <1>7, Distinct
<1>. QED
  BY <1>1, <1>5, <1>6, <1>7

\* The value of the first header: from "form-data" to the end of the line.
LEMMA HeadersTell ==
  ASSUME NEW s \in Seq(STRING), NEW h, NEW c, NEW e, NEW name, NEW text,
         PartAt(s, h, c, e, name, text)
  PROVE  \E to \in h + 9 + Len(name) .. c :
           LET headers == Headers(s, h, c)
               key == <<"Content-Disposition">>
           IN key \in DOMAIN headers /\ headers[key] = Slice(s, h + 3, to)
<1> DEFINE n == Len(name)
           t == Len(text)
           key == <<"Content-Disposition">>
           Ends == {p \in LineEnds(s, h, c + 2) : p <= c}
           ends == Ascending(Ends)
           lines == [i \in DOMAIN ends |->
                       HeaderLine(s, IF i = 1 THEN h ELSE ends[i - 1] + 2, ends[i])]
           named == {i \in DOMAIN lines : lines[i].named}
<1>1. /\ h \in Nat \ {0} /\ c \in Nat /\ n \in Nat /\ Len(s) \in Nat
      /\ h + 9 + n <= c /\ c + 6 <= Len(s)
  <2>1. name \in Seq(STRING) /\ text \in Seq(STRING)
    BY DEF PartAt
  <2>2. n \in Nat /\ Len(s) \in Nat /\ t \in Nat
    BY <2>1
  <2>3. h \in Nat \ {0} /\ c \in Nat /\ h + 9 + n <= c /\ c + 6 + t <= Len(s)
    BY DEF PartAt
  <2>. HIDE DEF n, t
  <2>. QED
    BY <2>2, <2>3
<1>2. \A p \in h .. h + 8 + n : s[p] # "\r"
  BY FirstLine
<1>3. c \in Ends
  <2>1. c \in Nat \ {0} /\ c + 3 <= Len(s) /\ c \in h .. c
    BY <1>1
  <2>2. SubSeq(s, c, c + 1) = Crlf
    BY <2>1, EmptyLineAt DEF PartAt
  <2>. QED
    BY <1>1, <2>2 DEF LineEnds
<1>4. /\ Ends \subseteq h + 9 + n .. c
  <2>1. SUFFICES ASSUME NEW p \in Ends PROVE p \in h + 9 + n .. c
    OBVIOUS
  <2>2. p \in h .. c /\ SubSeq(s, p, p + 1) = Crlf
    BY <1>1 DEF LineEnds
  <2>3. s[p] = "\r"
    <3>1. p \in Nat \ {0} /\ p + 1 <= Len(s)
      BY <1>1, <2>2
    <3>. QED
      BY <2>2, <3>1, CrlfAt
  <2>4. p \notin h .. h + 8 + n
    BY <1>2, <2>3
  <2>. HIDE DEF n
  <2>. QED
    BY <1>1, <2>2, <2>4
<1> HIDE DEF n, Ends
<1>5. PICK to \in Ends : to = Min(Ends)
  <2>1. Ends \subseteq Nat /\ Ends # {}
    BY <1>1, <1>3, <1>4
  <2>. QED
    BY <2>1, MinExists
<1>6. 1 \in DOMAIN ends /\ DOMAIN ends \subseteq Nat \ {0} /\ ends[1] = to
  <2>1. h + 9 + n \in Nat /\ Ends # {}
    BY <1>1, <1>3
  <2>2. /\ Cardinality(Ends) \in Nat \ {0} /\ DOMAIN ends = 1 .. Cardinality(Ends)
        /\ ends[1] = Min(Ends)
    BY <1>1, <1>4, <2>1, AscendingFirst
  <2>. QED
    BY <1>5, <2>2
<1>7. to \in Nat /\ h + 9 + n <= to /\ to <= c
  BY <1>1, <1>4, <1>5
<1>0. /\ s[h] = "Content-Disposition" /\ s[h + 1] = ":" /\ s[h + 2] = Space
      /\ s[h + 3] = "form-data"
  BY PartBegins
<1>a. HeaderLine(s, h, to) =
         LET colon == Find(s, h, to, ":")
             text_ == {i \in colon + 1 .. to - 1 : s[i] # Space}
         IN [named |-> colon # to, key |-> Slice(s, h, colon),
             value |-> Slice(s, Min(text_ \cup {to}), to)]
  BY Zenon DEF HeaderLine, Space
<1>8. HeaderLine(s, h, to) = [named |-> TRUE, key |-> key, value |-> Slice(s, h + 3, to)]
  <2>1. Find(s, h, to, ":") = h + 1
    <3>1. h + 1 \in h .. to /\ s[h + 1] = ":" /\ \A q \in h .. h + 1 - 1 : s[q] # ":"
      <4>1. h + 1 \in h .. to
        BY <1>1, <1>7
      <4>2. \A q \in h .. h + 1 - 1 : q = h
        BY <1>1
      <4>3. s[h] # ":"
        BY <1>0
      <4>. QED
        BY <1>0, <4>1, <4>2, <4>3
    <3>. QED
      BY <1>1, <1>7, <3>1, FindIs
  <2>2. h + 1 # to
    BY <1>1, <1>7
  <2>3. Slice(s, h, h + 1) = key
    <3>1. \A i \in h .. h : s[i] \in Chars
      BY <1>1, CharsOf
    <3> DEFINE u == SubSeq(s, h, h)
    <3>2. u \in Seq(Chars) /\ Len(u) = 1 /\ \A i \in 1 .. 1 : u[i] = s[h + i - 1]
      BY <1>1, <3>1, SubSeqProperties
    <3>3. u[1] = "Content-Disposition"
      <4>1. u[1] = s[h + 1 - 1] /\ h + 1 - 1 = h
        BY <1>1, <3>2
      <4>. QED
        BY <1>0, <4>1
    <3>. HIDE DEF u
    <3>4. u = <<"Content-Disposition">>
      BY <3>2, <3>3
    <3>5. Slice(s, h, h + 1) = u
      BY <1>1 DEF Slice, u
    <3>. QED
      BY <3>4, <3>5
  <2>4. Min({i \in h + 1 + 1 .. to - 1 : s[i] # Space} \cup {to}) = h + 3
    <3> DEFINE Ink == {i \in h + 1 + 1 .. to - 1 : s[i] # Space} \cup {to}
    <3>1. h + 3 \in Ink
      <4>1. h + 3 \in h + 1 + 1 .. to - 1
        BY <1>1, <1>7
      <4>2. s[h + 3] # Space
        BY <1>0, Distinct
      <4>. QED
        BY <4>1, <4>2
    <3>0. \A i \in Ink : i \in h + 1 + 1 .. to - 1 \/ i = to
      OBVIOUS
    <3>2. Ink \subseteq Nat
      <4>1. \A i \in h + 1 + 1 .. to - 1 : i \in Nat
        BY <1>1, <1>7
      <4>. QED
        BY <1>7, <3>0, <4>1
    <3>3. \A i \in Ink : h + 3 <= i
      <4>1. \A i \in Ink : i \in Nat /\ h + 2 <= i
        <5>1. \A i \in h + 1 + 1 .. to - 1 : i \in Nat /\ h + 2 <= i
          BY <1>1, <1>7
        <5>2. to \in Nat /\ h + 2 <= to
          BY <1>1, <1>7
        <5>. QED
          BY <3>0, <5>1, <5>2
      <4>2. h + 2 \notin Ink
        <5>1. h + 2 # to
          BY <1>1, <1>7
        <5>2. s[h + 2] = Space
          BY <1>0
        <5>. QED
          BY <5>1, <5>2
      <4>. HIDE DEF Ink
      <4>. QED
        BY <1>1, <4>1, <4>2
    <3>. HIDE DEF Ink
    <3>4. PICK m \in Ink : m = Min(Ink) /\ \A i \in Ink : m <= i
      BY <3>1, <3>2, MinExists
    <3>5. m = h + 3
      BY <1>1, <3>1, <3>2, <3>3, <3>4
    <3>. QED
      BY <3>4, <3>5 DEF Ink
  <2>. QED
    BY <1>a, <2>1, <2>2, <2>3, <2>4
<1>9. lines[1] = HeaderLine(s, h, to)
  BY <1>6
<1>10. Headers(s, h, c) = FirstOf(lines, named)
  BY DEF Headers, Ends
<1>11. DOMAIN lines = DOMAIN ends
  OBVIOUS
<1> HIDE DEF lines, ends, key
<1>12. 1 \in named /\ lines[1].key = key /\ lines[1].value = Slice(s, h + 3, to)
       /\ named \subseteq Nat \ {0}
  BY <1>6, <1>8, <1>9, <1>11
<1>13. key \in DOMAIN FirstOf(lines, named)
       /\ FirstOf(lines, named)[key] = Slice(s, h + 3, to)
  <2> DEFINE Same == {i \in named : lines[i].key = key}
  <2>1. 1 \in Same /\ Same \subseteq Nat \ {0}
    BY <1>12
  <2>2. PICK m \in Same : m = Min(Same) /\ \A i \in Same : m <= i
    <3>1. Same \subseteq Nat /\ Same # {}
      BY <2>1
    <3>. QED
      BY <3>1, MinExists
  <2>3. m = 1
    <3>1. m \in Nat \ {0} /\ m <= 1
      BY <2>1, <2>2
    <3>. QED
      BY <3>1
  <2>. HIDE DEF named
  <2>4. key \in {lines[i].key : i \in named}
    BY <1>12
  <2>5. FirstOf(lines, named)[key] = lines[Min(Same)].value
    BY <2>4 DEF FirstOf
  <2>. QED
    BY <1>12, <2>2, <2>3, <2>4, <2>5 DEF FirstOf
<1>14. to \in h + 9 + n .. c
  BY <1>1, <1>7
<1>. QED
  BY <1>10, <1>13, <1>14 DEF key, n

\* What the value of the first header holds.
Tells(v, name) ==
  /\ v \in Seq(STRING) /\ name \in Seq(STRING) /\ 6 + Len(name) <= Len(v)
  /\ v[1] = "form-data" /\ v[2] = Semicolon /\ v[3] = Space /\ v[4] = "name=" /\ v[5] = Quote
  /\ Spells(v, 6, name)
  /\ v[6 + Len(name)] = Quote

LEMMA ValueTells ==
  ASSUME NEW s \in Seq(STRING), NEW h, NEW c, NEW e, NEW name, NEW text,
         PartAt(s, h, c, e, name, text), NEW to \in h + 9 + Len(name) .. c
  PROVE  Tells(Slice(s, h + 3, to), name)
<1> DEFINE n == Len(name)
           t == Len(text)
           v == SubSeq(s, h + 3, to - 1)
<1>1. /\ h \in Nat \ {0} /\ c \in Nat /\ n \in Nat /\ Len(s) \in Nat
      /\ to \in Nat /\ h + 9 + n <= to /\ to <= Len(s)
  <2>1. name \in Seq(STRING) /\ text \in Seq(STRING)
    BY DEF PartAt
  <2>2. n \in Nat /\ Len(s) \in Nat /\ t \in Nat
    BY <2>1
  <2>3. h \in Nat \ {0} /\ c \in Nat /\ c + 6 + t <= Len(s)
    BY DEF PartAt
  <2>4. to \in h + 9 + n .. c
    OBVIOUS
  <2>. HIDE DEF n, t
  <2>. QED
    BY <2>2, <2>3, <2>4
<1>2. name \in Seq(STRING) /\ Spells(s, h + 8, name)
  <2>1. name \in Seq(STRING)
    BY DEF PartAt
  <2>. QED
    BY <2>1, PartBegins
<1>3. /\ s[h + 3] = "form-data" /\ s[h + 4] = Semicolon /\ s[h + 5] = Space
      /\ s[h + 6] = "name=" /\ s[h + 7] = Quote /\ s[h + 8 + n] = Quote
  BY PartBegins
<1> HIDE DEF n
<1>4. \A i \in h + 3 .. to - 1 : s[i] \in STRING
  BY <1>1
<1>5. v \in Seq(STRING) /\ Len(v) = to - h - 3
      /\ \A k \in 1 .. to - h - 3 : v[k] = s[h + 2 + k]
  <2>1. h + 3 \in Int /\ to - 1 \in Int
    BY <1>1
  <2>2. /\ v \in Seq(STRING)
        /\ Len(v) = IF h + 3 <= to - 1 THEN (to - 1) - (h + 3) + 1 ELSE 0
        /\ \A k \in 1 .. (to - 1) - (h + 3) + 1 : v[k] = s[(h + 3) + k - 1]
    BY <1>4, <2>1, SubSeqProperties
  <2>. HIDE DEF v
  <2>3. \A k \in 1 .. to - h - 3 : (h + 3) + k - 1 = h + 2 + k
    BY <1>1
  <2>4. (to - 1) - (h + 3) + 1 = to - h - 3 /\ h + 3 <= to - 1
    BY <1>1
  <2>. QED
    BY <2>2, <2>3, <2>4
<1> HIDE DEF v
<1>6. v[1] = "form-data" /\ v[2] = Semicolon /\ v[3] = Space /\ v[4] = "name=" /\ v[5] = Quote
  <2>1. /\ v[1] = s[h + 2 + 1] /\ v[2] = s[h + 2 + 2] /\ v[3] = s[h + 2 + 3]
        /\ v[4] = s[h + 2 + 4] /\ v[5] = s[h + 2 + 5]
    <3>1. 5 <= to - h - 3 /\ to - h - 3 \in Nat
      BY <1>1
    <3>2. \A k \in 1 .. 5 : v[k] = s[h + 2 + k]
      BY <1>5, <3>1
    <3>. QED
      BY <3>2
  <2>2. h + 2 + 1 = h + 3 /\ h + 2 + 2 = h + 4 /\ h + 2 + 3 = h + 5
        /\ h + 2 + 4 = h + 6 /\ h + 2 + 5 = h + 7
    BY <1>1
  <2>. QED
    BY <1>3, <2>1, <2>2
<1>7. v[6 + n] = Quote
  <2>1. 6 + n \in 1 .. to - h - 3 /\ h + 2 + (6 + n) = h + 8 + n
    BY <1>1
  <2>. QED
    BY <1>3, <1>5, <2>1
<1>8. Spells(v, 6, name)
  <2>1. ASSUME NEW k \in 1 .. n
        PROVE  v[6 + k - 1] = name[k]
    <3>1. 6 + k - 1 \in 1 .. to - h - 3 /\ h + 2 + (6 + k - 1) = h + 8 + k - 1
      BY <1>1
    <3>2. s[h + 8 + k - 1] = name[k]
      BY <1>2 DEF Spells, n
    <3>. QED
      BY <1>5, <3>1, <3>2
  <2>. QED
    BY <2>1 DEF Spells, n
<1>9. 6 + n <= Len(v)
  BY <1>1, <1>5
<1>10. Tells(v, name)
  BY <1>2, <1>5, <1>6, <1>7, <1>8, <1>9 DEF Tells, n
<1>. QED
  BY <1>10 DEF v, Slice

\* The name is what is between the quotes.
LEMMA NameIsTold ==
  ASSUME NEW v, NEW name, Tells(v, name), Avoids(name, {Quote, Semicolon, "\r"})
  PROVE  HeaderPart(v, <<"name=">>) = name
<1> DEFINE sub == <<"name=">>
           n == Len(name)
           L == Len(v) + 1
<1>1. /\ v \in Seq(STRING) /\ name \in Seq(STRING) /\ n \in Nat /\ L \in Nat /\ 7 + n <= L
      /\ DOMAIN name = 1 .. n
  <2>1. v \in Seq(STRING) /\ name \in Seq(STRING) /\ 6 + n <= Len(v)
    BY DEF Tells
  <2>2. n \in Nat /\ Len(v) \in Nat /\ DOMAIN name = 1 .. n
    BY <2>1
  <2>. HIDE DEF n
  <2>. QED
    BY <2>1, <2>2
<1>2. /\ v[1] = "form-data" /\ v[2] = Semicolon /\ v[3] = Space /\ v[4] = "name=" /\ v[5] = Quote
      /\ Spells(v, 6, name) /\ v[6 + n] = Quote
  BY DEF Tells
<1>3. HeaderPart(v, sub) =
        LET begin == Search(v, 1, End(v), sub)
            end == Find(v, begin, End(v), Semicolon)
            quote == Find(v, begin, end, Quote)
        IN IF quote = end THEN Slice(v, begin, end)
           ELSE Slice(v, quote + 1, Find(v, quote + 1, end, Quote))
  BY Zenon DEF HeaderPart, Semicolon, Quote
<1> HIDE DEF n
<1>4. Search(v, 1, End(v), sub) = 4
  <2> DEFINE Found == {i \in 1 .. L - 1 : \A k \in 1 .. 1 : sub[k] = v[i + k - 1]} \cup {L}
  <2>1. Len(sub) = 1 /\ DOMAIN sub = 1 .. 1 /\ sub[1] = "name="
    OBVIOUS
  <2>2. Search(v, 1, End(v), sub) = Min(Found)
    <3>. HIDE DEF sub
    <3>. QED
      BY <2>1 DEF Search, End
  <2>. HIDE DEF sub
  <2>3. \A i \in 1 .. L - 1 : (\A k \in 1 .. 1 : sub[k] = v[i + k - 1]) <=> v[i] = "name="
    <3>1. TAKE i \in 1 .. L - 1
    <3>2. \A k \in 1 .. 1 : k = 1 /\ i + k - 1 = i
      BY <1>1
    <3>3. 1 \in 1 .. 1
      OBVIOUS
    <3>. QED
      BY <2>1, <3>2, <3>3
  <2>4. 4 \in Found
    <3>1. 4 \in 1 .. L - 1
      BY <1>1
    <3>. QED
      BY <1>2, <2>3, <3>1
  <2>5. \A i \in Found : i \in Nat /\ 4 <= i
    <3>1. SUFFICES ASSUME NEW i \in Found, i # L PROVE i \in Nat /\ 4 <= i
      BY <1>1
    <3>2. i \in 1 .. L - 1 /\ v[i] = "name="
      BY <2>3, <3>1
    <3>3. i # 1 /\ i # 2 /\ i # 3
      BY <1>2, <3>2, Distinct
    <3>4. i \in Nat /\ 1 <= i
      BY <1>1, <3>2
    <3>. QED
      BY <3>3, <3>4
  <2>. HIDE DEF Found
  <2>6. PICK m \in Found : m = Min(Found) /\ \A i \in Found : m <= i
    <3>1. Found \subseteq Nat /\ Found # {}
      BY <2>4, <2>5
    <3>. QED
      BY <3>1, MinExists
  <2>7. m = 4
    BY <2>4, <2>5, <2>6
  <2>. QED
    BY <2>2, <2>6, <2>7
<1>5. ASSUME NEW p \in 6 .. 5 + n
      PROVE  v[p] # Semicolon /\ v[p] # Quote
  <2>1. p - 5 \in 1 .. n /\ 6 + (p - 5) - 1 = p
    BY <1>1
  <2>2. v[p] = name[p - 5]
    BY <1>2, <2>1 DEF Spells, n
  <2>. QED
    BY <1>1, <2>1, <2>2 DEF Avoids
<1>6. PICK end : end = Find(v, 4, L, Semicolon)
  OBVIOUS
<1>7. end \in Nat /\ 7 + n <= end /\ end <= L
  <2>1. end \in 4 .. L
    <3>1. 4 \in Nat /\ 4 <= L
      BY <1>1
    <3>. QED
      BY <1>1, <1>6, <3>1, FindIn
  <2>2. end = L \/ v[end] = Semicolon
    <3> DEFINE S == {i \in 4 .. L - 1 : v[i] = Semicolon} \cup {L}
    <3>1. S \subseteq Nat /\ S # {}
      BY <1>1
    <3>2. Min(S) \in S
      BY <3>1, MinExists
    <3>3. end = Min(S)
      BY <1>6 DEF Find
    <3>. QED
      BY <3>2, <3>3
  <2>3. end \notin 4 .. 6 + n \/ end = L
    <3>1. v[4] # Semicolon /\ v[5] # Semicolon /\ v[6 + n] # Semicolon
      BY <1>2, Distinct
    <3>2. SUFFICES ASSUME end \in 4 .. 6 + n, v[end] = Semicolon PROVE FALSE
      BY <2>2
    <3>3. end = 4 \/ end = 5 \/ end \in 6 .. 5 + n \/ end = 6 + n
      BY <1>1, <3>2
    <3>. QED
      BY <1>5, <3>1, <3>2, <3>3
  <2>. QED
    BY <1>1, <2>1, <2>3
<1>8. Find(v, 4, end, Quote) = 5 /\ 5 # end
  <2>1. 5 \in 4 .. end /\ 4 \in Nat /\ \A q \in 4 .. 5 - 1 : q = 4
    BY <1>1, <1>7
  <2>2. v[4] # Quote
    BY <1>2, Distinct
  <2>3. Find(v, 4, end, Quote) = 5
    BY <1>2, <1>7, <2>1, <2>2, FindIs
  <2>. QED
    BY <1>1, <1>7, <2>3
<1>9. Find(v, 6, end, Quote) = 6 + n
  <2> DEFINE last == 6 + n
  <2>1. 6 \in Nat /\ last \in 6 .. end /\ last - 1 = 5 + n
    BY <1>1, <1>7
  <2>2. v[last] = Quote /\ \A q \in 6 .. last - 1 : v[q] # Quote
    BY <1>2, <1>5, <2>1
  <2>. HIDE DEF last
  <2>3. Find(v, 6, end, Quote) = last
    BY <1>7, <2>1, <2>2, FindIs
  <2>. QED
    BY <2>3 DEF last
<1>10. Slice(v, 6, 6 + n) = name
  <2>1. 6 \in Nat \ {0} /\ 6 + Len(name) <= Len(v) + 1
    BY <1>1 DEF n
  <2>2. \A k \in 1 .. Len(name) : v[6 + k - 1] = name[k]
    BY <1>2 DEF Spells
  <2>. QED
    BY <1>1, <2>1, <2>2, SliceIs DEF n
<1>. HIDE DEF sub
<1>11. HeaderPart(v, sub) = Slice(v, 5 + 1, Find(v, 5 + 1, end, Quote))
  BY <1>3, <1>4, <1>6, <1>8 DEF End
<1>12. 5 + 1 = 6
  OBVIOUS
<1>. QED
  BY <1>9, <1>10, <1>11, <1>12 DEF sub

\* The part that a pair was sent in.
LEMMA PartIs ==
  ASSUME NEW s \in Seq(STRING), NEW h, NEW c, NEW e, NEW name, NEW text,
         PartAt(s, h, c, e, name, text)
  PROVE  Part(s, h, e) = [outcome |-> "read", key |-> name,
                          value |-> [text |-> text, size |-> Len(text)]]
<1> DEFINE key == <<"Content-Disposition">>
           t == Len(text)
<1>1. HeaderEnds(s, h, e) # {} /\ Min(HeaderEnds(s, h, e)) = c
  BY HeadEnds
<1>2. PICK to \in h + 9 + Len(name) .. c :
        key \in DOMAIN Headers(s, h, c) /\ Headers(s, h, c)[key] = Slice(s, h + 3, to)
  BY HeadersTell
<1>3. HeaderPart(Slice(s, h + 3, to), <<"name=">>) = name
  <2>1. Tells(Slice(s, h + 3, to), name)
    BY ValueTells
  <2>2. Avoids(name, {Quote, Semicolon, "\r"})
    BY DEF PartAt
  <2>. QED
    BY <2>1, <2>2, NameIsTold
<1>4. Bounded(s, c + 4, e - 2) = [text |-> text, size |-> t]
  <2>1. c \in Nat /\ text \in Seq(STRING) /\ e = c + 6 + t /\ e <= Len(s)
    BY DEF PartAt
  <2>2. t \in Nat /\ Len(s) \in Nat
    BY <2>1
  <2>3. \A k \in 1 .. Len(text) : s[c + 4 + k - 1] = text[k]
    BY PartBegins DEF Spells
  <2>. HIDE DEF t
  <2>4. c + 4 \in Nat \ {0} /\ c + 4 + t <= Len(s) + 1 /\ e - 2 = c + 4 + t
        /\ (e - 2) - (c + 4) = t
    BY <2>1, <2>2
  <2>5. Slice(s, c + 4, c + 4 + t) = text
    BY <2>1, <2>3, <2>4, SliceIs DEF t
  <2>. QED
    BY <2>4, <2>5 DEF Bounded
<1> HIDE DEF key, t
<1>. QED
  BY <1>1, <1>2, <1>3, <1>4 DEF Part, key, t

\* The parts lie between the boundaries, one behind the other.
LEMMA MultipartPlaces ==
  ASSUME NEW body \in Seq(STRING), NEW sent \in Sent,
         NEW at \in [1 .. Len(sent) + 1 -> Boundaries(body)], MultipartAt(body, sent, at)
  PROVE  /\ Len(sent) \in Nat
         /\ \A i \in 1 .. Len(sent) :
              PartAt(body, at[i] + 3, at[i + 1] - 6 - Len(sent[i].text), at[i + 1],
                     sent[i].name, sent[i].text)
         /\ Ascending(Boundaries(body)) = [i \in 1 .. Len(sent) + 1 |-> at[i]]
<1> DEFINE n == Len(sent)
           last == n + 1
<1>1. n \in Nat /\ DOMAIN sent = 1 .. n
  BY SentTypes
<1>2. Boundaries(body) \subseteq 1 .. Len(body) /\ Len(body) \in Nat
  BY DEF Boundaries
<1>3. \A i \in 1 .. last : at[i] \in Nat \ {0} /\ at[i] <= Len(body)
  BY <1>1, <1>2
<1>4. ASSUME NEW i \in 1 .. n
      PROVE  /\ PartAt(body, at[i] + 3, at[i + 1] - 6 - Len(sent[i].text), at[i + 1],
                       sent[i].name, sent[i].text)
             /\ at[i] < at[i + 1]
  <2> DEFINE a == at[i]
             b == at[i + 1]
             name == sent[i].name
             text == sent[i].text
             l == Len(name)
             t == Len(text)
             c == b - 6 - t
  <2>1. name \in Seq(STRING) /\ text \in Seq(STRING) /\ l \in Nat /\ t \in Nat
    BY SentTypes
  <2>2. a \in Nat \ {0} /\ b \in Nat \ {0} /\ b <= Len(body)
    BY <1>1, <1>3
  <2>3. /\ Avoids(name, {Quote, Semicolon, "\r"})
        /\ a + 3 + 9 + l <= c
        /\ Slice(body, a + 3, a + 3 + 9 + l) = PartIntro \o name \o <<Quote>>
        /\ \A p \in a + 3 .. c : Slice(body, p, p + 4) = Crlf \o Crlf <=> p = c
        /\ Slice(body, c + 4, b) = text \o Crlf
    <3>1. i \in DOMAIN sent
      BY <1>1
    <3>. QED
      BY <3>1, Zenon DEF MultipartAt, Quote, Semicolon
  <2> DEFINE h == a + 3
  <2> HIDE DEF a, b, l, t
  <2>4. h \in Nat \ {0} /\ c \in Nat /\ b = c + 6 + t /\ a < b
    BY <1>2, <2>1, <2>2, <2>3
  <2>5. PartAt(body, h, c, b, name, text)
    <3>. HIDE DEF c, h
    <3>1. /\ h + 9 + l <= c
          /\ Slice(body, h, h + 9 + l) = PartIntro \o name \o <<Quote>>
          /\ \A p \in h .. c : Slice(body, p, p + 4) = Crlf \o Crlf <=> p = c
      BY <2>3 DEF h
    <3>. HIDE DEF name, text
    <3>. QED
      BY <2>1, <2>2, <2>3, <2>4, <3>1 DEF PartAt, l, t
  <2>. QED
    BY <2>4, <2>5 DEF a, b, t
<1>5. \A i \in 1 .. last - 1 : at[i] < at[i + 1]
  BY <1>1, <1>4
<1>6. Boundaries(body) = {at[i] : i \in 1 .. last}
  <2>1. \A p \in Boundaries(body) : \E i \in 1 .. last : at[i] = p
    BY <1>1 DEF MultipartAt, Boundaries
  <2>2. \A i \in 1 .. last : at[i] \in Boundaries(body)
    OBVIOUS
  <2>. HIDE DEF last
  <2>. QED
    BY <2>1, <2>2
<1>7. Ascending(Boundaries(body)) = [i \in 1 .. last |-> at[i]]
  <2>1. last \in Nat /\ \A i \in 1 .. last : at[i] \in Nat
    BY <1>1, <1>3
  <2>. HIDE DEF last
  <2>2. \A i, j \in 1 .. last : i < j => at[i] < at[j]
    BY <1>5, <2>1, Growing
  <2>. QED
    BY <1>6, <2>1, <2>2, AscendingIs
<1>. QED
  BY <1>1, <1>4, <1>7

LEMMA MultipartDelivers ==
  ASSUME NEW body \in Seq(STRING), NEW sent \in Sent, IsMultipart(body, sent)
  PROVE  \E fields : Multipart(body) = Read(fields) /\ Delivers(fields, sent)
<1> DEFINE n == Len(sent)
           places == Ascending({i \in DOMAIN body : body[i] = Boundary})
           parts == [i \in 1 .. Len(places) - 1 |-> Part(body, places[i] + 3, places[i + 1])]
           bad == {i \in DOMAIN parts : parts[i].outcome # "read"}
<1>1. PICK at \in [1 .. n + 1 -> Boundaries(body)] : MultipartAt(body, sent, at)
  BY DEF IsMultipart
<1>2. n \in Nat /\ DOMAIN sent = 1 .. n
  BY SentTypes
<1>3. places = [i \in 1 .. n + 1 |-> at[i]]
  BY <1>1, MultipartPlaces DEF Boundaries
<1>4. \A i \in 1 .. n :
        PartAt(body, at[i] + 3, at[i + 1] - 6 - Len(sent[i].text), at[i + 1],
               sent[i].name, sent[i].text)
  BY <1>1, MultipartPlaces
<1>5. /\ Multipart(body) = CASE places = <<>> -> Undefined
                             [] places # <<>> /\ bad # {} -> parts[Min(bad)]
                             [] OTHER -> Read(FirstOfEach(parts))
  BY DEF Multipart
<1> HIDE DEF n, places
<1>6. places # <<>> /\ Len(places) = n + 1
      /\ \A i \in 1 .. n : places[i] = at[i] /\ places[i + 1] = at[i + 1]
  BY <1>2, <1>3
<1>7. DOMAIN parts = 1 .. n
  BY <1>2, <1>6
<1>8. ASSUME NEW i \in 1 .. n
      PROVE  parts[i].outcome = "read" /\ parts[i].key = sent[i].name
             /\ parts[i].value = Entry(sent[i]).value
  <2>1. parts[i] = Part(body, at[i] + 3, at[i + 1])
    BY <1>6, <1>7
  <2>2. Part(body, at[i] + 3, at[i + 1]) =
          [outcome |-> "read", key |-> sent[i].name,
           value |-> [text |-> sent[i].text, size |-> Len(sent[i].text)]]
    BY <1>4, PartIs
  <2>. HIDE DEF parts
  <2>. QED
    BY <2>1, <2>2 DEF Entry
<1> HIDE DEF parts
<1>9. bad = {}
  BY <1>7, <1>8
<1>10. Multipart(body) = Read(FirstOfEach(parts))
  BY <1>5, <1>6, <1>9
<1>11. Delivers(FirstOfEach(parts), sent)
  BY <1>2, <1>7, <1>8, EntriesDeliver
<1>. QED
  BY <1>10, <1>11

-----------------------------------------------------------------------------
(* What a form has of what was sent *)

LEMMA DrivenDelivers ==
  ASSUME NEW r, AsSent(r), Served(r)
  PROVE  /\ r.sent \in Sent
         /\ \E fields : Driven(r) = Read(fields) /\ Delivers(fields, r.sent)
<1>1. r.sent \in Sent /\ r.body \in Seq(STRING)
  BY DEF AsSent, Sent
<1>2. CASE r.driver = "query" /\ IsUrlencoded(r.body, r.sent)
  <2>1. Driven(r) = Urlencoded(r.body)
    BY <1>2 DEF Driven
  <2>. QED
    BY <1>1, <1>2, <2>1, UrlencodedDelivers
<1>3. CASE r.driver = "combo" /\ r.content = "urlencoded" /\ IsUrlencoded(r.body, r.sent)
  <2>1. Driven(r) = Urlencoded(r.body)
    BY <1>3 DEF Driven, Combo
  <2>. QED
    BY <1>1, <1>3, <2>1, UrlencodedDelivers
<1>4. CASE r.driver = "multipart" /\ r.bounded /\ IsMultipart(r.body, r.sent)
  <2>1. Driven(r) = Multipart(r.body)
    BY <1>4 DEF Driven
  <2>. QED
    BY <1>1, <1>4, <2>1, MultipartDelivers
<1>. QED
  BY <1>1, <1>2, <1>3, <1>4 DEF AsSent, Served

\* What form::field() answers for a name that was sent.
LEMMA FieldAnswers ==
  ASSUME NEW driver, NEW driven, NEW name, NEW type \in Type, NEW text \in Seq(STRING),
         driven.fields[name] = [text |-> text, size |-> Len(text)],
         driver = "multipart" /\ type.is = "time" => type.format = DefaultFormat
  PROVE  LET got == FieldOf(driver, driven, name, type)
             seen == IF driver = "multipart" THEN Trim(text) ELSE text
         IN IF text # <<>> /\ Reads(type, seen)
            THEN got.okay /\ got.value = Value(type, seen)
            ELSE ~got.okay
<1> DEFINE got == FieldOf(driver, driven, name, type)
           field == driven.fields[name]
           seen == IF driver = "multipart" THEN Trim(text) ELSE text
<1>1. field.text = text /\ field.size = Len(text)
  OBVIOUS
<1>2. field.size # 0 <=> text # <<>>
  BY <1>1, EmptySeq
<1>3. Text(driver, field) = seen
  BY <1>1 DEF Text
<1>4. Reads(type, seen) => Parsed(driver, type, seen) = Value(type, seen)
  <2>1. CASE driver = "multipart" /\ type.is = "time"
    <3>1. type.format = DefaultFormat
      BY <2>1
    <3>2. type \in [is : {"time"}, format : STRING]
      BY <2>1 DEF Type
    <3>3. [type EXCEPT !.format = DefaultFormat] = type
      BY <3>1, <3>2
    <3>. HIDE DEF seen
    <3>. QED
      BY <3>3 DEF Parsed
  <2>2. CASE ~(driver = "multipart" /\ type.is = "time")
    BY <2>2 DEF Parsed
  <2>. QED
    BY <2>1, <2>2
<1> HIDE DEF seen, field
<1>5. got = IF Reads(type, seen) /\ field.size # 0
            THEN [okay |-> TRUE, value |-> Parsed(driver, type, seen)]
            ELSE [okay |-> FALSE, value |-> Blank(type)]
  BY <1>3 DEF FieldOf, field
<1> HIDE DEF got
<1>6. IF text # <<>> /\ Reads(type, seen)
      THEN got.okay /\ got.value = Value(type, seen)
      ELSE ~got.okay
  BY <1>2, <1>4, <1>5
<1>. QED
  BY <1>6 DEF got, seen

\* From whatever the browser sends: a field holds what was sent first under its
\* name, or is known to be absent or not to be readable.
THEOREM BodiesAreRead == Spec => []SeesWhatWasSent
<1>1. IInv => SeesWhatWasSent
  <2> DEFINE r(o) == request[source[o]]
             named(o) == Named(r(o), kind[o].name)
             text(o) == r(o).sent[Min(named(o))].text
  <2>1. SUFFICES ASSUME IInv, NEW o \in Object, Declared(o), data[o].fetched,
                        Served(r(o)), Legible(r(o), kind[o].type)
                 PROVE  /\ data[o].absent <=> named(o) = {}
                        /\ named(o) # {} =>
                             IF text(o) # <<>> /\ Reads(kind[o].type, Seen(r(o), text(o)))
                             THEN /\ ~data[o].unparsable
                                  /\ data[o].value = Value(kind[o].type, Seen(r(o), text(o)))
                             ELSE data[o].unparsable
    BY DEF SeesWhatWasSent
  <2>2. /\ FieldOK(o) /\ kind[o].name # <<>> /\ kind[o].type \in Type /\ IsData(data[o])
        /\ source[o] \in Form /\ request \in Requests
        /\ form[source[o]] = Driven(r(o))
    BY <2>1 DEF IInv, TypeOK, FieldOK, FormsAreRead
  <2>3. AsSent(r(o))
    BY <2>1, <2>2, RequestsAssumption DEF Served
  <2>4. PICK fields : Driven(r(o)) = Read(fields) /\ Delivers(fields, r(o).sent)
    BY <2>1, <2>3, DrivenDelivers
  <2>5. r(o).sent \in Sent
    BY <2>1, <2>3, DrivenDelivers
  <2> DEFINE name == kind[o].name
             type == kind[o].type
  <2>6. form[source[o]].fields = fields
    BY <2>2, <2>4 DEF Read
  <2>7. /\ name \in DOMAIN fields <=> named(o) # {}
        /\ named(o) # {} => fields[name] = Entry(r(o).sent[Min(named(o))]).value
    BY <2>2, <2>4 DEF Delivers, Named
  <2>8. data[o].absent <=> named(o) = {}
    BY <2>1, <2>2, <2>6, <2>7 DEF FieldOK, Given, Has, IsData
  <2>9. ASSUME named(o) # {}
        PROVE  IF text(o) # <<>> /\ Reads(type, Seen(r(o), text(o)))
               THEN ~data[o].unparsable /\ data[o].value = Value(type, Seen(r(o), text(o)))
               ELSE data[o].unparsable
    <3>1. named(o) \subseteq 1 .. Len(r(o).sent) /\ named(o) \subseteq Nat
      BY <2>5, SentTypes DEF Named
    <3>2. Min(named(o)) \in named(o)
      BY <2>9, <3>1, MinExists
    <3>3. text(o) \in Seq(STRING)
      BY <2>5, <3>1, <3>2, SentTypes
    <3>4. form[source[o]].fields[name] = [text |-> text(o), size |-> Len(text(o))]
      BY <2>6, <2>7, <2>9 DEF Entry
    <3>5. IF text(o) # <<>> /\ Reads(type, Seen(r(o), text(o)))
          THEN Got(o).okay /\ Got(o).value = Value(type, Seen(r(o), text(o)))
          ELSE ~Got(o).okay
      <4>1. r(o).driver = "multipart" /\ type.is = "time" => type.format = DefaultFormat
        BY <2>1 DEF Legible
      <4>. HIDE DEF r, text, named
      <4>. QED
        BY <2>2, <3>3, <3>4, <4>1, FieldAnswers DEF Got, Seen, r
    <3>6. data[o].value = Got(o).value /\ (data[o].unparsable <=> ~Got(o).okay)
      BY <2>1, <2>2, <2>8, <2>9 DEF FieldOK, IsData
    <3>. QED
      BY <2>2, <3>5, <3>6 DEF IsData
  <2>. QED
    BY <2>8, <2>9
<1>. QED
  BY <1>1, FieldsJudged, PTL
=============================================================================
