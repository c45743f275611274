---------------------------- MODULE ClientProofs ----------------------------
(***************************************************************************)
(* The promises of the client, proved for any number of redirects.  The    *)
(* invariant follows the chain of attempts: all but the last are over, and *)
(* whoever tells a verdict is the last.                                    *)
(***************************************************************************)
EXTENDS ClientInv, SequenceTheorems, TLAPS

USE ClientAssumption DEF Attempt

(***************************************************************************)
(* What a handler appends to the history of calls: at most one call of     *)
(* each callback, all of its own attempt.                                  *)
(***************************************************************************)
LEMMA CallsOf ==
  ASSUME NEW a \in Attempt, NEW what \in Callback, NEW late \in BOOLEAN,
         NEW moved \in BOOLEAN, TypeOK
  PROVE  LET s == Calls(a, what, late, moved) IN
         /\ s \in Seq(Call)
         /\ Len(s) \in 0 .. 1
         /\ \A i \in DOMAIN s :
              /\ s[i] = [what |-> what, of |-> a, late |-> late, moved |-> moved]
              /\ what \in callbacks[a]
<1>1. [what |-> what, of |-> a, late |-> late, moved |-> moved] \in Call
  BY DEF Call
<1>. QED
  BY <1>1 DEF Calls

\* "told" grows at its end by calls of attempt a.
Grows(a, whats, late, moved) ==
  /\ told' \in Seq(Call)
  /\ Len(told') >= Len(told)
  /\ \A i \in 1 .. Len(told) : told'[i] = told[i]
  /\ \A i \in DOMAIN told' : i > Len(told) =>
       /\ told'[i].what \in whats \cap callbacks[a]
       /\ told'[i].of = a
       /\ told'[i].late = late
       /\ told'[i].moved = moved
  /\ \A i, j \in DOMAIN told' :
       i > Len(told) /\ j > Len(told) /\ told'[i].what = told'[j].what => i = j

\* c is t with s, which is empty or a single call, at its end.
Appends(c, t, s) ==
  /\ c \in Seq(Call)
  /\ Len(c) = Len(t) + Len(s)
  /\ \A i \in 1 .. Len(t) : c[i] = t[i]
  /\ \A i \in 1 .. Len(c) : i > Len(t) =>
       /\ i = Len(t) + 1
       /\ 1 \in DOMAIN s
       /\ c[i] = s[1]

LEMMA Appended ==
  ASSUME NEW t \in Seq(Call), NEW s \in Seq(Call), Len(s) \in 0 .. 1
  PROVE  \A c : c = t \o s => Appends(c, t, s)
<1>. SUFFICES ASSUME NEW c, c = t \o s PROVE Appends(c, t, s)
  OBVIOUS
<1>1. /\ t \o s \in Seq(Call)
      /\ Len(t \o s) = Len(t) + Len(s)
      /\ \A i \in 1 .. Len(t) + Len(s) :
           (t \o s)[i] = IF i <= Len(t) THEN t[i] ELSE s[i - Len(t)]
  BY ConcatProperties, Zenon
<1>2. /\ c \in Seq(Call)
      /\ Len(c) = Len(t) + Len(s)
      /\ \A i \in 1 .. Len(t) + Len(s) : c[i] = IF i <= Len(t) THEN t[i] ELSE s[i - Len(t)]
  BY <1>1, Zenon
<1>3. Len(t) \in Nat /\ Len(s) \in Nat /\ DOMAIN s = 1 .. Len(s)
  OBVIOUS
<1>4. \A i \in 1 .. Len(t) : c[i] = t[i]
  BY <1>2, <1>3
<1>5. ASSUME NEW i \in 1 .. Len(c), i > Len(t)
      PROVE  i = Len(t) + 1 /\ Len(s) = 1
  BY <1>2, <1>3, <1>5
<1>6. ASSUME NEW i \in 1 .. Len(c), i > Len(t)
      PROVE  c[i] = s[1] /\ 1 \in DOMAIN s
  <2>1. i = Len(t) + 1 /\ Len(s) = 1
    BY <1>5, <1>6
  <2>2. c[i] = s[i - Len(t)]
    BY <1>2, <1>3, <2>1
  <2>. QED
    BY <1>3, <2>1, <2>2
<1>. QED
  BY <1>2, <1>4, <1>5, <1>6 DEF Appends

LEMMA TellsOne ==
  ASSUME TypeOK, NEW a \in Attempt, NEW late \in BOOLEAN, NEW moved \in BOOLEAN,
         told' = told \o Calls(a, "finally", late, moved)
  PROVE  Grows(a, {"finally"}, late, moved)
<1>. DEFINE s == Calls(a, "finally", late, moved)
<1>1. /\ s \in Seq(Call)
      /\ Len(s) \in 0 .. 1
      /\ \A i \in DOMAIN s :
           /\ s[i] = [what |-> "finally", of |-> a, late |-> late, moved |-> moved]
           /\ "finally" \in callbacks[a]
  <2>1. "finally" \in Callback
    BY DEF Callback
  <2>. QED
    BY <2>1, CallsOf
<1>2. told \in Seq(Call)
  BY DEF TypeOK
<1>3. told' = told \o s
  OBVIOUS
<1>. HIDE DEF s
<1>4. /\ told' \in Seq(Call)
      /\ Len(told') = Len(told) + Len(s)
      /\ \A i \in 1 .. Len(told) : told'[i] = told[i]
      /\ \A i \in 1 .. Len(told') : i > Len(told) =>
           i = Len(told) + 1 /\ 1 \in DOMAIN s /\ told'[i] = s[1]
  <2>1. s \in Seq(Call) /\ Len(s) \in 0 .. 1
    BY <1>1
  <2>2. Appends(told', told, s)
    BY <2>1, <1>2, <1>3, Appended
  <2>. QED
    BY <2>2 DEF Appends
<1>5. Len(told) \in Nat /\ DOMAIN told' = 1 .. Len(told')
  BY <1>2, <1>4
<1>6. \A i \in DOMAIN told' : i > Len(told) =>
        /\ told'[i].what \in {"finally"} \cap callbacks[a]
        /\ told'[i].of = a
        /\ told'[i].late = late
        /\ told'[i].moved = moved
  BY <1>1, <1>4, <1>5
<1>7. \A i, j \in DOMAIN told' : i > Len(told) /\ j > Len(told) => i = j
  BY <1>4, <1>5
<1>. QED
  BY <1>1, <1>4, <1>5, <1>6, <1>7 DEF Grows

LEMMA TellsTwo ==
  ASSUME TypeOK, NEW a \in Attempt, NEW what \in {"then", "failed"},
         NEW late \in BOOLEAN, NEW moved \in BOOLEAN,
         told' = told \o Calls(a, what, late, moved) \o Calls(a, "finally", late, moved)
  PROVE  Grows(a, {what, "finally"}, late, moved)
<1>. DEFINE s == Calls(a, what, late, moved)
            f == Calls(a, "finally", late, moved)
            t == told \o s
<1>1. /\ s \in Seq(Call)
      /\ Len(s) \in 0 .. 1
      /\ \A i \in DOMAIN s :
           /\ s[i] = [what |-> what, of |-> a, late |-> late, moved |-> moved]
           /\ what \in callbacks[a]
  <2>1. what \in Callback
    BY DEF Callback
  <2>. QED
    BY <2>1, CallsOf
<1>2. /\ f \in Seq(Call)
      /\ Len(f) \in 0 .. 1
      /\ \A i \in DOMAIN f :
           /\ f[i] = [what |-> "finally", of |-> a, late |-> late, moved |-> moved]
           /\ "finally" \in callbacks[a]
  <2>1. "finally" \in Callback
    BY DEF Callback
  <2>. QED
    BY <2>1, CallsOf
<1>3. told \in Seq(Call)
  BY DEF TypeOK
<1>4. told' = t \o f
  OBVIOUS
<1>. HIDE DEF s, f
<1>5. /\ t \in Seq(Call)
      /\ Len(t) = Len(told) + Len(s)
      /\ \A i \in 1 .. Len(told) : t[i] = told[i]
      /\ \A i \in 1 .. Len(t) : i > Len(told) =>
           i = Len(told) + 1 /\ 1 \in DOMAIN s /\ t[i] = s[1]
  <2>1. s \in Seq(Call) /\ Len(s) \in 0 .. 1
    BY <1>1
  <2>2. Appends(t, told, s)
    BY <2>1, <1>3, Appended
  <2>. QED
    BY <2>2 DEF Appends
<1>. HIDE DEF t
<1>6. /\ told' \in Seq(Call)
      /\ Len(told') = Len(t) + Len(f)
      /\ \A i \in 1 .. Len(t) : told'[i] = t[i]
      /\ \A i \in 1 .. Len(told') : i > Len(t) =>
           i = Len(t) + 1 /\ 1 \in DOMAIN f /\ told'[i] = f[1]
  <2>1. t \in Seq(Call) /\ f \in Seq(Call) /\ Len(f) \in 0 .. 1
    BY <1>2, <1>5
  <2>2. Appends(told', t, f)
    BY <2>1, <1>4, Appended
  <2>. QED
    BY <2>2 DEF Appends
<1>7. Len(told) \in Nat /\ Len(t) \in Nat /\ DOMAIN told' = 1 .. Len(told')
  BY <1>3, <1>5, <1>6
<1>8. /\ Len(told') >= Len(told)
      /\ \A i \in 1 .. Len(told) : told'[i] = told[i]
  BY SMTT(60), <1>1, <1>2, <1>5, <1>6, <1>7
<1>9. \A i \in DOMAIN told' : i > Len(told) =>
        \/ i <= Len(t) /\ i = Len(told) + 1 /\ 1 \in DOMAIN s /\ told'[i] = s[1]
        \/ i = Len(t) + 1 /\ 1 \in DOMAIN f /\ told'[i] = f[1]
  <2>. SUFFICES ASSUME NEW i \in 1 .. Len(told'), i > Len(told)
                PROVE  \/ i <= Len(t) /\ i = Len(told) + 1 /\ 1 \in DOMAIN s /\ told'[i] = s[1]
                       \/ i = Len(t) + 1 /\ 1 \in DOMAIN f /\ told'[i] = f[1]
    BY <1>7
  <2>1. CASE i <= Len(t)
    <3>1. i \in 1 .. Len(t)
      BY <2>1, <1>7
    <3>. QED
      BY <2>1, <3>1, <1>5, <1>6
  <2>2. CASE i > Len(t)
    BY <2>2, <1>6
  <2>. QED
    BY <2>1, <2>2, <1>7, <1>6
<1>10. 1 \in DOMAIN s =>
         /\ s[1].what = what
         /\ what \in callbacks[a]
         /\ s[1].of = a
         /\ s[1].late = late
         /\ s[1].moved = moved
  BY <1>1
<1>11. 1 \in DOMAIN f =>
         /\ f[1].what = "finally"
         /\ "finally" \in callbacks[a]
         /\ f[1].of = a
         /\ f[1].late = late
         /\ f[1].moved = moved
  BY <1>2
<1>12. \A i \in DOMAIN told' : i > Len(told) =>
         /\ told'[i].what \in {what, "finally"} \cap callbacks[a]
         /\ told'[i].of = a
         /\ told'[i].late = late
         /\ told'[i].moved = moved
  BY <1>9, <1>10, <1>11
<1>13. \A i, j \in DOMAIN told' :
         i > Len(told) /\ j > Len(told) /\ told'[i].what = told'[j].what => i = j
  BY SMTT(60), <1>7, <1>9, <1>10, <1>11
<1>. QED
  BY <1>6, <1>8, <1>12, <1>13 DEF Grows

-----------------------------------------------------------------------------
\* The invariant holds when request() has been called.
LEMMA Begins == Init => IInv
<1>. SUFFICES ASSUME Init PROVE IInv
  OBVIOUS
<1>1. TypeOK
  <2>1. Defaults \in Options
    BY DEF Defaults, Options
  <2>2. told \in Seq(Call)
    BY DEF Init
  <2>. QED
    BY <2>1, <2>2 DEF Init, TypeOK, Place, Waiting
<1>2. Chain
  BY DEF Init, Chain, Made, Last
<1>3. Attachments
  BY DEF Init, Attachments, Made, Over
<1>4. Verified
  BY DEF Init, Verified, Waiting
<1>5. Tellers /\ OneVerdict /\ AsAsked /\ CallbacksInTime
  BY DEF Init, Tellers, OneVerdict, AsAsked, CallbacksInTime
<1>. QED
  BY <1>1, <1>2, <1>3, <1>4, <1>5 DEF IInv

-----------------------------------------------------------------------------
\* The variables a step of attempt a leaves alone, or sets well.
LEMMA TypedAfter ==
  ASSUME TypeOK, UNCHANGED program,
         at' \in [Attempt -> Place], options' \in [Attempt -> Options],
         peer' \in [Attempt -> BOOLEAN], attached' \in [Attempt -> BOOLEAN],
         callbacks' \in [Attempt -> SUBSET Callback], captured' \in BOOLEAN,
         told' \in Seq(Call), undefined' \in BOOLEAN
  PROVE  TypeOK'
  BY DEF TypeOK, program

(***************************************************************************)
(* The calls of a handler keep what is said of the history: the last       *)
(* attempt tells a verdict when there is none, and on_shutdown() reports   *)
(* once, as it leaves the attempt gone.                                    *)
(***************************************************************************)
LEMMA OneVerdictKept ==
  ASSUME TypeOK, OneVerdict, Tellers,
         NEW a \in Attempt, NEW whats \in SUBSET Callback, NEW late \in BOOLEAN,
         NEW moved \in BOOLEAN,
         Grows(a, whats, late, moved),
         at[a] # "gone",
         whats \subseteq {"finally"} \/ late \/ \A i \in DOMAIN told : ~Verdict(told[i]),
         "then" \notin whats \/ "failed" \notin whats
  PROVE  OneVerdict'
<1>1. /\ told \in Seq(Call)
      /\ told' \in Seq(Call)
      /\ Len(told') >= Len(told)
      /\ \A i \in 1 .. Len(told) : told'[i] = told[i]
  BY DEF Grows, TypeOK
<1>2. \A i \in DOMAIN told' : i > Len(told) =>
        /\ told'[i].what \in whats
        /\ told'[i].of = a
        /\ told'[i].late = late
  BY DEF Grows
<1>3. \A i, j \in DOMAIN told' :
        i > Len(told) /\ j > Len(told) /\ told'[i].what = told'[j].what => i = j
  BY DEF Grows
<1>4. /\ Len(told) \in Nat /\ Len(told') \in Nat
      /\ DOMAIN told = 1 .. Len(told) /\ DOMAIN told' = 1 .. Len(told')
  BY <1>1
<1>5. \A i \in DOMAIN told' : (i \in DOMAIN told /\ told'[i] = told[i]) \/ i > Len(told)
  BY <1>1, <1>4
<1>6. ASSUME NEW i \in DOMAIN told', NEW j \in DOMAIN told',
             Verdict(told'[i]), Verdict(told'[j])
      PROVE  i = j
  <2>1. CASE i > Len(told) /\ j > Len(told)
    <3>1. told'[i].what = told'[j].what
      BY <1>2, <1>6, <2>1 DEF Verdict
    <3>. QED
      BY <1>3, <2>1, <3>1
  <2>2. CASE i > Len(told) /\ ~(j > Len(told))
    BY <1>2, <1>5, <1>6, <2>2 DEF Verdict
  <2>3. CASE ~(i > Len(told)) /\ j > Len(told)
    BY <1>2, <1>5, <1>6, <2>3 DEF Verdict
  <2>4. CASE ~(i > Len(told)) /\ ~(j > Len(told))
    BY <1>5, <1>6, <2>4 DEF OneVerdict
  <2>. QED
    BY <2>1, <2>2, <2>3, <2>4
<1>7. ASSUME NEW i \in DOMAIN told', NEW j \in DOMAIN told',
             told'[i].late, told'[j].late, told'[i].of = told'[j].of,
             told'[i].what = told'[j].what
      PROVE  i = j
  <2>1. CASE i > Len(told) /\ j > Len(told)
    BY <1>3, <1>7, <2>1
  <2>2. CASE i > Len(told) /\ ~(j > Len(told))
    BY <1>2, <1>5, <1>7, <2>2 DEF Tellers
  <2>3. CASE ~(i > Len(told)) /\ j > Len(told)
    BY <1>2, <1>5, <1>7, <2>3 DEF Tellers
  <2>4. CASE ~(i > Len(told)) /\ ~(j > Len(told))
    BY <1>5, <1>7, <2>4 DEF OneVerdict
  <2>. QED
    BY <2>1, <2>2, <2>3, <2>4
<1>8. OneVerdict' <=>
        \A i, j \in DOMAIN told' :
          /\ Verdict(told'[i]) /\ Verdict(told'[j]) => i = j
          /\ /\ told'[i].late
             /\ told'[j].late
             /\ told'[i].of = told'[j].of
             /\ told'[i].what = told'[j].what
             => i = j
  BY DEF OneVerdict
<1>. QED
  BY <1>6, <1>7, <1>8

\* A handler that waits is that of the last attempt, and nothing was told.
LEMMA NothingTold ==
  ASSUME IInv, NEW a \in Attempt, at[a] \in Waiting
  PROVE  /\ Made(a)
         /\ Last(a)
         /\ \A i \in DOMAIN told : ~Verdict(told[i])
<1>1. Made(a) /\ at[a] \notin Over
  BY DEF Made, Waiting, Over
<1>2. \A b, c \in Attempt : b < c /\ Made(c) => at[b] \in Over
  BY DEF IInv, Chain
<1>3. Last(a)
  <2>. SUFFICES ASSUME a # Attempts PROVE ~Made(a + 1)
    BY DEF Last
  <2>1. a + 1 \in Attempt /\ a < a + 1
    OBVIOUS
  <2>. QED
    BY <2>1, <1>1, <1>2
<1>4. ASSUME NEW i \in DOMAIN told, Verdict(told[i]) PROVE FALSE
  <2>1. told[i].of \in Attempt
    <3>1. told[i] \in Call
      BY DEF IInv, TypeOK
    <3>. QED
      BY <3>1 DEF Call
  <2>. DEFINE b == told[i].of
  <2>2. at[b] \in {"shutdown", "gone"} /\ Last(b)
    BY <1>4 DEF IInv, Tellers
  <2>. HIDE DEF b
  <2>3. b \in Attempt /\ b # a /\ Made(b)
    BY <1>1, <2>1, <2>2 DEF b, Made, Over
  <2>4. CASE b > a
    BY <1>1, <1>2, <2>3, <2>4
  <2>5. CASE b < a
    <3>1. b + 1 \in Attempt /\ (b + 1 = a \/ b + 1 < a)
      BY <2>3, <2>5
    <3>2. Made(b + 1)
      BY <1>1, <1>2, <3>1 DEF Over, Made
    <3>. QED
      BY <2>2, <2>5, <3>1, <3>2 DEF Last
  <2>. QED
    BY <2>3, <2>4, <2>5
<1>. QED
  BY <1>1, <1>3, <1>4

(***************************************************************************)
(* An attempt whose options were not attached has told nothing, and where  *)
(* it goes and its verify mode say nothing of what it was asked for.       *)
(***************************************************************************)
LEMMA AttachKeeps == IInv /\ ~undefined /\ Attach => IInv'
<1>. SUFFICES ASSUME IInv, ~undefined, Attach PROVE IInv'
  OBVIOUS
<1>. USE DEF IInv
<1>0. PICK c \in SUBSET Callback, o \in Options, this \in BOOLEAN :
        /\ callbacks' = [callbacks EXCEPT ![1] = c]
        /\ options' = [options EXCEPT ![1] = o]
        /\ captured' = (this /\ "then" \in c)
  BY DEF Attach
<1>1. /\ ~attached[1]
      /\ attached' = [attached EXCEPT ![1] = TRUE]
      /\ UNCHANGED <<program, at, peer, told, undefined>>
      /\ 1 \in Attempt
  BY DEF Attach
<1>2. TypeOK'
  BY <1>0, <1>1, TypedAfter DEF TypeOK
<1>3. Chain'
  BY <1>1 DEF Chain, Made, Last
<1>4. \A a \in Attempt : a # 1 => ~Made(a)
  BY <1>1 DEF Attachments
<1>5. Attachments'
  BY <1>0, <1>1, <1>4 DEF Attachments, Made, TypeOK
<1>6. Verified'
  BY <1>0, <1>1, <1>4 DEF Verified, Attachments, Made, Waiting, TypeOK, program
<1>7. \A i \in DOMAIN told : told[i].what # "then"
  BY <1>1 DEF Tellers
<1>8. Tellers' /\ OneVerdict' /\ AsAsked'
  BY <1>0, <1>1, <1>7 DEF Tellers, OneVerdict, AsAsked, Verdict, Last, Made, program
<1>9. CallbacksInTime'
  BY <1>1 DEF CallbacksInTime, program
<1>. QED
  BY <1>2, <1>3, <1>5, <1>6, <1>8, <1>9

\* After a step that lets attempt a go on or end, the others stand as before.
LEMMA MoveKeeps ==
  ASSUME IInv, NEW a \in Attempt, NEW p \in Place \ {"none", "redirect"},
         at[a] \notin {"none", "redirect"}, at[a] \in Waiting \/ p = "gone",
         at' = [at EXCEPT ![a] = p], UNCHANGED <<program, options, attachment>>
  PROVE  /\ Chain'
         /\ \A b \in Attempt : Made(b)' = Made(b) /\ Last(b)' = Last(b)
         /\ (undefined' \/ (~undefined /\ (p \in Over => attached[a]))) => Attachments'
<1>. USE DEF IInv
<1>1. \A b \in Attempt : at'[b] = IF b = a THEN p ELSE at[b]
  BY DEF TypeOK
<1>2. \A b \in Attempt : Made(b)' = Made(b)
  BY <1>1 DEF Made
<1>3. \A b \in Attempt : Last(b)' = Last(b)
  BY <1>2 DEF Last
<1>4. \A b \in Attempt : at[b] \in Over => at'[b] \in Over
  BY <1>1 DEF Over, Waiting, Place
<1>5. \A b \in Attempt : (at[b] = "redirect") = (at'[b] = "redirect")
  BY <1>1
<1>6. Chain'
  BY <1>2, <1>3, <1>4, <1>5 DEF Chain
<1>7. ASSUME undefined' \/ (~undefined /\ (p \in Over => attached[a])) PROVE Attachments'
  <2>1. \A b \in Attempt : b > 1 => b - 1 \in Attempt
    OBVIOUS
  <2>2. \A b \in Attempt : ~undefined' /\ at'[b] \in Over => attached[b]
    BY <1>1, <1>7 DEF Attachments
  <2>. QED
    BY <1>2, <1>5, <2>1, <2>2 DEF Attachments, attachment
<1>. QED
  BY <1>3, <1>2, <1>6, <1>7

\* What is told is what was told, or a call of attempt a.
LEMMA ToldAfter ==
  ASSUME TypeOK, NEW a \in Attempt, NEW whats \in SUBSET Callback, NEW late \in BOOLEAN,
         NEW moved \in BOOLEAN, Grows(a, whats, late, moved)
  PROVE  \A i \in DOMAIN told' :
           \/ /\ i \in DOMAIN told
              /\ told'[i] = told[i]
              /\ told[i].of \in Attempt
           \/ /\ told'[i].of = a
              /\ told'[i].late = late
              /\ told'[i].moved = moved
              /\ told'[i].what \in whats
<1>1. \A i \in DOMAIN told : told[i].of \in Attempt
  <2>1. \A i \in DOMAIN told : told[i] \in Call
    BY DEF TypeOK
  <2>. QED
    BY <2>1 DEF Call
<1>2. /\ DOMAIN told = 1 .. Len(told) /\ Len(told) \in Nat
      /\ DOMAIN told' = 1 .. Len(told') /\ Len(told') \in Nat
  BY DEF TypeOK, Grows
<1>3. \A i \in 1 .. Len(told) : told'[i] = told[i]
  BY DEF Grows
<1>4. \A i \in DOMAIN told' : i > Len(told) =>
        /\ told'[i].what \in whats
        /\ told'[i].of = a
        /\ told'[i].late = late
        /\ told'[i].moved = moved
  BY DEF Grows
<1>. QED
  BY <1>1, <1>2, <1>3, <1>4

\* The last attempt may tell a verdict as it shuts down or is gone.
LEMMA TellersKept ==
  ASSUME TypeOK, Tellers, NEW a \in Attempt, NEW whats \in SUBSET Callback,
         NEW late \in BOOLEAN, NEW moved \in BOOLEAN, Grows(a, whats, late, moved),
         NEW p \in {"shutdown", "gone"}, at' = [at EXCEPT ![a] = p],
         at[a] # "gone", late => p = "gone",
         whats \subseteq {"finally"} \/ late \/ Last(a),
         \A b \in Attempt : Last(b) => Last(b)',
         attached[1] => attached'[1],
         "then" \in whats => attached[1]
  PROVE  Tellers'
<1>1. \A b \in Attempt : at'[b] = IF b = a THEN p ELSE at[b]
  BY DEF TypeOK
<1>2. ASSUME NEW i \in DOMAIN told', NEW b, b = told'[i].of
      PROVE  /\ Verdict(told'[i]) => at'[b] \in {"shutdown", "gone"} /\ Last(b)'
             /\ told'[i].late => at'[b] = "gone"
             /\ told'[i].what = "then" => attached'[1]
  <2>1. CASE i \in DOMAIN told /\ told'[i] = told[i] /\ told[i].of \in Attempt
    <3>1. b \in Attempt
      BY <1>2, <2>1
    <3>2. /\ Verdict(told[i]) => at[b] \in {"shutdown", "gone"} /\ Last(b)
          /\ told[i].late => at[b] = "gone"
          /\ told[i].what = "then" => attached[1]
      BY <1>2, <2>1 DEF Tellers
    <3>. QED
      BY <1>1, <2>1, <3>1, <3>2
  <2>2. CASE /\ told'[i].of = a
             /\ told'[i].late = late
             /\ told'[i].what \in whats
    <3>1. b = a
      BY <1>2, <2>2
    <3>2. Verdict(told'[i]) => Last(a)'
      BY <2>2 DEF Verdict
    <3>. QED
      BY <1>1, <2>2, <3>1, <3>2
  <2>. QED
    BY <2>1, <2>2, ToldAfter
<1>. QED
  BY <1>2 DEF Tellers

\* failure(), in a handler that waits or in on_shutdown().
LEMMA FailureKeeps ==
  ASSUME IInv, ~undefined, NEW a \in Attempt, NEW late \in BOOLEAN,
         Failure(a, late),
         IF late THEN at[a] = "shutdown" ELSE at[a] \in Waiting,
         alone /\ ~captured => attached[a]
  PROVE  IInv'
<1>. USE DEF IInv
<1>1. /\ at' = [at EXCEPT ![a] = "gone"]
      /\ undefined' = ~attached[a]
      /\ told' = told \o Calls(a, "failed", late, FALSE) \o Calls(a, "finally", late, FALSE)
      /\ UNCHANGED <<program, options, peer, attachment>>
  BY DEF Failure
<1>2. PICK whats \in SUBSET Callback, moved \in BOOLEAN :
        Grows(a, whats, late, moved) /\ "then" \notin whats
  BY <1>1, TellsTwo DEF Callback
<1>3. TypeOK'
  <2>1. at' \in [Attempt -> Place] /\ told' \in Seq(Call) /\ undefined' \in BOOLEAN
    BY <1>1, <1>2 DEF TypeOK, Place, Grows
  <2>. QED
    BY <2>1, <1>1, TypedAfter DEF TypeOK, attachment
<1>4. at[a] \notin {"none", "redirect", "gone"}
  BY DEF Waiting
<1>5. /\ Chain'
      /\ \A b \in Attempt : Made(b)' = Made(b) /\ Last(b)' = Last(b)
      /\ Attachments'
  BY <1>1, <1>4, MoveKeeps DEF Place, Waiting
<1>6. Verified'
  BY <1>1, <1>4 DEF Verified, Waiting, TypeOK, program, attachment
<1>7. /\ ~late => \A i \in DOMAIN told : ~Verdict(told[i])
      /\ ~late => Last(a)
  BY NothingTold
<1>8. OneVerdict'
  BY <1>2, <1>4, <1>7, OneVerdictKept
<1>9. \A i \in DOMAIN told' :
        \/ i \in DOMAIN told /\ told'[i] = told[i]
        \/ told'[i].what # "then"
  <2>1. \A i \in DOMAIN told' :
          \/ i \in DOMAIN told /\ told'[i] = told[i]
          \/ told'[i].what \in whats
    BY <1>2, ToldAfter
  <2>. QED
    BY <1>2, <2>1
<1>10. Tellers'
  BY <1>1, <1>2, <1>4, <1>5, <1>7, TellersKept DEF attachment
<1>11. AsAsked'
  BY <1>1, <1>9 DEF AsAsked, program
<1>12. CallbacksInTime'
  BY <1>1 DEF CallbacksInTime, program, attachment
<1>. QED
  BY <1>3, <1>5, <1>6, <1>8, <1>10, <1>11, <1>12

\* success() calls the callback of the last attempt.
LEMMA DeliverKeeps ==
  ASSUME IInv, ~undefined, NEW a \in Attempt, NEW loc \in BOOLEAN,
         Deliver(a, loc), at[a] = "read"
  PROVE  IInv'
<1>. USE DEF IInv
<1>1. /\ at' = [at EXCEPT ![a] = "shutdown"]
      /\ attached[a]
      /\ ~(loc /\ options[a].follow /\ "then" \in callbacks[a])
      /\ undefined' = Dangles(a)
      /\ told' = told \o Calls(a, "then", FALSE, loc) \o Calls(a, "finally", FALSE, loc)
      /\ UNCHANGED <<program, options, peer, attachment>>
  BY DEF Deliver
<1>2. PICK whats \in SUBSET Callback, late \in BOOLEAN :
        Grows(a, whats, late, loc) /\ ~late /\ "failed" \notin whats
  BY <1>1, TellsTwo DEF Callback
<1>3. TypeOK'
  <2>1. at' \in [Attempt -> Place] /\ told' \in Seq(Call) /\ undefined' \in BOOLEAN
    BY <1>1, <1>2 DEF TypeOK, Place, Grows, Dangles
  <2>. QED
    BY <2>1, <1>1, TypedAfter DEF TypeOK, attachment
<1>4. at[a] \in Waiting /\ at[a] \notin {"none", "redirect", "gone"}
  BY DEF Waiting
<1>5. /\ Chain'
      /\ \A b \in Attempt : Made(b)' = Made(b) /\ Last(b)' = Last(b)
      /\ Attachments'
  BY <1>1, <1>4, MoveKeeps DEF Place, Waiting
<1>6. Verified'
  BY <1>1, <1>4 DEF Verified, Waiting, TypeOK, program, attachment
<1>7. /\ \A i \in DOMAIN told : ~Verdict(told[i])
      /\ Last(a)
      /\ Made(a)
  BY <1>4, NothingTold
<1>8. OneVerdict'
  BY <1>2, <1>4, <1>7, OneVerdictKept
<1>9. attached[1] /\ options[a] = options[1]
  <2>1. a = 1 \/ a > 1
    OBVIOUS
  <2>. QED
    BY <1>1, <1>7, <2>1 DEF Attachments
<1>10. Tellers'
  BY <1>1, <1>2, <1>4, <1>5, <1>7, <1>9, TellersKept DEF attachment
<1>11. AsAsked'
  <2>1. \A i \in DOMAIN told' :
          \/ i \in DOMAIN told /\ told'[i] = told[i]
          \/ told'[i].of = a /\ told'[i].moved = loc /\ told'[i].what \in whats
    BY <1>2, ToldAfter
  <2>2. \A i \in DOMAIN told' :
          i \in DOMAIN told \/ told'[i].what \in callbacks[a]
    BY <1>2 DEF Grows, TypeOK
  <2>3. options[1].verify /\ url[a].secure => url[a].trusted
    BY <1>1, <1>9 DEF Verified, Waiting
  <2>4. ASSUME NEW i \in DOMAIN told', told'[i].what = "then"
        PROVE  /\ told'[i].moved => ~options[1].follow
               /\ options[1].verify /\ url[told'[i].of].secure => url[told'[i].of].trusted
    <3>1. CASE i \in DOMAIN told /\ told'[i] = told[i]
      BY <3>1, <2>4 DEF AsAsked
    <3>2. CASE i \notin DOMAIN told /\ told'[i].of = a /\ told'[i].moved = loc
      <4>1. "then" \in callbacks[a]
        BY <2>2, <2>4, <3>2
      <4>. QED
        BY <4>1, <3>2, <2>3, <1>1, <1>9
    <3>3. i \in DOMAIN told => told'[i] = told[i]
      BY <1>2 DEF Grows, TypeOK
    <3>. QED
      BY <2>1, <3>1, <3>2, <3>3
  <2>. QED
    BY <2>4, <1>1 DEF AsAsked, program
<1>12. CallbacksInTime'
  BY <1>1 DEF CallbacksInTime, Dangles, program, attachment
<1>. QED
  BY <1>3, <1>5, <1>6, <1>8, <1>10, <1>11, <1>12

\* success() starts the next attempt.
LEMMA RedirectKeeps ==
  ASSUME IInv, ~undefined, NEW a \in Attempt, a < Attempts,
         Redirect(a), at[a] = "read"
  PROVE  IInv'
<1>. USE DEF IInv
<1>1. /\ a < Attempts
      /\ attached[a]
      /\ at' = [at EXCEPT ![a] = "redirect", ![a + 1] = "resolve"]
      /\ options' = [options EXCEPT ![a + 1] = options[a]]
      /\ UNCHANGED <<program, peer, attachment, told, undefined>>
  BY DEF Redirect
<1>2. a + 1 \in Attempt /\ a # a + 1 /\ 1 \in Attempt /\ 1 # a + 1
  BY <1>1
<1>3. TypeOK'
  BY <1>1, <1>2, TypedAfter DEF TypeOK, Place, Waiting, attachment
<1>4. at[a] \in Waiting
  BY DEF Waiting
<1>5. Made(a) /\ Last(a) /\ \A i \in DOMAIN told : ~Verdict(told[i])
  BY <1>4, NothingTold
<1>6. ~Made(a + 1)
  BY <1>1, <1>5 DEF Last
<1>7. \A b \in Attempt :
        at'[b] = IF b = a THEN "redirect" ELSE IF b = a + 1 THEN "resolve" ELSE at[b]
  BY <1>1, <1>2 DEF TypeOK
<1>8. \A b \in Attempt : b < a => at[b] \in Over
  BY <1>5 DEF Chain
<1>9. \A b \in Attempt : b > a => ~Made(b)
  BY <1>4 DEF Chain, Waiting, Over
<1>10. \A b \in Attempt : Made(b)' <=> Made(b) \/ b = a + 1
  BY <1>2, <1>5, <1>7 DEF Made
<1>11. Chain'
  <2>1. Made(1)'
    BY <1>2, <1>10 DEF Chain
  <2>2. ASSUME NEW b \in Attempt, NEW c \in Attempt, b < c, Made(c)'
        PROVE  at'[b] \in Over
    <3>1. c <= a + 1
      BY <1>7, <1>9, <2>2 DEF Made
    <3>2. b < a \/ b = a
      BY <2>2, <3>1
    <3>. QED
      BY <1>7, <1>8, <3>2 DEF Over
  <2>3. ASSUME NEW b \in Attempt, at'[b] = "redirect"
        PROVE  ~Last(b)'
    <3>1. CASE b = a
      BY <1>1, <1>2, <1>10, <3>1 DEF Last
    <3>2. CASE b # a
      <4>1. ~Last(b)
        BY <1>7, <2>3, <3>2 DEF Chain
      <4>2. b # Attempts /\ Made(b + 1) /\ b + 1 \in Attempt
        BY <4>1 DEF Last
      <4>. QED
        BY <1>10, <4>2 DEF Last
    <3>. QED
      BY <3>1, <3>2
  <2>. QED
    BY <2>1, <2>2, <2>3 DEF Chain
<1>12. attached[1] /\ options[a] = options[1]
  <2>1. a = 1 \/ a > 1
    OBVIOUS
  <2>. QED
    BY <1>1, <1>5, <2>1 DEF Attachments
<1>13. Attachments'
  <2>1. \A b \in Attempt : Made(b)' <=> Made(b) \/ b = a + 1
    BY <1>10
  <2>2. \A b \in Attempt : b > 1 => (attached[b] <=> Made(b) /\ at[b - 1] # "redirect")
    BY DEF Attachments
  <2>3. ~attached[a + 1]
    BY <1>2, <1>6, <2>2
  <2>4. ASSUME NEW b \in Attempt, b > 1
        PROVE  attached'[b] <=> Made(b)' /\ at'[b - 1] # "redirect"
    <3>1. b - 1 \in Attempt
      BY <2>4
    <3>2. CASE b = a + 1
      <4>1. b - 1 = a /\ at'[a] = "redirect"
        BY <1>7, <3>2
      <4>2. ~attached'[b]
        BY <1>1, <2>3, <3>2 DEF attachment
      <4>. QED
        BY <4>1, <4>2
    <3>3. CASE b <= a
      <4>1. b - 1 # a /\ b - 1 # a + 1 /\ b # a + 1
        BY <3>1, <3>3
      <4>. QED
        BY <1>1, <1>7, <2>1, <2>2, <2>4, <3>1, <4>1 DEF attachment
    <3>4. CASE b > a + 1
      <4>1. ~Made(b)
        BY <1>9, <3>4
      <4>2. ~Made(b)'
        BY <1>2, <2>1, <3>4, <4>1
      <4>. QED
        BY <1>1, <2>2, <2>4, <4>1, <4>2 DEF attachment
    <3>. QED
      BY <3>2, <3>3, <3>4
  <2>5. \A b \in Attempt : ~attached'[b] => callbacks'[b] = {}
    BY <1>1 DEF Attachments, attachment
  <2>6. \A b \in Attempt : ~undefined' /\ at'[b] \in Over => attached'[b]
    BY <1>1, <1>7 DEF Attachments, attachment, Over
  <2>7. \A b \in Attempt : Made(b)' /\ b > 1 => attached'[1] /\ options'[b] = options'[1]
    BY <1>1, <1>2, <1>12, <2>1 DEF Attachments, attachment, TypeOK
  <2>. QED
    BY <2>4, <2>5, <2>6, <2>7 DEF Attachments
<1>14. Verified'
  BY <1>1, <1>2, <1>6, <1>7 DEF Verified, Waiting, TypeOK, program, attachment
<1>15. Tellers'
  <2>1. \A i \in DOMAIN told : told[i].of \in Attempt
    <3>1. \A i \in DOMAIN told : told[i] \in Call
      BY DEF TypeOK
    <3>. QED
      BY <3>1 DEF Call
  <2>2. \A i \in DOMAIN told : told[i].late => at[told[i].of] = "gone"
    BY DEF Tellers
  <2>3. at[a] # "gone" /\ at[a + 1] # "gone"
    BY <1>6 DEF Made
  <2>. QED
    BY <1>1, <1>2, <1>5, <1>7, <2>1, <2>2, <2>3 DEF Tellers, Verdict, attachment
<1>16. OneVerdict' /\ AsAsked'
  BY <1>1, <1>2 DEF OneVerdict, AsAsked, Verdict, program, TypeOK
<1>17. CallbacksInTime'
  BY <1>1 DEF CallbacksInTime, program, attachment
<1>. QED
  BY <1>3, <1>11, <1>13, <1>14, <1>15, <1>16, <1>17

\* success() hands its callbacks to the attempt it has started.
LEMMA HandOnKeeps ==
  ASSUME IInv, ~undefined, NEW a \in Attempt, HandOn(a)
  PROVE  IInv'
<1>. USE DEF IInv
<1>1. /\ at[a] = "redirect"
      /\ at' = [at EXCEPT ![a] = "shutdown"]
      /\ attached' = [attached EXCEPT ![a + 1] = TRUE]
      /\ callbacks' = [callbacks EXCEPT ![a + 1] = callbacks[a] \ {"finally"}]
      /\ told' = told \o Calls(a, "finally", FALSE, TRUE)
      /\ UNCHANGED <<program, options, peer, captured, undefined>>
  BY DEF HandOn
<1>2. PICK whats \in SUBSET Callback, late \in BOOLEAN, loc \in BOOLEAN :
        Grows(a, whats, late, loc) /\ ~late /\ whats \subseteq {"finally"}
  BY <1>1, TellsOne DEF Callback
<1>3. a # Attempts /\ a + 1 \in Attempt /\ Made(a + 1) /\ Made(a) /\ attached[a]
  BY <1>1 DEF Chain, Last, Made, Attachments, Over
<1>4. TypeOK'
  <2>1. /\ at' \in [Attempt -> Place]
        /\ attached' \in [Attempt -> BOOLEAN]
        /\ callbacks' \in [Attempt -> SUBSET Callback]
        /\ told' \in Seq(Call)
    BY <1>1, <1>2, <1>3 DEF TypeOK, Place, Grows
  <2>. QED
    BY <2>1, <1>1, TypedAfter DEF TypeOK
<1>5. \A b \in Attempt : at'[b] = IF b = a THEN "shutdown" ELSE at[b]
  BY <1>1 DEF TypeOK
<1>6. /\ \A b \in Attempt : Made(b)' = Made(b)
      /\ \A b \in Attempt : Last(b)' = Last(b)
  BY <1>1, <1>5 DEF Made, Last
<1>7. Chain'
  <2>1. \A b \in Attempt : at[b] \in Over => at'[b] \in Over
    BY <1>5 DEF Over
  <2>2. \A b \in Attempt : at'[b] = "redirect" => at[b] = "redirect"
    BY <1>5
  <2>. QED
    BY <1>6, <2>1, <2>2 DEF Chain
<1>8. attached[1] /\ 1 # a + 1 /\ 1 \in Attempt
  <2>1. a = 1 \/ a > 1
    OBVIOUS
  <2>. QED
    BY <1>3, <2>1 DEF Attachments
<1>9. \A b \in Attempt : attached'[b] = (b = a + 1 \/ attached[b])
  BY <1>1, <1>3 DEF TypeOK
<1>10. Attachments'
  <2>1. ASSUME NEW b \in Attempt, b > 1
        PROVE  attached'[b] <=> Made(b)' /\ at'[b - 1] # "redirect"
    <3>1. b - 1 \in Attempt /\ (b - 1 = a <=> b = a + 1)
      BY <2>1
    <3>2. attached[b] <=> Made(b) /\ at[b - 1] # "redirect"
      BY <2>1 DEF Attachments
    <3>. QED
      BY <1>3, <1>5, <1>6, <1>9, <3>1, <3>2
  <2>2. \A b \in Attempt : ~attached'[b] => callbacks'[b] = {}
    BY <1>1, <1>3, <1>9 DEF Attachments, TypeOK
  <2>3. \A b \in Attempt : ~undefined' /\ at'[b] \in Over => attached'[b]
    BY <1>1, <1>3, <1>5, <1>9 DEF Attachments, Over
  <2>4. \A b \in Attempt : Made(b)' /\ b > 1 => attached'[1] /\ options'[b] = options'[1]
    BY <1>1, <1>6, <1>8, <1>9 DEF Attachments
  <2>. QED
    BY <2>1, <2>2, <2>3, <2>4 DEF Attachments
<1>11. Verified'
  BY <1>1, <1>5, <1>9 DEF Verified, Waiting, program
<1>12. Tellers'
  <2>1. at[a] # "gone"
    BY <1>1
  <2>. QED
    BY ZenonT(90), <1>1, <1>2, <1>6, <1>8, <1>9, <2>1, TellersKept
<1>13. OneVerdict'
  BY <1>1, <1>2, OneVerdictKept
<1>14. AsAsked'
  <2>1. \A i \in DOMAIN told' :
          \/ i \in DOMAIN told /\ told'[i] = told[i]
          \/ told'[i].what # "then"
    BY <1>2, ToldAfter
  <2>. QED
    BY <1>1, <2>1 DEF AsAsked, program
<1>15. CallbacksInTime'
  BY <1>1 DEF CallbacksInTime, program
<1>. QED
  BY <1>4, <1>7, <1>10, <1>11, <1>12, <1>13, <1>14, <1>15

(***************************************************************************)
(* A handler that waits for another operation next, or leaves the attempt  *)
(* gone, or itself by an exception, without a report.                      *)
(***************************************************************************)
LEMMA WaitKeeps ==
  ASSUME IInv, ~undefined, NEW a \in Attempt, NEW p \in (Waiting \cup {"gone", "thrown"}),
         Wait(a, p),
         IF p = "gone" THEN at[a] = "shutdown" ELSE at[a] \in Waiting,
         UNCHANGED <<program, options, attachment, told>>,
         peer' \in [Attempt -> BOOLEAN],
         \A b \in Attempt : b # a => peer'[b] = peer[b],
         undefined' \in BOOLEAN,
         undefined' => ~alone,
         ~undefined' /\ url[a].secure /\ p \in Waiting \ {"resolve"} =>
           /\ attached[a]
           /\ peer'[a] = options[a].verify
           /\ p \in {"write", "read"} /\ peer'[a] => url[a].trusted
  PROVE  IInv'
<1>. USE DEF IInv
<1>1. at' = [at EXCEPT ![a] = p]
  BY DEF Wait
<1>2. at[a] \notin {"none", "redirect", "gone"} /\ p \in Place \ {"none", "redirect"}
  BY DEF Waiting, Place
<1>3. TypeOK'
  <2>1. at' \in [Attempt -> Place]
    BY <1>1, <1>2 DEF TypeOK
  <2>. QED
    BY <2>1, TypedAfter DEF TypeOK, attachment
<1>4. p \in Over => attached[a]
  BY DEF Over, Waiting, Attachments
<1>5. /\ Chain'
      /\ \A b \in Attempt : Made(b)' = Made(b) /\ Last(b)' = Last(b)
      /\ Attachments'
  <2>1. at[a] \in Waiting \/ p = "gone"
    OBVIOUS
  <2>. QED
    BY <1>1, <1>2, <1>4, <2>1, MoveKeeps
<1>6. \A b \in Attempt : at'[b] = IF b = a THEN p ELSE at[b]
  BY <1>1 DEF TypeOK
<1>7. Verified'
  <2>1. ASSUME NEW b \in Attempt, ~undefined', url[b].secure, at'[b] \in Waiting \ {"resolve"}
        PROVE  /\ attached[b]
               /\ peer'[b] = options[b].verify
               /\ at'[b] \in {"write", "read"} /\ peer'[b] => url[b].trusted
    BY <1>6, <2>1 DEF Verified
  <2>. QED
    BY <2>1 DEF Verified, program, attachment
<1>8. Tellers'
  <2>1. \A i \in DOMAIN told : told[i].of \in Attempt
    <3>1. \A i \in DOMAIN told : told[i] \in Call
      BY DEF TypeOK
    <3>. QED
      BY <3>1 DEF Call
  <2>2. ASSUME NEW i \in DOMAIN told
        PROVE  /\ Verdict(told[i]) => at'[told[i].of] \in {"shutdown", "gone"}
               /\ told[i].late => at'[told[i].of] = "gone"
    <3>1. CASE told[i].of = a /\ at[a] \in Waiting
      <4>1. ~Verdict(told[i])
        BY <3>1, NothingTold
      <4>2. ~told[i].late
        BY <3>1 DEF Tellers, Waiting
      <4>. QED
        BY <4>1, <4>2
    <3>2. CASE told[i].of = a /\ at[a] \notin Waiting
      BY <1>6, <3>2
    <3>3. CASE told[i].of # a
      BY <1>6, <2>1, <3>3 DEF Tellers
    <3>. QED
      BY <3>1, <3>2, <3>3
  <2>. QED
    BY <1>5, <2>1, <2>2 DEF Tellers, Verdict, attachment
<1>9. OneVerdict' /\ AsAsked'
  BY DEF OneVerdict, AsAsked, Verdict, program
<1>10. CallbacksInTime'
  BY DEF CallbacksInTime, program, attachment
<1>. QED
  BY <1>3, <1>5, <1>7, <1>8, <1>9, <1>10

\* On one thread a handler finds the callbacks of its attempt attached.
LEMMA InTime ==
  ASSUME IInv, NEW a \in Attempt, at[a] \in Waiting, Free, alone
  PROVE  attached[a]
<1>1. CASE a = 1
  BY <1>1 DEF Free
<1>2. CASE a > 1
  <2>1. a - 1 \in Attempt /\ Made(a)
    BY <1>2 DEF Made, Waiting
  <2>2. at[a - 1] # "redirect"
    BY <2>1 DEF Free, InHandler
  <2>. QED
    BY <1>2, <2>1, <2>2 DEF IInv, Attachments
<1>. QED
  BY <1>1, <1>2

\* An operation of the attempt has failed.
LEMMA FailedKeeps ==
  ASSUME IInv, ~undefined, NEW a \in Attempt, NEW op \in Waiting, Failed(a, op)
  PROVE  IInv'
<1>1. at[a] \in Waiting /\ Free /\ Failure(a, FALSE)
  BY DEF Failed, Completed
<1>2. PICK late \in BOOLEAN : ~late /\ Failure(a, late)
  BY <1>1
<1>. QED
  BY <1>1, <1>2, InTime, FailureKeeps

\* Whatever handler of the attempt runs.
LEMMA HandleKeeps ==
  ASSUME IInv, ~undefined, NEW a \in Attempt, a < Attempts, Handle(a)
  PROVE  IInv'
<1>1. CASE OnResolve(a)
  <2>1. CASE Failed(a, "resolve")
    BY <2>1, FailedKeeps DEF Waiting
  <2>2. CASE ~Failed(a, "resolve")
    <3>1. /\ at[a] = "resolve" /\ Free
          /\ Wait(a, "connect")
          /\ peer' = [peer EXCEPT ![a] = url[a].secure /\ options[a].verify]
          /\ undefined' = (url[a].secure /\ ~attached[a])
          /\ UNCHANGED <<program, options, attachment, told>>
      BY <1>1, <2>2 DEF OnResolve, Completed
    <3>2. /\ "connect" \in Waiting \cup {"gone", "thrown"} /\ "connect" # "gone"
          /\ "connect" \notin {"write", "read"}
          /\ at[a] \in Waiting
      BY <3>1 DEF Waiting
    <3>3. alone => attached[a]
      BY <3>1, <3>2, InTime
    <3>4. /\ options[a].verify \in BOOLEAN
          /\ url[a].secure \in BOOLEAN
      BY DEF IInv, TypeOK, Options, Url
    <3>5. /\ peer' \in [Attempt -> BOOLEAN]
          /\ \A b \in Attempt : b # a => peer'[b] = peer[b]
          /\ url[a].secure => peer'[a] = options[a].verify
          /\ undefined' \in BOOLEAN
          /\ undefined' => ~alone
          /\ ~undefined' /\ url[a].secure => attached[a]
      BY <3>1, <3>3, <3>4 DEF IInv, TypeOK
    <3>. QED
      BY <3>1, <3>2, <3>5, WaitKeeps
  <2>. QED
    BY <2>1, <2>2
<1>2. CASE OnConnect(a)
  <2>1. CASE Failed(a, "connect")
    BY <2>1, FailedKeeps DEF Waiting
  <2>2. CASE ~Failed(a, "connect")
    <3>1. PICK p \in {"handshake", "write"} :
            /\ Wait(a, p)
            /\ p = "write" => ~url[a].secure
      BY <1>2, <2>2 DEF OnConnect
    <3>2. /\ at[a] = "connect"
          /\ UNCHANGED <<program, options, peer, attachment, told, undefined>>
      BY <1>2, <2>2 DEF OnConnect, Completed
    <3>3. /\ p \in Waiting \cup {"gone", "thrown"} /\ p # "gone"
          /\ at[a] \in Waiting
      BY <3>2 DEF Waiting
    <3>4. url[a].secure => attached[a] /\ peer[a] = options[a].verify
      BY <3>2 DEF IInv, Verified, Waiting
    <3>5. /\ peer' \in [Attempt -> BOOLEAN] /\ undefined' \in BOOLEAN /\ peer' = peer
          /\ ~undefined'
      BY <3>2 DEF IInv, TypeOK
    <3>. QED
      BY <3>1, <3>2, <3>3, <3>4, <3>5, WaitKeeps
  <2>. QED
    BY <2>1, <2>2
<1>3. CASE OnHandshake(a)
  <2>1. CASE Failed(a, "handshake")
    BY <2>1, FailedKeeps DEF Waiting
  <2>2. CASE ~Failed(a, "handshake")
    <3>1. /\ at[a] = "handshake"
          /\ peer[a] => url[a].trusted
          /\ Wait(a, "write")
          /\ UNCHANGED <<program, options, peer, attachment, told, undefined>>
      BY <1>3, <2>2 DEF OnHandshake, Completed
    <3>2. /\ "write" \in Waiting \cup {"gone", "thrown"} /\ "write" # "gone"
          /\ at[a] \in Waiting
      BY <3>1 DEF Waiting
    <3>3. url[a].secure => attached[a] /\ peer[a] = options[a].verify
      BY <3>1 DEF IInv, Verified, Waiting
    <3>4. /\ peer' \in [Attempt -> BOOLEAN] /\ undefined' \in BOOLEAN /\ peer' = peer
          /\ ~undefined'
      BY <3>1 DEF IInv, TypeOK
    <3>. QED
      BY <3>1, <3>2, <3>3, <3>4, WaitKeeps
  <2>. QED
    BY <2>1, <2>2
<1>4. CASE OnWrite(a)
  <2>1. CASE Failed(a, "write")
    BY <2>1, FailedKeeps DEF Waiting
  <2>2. CASE ~Failed(a, "write")
    <3>1. /\ at[a] = "write"
          /\ Wait(a, "read")
          /\ UNCHANGED <<program, options, peer, attachment, told, undefined>>
      BY <1>4, <2>2 DEF OnWrite, Completed
    <3>2. /\ "read" \in Waiting \cup {"gone", "thrown"} /\ "read" # "gone"
          /\ at[a] \in Waiting
      BY <3>1 DEF Waiting
    <3>3. url[a].secure => /\ attached[a]
                           /\ peer[a] = options[a].verify
                           /\ peer[a] => url[a].trusted
      BY <3>1 DEF IInv, Verified, Waiting
    <3>4. /\ peer' \in [Attempt -> BOOLEAN] /\ undefined' \in BOOLEAN /\ peer' = peer
          /\ ~undefined'
      BY <3>1 DEF IInv, TypeOK
    <3>. QED
      BY <3>1, <3>2, <3>3, <3>4, WaitKeeps
  <2>. QED
    BY <2>1, <2>2
<1>5. CASE OnRead(a)
  <2>1. CASE Failed(a, "read")
    BY <2>1, FailedKeeps DEF Waiting
  <2>2. CASE ~Failed(a, "read")
    <3>1. at[a] = "read" /\ Free /\ at[a] \in Waiting
      BY <1>5, <2>2 DEF OnRead, Completed, Waiting
    <3>2. CASE \E moved \in BOOLEAN : Deliver(a, moved)
      BY <3>1, <3>2, DeliverKeeps
    <3>3. CASE Redirect(a)
      BY <3>1, <3>3, RedirectKeeps
    <3>4. CASE Unparsable(a)
      <4>1. /\ Wait(a, "thrown")
            /\ UNCHANGED <<program, options, peer, attachment, told, undefined>>
        BY <3>4 DEF Unparsable, Wait
      <4>2. /\ "thrown" \in Waiting \cup {"gone", "thrown"}
            /\ "thrown" # "gone" /\ "thrown" \notin Waiting
        BY DEF Waiting
      <4>3. /\ peer' \in [Attempt -> BOOLEAN] /\ undefined' \in BOOLEAN /\ peer' = peer
            /\ ~undefined'
        BY <4>1 DEF IInv, TypeOK
      <4>. QED
        BY <3>1, <4>1, <4>2, <4>3, WaitKeeps
    <3>5. CASE Unattached(a)
      <4>1. ~alone
        BY <3>1, <3>5, InTime DEF Unattached
      <4>2. undefined' = TRUE /\ UNCHANGED <<program, at, options, peer, attachment, told>>
        BY <3>5 DEF Unattached
      <4>. QED
        BY <4>1, <4>2 DEF IInv, TypeOK, Chain, Made, Last, Attachments, Verified, Tellers,
                          Verdict, OneVerdict, AsAsked, CallbacksInTime, program, attachment
    <3>. QED
      BY <1>5, <2>2, <3>2, <3>3, <3>4, <3>5 DEF OnRead
  <2>. QED
    BY <2>1, <2>2
<1>6. CASE HandOn(a)
  BY <1>6, HandOnKeeps
<1>7. CASE OnShutdown(a)
  <2>1. at[a] = "shutdown" /\ attached[a]
    BY <1>7 DEF OnShutdown, IInv, Attachments, Over
  <2>2. CASE Failure(a, TRUE)
    <3>1. PICK late \in BOOLEAN : late /\ Failure(a, late)
      BY <2>2
    <3>. QED
      BY <2>1, <3>1, FailureKeeps
  <2>3. CASE Wait(a, "gone") /\ UNCHANGED <<program, options, peer, attachment, told, undefined>>
    <3>1. "gone" \in Waiting \cup {"gone", "thrown"} /\ "gone" \notin Waiting
      BY DEF Waiting
    <3>2. /\ peer' \in [Attempt -> BOOLEAN] /\ undefined' \in BOOLEAN /\ peer' = peer
          /\ ~undefined'
      BY <2>3 DEF IInv, TypeOK
    <3>. QED
      BY <2>1, <2>3, <3>1, <3>2, WaitKeeps
  <2>. QED
    BY <1>7, <2>2, <2>3 DEF OnShutdown
<1>. QED
  BY <1>1, <1>2, <1>3, <1>4, <1>5, <1>6, <1>7 DEF Handle

\* Every step keeps the invariant.
LEMMA Kept == IInv /\ [Next]_vars => IInv'
<1>1. CASE Attach /\ IInv /\ ~undefined
  BY <1>1, AttachKeeps
<1>2. ASSUME NEW a \in Handled, Handle(a), IInv, ~undefined PROVE IInv'
  <2>1. a \in Attempt /\ a < Attempts
    BY DEF Handled
  <2>. QED
    BY <1>2, <2>1, HandleKeeps
<1>3. ASSUME IInv, UNCHANGED vars PROVE IInv'
  BY <1>3 DEF vars, IInv, TypeOK, Chain, Made, Last, Attachments, Verified, Tellers,
              Verdict, OneVerdict, AsAsked, CallbacksInTime, program, attachment
<1>. QED
  BY <1>1, <1>2, <1>3 DEF Next

(***************************************************************************)
(* The invariant of the handlers of client.h, for any number of redirects, *)
(* on one thread or several.                                               *)
(***************************************************************************)
THEOREM Invariance == Spec => []IInv
  BY Begins, Kept, PTL DEF Spec

\* Type correctness: operations follow one another, calls are of attempts made.
THEOREM Typing == Spec => []TypeOK
<1>1. IInv => TypeOK
  BY DEF IInv
<1>. QED
  BY <1>1, Invariance, PTL

(***************************************************************************)
(* success() and failure() tell the caller one end of its request through  *)
(* any number of redirects, and on_shutdown() reports once for an attempt. *)
(***************************************************************************)
THEOREM TellsOnce == Spec => []OneVerdict
<1>1. IInv => OneVerdict
  BY DEF IInv
<1>. QED
  BY <1>1, Invariance, PTL

(***************************************************************************)
(* The options of the caller hold for every attempt: no redirect leads to  *)
(* a response from a server that verification would have refused.          *)
(***************************************************************************)
THEOREM OptionsHold == Spec => []AsAsked
<1>1. IInv => AsAsked
  BY DEF IInv
<1>. QED
  BY <1>1, Invariance, PTL

\* On one thread the handlers find the callbacks attached and alive.
THEOREM NoRace == Spec => []CallbacksInTime
<1>1. IInv => CallbacksInTime
  BY DEF IInv
<1>. QED
  BY <1>1, Invariance, PTL
=============================================================================
