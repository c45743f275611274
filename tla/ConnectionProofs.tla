-------------------------- MODULE ConnectionProofs --------------------------
(***************************************************************************)
(* Theorems about Connection, for every router, any callables, jobs and    *)
(* number of requests.                                                     *)
(***************************************************************************)
EXTENDS ConnectionInv, TLAPS

(***************************************************************************)
(* Write() starts one write, and appends its response to the answers.      *)
(***************************************************************************)
LEMMA Writes ==
  ASSUME TypeOK,
         NEW n \in Number, NEW how \in {"returned", "thrown", "static", "responded"},
         NEW s \in Status, NEW c \in Status,
         Write(n, how, s, c)
  PROVE  /\ answers' \in Seq(Answer)
         /\ writing' \in {"keep", "eof"}
         /\ undefined' \in BOOLEAN
         /\ Len(answers') = Len(answers) + 1
         /\ writing = "none" => undefined' = undefined
         /\ Numbered /\ n = Len(answers) + 1 => Numbered'
PROOF
<1> DEFINE a == [to |-> n, how |-> how, status |-> s, chosen |-> c]
<1>1. a \in Answer /\ a.to = n
  BY DEF Answer
<1>2. answers' = Append(answers, a)
  BY DEF Write
<1> HIDE DEF a
<1>3. answers' \in Seq(Answer) /\ Len(answers') = Len(answers) + 1
  BY <1>1, <1>2 DEF TypeOK
<1>4. ASSUME Numbered, n = Len(answers) + 1 PROVE Numbered'
  <2>1. \A k \in DOMAIN answers' :
          answers'[k] = IF k = Len(answers) + 1 THEN a ELSE answers[k]
    BY <1>1, <1>2 DEF TypeOK
  <2>2. DOMAIN answers' = 1 .. Len(answers) + 1 /\ DOMAIN answers = 1 .. Len(answers)
    BY <1>3 DEF TypeOK
  <2>3. Len(answers) \in Nat
    BY DEF TypeOK
  <2> QED
    BY <2>1, <2>2, <2>3, <1>1, <1>4 DEF Numbered
<1>5. /\ writing' \in {"keep", "eof"}
      /\ undefined' \in BOOLEAN
      /\ writing = "none" => undefined' = undefined
  BY DEF Write, TypeOK
<1> QED
  BY <1>3, <1>4, <1>5

-----------------------------------------------------------------------------
LEMMA TypingInit == Init => TypeOK
PROOF
<1> SUFFICES ASSUME Init PROVE TypeOK
  OBVIOUS
<1>1. PICK m \in Method, p \in Path : req = [nr |-> 0, method |-> m, path |-> p, keep |-> TRUE]
  BY DEF Init
<1>2. req \in Request /\ req.path \in Path
  BY <1>1, ConnectionAssumption DEF Request, Number
<1>3. answers \in Seq(Answer)
  BY DEF Init
<1> QED
  BY <1>2, <1>3, ConnectionAssumption DEF Init, TypeOK

(***************************************************************************)
(* No step gives a variable a value outside its type; while a callable is  *)
(* at work the context has a route.                                        *)
(***************************************************************************)
LEMMA TypingStep == TypeOK /\ [Next]_vars => TypeOK'
PROOF
<1> SUFFICES ASSUME TypeOK, [Next]_vars PROVE TypeOK'
  OBVIOUS
<1> USE ConnectionAssumption
<1>0. req.nr \in Number /\ req.method \in Method /\ req.path \in Path
  BY DEF TypeOK, Request
<1>1. CASE OnRead
  <2>1. req' \in Request /\ path' \in Path
    BY <1>0, <1>1 DEF OnRead, Request, Number
  <2> QED
    BY <1>1, <2>1 DEF OnRead, TypeOK
<1>2. CASE OnReadEnd
  BY <1>2 DEF OnReadEnd, TypeOK, context
<1>3. CASE Serve
  <2>1. path' \in Path /\ status' \in Status
    BY <1>3 DEF Serve, Rerouted, Cleared, TypeOK, Route
  <2>2. UNCHANGED <<req, reading, writing, ended, held, dropped, answers, undefined>>
    BY <1>3 DEF Serve, socket
  <2>3. CASE /\ code' = "none"
             /\ strand' = "served"
             /\ UNCHANGED <<top, chosen>>
    BY <2>1, <2>2, <2>3 DEF TypeOK
  <2>4. CASE \E f \in Callable, s \in Path :
               /\ top' = [callable |-> f, subject |-> s, alt |-> None]
               /\ chosen' = Ok
               /\ strand' = "callable"
               /\ UNCHANGED code
    <3>1. top' \in Route
      BY <2>4 DEF Route
    <3> QED
      BY <3>1, <2>1, <2>2, <2>4 DEF TypeOK
  <2> QED
    BY <1>3, <2>3, <2>4 DEF Serve
<1>4. CASE AskStatus
  BY <1>4 DEF AskStatus, AtWork, TypeOK, socket
<1>5. CASE Reroute
  <2>1. top' \in Route
    BY <1>5 DEF Reroute, AtWork, TypeOK, Route
  <2> QED
    BY <1>5, <2>1 DEF Reroute, AtWork, TypeOK, socket
<1>6. CASE Respond
  <2>1. Write(req.nr, "responded", Ok, chosen)
    BY <1>6 DEF Respond
  <2> QED
    BY <1>0, <1>6, <2>1, Writes DEF Respond, TypeOK, context
<1>7. CASE Hold
  BY <1>0, <1>7 DEF Hold, TypeOK, context, socket
<1>8. CASE Return
  <2>1. CASE Rerouted
    BY <1>8, <2>1 DEF Return, TypeOK, context
  <2>2. CASE ~Rerouted
    <3>1. Write(req.nr, "returned", status, chosen)
      BY <1>8, <2>2 DEF Return
    <3> QED
      BY <1>0, <1>8, <2>2, <3>1, Writes DEF Return, TypeOK, context
  <2> QED
    BY <2>1, <2>2
<1>9. CASE ReturnNothing
  BY <1>0, <1>9 DEF ReturnNothing, TypeOK, context, socket
<1>10. CASE Throw
  <2>1. Write(req.nr, "thrown", Error, Error)
    BY <1>10 DEF Throw
  <2> QED
    BY <1>0, <1>10, <2>1, Writes DEF Throw, TypeOK, context
<1>11. CASE Served
  BY <1>11 DEF Served, TypeOK, context, socket
<1>12. CASE StaticFile
  <2>1. PICK s \in {Ok, Error} : Write(req.nr, "static", s, s)
    BY <1>12 DEF StaticFile
  <2> QED
    BY <1>0, <1>12, <2>1, Writes DEF StaticFile, TypeOK, context
<1>13. CASE OnWrite
  BY <1>13 DEF OnWrite, TypeOK, context
<1>14. CASE JobResponds
  <2>1. PICK n \in held : /\ held' = held \ {n}
                          /\ \E s \in Status : Write(n, "responded", Ok, s)
    BY <1>14 DEF JobResponds
  <2>2. PICK s \in Status : Write(n, "responded", Ok, s)
    BY <2>1
  <2>3. n \in Number
    BY <2>1 DEF TypeOK
  <2> QED
    BY <1>14, <2>1, <2>2, <2>3, Writes DEF JobResponds, TypeOK, context
<1>15. CASE JobDrops
  BY <1>15 DEF JobDrops, TypeOK, context, socket
<1>16. CASE UNCHANGED vars
  BY <1>16 DEF vars, TypeOK, context, socket
<1> QED
  BY <1>1, <1>2, <1>3, <1>4, <1>5, <1>6, <1>7, <1>8, <1>9, <1>10, <1>11, <1>12, <1>13,
     <1>14, <1>15, <1>16 DEF Next, OnStrand, Finish, Job

\* The type invariant of the connection.
THEOREM Typing == Spec => []TypeOK
PROOF
  BY TypingInit, TypingStep, PTL DEF Spec

-----------------------------------------------------------------------------
(***************************************************************************)
(* Where the present request stands tells whether it has its answer.       *)
(***************************************************************************)
LEMMA Standing ==
  ASSUME TypeOK, Numbered
  PROVE  /\ req.nr \in Nat /\ req.nr \in Number
         /\ Len(answers) \in Nat
         /\ (Len(answers) = req.nr /\ req.nr > 0) => Answered(req.nr)
         /\ Len(answers) < req.nr => ~Answered(req.nr)
PROOF
<1>1. req.nr \in Number /\ req.nr \in Nat
  BY ConnectionAssumption DEF TypeOK, Request, Number
<1>2. Len(answers) \in Nat /\ DOMAIN answers = 1 .. Len(answers)
  BY DEF TypeOK
<1>3. ASSUME Len(answers) = req.nr, req.nr > 0 PROVE Answered(req.nr)
  <2>1. req.nr \in DOMAIN answers
    BY <1>1, <1>2, <1>3
  <2> QED
    BY <2>1 DEF Numbered, Answered
<1>4. ASSUME Len(answers) < req.nr PROVE ~Answered(req.nr)
  BY <1>1, <1>2, <1>4 DEF Numbered, Answered
<1> QED
  BY <1>1, <1>2, <1>3, <1>4

LEMMA StandingInit == Init => Accounted
PROOF
<1> SUFFICES ASSUME Init PROVE Accounted
  OBVIOUS
<1>1. req.nr = 0 /\ answers = <<>> /\ Len(answers) = 0 /\ DOMAIN answers = {}
  BY DEF Init
<1> QED
  BY <1>1 DEF Init, Accounted, Numbered, Stands, AtRest

(***************************************************************************)
(* While the strand has not come to its end, the request is owed unless a  *)
(* deferred callable has disposed of it.                                   *)
(***************************************************************************)
LEMMA StandingAtWork ==
  ASSUME TypeOK, Accounted, Polite, AtWork
  PROVE  Owed /\ ~Rerouted /\ req.nr > 0 /\ Numbered /\ ~undefined
PROOF
<1>1. Numbered /\ ~undefined /\ req.nr # 0
  BY DEF Accounted, AtWork
<1>2. ~Disposed
  BY DEF AtWork
<1>3. ~Done
  BY <1>1, <1>2, Standing DEF Done, Disposed
<1>4. ~Taken
  BY <1>2 DEF Taken, Disposed
<1>5. Owed
  BY <1>3, <1>4 DEF Accounted, Stands, AtWork
<1> QED
  BY <1>1, <1>2, <1>5, Standing DEF Disposed

(***************************************************************************)
(* The request of a step is owed and a response to it is written.          *)
(***************************************************************************)
LEMMA Settles ==
  ASSUME TypeOK, Numbered, Owed, ~undefined, req.nr > 0,
         NEW how \in {"returned", "thrown", "static", "responded"},
         NEW s \in Status, NEW c \in Status,
         Write(req.nr, how, s, c),
         UNCHANGED <<req, reading, ended, held, dropped>>
  PROVE  Done' /\ Numbered' /\ ~undefined'
PROOF
<1>1. /\ Len(answers') = Len(answers) + 1
      /\ writing' # "none"
      /\ undefined' = undefined
      /\ Numbered'
  BY Writes, Standing DEF Owed, Quiet
<1> QED
  BY <1>1, Standing DEF Owed, Done, Quiet

(***************************************************************************)
(* Each request is answered in its turn: no step reads a request before    *)
(* the one before it is answered, and none answers a request twice.        *)
(***************************************************************************)
LEMMA StandingStep == TypeOK /\ TypeOK' /\ Accounted /\ [Next]_vars => Accounted'
PROOF
<1> SUFFICES ASSUME TypeOK, TypeOK', Accounted, [Next]_vars, Polite PROVE Accounted'
  BY DEF Accounted
<1>0. /\ Numbered /\ ~undefined /\ Stands
      /\ req.nr = 0 => strand = "free"
      /\ req.nr \in Nat /\ req.nr \in Number
      /\ Len(answers) \in Nat
  BY Standing DEF Accounted
<1>1. CASE OnRead
  <2>1. req'.nr = req.nr + 1
    BY <1>1 DEF OnRead
  <2>2. Len(answers) = req.nr /\ held = {} /\ dropped = {} /\ writing = "none" /\ ~ended
    BY <1>0, <1>1 DEF OnRead, Stands, AtRest, Done, Taken, Quiet
  <2>3. Owed' /\ Numbered' /\ ~undefined'
    BY <1>0, <1>1, <2>1, <2>2 DEF OnRead, Owed, Quiet, Numbered
  <2> QED
    BY <1>0, <1>1, <2>1, <2>3 DEF OnRead, Accounted, Stands
<1>2. CASE OnReadEnd
  BY <1>0, <1>2 DEF OnReadEnd, Accounted, Stands, AtRest, Done, Taken, Quiet, Numbered, TypeOK
<1>3. CASE Serve
  <2>1. Owed
    BY <1>0, <1>3 DEF Serve, Stands
  <2>2. Owed' /\ Numbered' /\ ~undefined' /\ req' = req
    BY <1>0, <1>3, <2>1 DEF Serve, Owed, Quiet, Numbered, socket
  <2>3. \/ strand' = "served" /\ code' = "none"
        \/ strand' = "callable"
    BY <1>3 DEF Serve
  <2> QED
    BY <1>0, <1>3, <2>2, <2>3 DEF Serve, Accounted, Stands
<1>4. CASE AskStatus
  <2>1. UNCHANGED <<req, strand, top, held, dropped, answers, undefined, reading, writing, ended>>
    BY <1>4 DEF AskStatus, socket
  <2>2. strand = "callable"
    BY <1>4 DEF AskStatus, AtWork
  <2> QED
    BY <1>0, <2>1, <2>2 DEF Accounted, Stands, Numbered, Owed, Done, Taken, Quiet, Rerouted
<1>5. CASE Reroute
  <2>1. AtWork /\ strand' = "callable"
    BY <1>5 DEF Reroute, AtWork
  <2>2. UNCHANGED <<req, held, dropped, answers, undefined, reading, writing, ended>>
    BY <1>5 DEF Reroute, socket
  <2>3. Owed' /\ Numbered' /\ ~undefined' /\ req.nr > 0
    BY <2>1, <2>2, StandingAtWork DEF Owed, Quiet, Numbered
  <2> QED
    BY <1>0, <2>1, <2>2, <2>3 DEF Accounted, Stands
<1>6. CASE Respond
  <2>1. AtWork /\ strand' = "callable" /\ top.callable \in Deferred
    BY <1>6 DEF Respond, AtWork
  <2>2. UNCHANGED <<req, reading, ended, held, dropped, top>>
    BY <1>6 DEF Respond, context
  <2>3. Owed /\ ~Rerouted /\ req.nr > 0
    BY <2>1, StandingAtWork
  <2>4. Write(req.nr, "responded", Ok, chosen) /\ Ok \in Status /\ chosen \in Status
    BY <1>6, ConnectionAssumption DEF Respond, TypeOK
  <2>5. Done' /\ Numbered' /\ ~undefined'
    BY <1>0, <2>2, <2>3, <2>4, Settles
  <2> QED
    BY <1>0, <2>1, <2>2, <2>3, <2>5 DEF Accounted, Stands, Rerouted
<1>7. CASE Hold
  <2>1. AtWork /\ strand' = "callable" /\ top.callable \in Deferred
    BY <1>7 DEF Hold, AtWork
  <2>2. /\ UNCHANGED <<req, reading, writing, ended, dropped, top, answers, undefined>>
        /\ held' = held \cup {req.nr}
    BY <1>7 DEF Hold, context, socket
  <2>3. Owed /\ ~Rerouted /\ req.nr > 0
    BY <2>1, StandingAtWork
  <2>4. Taken' /\ Numbered' /\ ~undefined'
    BY <1>0, <2>2, <2>3 DEF Owed, Taken, Quiet, Numbered
  <2> QED
    BY <1>0, <2>1, <2>2, <2>3, <2>4 DEF Accounted, Stands, Rerouted
<1>8. CASE Return
  <2>1. /\ strand = "callable" /\ strand' = "served" /\ top.callable \notin Deferred
        /\ UNCHANGED <<req, reading, ended, held, dropped, top>>
    BY <1>8 DEF Return, context
  <2>2. Owed /\ req.nr > 0
    BY <1>0, <2>1 DEF Stands
  <2>3. CASE Rerouted
    <3>1. UNCHANGED <<answers, writing, undefined>>
      BY <1>8, <2>3 DEF Return
    <3>2. Owed' /\ Numbered' /\ ~undefined' /\ Rerouted'
      BY <1>0, <2>1, <2>2, <2>3, <3>1 DEF Owed, Quiet, Numbered, Rerouted
    <3> QED
      BY <2>1, <2>2, <3>2 DEF Accounted, Stands
  <2>4. CASE ~Rerouted
    <3>1. Write(req.nr, "returned", status, chosen) /\ code' = "sent"
      BY <1>8, <2>4 DEF Return
    <3>2. status \in Status /\ chosen \in Status
      BY DEF TypeOK
    <3>3. Done' /\ Numbered' /\ ~undefined'
      BY <1>0, <2>1, <2>2, <3>1, <3>2, Settles
    <3>4. ~Rerouted'
      BY <2>1, <2>4 DEF Rerouted
    <3> QED
      BY <2>1, <2>2, <3>1, <3>3, <3>4 DEF Accounted, Stands
  <2> QED
    BY <2>3, <2>4
<1>9. CASE ReturnNothing
  <2>1. /\ strand = "callable" /\ strand' = "served" /\ code' = "deferred"
        /\ UNCHANGED <<req, reading, writing, ended, held, top, answers, undefined>>
        /\ dropped' = IF Disposed THEN dropped ELSE dropped \cup {req.nr}
    BY <1>9 DEF ReturnNothing, context, socket
  <2>2. req.nr > 0 /\ Numbered' /\ ~undefined' /\ (Rerouted' <=> Rerouted)
    BY <1>0, <2>1 DEF Numbered, Rerouted
  <2>3. CASE Rerouted
    <3>1. Owed /\ dropped' = dropped
      BY <1>0, <2>1, <2>3 DEF Stands, Disposed
    <3>2. Owed'
      BY <2>1, <3>1 DEF Owed, Quiet
    <3> QED
      BY <2>1, <2>2, <2>3, <3>2 DEF Accounted, Stands
  <2>4. CASE ~Rerouted /\ Disposed
    <3>1. Done \/ Taken
      BY <1>0, <2>1, <2>2, <2>4, Standing DEF Stands, Disposed, Owed
    <3>2. Done' \/ Taken'
      BY <2>1, <2>4, <3>1 DEF Done, Taken, Quiet
    <3> QED
      BY <2>1, <2>2, <2>4, <3>2 DEF Accounted, Stands
  <2>5. CASE ~Disposed
    <3>1. ~Done /\ ~Taken /\ ~Rerouted
      BY <1>0, <2>2, <2>5, Standing DEF Done, Taken, Disposed
    <3>2. Owed
      BY <1>0, <2>1, <3>1 DEF Stands
    <3>3. Taken'
      BY <2>1, <2>5, <3>2 DEF Owed, Taken, Quiet
    <3> QED
      BY <2>1, <2>2, <3>1, <3>3 DEF Accounted, Stands
  <2> QED
    BY <2>3, <2>4, <2>5
<1>10. CASE Throw
  <2>1. /\ AtWork /\ strand' = "served" /\ code' = "sent"
        /\ UNCHANGED <<req, reading, ended, held, dropped, top>>
        /\ Write(req.nr, "thrown", Error, Error)
    BY <1>10 DEF Throw, context
  <2>2. Owed /\ ~Rerouted /\ req.nr > 0
    BY <2>1, StandingAtWork
  <2>3. Done' /\ Numbered' /\ ~undefined'
    BY <1>0, <2>1, <2>2, Settles, ConnectionAssumption
  <2> QED
    BY <2>1, <2>2, <2>3 DEF Accounted, Stands, Rerouted
<1>11. CASE Served
  <2>1. /\ strand = "served"
        /\ strand' = IF Rerouted THEN "serve" ELSE IF code = "none" THEN "static" ELSE "free"
        /\ UNCHANGED <<req, reading, writing, ended, held, dropped, answers, undefined>>
    BY <1>11 DEF Served, context, socket
  <2>2. req.nr # 0 /\ Numbered' /\ ~undefined'
    BY <1>0, <2>1 DEF Numbered
  <2>3. (Owed <=> Owed') /\ (Done <=> Done') /\ (Taken <=> Taken')
    BY <2>1 DEF Owed, Done, Taken, Quiet
  <2> QED
    BY <1>0, <2>1, <2>2, <2>3 DEF Accounted, Stands, AtRest
<1>12. CASE StaticFile
  <2>1. PICK s \in {Ok, Error} : Write(req.nr, "static", s, s)
    BY <1>12 DEF StaticFile
  <2>2. /\ strand = "static" /\ strand' = "free"
        /\ UNCHANGED <<req, reading, ended, held, dropped>>
    BY <1>12 DEF StaticFile, context
  <2>3. Owed /\ req.nr > 0
    BY <1>0, <2>2 DEF Stands
  <2>4. Done' /\ Numbered' /\ ~undefined'
    BY <1>0, <2>1, <2>2, <2>3, Settles, ConnectionAssumption
  <2> QED
    BY <2>2, <2>3, <2>4 DEF Accounted, Stands, AtRest
<1>13. CASE OnWrite
  <2>1. /\ strand = "free" /\ strand' = "free" /\ writing # "none" /\ writing' = "none"
        /\ UNCHANGED <<req, held, dropped, answers>>
    BY <1>13 DEF OnWrite, context
  <2>2. Done
    BY <1>0, <2>1 DEF Stands, AtRest, Taken, Quiet
  <2>3. ~undefined' /\ reading' = ~ended'
    BY <1>0, <1>13, <2>2 DEF OnWrite, Done, TypeOK
  <2>4. Numbered'
    BY <1>0, <2>1 DEF Numbered
  <2> QED
    BY <1>0, <2>1, <2>2, <2>3, <2>4 DEF Accounted, Stands, AtRest, Done
<1>14. CASE JobResponds
  <2>1. PICK n \in held : /\ held' = held \ {n}
                          /\ \E s \in Status : Write(n, "responded", Ok, s)
    BY <1>14 DEF JobResponds
  <2>2. PICK s \in Status : Write(n, "responded", Ok, s)
    BY <2>1
  <2>3. UNCHANGED <<req, reading, ended, dropped, top, strand, code>>
    BY <1>14 DEF JobResponds, context
  <2>4. /\ Taken /\ req.nr > 0
        /\ strand = "free" \/ (strand = "callable" /\ ~Rerouted /\ top.callable \in Deferred)
           \/ (strand = "served" /\ ~Rerouted /\ code # "none")
    <3>1. held # {}
      BY <2>1
    <3>2. ~Owed /\ ~Done
      BY <3>1 DEF Owed, Done
    <3>3. /\ Taken
          /\ strand = "free" \/ (strand = "callable" /\ ~Rerouted /\ top.callable \in Deferred)
             \/ (strand = "served" /\ ~Rerouted /\ code # "none")
      BY <1>0, <3>1, <3>2 DEF Stands, AtRest, TypeOK
    <3>4. req.nr # 0
      BY <1>0, <3>3 DEF Taken
    <3> QED
      BY <1>0, <3>3, <3>4
  <2>5. n = req.nr /\ held' = {} /\ dropped = {} /\ Len(answers) + 1 = req.nr
    BY <1>0, <2>1, <2>4 DEF Taken
  <2>6. /\ Len(answers') = Len(answers) + 1
        /\ writing' # "none"
        /\ undefined' = undefined
        /\ Numbered'
    BY <1>0, <2>2, <2>4, <2>5, Writes, ConnectionAssumption DEF Taken, Quiet
  <2>7. Done'
    BY <1>0, <2>3, <2>4, <2>5, <2>6 DEF Done, Taken, Quiet
  <2>8. Rerouted' <=> Rerouted
    BY <2>3 DEF Rerouted
  <2> QED
    BY <1>0, <2>3, <2>4, <2>6, <2>7, <2>8 DEF Accounted, Stands, AtRest
<1>15. CASE JobDrops
  <2>1. PICK n \in held : held' = held \ {n} /\ dropped' = dropped \cup {n}
    BY <1>15 DEF JobDrops
  <2>2. UNCHANGED <<req, reading, writing, ended, top, strand, code, answers, undefined>>
    BY <1>15 DEF JobDrops, context, socket
  <2>3. ~Owed /\ ~Done /\ Numbered' /\ ~undefined'
    BY <1>0, <2>1, <2>2 DEF Owed, Done, Numbered
  <2>4. Taken => Taken'
    BY <2>1, <2>2 DEF Taken, Quiet
  <2>5. (Rerouted' <=> Rerouted) /\ held # {}
    BY <2>1, <2>2 DEF Rerouted
  <2>6. CASE strand = "free"
    <3>1. Taken'
      BY <1>0, <2>3, <2>4, <2>5, <2>6 DEF Stands, AtRest
    <3> QED
      BY <1>0, <2>2, <2>3, <2>6, <3>1 DEF Accounted, Stands, AtRest
  <2>7. CASE strand = "callable"
    <3>1. Taken' /\ ~Rerouted /\ top.callable \in Deferred
      BY <1>0, <2>3, <2>4, <2>7 DEF Stands
    <3> QED
      BY <1>0, <2>2, <2>3, <2>5, <2>7, <3>1 DEF Accounted, Stands
  <2>8. CASE strand = "served"
    <3>1. Taken' /\ ~Rerouted /\ code # "none"
      BY <1>0, <2>3, <2>4, <2>8 DEF Stands
    <3> QED
      BY <1>0, <2>2, <2>3, <2>5, <2>8, <3>1 DEF Accounted, Stands
  <2>9. strand \notin {"serve", "static"}
    BY <1>0, <2>3 DEF Stands
  <2> QED
    BY <2>6, <2>7, <2>8, <2>9 DEF TypeOK
<1>16. CASE UNCHANGED vars
  BY <1>0, <1>16 DEF vars, context, socket, Accounted, Stands, AtRest, Numbered, Owed, Done, Taken,
     Quiet, Rerouted
<1> QED
  BY <1>1, <1>2, <1>3, <1>4, <1>5, <1>6, <1>7, <1>8, <1>9, <1>10, <1>11, <1>12, <1>13,
     <1>14, <1>15, <1>16 DEF Next, OnStrand, Finish, Job

LEMMA Disposal == Spec => []Accounted
PROOF
  BY TypingInit, TypingStep, StandingInit, StandingStep, PTL DEF Spec

\* The inductive invariant of the connection.
THEOREM Invariance == Spec => []IInv
PROOF
<1>1. TypeOK /\ Accounted => IInv
  BY DEF IInv
<1> QED
  BY <1>1, Typing, Disposal, PTL

-----------------------------------------------------------------------------
(***************************************************************************)
(* Responses are written in the order of the requests, one for each.       *)
(***************************************************************************)
THEOREM Order == Spec => []InOrder
PROOF
<1>1. Accounted => InOrder
  BY DEF Accounted, Numbered, InOrder
<1> QED
  BY <1>1, Disposal, PTL

(***************************************************************************)
(* Where a request stands excludes a read while a write is pending, and a  *)
(* read while a job holds its context.                                     *)
(***************************************************************************)
LEMMA Apart == TypeOK /\ Accounted => OneAtATime /\ HeldContextIsCurrent
PROOF
<1> SUFFICES ASSUME TypeOK, Accounted, Polite PROVE OneAtATime /\ HeldContextIsCurrent
  BY DEF OneAtATime, HeldContextIsCurrent
<1>1. Numbered /\ ~undefined /\ Stands
  BY DEF Accounted
<1>2. ~(reading /\ writing # "none")
  BY <1>1 DEF Stands, AtRest, Owed, Done, Taken, Quiet, TypeOK
<1>3. ASSUME NEW n \in held PROVE n = req.nr /\ ~reading /\ ~Answered(n)
  <2>1. Taken
    BY <1>1, <1>3 DEF Stands, AtRest, Owed, Done, TypeOK
  <2>2. n = req.nr /\ ~reading /\ Len(answers) < req.nr
    BY <1>1, <1>3, <2>1, Standing DEF Taken, Quiet
  <2> QED
    BY <1>1, <2>2, Standing
<1> QED
  BY <1>1, <1>2, <1>3 DEF OneAtATime, HeldContextIsCurrent

\* No two reads and no two writes are ever pending on the socket.
THEOREM Exclusive == Spec => []OneAtATime
PROOF
  BY Apart, Typing, Disposal, PTL

\* The request a held context refers to is not overwritten before it is answered.
THEOREM ContextsLast == Spec => []HeldContextIsCurrent
PROOF
  BY Apart, Typing, Disposal, PTL

(***************************************************************************)
(* No request is left behind by the connection itself, and the connection  *)
(* carries on after an answer until it ends.                               *)
(***************************************************************************)
THEOREM Remembers == Spec => []NothingForgotten
PROOF
<1>1. TypeOK /\ Accounted => NothingForgotten
  <2> SUFFICES ASSUME TypeOK, Accounted, Polite, strand = "free" PROVE NothingForgotten
    BY DEF NothingForgotten
  <2>1. Numbered /\ AtRest
    BY DEF Accounted, Stands
  <2>2. CASE Done
    BY <2>1, <2>2, Standing DEF Done, NothingForgotten
  <2>3. CASE Taken
    <3>1. ~Answered(req.nr) /\ req.nr # 0 /\ req.nr \in held \cup dropped
      BY <2>1, <2>3, Standing DEF Taken
    <3> QED
      BY <3>1 DEF NothingForgotten
  <2>4. CASE Len(answers) = req.nr /\ writing = "none" /\ reading = ~ended
    <3>1. req.nr = 0 \/ Answered(req.nr)
      BY <2>1, <2>4, Standing
    <3>2. reading \/ ended
      BY <2>4 DEF TypeOK
    <3> QED
      BY <3>1, <3>2 DEF NothingForgotten
  <2> QED
    BY <2>1, <2>2, <2>3, <2>4 DEF AtRest
<1> QED
  BY <1>1, Typing, Disposal, PTL

-----------------------------------------------------------------------------
(***************************************************************************)
(* A response that is written carries its status into the answers.         *)
(***************************************************************************)
LEMMA Carries ==
  ASSUME TypeOK, ReturnsItsStatus,
         NEW n, NEW how, NEW s, NEW c,
         Write(n, how, s, c),
         how = "returned" => s = c
  PROVE  ReturnsItsStatus'
PROOF
<1>1. DOMAIN answers' = 1 .. Len(answers) + 1 /\ DOMAIN answers = 1 .. Len(answers)
      /\ Len(answers) \in Nat
  BY DEF Write, TypeOK
<1>2. \A k \in DOMAIN answers' :
        answers'[k] = IF k = Len(answers) + 1
                      THEN [to |-> n, how |-> how, status |-> s, chosen |-> c]
                      ELSE answers[k]
  BY DEF Write, TypeOK
<1> QED
  BY <1>1, <1>2 DEF ReturnsItsStatus

LEMMA StatusStep == TypeOK /\ StatusInv /\ [Next]_vars => StatusInv'
PROOF
<1> SUFFICES ASSUME TypeOK, StatusInv, [Next]_vars PROVE StatusInv'
  OBVIOUS
<1>0. ReturnsItsStatus
  BY DEF StatusInv
<1>1. CASE OnRead
  BY <1>0, <1>1 DEF OnRead, StatusInv, ReturnsItsStatus
<1>2. CASE OnReadEnd \/ OnWrite \/ JobDrops
  BY <1>2 DEF OnReadEnd, OnWrite, JobDrops, context, StatusInv, ReturnsItsStatus, Rerouted
<1>3. CASE Serve
  <2>1. status' = Ok /\ answers' = answers
    BY <1>3 DEF Serve, Cleared, StatusInv
  <2>2. strand' = "served" \/ (strand' = "callable" /\ chosen' = Ok)
    BY <1>3 DEF Serve
  <2> QED
    BY <1>0, <2>1, <2>2 DEF StatusInv, ReturnsItsStatus
<1>4. CASE AskStatus
  BY <1>4 DEF AskStatus, AtWork, StatusInv, ReturnsItsStatus
<1>5. CASE Reroute
  BY <1>5 DEF Reroute, AtWork, StatusInv, ReturnsItsStatus
<1>6. CASE Hold
  BY <1>6 DEF Hold, AtWork, context, StatusInv, ReturnsItsStatus
<1>7. CASE ReturnNothing
  BY <1>7 DEF ReturnNothing, StatusInv, ReturnsItsStatus
<1>8. CASE Served
  BY <1>8 DEF Served, context, StatusInv, ReturnsItsStatus, Rerouted
<1>9. CASE Respond
  <2>1. ReturnsItsStatus'
    BY <1>0, <1>9, Carries DEF Respond
  <2> QED
    BY <1>9, <2>1 DEF Respond, AtWork, context, StatusInv
<1>10. CASE Return
  <2>1. CASE Rerouted
    BY <1>0, <1>10, <2>1 DEF Return, StatusInv, ReturnsItsStatus
  <2>2. CASE ~Rerouted
    <3>1. Write(req.nr, "returned", status, chosen) /\ status = chosen
      BY <1>10, <2>2 DEF Return, StatusInv
    <3>2. ReturnsItsStatus'
      BY <1>0, <3>1, Carries
    <3> QED
      BY <1>10, <3>2 DEF Return, StatusInv
  <2> QED
    BY <2>1, <2>2
<1>11. CASE Throw
  <2>1. ReturnsItsStatus'
    BY <1>0, <1>11, Carries DEF Throw
  <2> QED
    BY <1>11, <2>1 DEF Throw, StatusInv
<1>12. CASE StaticFile
  <2>1. PICK s \in {Ok, Error} : Write(req.nr, "static", s, s)
    BY <1>12 DEF StaticFile
  <2>2. ReturnsItsStatus'
    BY <1>0, <2>1, Carries
  <2> QED
    BY <1>12, <2>2 DEF StaticFile, StatusInv
<1>13. CASE JobResponds
  <2>1. PICK n \in held : \E s \in Status : Write(n, "responded", Ok, s)
    BY <1>13 DEF JobResponds
  <2>2. PICK s \in Status : Write(n, "responded", Ok, s)
    BY <2>1
  <2>3. ReturnsItsStatus'
    BY <1>0, <2>2, Carries
  <2> QED
    BY <1>13, <2>3 DEF JobResponds, context, StatusInv, Rerouted
<1>14. CASE UNCHANGED vars
  BY <1>14 DEF vars, context, StatusInv, ReturnsItsStatus, Rerouted
<1> QED
  BY <1>1, <1>2, <1>3, <1>4, <1>5, <1>6, <1>7, <1>8, <1>9, <1>10, <1>11, <1>12, <1>13, <1>14
     DEF Next, OnStrand, Finish, Job

(***************************************************************************)
(* A callable answers with the status it asked for, however often the      *)
(* request was rerouted before it.                                         *)
(***************************************************************************)
THEOREM OwnStatus == Spec => []ReturnsItsStatus
PROOF
<1>1. Init => StatusInv
  BY DEF Init, StatusInv, ReturnsItsStatus
<1>2. StatusInv => ReturnsItsStatus
  BY DEF StatusInv
<1> QED
  BY <1>1, <1>2, StatusStep, Typing, PTL DEF Spec

-----------------------------------------------------------------------------
(***************************************************************************)
(* The connection implements the exchange: a step reads a request, writes  *)
(* the answer to it, ends the connection, or changes none of the three.    *)
(***************************************************************************)
LEMMA ExchangeInit == Init => Abstract!Init
PROOF
  BY DEF Init, Abstract!Init, Gone

LEMMA ExchangeStep ==
  ASSUME Polite, TypeOK, Accounted, TypeOK', Accounted', Next
  PROVE  [Abstract!Next]_<<req.nr, Len(answers), ~Gone>>
PROOF
<1>0. /\ Numbered /\ Stands /\ Stands'
      /\ req.nr \in Nat /\ Len(answers) \in Nat
      /\ req'.nr \in Nat /\ Len(answers') \in Nat
  <2>1. req.nr \in Nat /\ req'.nr \in Nat
    BY ConnectionAssumption DEF TypeOK, Request, Number
  <2>2. Len(answers) \in Nat /\ Len(answers') \in Nat
    BY DEF TypeOK
  <2> QED
    BY <2>1, <2>2 DEF Accounted
<1>1. Len(answers') <= req'.nr
  <2>1. strand' \in {"free", "serve", "callable", "served", "static"}
    BY DEF TypeOK
  <2>2. AtRest' \/ Owed' \/ Done' \/ Taken'
    BY <1>0, <2>1 DEF Stands
  <2> QED
    BY <1>0, <2>2 DEF AtRest, Owed, Done, Taken
\* The three ways in which a step of the connection is one of the exchange.
<1> DEFINE Silent == ~Gone /\ req'.nr = req.nr /\ Len(answers') = Len(answers)
           Writing == /\ ~Gone /\ req'.nr = req.nr /\ Len(answers') = Len(answers) + 1
                      /\ writing' # "none"
           Reading == /\ ~Gone /\ req'.nr = req.nr + 1 /\ Len(answers') = Len(answers)
                      /\ Len(answers) = req.nr /\ strand' # "free"
<1>2. Silent => [Abstract!Next]_<<req.nr, Len(answers), ~Gone>>
  BY DEF Abstract!Next, Abstract!Close
<1>3. Writing => [Abstract!Next]_<<req.nr, Len(answers), ~Gone>>
  BY <1>0, <1>1 DEF Abstract!Next, Abstract!Answer, Gone
<1>4. Reading => [Abstract!Next]_<<req.nr, Len(answers), ~Gone>>
  BY DEF Abstract!Next, Abstract!Receive, Gone
<1>5. ASSUME NEW n \in Number, NEW how \in {"returned", "thrown", "static", "responded"},
             NEW s \in Status, NEW c \in Status,
             Write(n, how, s, c), req' = req, ~Gone
      PROVE  Writing
  BY <1>5, Writes
<1>6. req.nr \in Number /\ Ok \in Status /\ Error \in Status /\ status \in Status
      /\ chosen \in Status
  BY ConnectionAssumption DEF TypeOK, Request
<1>7. CASE OnRead
  <2>1. req'.nr = req.nr + 1 /\ answers' = answers /\ ~Gone /\ strand' # "free"
    BY <1>7 DEF OnRead, Gone
  <2>2. Len(answers) = req.nr
    BY <1>0, <1>7 DEF OnRead, Stands, AtRest, Done, Taken, Quiet
  <2> QED
    BY <1>4, <2>1, <2>2
<1>8. CASE OnReadEnd \/ OnWrite
  <2>1. Silent
    BY <1>8 DEF OnReadEnd, OnWrite, Gone
  <2> QED
    BY <1>2, <2>1
<1>9. CASE Serve \/ AskStatus \/ Reroute \/ Hold \/ ReturnNothing \/ Served
  <2>1. Silent
    BY <1>9 DEF Serve, AskStatus, Reroute, Hold, ReturnNothing, Served, AtWork, Gone
  <2> QED
    BY <1>2, <2>1
<1>10. CASE JobDrops
  <2>1. Silent
    BY <1>10 DEF JobDrops, Gone
  <2> QED
    BY <1>2, <2>1
<1>11. CASE Respond
  <2>1. Write(req.nr, "responded", Ok, chosen) /\ req' = req /\ ~Gone
    BY <1>11 DEF Respond, AtWork, Gone
  <2>2. Writing
    BY <1>5, <1>6, <2>1
  <2> QED
    BY <1>3, <2>2
<1>12. CASE Return
  <2>1. req' = req /\ ~Gone
    BY <1>12 DEF Return, Gone
  <2>2. CASE Rerouted
    <3>1. Silent
      BY <1>12, <2>1, <2>2 DEF Return
    <3> QED
      BY <1>2, <3>1
  <2>3. CASE ~Rerouted
    <3>1. Write(req.nr, "returned", status, chosen)
      BY <1>12, <2>3 DEF Return
    <3>2. Writing
      BY <1>5, <1>6, <2>1, <3>1
    <3> QED
      BY <1>3, <3>2
  <2> QED
    BY <2>2, <2>3
<1>13. CASE Throw
  <2>1. Write(req.nr, "thrown", Error, Error) /\ req' = req /\ ~Gone
    BY <1>13 DEF Throw, AtWork, Gone
  <2>2. Writing
    BY <1>5, <1>6, <2>1
  <2> QED
    BY <1>3, <2>2
<1>14. CASE StaticFile
  <2>1. PICK s \in {Ok, Error} : Write(req.nr, "static", s, s)
    BY <1>14 DEF StaticFile
  <2>2. req' = req /\ ~Gone
    BY <1>14 DEF StaticFile, Gone
  <2>3. Writing
    BY <1>5, <1>6, <2>1, <2>2
  <2> QED
    BY <1>3, <2>3
<1>15. CASE JobResponds
  <2>1. PICK n \in held : \E s \in Status : Write(n, "responded", Ok, s)
    BY <1>15 DEF JobResponds
  <2>2. PICK s \in Status : Write(n, "responded", Ok, s)
    BY <2>1
  <2>3. req' = req /\ ~Gone /\ n \in Number
    BY <1>15, <2>1 DEF JobResponds, Gone, TypeOK
  <2>4. Writing
    BY <1>5, <1>6, <2>2, <2>3
  <2> QED
    BY <1>3, <2>4
<1> QED
  BY <1>7, <1>8, <1>9, <1>10, <1>11, <1>12, <1>13, <1>14, <1>15 DEF Next, OnStrand, Finish, Job

(***************************************************************************)
(* For callables that dispose of a request once, what the client sees of   *)
(* a connection is an Exchange.                                            *)
(***************************************************************************)
THEOREM Implementation == ASSUME Polite PROVE Spec => ImplementsExchange
PROOF
<1>1. TypeOK /\ Accounted /\ TypeOK' /\ Accounted' /\ [Next]_vars
        => [Abstract!Next]_<<req.nr, Len(answers), ~Gone>>
  <2>1. CASE Next
    BY <2>1, ExchangeStep
  <2>2. CASE UNCHANGED vars
    BY <2>2 DEF vars, socket, Gone
  <2> QED
    BY <2>1, <2>2
<1> QED
  BY <1>1, ExchangeInit, Typing, Disposal, PTL
     DEF Spec, ImplementsExchange, Abstract!Spec, Abstract!vars
=============================================================================
