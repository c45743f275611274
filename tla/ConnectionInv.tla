--------------------------- MODULE ConnectionInv ---------------------------
(***************************************************************************)
(* The properties of Connection and the invariant they follow from.        *)
(***************************************************************************)
EXTENDS Connection

\* Every variable has a value the connection, its context or its callables can give it.
TypeOK ==
  /\ req \in Request
  /\ path \in Path
  /\ strand \in {"free", "serve", "callable", "served", "static"}
  /\ code \in {"none", "deferred", "sent"}
  /\ top \in Route \cup {None}
  /\ strand = "callable" => top # None
  /\ {status, chosen} \subseteq Status
  /\ {reading, ended, undefined} \subseteq BOOLEAN
  /\ writing \in {"none", "keep", "eof"}
  /\ held \subseteq Number
  /\ dropped \subseteq Number
  /\ answers \in Seq(Answer)

-----------------------------------------------------------------------------
(***************************************************************************)
(* The k-th response that is written is the one to the k-th request,       *)
(* however the callables reroute, throw, respond and hand on their         *)
(* contexts, as long as each disposes of its request once: on_read(),      *)
(* on_write() and respond() answer each request once and in order.         *)
(***************************************************************************)
InOrder ==
  Polite => \A k \in DOMAIN answers : answers[k].to = k

(***************************************************************************)
(* Reads and writes are never pending twice: a write starts after the      *)
(* read of its request, and on_write() starts the next read.               *)
(***************************************************************************)
OneAtATime ==
  Polite => /\ ~undefined
            /\ ~(reading /\ writing # "none")

(***************************************************************************)
(* A context that a job holds refers to the _req of its connection: that   *)
(* is still its request, and no read overwrites it.                        *)
(***************************************************************************)
HeldContextIsCurrent ==
  Polite => \A n \in held : n = req.nr /\ ~reading /\ ~Answered(n)

(***************************************************************************)
(* When the strand is free, a request without an answer is one a job holds *)
(* or the application has let go, and after an answer something is pending *)
(* that carries on, unless the connection has ended.                       *)
(***************************************************************************)
NothingForgotten ==
  (Polite /\ strand = "free") =>
    IF req.nr = 0 \/ Answered(req.nr)
    THEN reading \/ writing # "none" \/ ended
    ELSE req.nr \in held \cup dropped

(***************************************************************************)
(* A response that a callable returns carries the status that callable has *)
(* asked for, status::ok when it has asked for none: what a callable asked *)
(* for before it rerouted the request is cleared (clear() and patch()).    *)
(***************************************************************************)
ReturnsItsStatus ==
  \A k \in DOMAIN answers : answers[k].how = "returned" => answers[k].status = answers[k].chosen

(***************************************************************************)
(* A request that was read is answered, or its connection goes: the loop   *)
(* of on_read() ends when reroutes end, jobs respond or let go.            *)
(***************************************************************************)
Waiting == ~Gone /\ Len(answers) < req.nr
EveryRequestEnds == Waiting ~> ~Waiting

(***************************************************************************)
(* The connection implements the exchange its client sees.                 *)
(***************************************************************************)
Abstract == INSTANCE Exchange WITH
  received <- req.nr, answered <- Len(answers), open <- ~Gone

ImplementsExchange == Abstract!Spec

-----------------------------------------------------------------------------
(***************************************************************************)
(* context.h:306 says of respond(status, output, mime) "respond with a     *)
(* http status", and line 314 of status() "set a status code for the HTTP  *)
(* response": the response of a deferred callable carries the status that  *)
(* was set.                                                                *)
(***************************************************************************)
RespondsWithStatus ==
  \A k \in DOMAIN answers : answers[k].how = "responded" => answers[k].status = answers[k].chosen

-----------------------------------------------------------------------------
(***************************************************************************)
(* The invariant.  Owed: the present request has no answer and nobody has  *)
(* taken it over.                                                          *)
(***************************************************************************)
Quiet == ~reading /\ writing = "none" /\ ~ended
Owed == Len(answers) = req.nr - 1 /\ held = {} /\ dropped = {} /\ Quiet
Done == Len(answers) = req.nr /\ held = {} /\ dropped = {} /\ writing # "none"
        /\ ~reading /\ ~ended
Taken == /\ Len(answers) = req.nr - 1
         /\ held \cup dropped = {req.nr}
         /\ held \cap dropped = {}
         /\ Quiet

\* Where the request is when the strand is free.
AtRest ==
  \/ Done \/ Taken
  \/ /\ Len(answers) = req.nr
     /\ held = {}
     /\ dropped = {}
     /\ writing = "none"
     /\ reading = ~ended

Stands ==
  CASE strand = "free" -> AtRest
    [] strand = "serve" -> Owed
    [] strand = "static" -> Owed
    [] strand = "callable" ->
         /\ Owed \/ (~Rerouted /\ top.callable \in Deferred /\ (Done \/ Taken))
    [] strand = "served" ->
         /\ Rerouted => Owed
         /\ ~Rerouted => IF code = "none" THEN Owed ELSE Done \/ Taken

Numbered == \A k \in DOMAIN answers : answers[k].to = k

\* The status of the context is what the callable at work has asked for.
StatusInv ==
  /\ ReturnsItsStatus
  /\ strand = "callable" => status = chosen
  /\ (strand = "serve" /\ ~Rerouted) => status = Ok

\* Polite callables: nothing is started twice, and each request stands as above.
Accounted == Polite => ~undefined /\ Numbered /\ Stands /\ (req.nr = 0 => strand = "free")

IInv == TypeOK /\ Accounted
=============================================================================
