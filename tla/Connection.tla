----------------------------- MODULE Connection -----------------------------
(***************************************************************************)
(* One connection of the server (includes/udho/connection.h), the context  *)
(* of its request (context.h) and the callables the router hands it to     *)
(* (router.h).                                                             *)
(*                                                                         *)
(* The handlers of the connection run on its strand, one at a time; a job  *)
(* of a deferred callable answers from any other thread, at any time.  A   *)
(* callable is the sequence of its calls on the context, in any order,     *)
(* until it returns or throws.  Two reads or two writes at a time on one   *)
(* socket are undefined: the model then stops in a state of its own.       *)
(*                                                                         *)
(* Left out: logging, headers and bodies, and what respond() throws when   *)
(* the client has gone, which ends a callable or a job as any exception.   *)
(***************************************************************************)
EXTENDS Router

CONSTANTS
  Requests,      \* bound: how many requests the client sends
  Callable,      \* the callables of the application
  Deferred,      \* those mapped by deferred(), which return nothing
  Alternatives,  \* Alternatives[f]: the paths callable f may reroute to
  Rewritten,     \* Rewritten[f][s][a]: a, with what the pattern of f captures in s
  Status,        \* the statuses a callable may ask for
  Ok,            \* status::ok
  Error,         \* the status of an http_error
  Polite,        \* a callable disposes of a request only once
  None           \* no path, no route

Route == [callable : Callable, subject : Path, alt : Path \cup {None}]

ASSUME ConnectionAssumption ==
  /\ Requests \in Nat
  /\ Alternatives \in [Callable -> SUBSET Path]
  /\ Rewritten \in [Callable -> [Path -> [Path -> Path]]]
  /\ Ok \in Status
  /\ Error \in Status
  /\ Polite \in BOOLEAN
  /\ None \notin Path
  /\ None \notin Route

VARIABLES
  req,        \* _req: its number, method, path and whether it keeps the connection alive
  reading,    \* an async_read is pending
  ended,      \* the client has closed, or the connection has shut down its side
  strand,     \* where the handler on the strand is
  path,       \* on_read(): the path to serve
  code,       \* on_read(): what serve() returned
  top,        \* the top of the routes of the context, or None
  status,     \* context_impl::_status
  chosen,     \* history: the status the callable at work has asked for
  writing,    \* the pending async_write: it keeps the connection alive or ends it
  held,       \* the requests whose context a job holds
  dropped,    \* history: the requests the application let go without an answer
  answers,    \* the responses handed to async_write
  undefined   \* two reads or two writes at a time

context == <<top, status, chosen>>
socket == <<reading, writing, ended>>
vars == <<req, path, code, strand, context, socket, held, dropped, answers, undefined>>

-----------------------------------------------------------------------------
Number == 0 .. Requests
Request == [nr : Number, method : Method, path : Path, keep : BOOLEAN]

Answer == [to : Number, how : {"returned", "thrown", "static", "responded"},
           status : Status, chosen : Status]

\* Has the context been rerouted?
Rerouted == top # None /\ top.alt # None

Answered(n) == \E i \in DOMAIN answers : answers[i].to = n

\* The request has been rerouted, answered, let go, or given to a job.
Disposed == Rerouted \/ Answered(req.nr) \/ req.nr \in held \cup dropped

Gone == strand = "free" /\ ~reading /\ writing = "none" /\ held = {}

-----------------------------------------------------------------------------
Init ==
  /\ \E m \in Method, p \in Path :
       req = [nr |-> 0, method |-> m, path |-> p, keep |-> TRUE]
  /\ path = req.path
  /\ reading = TRUE
  /\ ended = FALSE
  /\ strand = "free"
  /\ code = "none"
  /\ top = None
  /\ status = Ok
  /\ chosen = Ok
  /\ writing = "none"
  /\ held = {}
  /\ dropped = {}
  /\ answers = <<>>
  /\ undefined = FALSE

(***************************************************************************)
(* on_read(): a request has been read, or what was read of one when the    *)
(* client sent something else; the context is made for it.                 *)
(***************************************************************************)
OnRead ==
  /\ reading
  /\ strand = "free"
  /\ req.nr < Requests
  /\ \E m \in Method, p \in Path, k \in BOOLEAN :
       /\ req' = [nr |-> req.nr + 1, method |-> m, path |-> p, keep |-> k]
       /\ path' = p
  /\ reading' = FALSE
  /\ strand' = "serve"
  /\ code' = "none"
  /\ top' = None
  /\ status' = Ok
  /\ chosen' = Ok
  /\ UNCHANGED <<writing, ended, held, dropped, answers, undefined>>

\* on_read(): end of stream, nothing read, or no client at the other end.
OnReadEnd ==
  /\ reading
  /\ strand = "free"
  /\ reading' = FALSE
  /\ ended' = TRUE
  /\ UNCHANGED <<req, path, code, strand, context, writing, held, dropped, answers,
                 undefined>>

\* Mutated: a reroute does not clear the status.
ClearedNever == status

\* A turn of the loop of on_read() begins: clear().
Cleared == IF Rerouted THEN Ok ELSE status

\* Mutated: a callable is called although no rule matches.
ServeUnmatched ==
  /\ strand = "serve"
  /\ path' = IF Rerouted THEN Rewritten[top.callable][top.subject][top.alt] ELSE path
  /\ status' = Cleared
  /\ strand' = "callable"
  /\ \/ /\ Unrouted(req.method, path')
        /\ UNCHANGED <<top, chosen, code>>
     \/ \E f \in Callable, s \in Path :
          /\ Reaches(req.method, path', f, s)
          /\ top' = [callable |-> f, subject |-> s, alt |-> None]
          /\ chosen' = Ok
          /\ UNCHANGED code
  /\ UNCHANGED <<req, socket, held, dropped, answers, undefined>>

\* Mutated: the new route is still rerouted.
ServeStillRerouted ==
  /\ strand = "serve"
  /\ path' = IF Rerouted THEN Rewritten[top.callable][top.subject][top.alt] ELSE path
  /\ status' = Cleared
  /\ \/ /\ Unrouted(req.method, path')
        /\ code' = "none"
        /\ strand' = "served"
        /\ UNCHANGED <<top, chosen>>
     \/ \E f \in Callable, s \in Path :
          /\ Reaches(req.method, path', f, s)
          /\ top' = [callable |-> f, subject |-> s,
                     alt |-> IF Rerouted THEN top.alt ELSE None]
          /\ chosen' = Ok
          /\ strand' = "callable"
          /\ UNCHANGED code
  /\ UNCHANGED <<req, socket, held, dropped, answers, undefined>>

(***************************************************************************)
(* One turn of the loop of on_read(), up to the call of the callable.      *)
(***************************************************************************)
Serve ==
  /\ strand = "serve"
  /\ path' = IF Rerouted THEN Rewritten[top.callable][top.subject][top.alt] ELSE path
  /\ status' = Cleared
  /\ \/ /\ Unrouted(req.method, path')
        /\ code' = "none"
        /\ strand' = "served"
        /\ UNCHANGED <<top, chosen>>
     \/ \E f \in Callable, s \in Path :
          /\ Reaches(req.method, path', f, s)
          /\ top' = [callable |-> f, subject |-> s, alt |-> None]
          /\ chosen' = Ok
          /\ strand' = "callable"
          /\ UNCHANGED code
  /\ UNCHANGED <<req, socket, held, dropped, answers, undefined>>

-----------------------------------------------------------------------------
(***************************************************************************)
(* async_write() of a response to request n, built from the present _req.  *)
(***************************************************************************)
Write(n, how, s, c) ==
  /\ answers' = Append(answers, [to |-> n, how |-> how, status |-> s, chosen |-> c])
  /\ IF writing = "none"
     THEN /\ writing' = IF req.keep THEN "keep" ELSE "eof"
          /\ UNCHANGED undefined
     ELSE /\ undefined' = TRUE
          /\ UNCHANGED writing

\* A callable is at work and may dispose of the request.
AtWork ==
  /\ strand = "callable"
  /\ Polite => ~Disposed

\* ctx.status(s)
AskStatus ==
  /\ AtWork
  /\ \E s \in Status : status' = s /\ chosen' = s
  /\ UNCHANGED <<req, path, code, strand, top, socket, held, dropped, answers, undefined>>

\* ctx.reroute(a), or an exceptions::reroute which on_read() turns into it.
Reroute ==
  /\ AtWork
  /\ \E a \in Alternatives[top.callable] : top' = [top EXCEPT !.alt = a]
  /\ UNCHANGED <<req, path, code, strand, status, chosen, socket, held, dropped, answers,
                 undefined>>

(***************************************************************************)
(* ctx.respond(output, mime) composes a response with status::ok; nothing  *)
(* patches it with the status of the context.                              *)
(***************************************************************************)
Respond ==
  /\ AtWork
  /\ Polite => top.callable \in Deferred
  /\ Write(req.nr, "responded", Ok, chosen)
  /\ UNCHANGED <<req, path, code, strand, context, reading, ended, held, dropped>>

\* A callable hands its context to a job.
Hold ==
  /\ AtWork
  /\ Polite => top.callable \in Deferred
  /\ held' = held \cup {req.nr}
  /\ UNCHANGED <<req, path, code, strand, context, socket, dropped, answers, undefined>>

\* Mutated: the response of a rerouted request is sent.
ReturnAnyway ==
  /\ strand = "callable"
  /\ top.callable \notin Deferred
  /\ strand' = "served"
  /\ code' = "sent"
  /\ Write(req.nr, "returned", status, chosen)
  /\ UNCHANGED <<req, path, context, reading, ended, held, dropped>>

(***************************************************************************)
(* A callable returns a response: resolve() patches it with the status of  *)
(* the context, and sends it unless the context has been rerouted.         *)
(***************************************************************************)
Return ==
  /\ strand = "callable"
  /\ top.callable \notin Deferred
  /\ strand' = "served"
  /\ IF Rerouted
     THEN /\ code' = "deferred"
          /\ UNCHANGED <<answers, writing, undefined>>
     ELSE /\ code' = "sent"
          /\ Write(req.nr, "returned", status, chosen)
  /\ UNCHANGED <<req, path, context, reading, ended, held, dropped>>

\* A deferred callable returns.
ReturnNothing ==
  /\ strand = "callable"
  /\ top.callable \in Deferred
  /\ strand' = "served"
  /\ code' = "deferred"
  /\ dropped' = IF Disposed THEN dropped ELSE dropped \cup {req.nr}
  /\ UNCHANGED <<req, path, context, socket, held, answers, undefined>>

\* A callable throws: serve() sends the error.
Throw ==
  /\ AtWork
  /\ strand' = "served"
  /\ code' = "sent"
  /\ Write(req.nr, "thrown", Error, Error)
  /\ UNCHANGED <<req, path, context, reading, ended, held, dropped>>

-----------------------------------------------------------------------------
\* Mutated: a deferred request is answered with a file.
ServedStatic ==
  /\ strand = "served"
  /\ strand' = IF Rerouted THEN "serve"
               ELSE IF code = "sent" THEN "free" ELSE "static"
  /\ UNCHANGED <<req, path, code, context, socket, held, dropped, answers, undefined>>

\* Mutated: the next request is read as soon as on_read() ends.
ServedReading ==
  /\ strand = "served"
  /\ strand' = IF Rerouted THEN "serve"
               ELSE IF code = "none" THEN "static" ELSE "free"
  /\ reading' = (strand' = "free")
  /\ UNCHANGED <<req, path, code, context, writing, ended, held, dropped, answers, undefined>>

\* on_read(): the end of the loop, and what follows it.
Served ==
  /\ strand = "served"
  /\ strand' = IF Rerouted THEN "serve"
               ELSE IF code = "none" THEN "static" ELSE "free"
  /\ UNCHANGED <<req, path, code, context, socket, held, dropped, answers, undefined>>

\* on_read(): the file below the document root, or the error there is instead.
StaticFile ==
  /\ strand = "static"
  /\ strand' = "free"
  /\ \E s \in {Ok, Error} : Write(req.nr, "static", s, s)
  /\ UNCHANGED <<req, path, code, context, reading, ended, held, dropped>>

\* Mutated: on_write() does not read the next request.
OnWriteOnce ==
  /\ writing # "none"
  /\ strand = "free"
  /\ writing' = "none"
  /\ ended' = (writing = "eof")
  /\ UNCHANGED <<req, path, code, strand, context, reading, held, dropped, answers, undefined>>

\* on_write(), which does not look whether the write has succeeded.
OnWrite ==
  /\ writing # "none"
  /\ strand = "free"
  /\ writing' = "none"
  /\ IF writing = "eof"
     THEN /\ ended' = TRUE
          /\ UNCHANGED <<reading, undefined>>
     ELSE /\ reading' = TRUE
          /\ undefined' = reading
          /\ UNCHANGED ended
  /\ UNCHANGED <<req, path, code, strand, context, held, dropped, answers>>

-----------------------------------------------------------------------------
\* A job sets a status, responds and lets its context go.
JobResponds ==
  /\ \E n \in held :
       /\ held' = held \ {n}
       /\ \E s \in Status : Write(n, "responded", Ok, s)
  /\ UNCHANGED <<req, path, code, strand, context, reading, ended, dropped>>

\* A job lets its context go without a response.
JobDrops ==
  /\ \E n \in held :
       /\ held' = held \ {n}
       /\ dropped' = dropped \cup {n}
  /\ UNCHANGED <<req, path, code, strand, context, socket, answers, undefined>>

-----------------------------------------------------------------------------
Finish == Return \/ ReturnNothing \/ Throw
OnStrand == Serve \/ Finish \/ Served \/ StaticFile
Job == JobResponds \/ JobDrops

Next ==
  /\ ~undefined
  /\ \/ OnRead \/ OnReadEnd \/ OnWrite \/ OnStrand \/ Job
     \/ AskStatus \/ Reroute \/ Respond \/ Hold

(***************************************************************************)
(* A thread of the io_context runs what is on the strand, callables return *)
(* or throw, writes complete or fail, and jobs respond or let go.          *)
(***************************************************************************)
Fairness == WF_vars(~undefined /\ OnStrand) /\ WF_vars(~undefined /\ OnWrite)
            /\ WF_vars(~undefined /\ Job)

Spec == Init /\ [][Next]_vars
FairSpec == Spec /\ Fairness
=============================================================================
