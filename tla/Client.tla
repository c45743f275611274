------------------------------- MODULE Client -------------------------------
(***************************************************************************)
(* The http client of udho (includes/udho/client.h): a request, and the    *)
(* requests that follow it when the server redirects, called attempts.     *)
(*                                                                         *)
(* request() starts an attempt and returns; the caller attaches callbacks  *)
(* and options to what it returned.  The handlers of an attempt run on a   *)
(* strand of their own.  When one thread runs the io_context and request() *)
(* is called on it, they run only when the caller has returned.  Otherwise *)
(* they may read the callbacks and the options before, or while, they are  *)
(* attached: that is undefined, and the model stops there.  So is a        *)
(* callback that uses an attempt which no longer exists.                   *)
(*                                                                         *)
(* Left out: the text of requests and responses, and the http version,     *)
(* which http reads in start(), before an option can have been set.        *)
(***************************************************************************)
EXTENDS Integers, Sequences

\* Bound: how many attempts there may be.  The client has no such limit: the
\* last of them is started like the others, and then no longer looked at.
CONSTANT Attempts

Attempt == 1 .. Attempts
Handled == Attempt \ {Attempts}
Callback == {"then", "failed", "finally"}
Options == [follow : BOOLEAN, verify : BOOLEAN]

\* "trusted" says that the certificate of an https server is valid.
Url == [secure : BOOLEAN, trusted : BOOLEAN]

ASSUME ClientAssumption == Attempts \in Nat \ {0}

VARIABLES
  alone,      \* one thread runs the io_context and calls request()
  url,        \* url[a]: where attempt a goes
  at,         \* at[a]: the operation a waits for, or where its handler is
  options,    \* options[a]: _options
  peer,       \* peer[a]: the certificate of the server is verified
  attached,   \* attached[a]: the callbacks and the options of a have been attached
  callbacks,  \* callbacks[a]: the callbacks that are not empty
  captured,   \* the callback is one of fetch() or body(), which capture this
  told,       \* the callbacks that were called
  undefined   \* a data race, or a dangling this

program == <<alone, url>>
attachment == <<attached, callbacks, captured>>
vars == <<program, at, options, peer, attachment, told, undefined>>

-----------------------------------------------------------------------------
Waiting == {"resolve", "connect", "handshake", "write", "read"}

\* "redirect": in success(), the next attempt has been started; "shutdown":
\* success() has returned; "thrown": it has not, but was left by an exception.
Place == Waiting \cup {"none", "redirect", "shutdown", "gone", "thrown"}

\* "late" says that on_shutdown() reported; "moved", that the response had
\* a location.
Call == [what : Callback, of : Attempt, late : BOOLEAN, moved : BOOLEAN]

\* client_options_ as it is constructed.
Defaults == [follow |-> FALSE, verify |-> FALSE]

Init ==
  /\ alone \in BOOLEAN
  /\ url \in [Attempt -> Url]
  /\ at = [a \in Attempt |-> IF a = 1 THEN "resolve" ELSE "none"]
  /\ options = [a \in Attempt |-> Defaults]
  /\ peer = [a \in Attempt |-> FALSE]
  /\ attached = [a \in Attempt |-> FALSE]
  /\ callbacks = [a \in Attempt |-> {}]
  /\ captured = FALSE
  /\ told = <<>>
  /\ undefined = FALSE

\* request() returned: then(), failed(), finally(), option() and the like.
Attach ==
  /\ ~attached[1]
  /\ attached' = [attached EXCEPT ![1] = TRUE]
  /\ \E c \in SUBSET Callback, o \in Options, this \in BOOLEAN :
       /\ callbacks' = [callbacks EXCEPT ![1] = c]
       /\ options' = [options EXCEPT ![1] = o]
       /\ captured' = (this /\ "then" \in c)
  /\ UNCHANGED <<program, at, peer, told, undefined>>

\* A thread is in the handler of attempt a; the shutdown of http is synchronous.
InHandler(a) == at[a] = "redirect" \/ (at[a] = "shutdown" /\ ~url[a].secure)

\* Another handler may begin.
Free == alone => attached[1] /\ \A a \in Attempt : ~InHandler(a)

-----------------------------------------------------------------------------
(* async_result *)

\* The call of a callback, if it is attached.
Calls(a, what, late, moved) ==
  IF what \in callbacks[a]
  THEN <<[what |-> what, of |-> a, late |-> late, moved |-> moved]>>
  ELSE <<>>

\* The callback that is called for attempt a uses a first attempt that is gone.
Dangles(a) == "then" \in callbacks[a] /\ captured /\ at[1] = "gone"

\* Mutated: an error is reported and the handler goes on.
FailureContinues(a, late) ==
  /\ undefined' = ~attached[a]
  /\ told' = told \o Calls(a, "failed", late, FALSE)
                  \o Calls(a, "finally", late, FALSE)
  /\ UNCHANGED <<program, at, options, peer, attachment>>

\* failure(): the attempt is over.
Failure(a, late) ==
  /\ at' = [at EXCEPT ![a] = "gone"]
  /\ undefined' = ~attached[a]
  /\ told' = told \o Calls(a, "failed", late, FALSE)
                  \o Calls(a, "finally", late, FALSE)
  /\ UNCHANGED <<program, options, peer, attachment>>

\* success() calls the callback, if there is one.
Deliver(a, moved) ==
  /\ attached[a]
  /\ ~(moved /\ options[a].follow /\ "then" \in callbacks[a])
  /\ at' = [at EXCEPT ![a] = "shutdown"]
  /\ undefined' = Dangles(a)
  /\ told' = told \o Calls(a, "then", FALSE, moved)
                  \o Calls(a, "finally", FALSE, moved)
  /\ UNCHANGED <<program, options, peer, attachment>>

\* Mutated: the redirected request has the default options.
RedirectDefaults(a) ==
  /\ attached[a]
  /\ options[a].follow
  /\ "then" \in callbacks[a]
  /\ at' = [at EXCEPT ![a] = "redirect", ![a + 1] = "resolve"]
  /\ UNCHANGED <<program, options, peer, attachment, told, undefined>>

\* success() starts a request to the location, however many there were before.
Redirect(a) ==
  /\ attached[a]
  /\ options[a].follow
  /\ "then" \in callbacks[a]
  /\ at' = [at EXCEPT ![a] = "redirect", ![a + 1] = "resolve"]
  /\ options' = [options EXCEPT ![a + 1] = options[a]]
  /\ UNCHANGED <<program, peer, attachment, told, undefined>>

\* The location cannot be parsed, its port is no number for instance: the
\* exception leaves success(), on_read() and io.run().  Nobody is told, and the
\* connection is not shut down.  What else waits goes on if the application
\* calls io.run() again.
Unparsable(a) ==
  /\ attached[a]
  /\ options[a].follow
  /\ "then" \in callbacks[a]
  /\ at' = [at EXCEPT ![a] = "thrown"]
  /\ UNCHANGED <<program, options, peer, attachment, told, undefined>>

\* Mutated: the callback is called for the redirect as well.
HandOnCalling(a) ==
  /\ at[a] = "redirect"
  /\ at' = [at EXCEPT ![a] = "shutdown"]
  /\ attached' = [attached EXCEPT ![a + 1] = TRUE]
  /\ callbacks' = [callbacks EXCEPT ![a + 1] = callbacks[a] \ {"finally"}]
  /\ told' = told \o Calls(a, "then", FALSE, TRUE) \o Calls(a, "finally", FALSE, TRUE)
  /\ UNCHANGED <<program, options, peer, captured, undefined>>

\* Mutated: failed() is not handed on.
HandOnThen(a) ==
  /\ at[a] = "redirect"
  /\ at' = [at EXCEPT ![a] = "shutdown"]
  /\ attached' = [attached EXCEPT ![a + 1] = TRUE]
  /\ callbacks' = [callbacks EXCEPT ![a + 1] = callbacks[a] \cap {"then"}]
  /\ told' = told \o Calls(a, "finally", FALSE, TRUE)
  /\ UNCHANGED <<program, options, peer, captured, undefined>>

\* Mutated: the callbacks are not handed on.
HandOnNothing(a) ==
  /\ at[a] = "redirect"
  /\ at' = [at EXCEPT ![a] = "shutdown"]
  /\ told' = told \o Calls(a, "finally", FALSE, TRUE)
  /\ UNCHANGED <<program, options, peer, attachment, undefined>>

\* success() hands the callbacks on, but for finally, which is called.
HandOn(a) ==
  /\ at[a] = "redirect"
  /\ at' = [at EXCEPT ![a] = "shutdown"]
  /\ attached' = [attached EXCEPT ![a + 1] = TRUE]
  /\ callbacks' = [callbacks EXCEPT ![a + 1] = callbacks[a] \ {"finally"}]
  /\ told' = told \o Calls(a, "finally", FALSE, TRUE)
  /\ UNCHANGED <<program, options, peer, captured, undefined>>

\* success() reads callbacks that are not attached yet.
Unattached(a) ==
  /\ ~attached[a]
  /\ undefined' = TRUE
  /\ UNCHANGED <<program, at, options, peer, attachment, told>>

-----------------------------------------------------------------------------
(* http_client_connection and https_client_connection *)

\* The operation attempt a waits for has completed, with or without an error.
Completed(a, operation) == at[a] = operation /\ Free

Wait(a, operation) == at' = [at EXCEPT ![a] = operation]

Failed(a, operation) == Completed(a, operation) /\ Failure(a, FALSE)

\* https sets the verify mode; http has none.
OnResolve(a) ==
  \/ Failed(a, "resolve")
  \/ /\ Completed(a, "resolve")
     /\ Wait(a, "connect")
     /\ peer' = [peer EXCEPT ![a] = url[a].secure /\ options[a].verify]
     /\ undefined' = (url[a].secure /\ ~attached[a])
     /\ UNCHANGED <<program, options, attachment, told>>

OnConnect(a) ==
  \/ Failed(a, "connect")
  \/ /\ Completed(a, "connect")
     /\ Wait(a, IF url[a].secure THEN "handshake" ELSE "write")
     /\ UNCHANGED <<program, options, peer, attachment, told, undefined>>

OnHandshake(a) ==
  \/ Failed(a, "handshake")
  \/ /\ Completed(a, "handshake")
     /\ peer[a] => url[a].trusted
     /\ Wait(a, "write")
     /\ UNCHANGED <<program, options, peer, attachment, told, undefined>>

OnWrite(a) ==
  \/ Failed(a, "write")
  \/ /\ Completed(a, "write")
     /\ Wait(a, "read")
     /\ UNCHANGED <<program, options, peer, attachment, told, undefined>>

OnRead(a) ==
  \/ Failed(a, "read")
  \/ /\ Completed(a, "read")
     /\ \/ \E moved \in BOOLEAN : Deliver(a, moved)
        \/ Redirect(a)
        \/ Unparsable(a)
        \/ Unattached(a)

\* eof and stream_truncated are no errors here.
OnShutdown(a) ==
  /\ at[a] = "shutdown"
  /\ url[a].secure => Free
  /\ \/ Failure(a, TRUE)
     \/ /\ Wait(a, "gone")
        /\ UNCHANGED <<program, options, peer, attachment, told, undefined>>

-----------------------------------------------------------------------------
Handle(a) ==
  \/ OnResolve(a) \/ OnConnect(a) \/ OnHandshake(a) \/ OnWrite(a) \/ OnRead(a)
  \/ HandOn(a) \/ OnShutdown(a)

Next == ~undefined /\ (Attach \/ \E a \in Handled : Handle(a))

(***************************************************************************)
(* The caller attaches its callbacks, and every operation completes in the *)
(* end, with whatever answer: nothing is assumed about how often a server  *)
(* redirects.  The client has no timeout: that a server which stays silent *)
(* lets go of the connection is an assumption about the network.           *)
(***************************************************************************)
Fairness ==
  /\ WF_vars(~undefined /\ Attach)
  /\ \A a \in Handled : WF_vars(~undefined /\ Handle(a))

Spec == Init /\ [][Next]_vars
FairSpec == Spec /\ Fairness
=============================================================================
