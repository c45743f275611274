----------------------------- MODULE ClientInv ------------------------------
(* What the client promises, and the inductive invariant behind it. *)
EXTENDS Client

TypeOK ==
  /\ alone \in BOOLEAN
  /\ url \in [Attempt -> Url]
  /\ at \in [Attempt -> Place]
  /\ options \in [Attempt -> Options]
  /\ peer \in [Attempt -> BOOLEAN]
  /\ attached \in [Attempt -> BOOLEAN]
  /\ callbacks \in [Attempt -> SUBSET Callback]
  /\ captured \in BOOLEAN
  /\ told \in Seq(Call)
  /\ undefined \in BOOLEAN

Made(a) == at[a] # "none"

\* A call that tells how the request ended.
Verdict(c) == c.what \in {"then", "failed"} /\ ~c.late

(***************************************************************************)
(* However often the server redirects, the caller is told once how its     *)
(* request ended, by then() or by failed(); only a shutdown that fails is  *)
(* reported besides, once for each attempt.                                *)
(***************************************************************************)
OneVerdict ==
  \A i, j \in DOMAIN told :
    /\ Verdict(told[i]) /\ Verdict(told[j]) => i = j
    /\ /\ told[i].late
       /\ told[j].late
       /\ told[i].of = told[j].of
       /\ told[i].what = told[j].what
       => i = j

(***************************************************************************)
(* A response reaches the callback only as the options of the first        *)
(* attempt ask: never from a server whose certificate is not valid when    *)
(* verification was asked for, however many redirects lead there.          *)
(***************************************************************************)
AsAsked ==
  \A i \in DOMAIN told :
    told[i].what = "then" =>
      /\ told[i].moved => ~options[1].follow
      /\ options[1].verify /\ url[told[i].of].secure => url[told[i].of].trusted

(***************************************************************************)
(* On one thread no callback is read before it is attached, and none       *)
(* outlives what it uses unless it came from fetch() or body().            *)
(***************************************************************************)
CallbacksInTime == alone /\ ~captured => ~undefined

\* The server has redirected more often than the bound lets us follow.
RedirectsOn == Made(Attempts)

(***************************************************************************)
(* A caller that has attached then() and failed() is told the end, whoever *)
(* of the chain of redirected attempts comes to it, with two exceptions.   *)
(* The client follows redirects without limit: while the server redirects, *)
(* as far as the attempts reach, no end is promised.  A location that      *)
(* cannot be parsed makes success() throw, and nobody is ever told.        *)
(***************************************************************************)
VerdictEventually ==
  {"then", "failed"} \subseteq callbacks[1] ~>
      \/ undefined
      \/ RedirectsOn
      \/ \E a \in Attempt : at[a] = "thrown"
      \/ \E i \in DOMAIN told : Verdict(told[i])

-----------------------------------------------------------------------------
(* The inductive invariant *)

Over == {"redirect", "shutdown", "gone"}
Last(a) == a = Attempts \/ ~Made(a + 1)

\* Attempts follow one another; only the last one may still wait, or have thrown.
Chain ==
  /\ Made(1)
  /\ \A a, b \in Attempt : a < b /\ Made(b) => at[a] \in Over
  /\ \A a \in Attempt : at[a] = "redirect" => ~Last(a)

\* What is attached to an attempt, and when.
Attachments ==
  \A a \in Attempt :
    /\ ~attached[a] => callbacks[a] = {}
    /\ a > 1 => (attached[a] <=> Made(a) /\ at[a - 1] # "redirect")
    /\ ~undefined /\ at[a] \in Over => attached[a]
    /\ Made(a) /\ a > 1 => attached[1] /\ options[a] = options[1]

\* The verify mode is set from options that were attached.
Verified ==
  \A a \in Attempt :
    ~undefined /\ url[a].secure /\ at[a] \in Waiting \ {"resolve"} =>
      /\ attached[a]
      /\ peer[a] = options[a].verify
      /\ at[a] \in {"write", "read"} /\ peer[a] => url[a].trusted

\* A verdict comes from the last attempt, and whoever reported late is gone.
Tellers ==
  \A i \in DOMAIN told :
    /\ Verdict(told[i]) => at[told[i].of] \in {"shutdown", "gone"} /\ Last(told[i].of)
    /\ told[i].late => at[told[i].of] = "gone"
    /\ told[i].what = "then" => attached[1]

IInv ==
  /\ TypeOK
  /\ Chain
  /\ Attachments
  /\ Verified
  /\ Tellers
  /\ OneVerdict
  /\ AsAsked
  /\ CallbacksInTime
=============================================================================
