------------------------------- MODULE Router -------------------------------
(***************************************************************************)
(* The url mappings of udho (includes/udho/router.h and application.h).    *)
(*                                                                         *)
(* A router is a chain of rules; the rule that was added last is asked     *)
(* first.  A rule maps a method and a pattern to a callable, or mounts an  *)
(* application, which has rules of its own, below a prefix.  A pattern is  *)
(* the set of the subjects it matches: decoding a subject and searching it *)
(* are left out, and so are applications inside applications.              *)
(***************************************************************************)
EXTENDS Integers, Sequences

CONSTANTS
  Method,   \* the methods of requests
  Path,     \* what is matched: the paths of requests, and what a prefix leaves of them
  Rules     \* the rules of the router, in the order in which they were added

-----------------------------------------------------------------------------
\* A callable mapped to a method and a pattern: a content wrapper or a redirect.
Content(method, pattern, callable) ==
  [prefix |-> FALSE, method |-> method, pattern |-> pattern, callable |-> callable]

\* An application mounted below a prefix; "rest" is what is left of a subject.
App(pattern, rest, rules) ==
  [prefix |-> TRUE, pattern |-> pattern, rest |-> rest, rules |-> rules]

\* An application takes every method.
Feasible(rule, method, subject) ==
  /\ subject \in rule.pattern
  /\ ~rule.prefix => rule.method = method

\* serve() asks the rules from the last one added to the first.
Serves(rules, i, method, subject) ==
  /\ Feasible(rules[i], method, subject)
  /\ \A j \in DOMAIN rules : j > i => ~Feasible(rules[j], method, subject)

NoneServes(rules, method, subject) ==
  \A i \in DOMAIN rules : ~Feasible(rules[i], method, subject)

(***************************************************************************)
(* A request reaches "callable" with "subject": by a rule of the router,   *)
(* or by a rule of the application whose prefix it has.                    *)
(***************************************************************************)
Reaches(method, path, callable, subject) ==
  \E i \in DOMAIN Rules :
    /\ Serves(Rules, i, method, path)
    /\ IF Rules[i].prefix
       THEN /\ subject = Rules[i].rest[path]
            /\ \E k \in DOMAIN Rules[i].rules :
                 /\ Serves(Rules[i].rules, k, method, subject)
                 /\ callable = Rules[i].rules[k].callable
       ELSE /\ subject = path
            /\ callable = Rules[i].callable

(***************************************************************************)
(* No callable is reached.  The rules below an application are not asked   *)
(* for a request that has its prefix.                                      *)
(***************************************************************************)
Unrouted(method, path) ==
  \/ NoneServes(Rules, method, path)
  \/ \E i \in DOMAIN Rules :
       /\ Serves(Rules, i, method, path)
       /\ Rules[i].prefix
       /\ NoneServes(Rules[i].rules, method, Rules[i].rest[path])
=============================================================================
