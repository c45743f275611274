----------------------------- MODULE TaskGraph ------------------------------
(***************************************************************************)
(* What a graph of udho subtasks promises, without threads, signals and    *)
(* counters: a subtask waits until every subtask it is attached after()    *)
(* has released it; it then runs, unless one of them was canceled, and a   *)
(* subtask that is skipped this way releases its own dependents as         *)
(* canceled.  The final callback is called once, whether the subtasks it   *)
(* waits for were canceled or not.  An abort predicate that answers false  *)
(* is the one way to release nobody.                                       *)
(***************************************************************************)
EXTENDS Integers, FiniteSets

CONSTANTS Node, Deps, Final

VARIABLE status

Status == {"waiting", "running", "passed", "canceled", "aborted", "called"}

TypeOK == status \in [Node -> Status]

Released(n) == status[n] \in {"passed", "canceled"}

Ready(n) ==
  /\ status[n] = "waiting"
  /\ \A d \in Deps[n] : Released(d)

Becomes(n, s) == status' = [status EXCEPT ![n] = s]

Init == status = [n \in Node |-> "waiting"]

\* The activity of n is started.
Run(n) ==
  /\ n # Final
  /\ Ready(n)
  /\ \A d \in Deps[n] : status[d] = "passed"
  /\ Becomes(n, "running")

\* n is canceled without having run.
Skip(n) ==
  /\ n # Final
  /\ Ready(n)
  /\ \E d \in Deps[n] : status[d] = "canceled"
  /\ \/ Becomes(n, "canceled")
     \/ Becomes(n, "aborted")

\* The activity of n signals its outcome.
Complete(n) ==
  /\ status[n] = "running"
  /\ \E s \in {"passed", "canceled", "aborted"} : Becomes(n, s)

\* The final callback is called.
CallFinal ==
  /\ Ready(Final)
  /\ Becomes(Final, "called")

Advance(n) == Run(n) \/ Skip(n) \/ Complete(n)

Next == (\E n \in Node : Advance(n)) \/ CallFinal

Spec == Init /\ [][Next]_status

\* Nothing that may happen is put off for ever.
FairSpec ==
  /\ Spec
  /\ \A n \in Node : WF_status(Advance(n))
  /\ WF_status(CallFinal)
=============================================================================
