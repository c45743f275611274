----------------------------- MODULE Activities -----------------------------
(***************************************************************************)
(* The task graph of udho::activities (includes/udho/activities.h).        *)
(*                                                                         *)
(* A subtask owns a result (data, required flag, predicates, two signals)  *)
(* and a combinator (a counter of the dependencies still to report, a      *)
(* canceled flag and a mutex).  The threads that call io.run() execute the *)
(* bodies and the completion handlers of the activities.  A completion     *)
(* walks the slots of one of the two signals; each slot enters the         *)
(* combinator of a dependent, which may start or cancel that dependent in  *)
(* the same call, so a thread carries a stack of frames.                   *)
(*                                                                         *)
(* The order of the slots of a signal is the order in which the            *)
(* application called done()/after(): the model leaves it open.  The data  *)
(* of a result is reduced to its three flags, the user's predicates to     *)
(* arbitrary answers.                                                      *)
(***************************************************************************)
EXTENDS Integers, Sequences, FiniteSets

CONSTANTS
  Node,       \* the subtasks, the final callback included
  Deps,       \* Deps[n]: the subtasks n was attached after()
  Final,      \* the joined<> subtask made by finish() or require<>::exec()
  Required,   \* the subtasks whose required flag is set (the default)
  CancelIf,   \* the subtasks given a cancel_if predicate
  IfErrored,  \* the subtasks given an if_errored predicate
  IfFailed,   \* the subtasks given an if_failed predicate
  Worker,     \* the threads that call io.run()
  SizeMax,    \* the largest std::size_t
  None        \* no subtask, no thread, no stored data

\* The flags of a result_data.
ResultData == [completed : BOOLEAN, success : BOOLEAN, canceled : BOOLEAN]

ASSUME GraphAssumption ==
  /\ Deps \in [Node -> SUBSET Node]
  /\ \A n \in Node : IsFiniteSet(Deps[n])
  /\ Final \in Node
  /\ Deps[Final] # {}
  /\ \A n \in Node : Final \notin Deps[n]

ASSUME WorkerAssumption ==
  /\ SizeMax \in Nat
  /\ \A n \in Node : Cardinality(Deps[n]) <= SizeMax
  /\ None \notin Node
  /\ None \notin Worker
  /\ None \notin ResultData

VARIABLES
  data,      \* data[n]: the result_data base of the activity
  store,     \* store[n]: what the collector holds for n, None when nothing
  emitted,   \* emitted[n]: which signal the result of n has raised so far
  invoked,   \* invoked[n]: how often operator()() of n was entered
  pending,   \* pending[n]: asynchronous operations of n the io_context holds
  counter,   \* combinator::_counter of n
  canceled,  \* combinator::_canceled of n
  mutex,     \* the thread that holds combinator::_mutex of n
  stack      \* stack[t]: the frames of thread t, the innermost first

vars == <<data, store, emitted, invoked, pending, counter, canceled, mutex, stack>>

-----------------------------------------------------------------------------
\* Nothing was raised, _signal was, _cancelation_signals was, or an abort
\* predicate answered false and neither was.
Emission == {"nothing", "signal", "cancel", "abort"}

\* "body" and "handler": inside operator()() and inside the handler of an
\* asynchronous operation; "slots": between two slots of the signal;
\* "dec", "test", "lock", "unlock": inside propagate() of to's combinator.
Place == {"body", "handler", "slots", "dec", "test", "lock", "unlock"}

Frame == [node : Node, at : Place, to : Node \cup {None},
          cancel : BOOLEAN, todo : SUBSET Node]

TypeOK ==
  /\ data \in [Node -> ResultData]
  /\ store \in [Node -> ResultData \cup {None}]
  /\ emitted \in [Node -> Emission]
  /\ invoked \in [Node -> Nat]
  /\ pending \in [Node -> Nat]
  /\ counter \in [Node -> 0 .. SizeMax]
  /\ canceled \in [Node -> BOOLEAN]
  /\ mutex \in [Node -> Worker \cup {None}]
  /\ stack \in [Worker -> Seq(Frame)]

Root == {n \in Node : Deps[n] = {}}
Dependents(n) == {m \in Node : n \in Deps[m]}

-----------------------------------------------------------------------------
(* The frames of a thread *)

Idle(t) == stack[t] = <<>>
Top(t) == Head(stack[t])
At(t, place) == ~Idle(t) /\ Top(t).at = place

Fresh(n, place) ==
  [node |-> n, at |-> place, to |-> None, cancel |-> FALSE, todo |-> {}]

\* The innermost frame moves on, calls a further one, or returns.
Move(t, f) == stack' = [stack EXCEPT ![t] = <<f>> \o Tail(@)]
Call(t, f, g) == stack' = [stack EXCEPT ![t] = <<g, f>> \o Tail(@)]
Pop(t) == stack' = [stack EXCEPT ![t] = Tail(@)]

-----------------------------------------------------------------------------
(* result_data and result *)

Blank == [completed |-> FALSE, success |-> FALSE, canceled |-> FALSE]

Failed(d) == ~d.success

\* Whether completed() turns an outcome into a cancelation: cancel_if
\* decides for a success, the required flag for a failure.
Vetoes(n, ok) ==
  IF ok THEN IF n \in CancelIf THEN BOOLEAN ELSE {FALSE}
        ELSE {n \in Required}

\* The predicate cancel() consults for data d of n, if any.
Consulted(n, d) ==
  IF Failed(d) /\ n \in IfFailed THEN "if_failed"
  ELSE IF n \in IfErrored THEN "if_errored" ELSE "none"

\* What cancel() may decide: to propagate (TRUE) or to abort (FALSE).
Propagations(n, d) == IF Consulted(n, d) = "none" THEN {TRUE} ELSE BOOLEAN

\* The frame that walks the slots of the signal n raises.
Walk(n, signal) ==
  [Fresh(n, "slots") EXCEPT !.cancel = (signal = "cancel"),
                            !.todo = IF signal = "abort" THEN {} ELSE Dependents(n)]

\* The signals completed() may raise for an outcome ok and a veto.
Raised(n, d, veto) ==
  IF ~veto THEN {"signal"}
  ELSE {IF p THEN "cancel" ELSE "abort" : p \in Propagations(n, d)}

-----------------------------------------------------------------------------
\* Mutated: one dependency too few.
OutstandingButOne(n) == Cardinality(Deps[n]) - 1

\* sizeof...(DependenciesT): the reports a combinator waits for.
Outstanding(n) == Cardinality(Deps[n])

Init ==
  /\ data = [n \in Node |-> Blank]
  /\ store = [n \in Node |-> None]
  /\ emitted = [n \in Node |-> "nothing"]
  /\ invoked = [n \in Node |-> 0]
  /\ pending = [n \in Node |-> 0]
  /\ counter = [n \in Node |-> Outstanding(n)]
  /\ canceled = [n \in Node |-> FALSE]
  /\ mutex = [n \in Node |-> None]
  /\ stack = [t \in Worker |-> <<>>]

\* The application calls operator()() of a subtask without dependencies.
Start(t, r) ==
  /\ Idle(t)
  /\ r \in Root
  /\ invoked[r] = 0
  /\ invoked' = [invoked EXCEPT ![r] = 1]
  /\ stack' = [stack EXCEPT ![t] = <<Fresh(r, "body")>>]
  /\ UNCHANGED <<data, store, emitted, pending, counter, canceled, mutex>>

\* The body of an activity issues an asynchronous operation and returns.
Suspend(t) ==
  /\ At(t, "body")
  /\ pending' = [pending EXCEPT ![Top(t).node] = @ + 1]
  /\ Pop(t)
  /\ UNCHANGED <<data, store, emitted, invoked, counter, canceled, mutex>>

\* The io_context hands the operation's handler to an idle thread.
Resume(t, n) ==
  /\ Idle(t)
  /\ pending[n] > 0
  /\ pending' = [pending EXCEPT ![n] = @ - 1]
  /\ stack' = [stack EXCEPT ![t] = <<Fresh(n, "handler")>>]
  /\ UNCHANGED <<data, store, emitted, invoked, counter, canceled, mutex>>

\* Mutated: the collector gets its copy before the result is canceled.
CompleteStoredEarly(t) ==
  /\ At(t, "body") \/ At(t, "handler")
  /\ LET n == Top(t).node IN
     \E ok \in BOOLEAN : \E veto \in Vetoes(n, ok) :
       LET d == [completed |-> TRUE, success |-> ok, canceled |-> data[n].canceled]
       IN /\ data' = [data EXCEPT ![n] = [d EXCEPT !.canceled = @ \/ veto]]
          /\ store' = [store EXCEPT ![n] = d]
          /\ \E signal \in Raised(n, d, veto) :
               /\ emitted' = [emitted EXCEPT ![n] = signal]
               /\ Move(t, Walk(n, signal))
  /\ UNCHANGED <<invoked, pending, counter, canceled, mutex>>

\* The body or the handler calls success() or failure(): the data is set and
\* copied to the collector, then one of the two signals is raised.
Complete(t) ==
  /\ At(t, "body") \/ At(t, "handler")
  /\ LET n == Top(t).node IN
     \E ok \in BOOLEAN : \E veto \in Vetoes(n, ok) :
       LET d == [completed |-> TRUE, success |-> ok,
                 canceled |-> data[n].canceled \/ veto]
       IN /\ data' = [data EXCEPT ![n] = d]
          /\ store' = [store EXCEPT ![n] = d]
          /\ \E signal \in Raised(n, d, veto) :
               /\ emitted' = [emitted EXCEPT ![n] = signal]
               /\ Move(t, Walk(n, signal))
  /\ UNCHANGED <<invoked, pending, counter, canceled, mutex>>

\* Mutated: the slot of a cancelation propagates without marking.
SlotUnmarked(t, m) ==
  /\ At(t, "slots")
  /\ m \in Top(t).todo
  /\ Move(t, [Top(t) EXCEPT !.at = "dec", !.to = m])
  /\ UNCHANGED <<data, store, emitted, invoked, pending, counter, canceled, mutex>>

\* Mutated: every slot marks the combinator.
SlotAlwaysMarks(t, m) ==
  /\ At(t, "slots")
  /\ m \in Top(t).todo
  /\ canceled' = [canceled EXCEPT ![m] = TRUE]
  /\ Move(t, [Top(t) EXCEPT !.at = "dec", !.to = m])
  /\ UNCHANGED <<data, store, emitted, invoked, pending, counter, mutex>>

\* The signal calls its next slot; the slot of a cancelation marks the
\* dependent's combinator before it propagates.
Slot(t, m) ==
  /\ At(t, "slots")
  /\ m \in Top(t).todo
  /\ canceled' = [canceled EXCEPT ![m] = @ \/ Top(t).cancel]
  /\ Move(t, [Top(t) EXCEPT !.at = "dec", !.to = m])
  /\ UNCHANGED <<data, store, emitted, invoked, pending, counter, mutex>>

Decremented(c) == IF c = 0 THEN SizeMax ELSE c - 1

\* propagate(): _counter-- and the test of _counter are two atomic
\* operations, not one.
Decrement(t) ==
  /\ At(t, "dec")
  /\ LET m == Top(t).to IN
     /\ counter' = [counter EXCEPT ![m] = Decremented(@)]
     /\ Move(t, [Top(t) EXCEPT !.at = "test", !.todo = @ \ {m}])
  /\ UNCHANGED <<data, store, emitted, invoked, pending, canceled, mutex>>

\* Mutated: the last but one report starts the next subtask.
ReachedEarly(c) == c <= 1

Reached(c) == c = 0

\* Mutated: a cancelation does not wait for the other reports.
TestUnlessCancel(t) ==
  /\ At(t, "test")
  /\ Move(t, [Top(t) EXCEPT !.at =
                IF Reached(counter[Top(t).to]) \/ Top(t).cancel THEN "lock" ELSE "slots"])
  /\ UNCHANGED <<data, store, emitted, invoked, pending, counter, canceled, mutex>>

Test(t) ==
  /\ At(t, "test")
  /\ Move(t, [Top(t) EXCEPT !.at = IF Reached(counter[Top(t).to]) THEN "lock" ELSE "slots"])
  /\ UNCHANGED <<data, store, emitted, invoked, pending, counter, canceled, mutex>>

\* (*_next)(): the preparators and the body run while the mutex is held.
Invoke(t, m) ==
  /\ invoked' = [invoked EXCEPT ![m] = @ + 1]
  /\ Call(t, [Top(t) EXCEPT !.at = "unlock"], Fresh(m, "body"))
  /\ UNCHANGED <<data, emitted>>

\* _next->cancel() of an activity: its result is marked canceled and raises
\* its cancelation signal without ever having run.
Skip(t, m) ==
  LET d == [data[m] EXCEPT !.canceled = TRUE] IN
  /\ data' = [data EXCEPT ![m] = d]
  /\ \E signal \in Raised(m, d, TRUE) :
       /\ emitted' = [emitted EXCEPT ![m] = signal]
       /\ Call(t, [Top(t) EXCEPT !.at = "unlock"], Walk(m, signal))
  /\ UNCHANGED invoked

\* Mutated: joined::cancel() does not call the final callback.
JoinUnlessCanceled(t, m) ==
  /\ invoked' = [invoked EXCEPT ![m] = IF canceled[m] THEN @ ELSE @ + 1]
  /\ Move(t, [Top(t) EXCEPT !.at = "unlock"])
  /\ UNCHANGED <<data, emitted>>

\* joined::operator()() and joined::cancel() both call the final callback.
Join(t, m) ==
  /\ invoked' = [invoked EXCEPT ![m] = @ + 1]
  /\ Move(t, [Top(t) EXCEPT !.at = "unlock"])
  /\ UNCHANGED <<data, emitted>>

Enter(t) ==
  /\ At(t, "lock")
  /\ LET m == Top(t).to IN
     /\ mutex[m] = None
     /\ mutex' = [mutex EXCEPT ![m] = t]
     /\ \/ m = Final /\ Join(t, m)
        \/ m # Final /\ canceled[m] /\ Skip(t, m)
        \/ m # Final /\ ~canceled[m] /\ Invoke(t, m)
  /\ UNCHANGED <<store, pending, counter, canceled>>

\* Mutated: propagate() returns with the mutex locked.
LeaveLocked(t) ==
  /\ At(t, "unlock")
  /\ Move(t, [Top(t) EXCEPT !.at = "slots", !.to = None])
  /\ UNCHANGED <<data, store, emitted, invoked, pending, counter, canceled, mutex>>

Leave(t) ==
  /\ At(t, "unlock")
  /\ mutex' = [mutex EXCEPT ![Top(t).to] = None]
  /\ Move(t, [Top(t) EXCEPT !.at = "slots", !.to = None])
  /\ UNCHANGED <<data, store, emitted, invoked, pending, counter, canceled>>

\* All slots were called: success(), failure() or cancel() returns.
Return(t) ==
  /\ At(t, "slots")
  /\ Top(t).todo = {}
  /\ Pop(t)
  /\ UNCHANGED <<data, store, emitted, invoked, pending, counter, canceled, mutex>>

Quiescent ==
  /\ \A t \in Worker : Idle(t)
  /\ \A n \in Node : pending[n] = 0
  /\ \A r \in Root : invoked[r] > 0

\* The graph has run to its end; nothing is left to do.
Finished == Quiescent /\ UNCHANGED vars

Step(t) ==
  \/ \E r \in Node : Start(t, r)
  \/ Suspend(t)
  \/ \E n \in Node : Resume(t, n)
  \/ Complete(t)
  \/ \E m \in Node : Slot(t, m)
  \/ Decrement(t) \/ Test(t) \/ Enter(t) \/ Leave(t) \/ Return(t)

Next == (\E t \in Worker : Step(t)) \/ Finished

Spec == Init /\ [][Next]_vars

\* Every thread in io.run() keeps executing, the application starts its root
\* subtasks and every activity calls success() or failure() in the end.
FairSpec == Spec /\ \A t \in Worker : WF_vars(Step(t))

-----------------------------------------------------------------------------
(* Properties *)

Released(n) == emitted[n] \in {"signal", "cancel"}

\* A subtask is invoked only after every subtask it is attached after() has
\* raised a signal; an activity, other than the final callback, only if none
\* of them raised the cancelation, and then it finds their results in the
\* collector (combinator::propagate, result::completed).
InvokedAfterDependencies ==
  \A n \in Node : invoked[n] > 0 => \A d \in Deps[n] :
    /\ Released(d)
    /\ n # Final => /\ emitted[d] = "signal"
                    /\ store[d] = data[d]

\* No subtask is invoked twice, and none is both invoked and skipped: the
\* counter of a combinator reaches zero for exactly one of its callers.
RunsOnceOrNever ==
  \A n \in Node :
    /\ invoked[n] <= 1
    /\ n # Final /\ invoked[n] = 1 /\ emitted[n] # "nothing" => data[n].completed

\* A subtask canceled without having run had all its dependencies reported,
\* one of them as canceled: the cancelation of one dependency does not
\* overtake the completion of the others.
SkipsAreExplained ==
  \A n \in Node : data[n].canceled /\ ~data[n].completed =>
    /\ \A d \in Deps[n] : Released(d)
    /\ \E d \in Deps[n] : emitted[d] = "cancel"

\* When the final callback runs, the collector holds the outcome of each of
\* its dependencies: an uncanceled result for one that passed, and for one
\* that was canceled either its canceled result or nothing, if it never ran.
FinalSeesOutcomes ==
  invoked[Final] > 0 => \A d \in Deps[Final] :
    IF emitted[d] = "signal"
    THEN store[d] # None /\ store[d].completed /\ ~store[d].canceled
    ELSE IF invoked[d] = 0 THEN store[d] = None
         ELSE store[d] # None /\ store[d].canceled

\* When every thread is idle and no operation is outstanding, no subtask is
\* left whose dependencies have all reported: no start is lost.
NothingLost ==
  Quiescent => \A n \in Node :
    (\A d \in Deps[n] : Released(d)) => invoked[n] > 0 \/ emitted[n] # "nothing"

\* The final callback is called in the end, unless an abort predicate has
\* answered false (subtask::if_failed, if_errored, if_canceled).
FinalEventually ==
  <>(invoked[Final] > 0 \/ \E n \in Node : emitted[n] = "abort")

\* The graph implements TaskGraph.
StatusOf(n) ==
  IF n = Final THEN IF invoked[n] > 0 THEN "called" ELSE "waiting"
  ELSE CASE emitted[n] = "signal" -> "passed"
         [] emitted[n] = "cancel" -> "canceled"
         [] emitted[n] = "abort" -> "aborted"
         [] OTHER -> IF invoked[n] > 0 THEN "running" ELSE "waiting"

Abstract == INSTANCE TaskGraph WITH status <- [n \in Node |-> StatusOf(n)]

\* Every behaviour of the threads is one TaskGraph allows, the abstract
\* fairness included.
ImplementsTaskGraph == Abstract!FairSpec
=============================================================================
