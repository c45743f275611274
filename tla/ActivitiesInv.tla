--------------------------- MODULE ActivitiesInv ----------------------------
(***************************************************************************)
(* The inductive invariant of Activities.  Between the decrement of the    *)
(* counter of a combinator and its test another thread may decrement it    *)
(* too, and both then find zero.  This cannot happen to a combinator that  *)
(* is undisputed: one thread runs the io_context, or one subtask reports   *)
(* to the combinator.  The invariant assumes it of every subtask but the   *)
(* final one, whose callback the race may repeat but not advance.          *)
(***************************************************************************)
EXTENDS Activities

OneWorker == \A t, u \in Worker : t = u

\* No two threads are ever between the decrement and the test of n's counter.
Undisputed(n) == OneWorker \/ \A d, e \in Deps[n] : d = e

InnerUndisputed == \A n \in Node \ {Final} : Undisputed(n)

FramesOf(t) == {stack[t][i] : i \in DOMAIN stack[t]}
Frames == UNION {FramesOf(t) : t \in Worker}

\* Every frame but the innermost holds the mutex of the subtask whose frame
\* lies on top of it.
Nested ==
  \A t \in Worker : \A i \in DOMAIN stack[t] : i > 1 =>
    /\ stack[t][i].at = "unlock"
    /\ stack[t][i].to = stack[t][i - 1].node

\* No result walks its slots, or runs, twice at the same time.
Distinct ==
  \A t, u \in Worker : \A i \in DOMAIN stack[t], j \in DOMAIN stack[u] :
    stack[t][i].node = stack[u][j].node => t = u /\ i = j

\* The frame of a body or a handler belongs to an activity that was invoked
\* and has neither completed nor suspended.
BodyFrame(g) ==
  g.at \in {"body", "handler"} =>
    /\ g.todo = {}
    /\ emitted[g.node] = "nothing"
    /\ invoked[g.node] = 1
    /\ pending[g.node] = 0

\* The frame of a signal agrees with the signal that was raised, owes its
\* report to dependents only, and has marked the combinator it is about to
\* report a cancelation to.
SlotFrame(g) ==
  g.at \notin {"body", "handler"} =>
    /\ emitted[g.node] # "nothing"
    /\ emitted[g.node] = "abort" => g.todo = {} /\ g.at = "slots"
    /\ emitted[g.node] = "cancel" <=> g.cancel
    /\ g.todo \subseteq Dependents(g.node)
    /\ g.at # "slots" => g.to \in Dependents(g.node)
    /\ g.at = "dec" => g.to \in g.todo /\ (g.cancel => canceled[g.to])

\* Nothing has happened to the subtask yet.
Untouched(m) ==
  /\ invoked[m] = 0
  /\ emitted[m] = "nothing"
  /\ pending[m] = 0

\* A frame that may still find the counter at zero has not started its target,
\* one that holds the mutex has.
EntryFrame(g) ==
  /\ g.at \in {"test", "lock"} /\ Undisputed(g.to) => Untouched(g.to)
  /\ g.at = "lock" => counter[g.to] = 0
  /\ g.at = "unlock" => ~Untouched(g.to)

FrameOK(g) ==
  /\ g.node # Final
  /\ BodyFrame(g)
  /\ SlotFrame(g)
  /\ EntryFrame(g)

FramesOK == \A g \in Frames : FrameOK(g)

\* No frame still owes m the report of d.
Settled(d, m) == \A g \in Frames : g.node = d => m \notin g.todo

\* d has raised a signal and its report has reached the combinator of m.
Delivered(d, m) == Released(d) /\ Settled(d, m)

Waiting(m) == {d \in Deps[m] : ~Delivered(d, m)}

CounterIsWaiting == \A m \in Node : counter[m] = Cardinality(Waiting(m))

\* A combinator is marked iff a dependency raised the cancelation and has
\* reached it, or is about to.
MarksAreReported ==
  \A m \in Node :
    /\ \A d \in Deps[m] : emitted[d] = "cancel" /\ Delivered(d, m) => canceled[m]
    /\ canceled[m] => \E d \in Deps[m] : emitted[d] = "cancel"

\* Whatever has started, or was skipped, had no report outstanding; an
\* activity was started iff its combinator is not marked.
StartedAfterAll ==
  \A m \in Node : ~Untouched(m) =>
    /\ counter[m] = 0
    /\ m # Final => (canceled[m] <=> invoked[m] = 0)

\* A subtask whose last report has arrived was touched, or is about to be by
\* a thread that has yet to test the counter or to take the mutex.
StartsAreDue ==
  \A m \in Node : Deps[m] # {} /\ counter[m] = 0 /\ Untouched(m) =>
    \E g \in Frames : g.to = m /\ g.at \in {"test", "lock"}

\* A suspended activity was invoked once and has no frame.
PendingOK ==
  \A n \in Node : pending[n] > 0 =>
    /\ pending[n] = 1
    /\ invoked[n] = 1
    /\ emitted[n] = "nothing"
    /\ \A g \in Frames : g.node # n

\* The flags of a result and its copy in the collector, by what was raised.
ResultsOK ==
  \A n \in Node :
    /\ Undisputed(n) => invoked[n] <= 1
    /\ emitted[n] = "nothing" => data[n] = Blank /\ store[n] = None
    /\ emitted[n] = "signal" => invoked[n] = 1 /\ ~data[n].canceled
    /\ emitted[n] \in {"cancel", "abort"} => data[n].canceled
    /\ emitted[n] # "nothing" =>
         IF invoked[n] = 1 THEN data[n].completed /\ store[n] = data[n]
         ELSE ~data[n].completed /\ store[n] = None

FinalOK == emitted[Final] = "nothing" /\ pending[Final] = 0

\* The mutex of a combinator is held by the thread that has a frame between
\* its lock() and its unlock(), and there is one such frame at most.
MutexOK ==
  /\ \A t \in Worker : \A m \in Node :
       mutex[m] = t <=> \E g \in FramesOf(t) : g.at = "unlock" /\ g.to = m
  /\ \A g, h \in Frames : g.at = "unlock" /\ h.at = "unlock" /\ g.to = h.to => g = h

IInv ==
  /\ TypeOK
  /\ Nested
  /\ Distinct
  /\ FramesOK
  /\ CounterIsWaiting
  /\ MarksAreReported
  /\ StartedAfterAll
  /\ StartsAreDue
  /\ PendingOK
  /\ ResultsOK
  /\ FinalOK
  /\ MutexOK

-----------------------------------------------------------------------------
\* combinator::propagate holds its mutex while it starts the next subtask, and
\* with it all that this one starts in the same call.  Still no thread waits
\* for the mutex of an activity, and the one it may wait for, of the final
\* callback, is held by another thread that is about to unlock it.
NoStandstill ==
  \A t \in Worker : At(t, "lock") /\ mutex[Top(t).to] # None =>
    /\ Top(t).to = Final
    /\ \E u \in Worker : u # t /\ At(u, "unlock") /\ Top(u).to = Final
=============================================================================
