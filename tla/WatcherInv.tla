----------------------------- MODULE WatcherInv -----------------------------
(***************************************************************************)
(* The inductive invariants of Watcher: IInv for any number of threads,    *)
(* OneThreadInv for one.                                                   *)
(***************************************************************************)
EXTENDS Watcher, FiniteSets

\* Only the innermost frame of a thread is in insert(), or in expired() when
\* no callback runs; a frame that releases nothing holds no node.
Nested ==
  \A t \in Worker : \A i \in DOMAIN stack[t] :
    /\ i > 1 => stack[t][i].at \in {"current", "notified", "callback"}
    /\ stack[t][i].at \notin {"current", "notified"} => stack[t][i].nodes = {}

\* The threads in insert() have a call of their own to count for their node.
Inserting == {t \in Worker : At(t, "insert")}

CallsCover ==
  /\ IsFiniteSet(Inserting)
  /\ pushed + Cardinality(Inserting) <= calls

\* Nodes that were never pushed are nowhere.
NothingAhead ==
  \A n \in Node : n > pushed => n \notin queue /\ ~Held(n) /\ released[n] = 0

\* Type correctness, the shape of the stacks, the bound of the pushes, the
\* fate of every watch and the wake-up, for any number of threads: what the
\* sections between two locks of watcher::_mutex preserve.
IInv ==
  /\ TypeOK
  /\ Nested
  /\ CallsCover
  /\ NothingAhead
  /\ ReleasedOnce
  /\ SomeoneWakes

-----------------------------------------------------------------------------
OneThread == \A t, u \in Worker : t = u

\* Later nodes of the list do not expire earlier.
Sorted ==
  /\ \A m, n \in queue : m < n => left[m] <= left[n]
  /\ \A t \in Worker : At(t, "insert") => \A n \in queue : left[n] <= Top(t).left

\* The pending wait ends no later than any watch expires.
TimerCoversAll ==
  \A n \in queue : Waking \/ (timer # None /\ timer <= left[n])

\* What expired() finds between its first two locks, when nobody else runs.
FrontInSight ==
  /\ ~undefined
  /\ \A t \in Worker : At(t, "front") => queue # {}

\* With one thread the list is sorted by expiry, the timer covers all of it,
\* and what expired() has tested is still so when it locks again.
OneThreadInv ==
  /\ IInv
  /\ Sorted
  /\ TimerCoversAll
  /\ FrontInSight
=============================================================================
