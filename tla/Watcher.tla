------------------------------ MODULE Watcher -------------------------------
(***************************************************************************)
(* The expiry queue of udho::watcher (includes/udho/watcher.h).            *)
(*                                                                         *)
(* A watch waits in a list until it is notified or its time has come; one  *)
(* deadline_timer wakes the io_context for the front of the list.  The     *)
(* code between a lock and the next unlock of watcher::_mutex is one       *)
(* action: nothing else touches the list, the index and the timer.  A      *)
(* released watch calls back the application, which may use the watcher    *)
(* again, so a thread carries a stack of frames.                           *)
(*                                                                         *)
(* Time is what is left until an expiry, in ticks.  A node of the list is  *)
(* the ticket of its push_back, so the front is the smallest ticket.  A    *)
(* wait that expires_from_now() cancels is dropped: its handler returns at *)
(* once.                                                                   *)
(***************************************************************************)
EXTENDS Integers, Sequences

CONSTANTS
  Watch,     \* the watch objects of the application
  Key,       \* Key[w]: the key of watch w
  All,       \* the target of notify_all()
  Duration,  \* watcher::_duration, in ticks
  Calls,     \* bound: how often the application calls the watcher
  Worker,    \* the threads that call io.run()
  None       \* no wait, no watch

ASSUME WatcherAssumption ==
  /\ Watch \subseteq DOMAIN Key
  /\ Duration \in Nat
  /\ Calls \in Nat
  /\ None \notin Nat
  /\ None \notin Watch

VARIABLES
  queue,      \* the nodes of _watchers
  index,      \* the nodes _index points to
  owner,      \* owner[n]: the watch that was copied into node n
  left,       \* left[n]: the ticks until the expiry of node n
  pushed,     \* how many nodes were pushed so far
  released,   \* released[n]: how often the watch in node n was released
  timer,      \* the ticks until the pending wait of _timer completes, or None
  ready,      \* completed waits whose handler the io_context still holds
  posted,     \* posted[x]: the async_notify(x) the io_context still holds
  calls,      \* calls made so far
  stack,      \* stack[t]: the frames of thread t, the innermost first
  undefined   \* front() was called on an empty list

vars == <<queue, index, owner, left, pushed, released, timer, ready, posted, calls,
          stack, undefined>>

-----------------------------------------------------------------------------
Node == 1 .. Calls
Time == 0 .. Duration

\* What a notification is for: the watches of one key, or all of them.
Target == {Key[w] : w \in Watch} \cup {All}

\* "insert": in insert(), before the lock; "check", "front", "rearm": in
\* expired(), before its first, second and last lock; "current", "notified":
\* releasing what expired() or notify() took out; "callback": in the
\* operator() of a released watch.
Place == {"insert", "check", "front", "rearm", "current", "notified", "callback"}

Frame == [at : Place, nodes : SUBSET Node, watch : Watch \cup {None}, left : Time]

TypeOK ==
  /\ queue \subseteq Node
  /\ index \subseteq Node
  /\ owner \in [Node -> Watch \cup {None}]
  /\ left \in [Node -> Time]
  /\ pushed \in 0 .. Calls
  /\ released \in [Node -> Nat]
  /\ timer \in Time \cup {None}
  /\ ready \in Nat
  /\ posted \in [Target -> Nat]
  /\ calls \in 0 .. Calls
  /\ stack \in [Worker -> Seq(Frame)]
  /\ undefined \in BOOLEAN

-----------------------------------------------------------------------------
(* Frames *)

Idle(t) == stack[t] = <<>>
Top(t) == Head(stack[t])
At(t, place) == ~Idle(t) /\ Top(t).at = place

Fresh(place) == [at |-> place, nodes |-> {}, watch |-> None, left |-> 0]
Releasing(place, nodes) == [Fresh(place) EXCEPT !.nodes = nodes]

Push(t, f) == stack' = [stack EXCEPT ![t] = <<f>> \o @]
Move(t, f) == stack' = [stack EXCEPT ![t] = <<f>> \o Tail(@)]
Call(t, f, g) == stack' = [stack EXCEPT ![t] = <<g, f>> \o Tail(@)]
Pop(t) == stack' = [stack EXCEPT ![t] = Tail(@)]

-----------------------------------------------------------------------------
(* The list and its index *)

Front(n) == n \in queue /\ \A m \in queue : n <= m

\* The nodes the index holds for a target.
Hit(x) == {n \in index : x = All \/ Key[owner[n]] = x}

\* expires_from_now() and async_wait(): the new wait replaces a pending one.
Arm(ticks) == timer' = ticks

Init ==
  /\ queue = {}
  /\ index = {}
  /\ owner = [n \in Node |-> None]
  /\ left = [n \in Node |-> 0]
  /\ pushed = 0
  /\ released = [n \in Node |-> 0]
  /\ timer = None
  /\ ready = 0
  /\ posted = [x \in Target |-> 0]
  /\ calls = 0
  /\ stack = [t \in Worker |-> <<>>]
  /\ undefined = FALSE

-----------------------------------------------------------------------------
(* Calls of the application, from a handler or from a callback *)

May(t) ==
  /\ Idle(t) \/ At(t, "callback")
  /\ calls < Calls
  /\ calls' = calls + 1

\* insert() reads the clock before it takes the lock.  Its argument is a copy
\* of the application's watch, which no insert() has given an expiry, so it is
\* not rejected, even when the watch is queued already.  (A callback that passes
\* on itself, a copy with an expiry, is rejected: nothing changes.)
Insert(t, w) ==
  /\ May(t)
  /\ Push(t, [at |-> "insert", nodes |-> {}, watch |-> w, left |-> Duration])
  /\ UNCHANGED <<queue, index, owner, left, pushed, released, timer, ready, posted, undefined>>

\* Mutated: the timer is armed after the push_back, when the list is not empty.
EnqueueUnarmed(t) ==
  /\ At(t, "insert")
  /\ LET n == pushed + 1 IN
     /\ queue' = queue \cup {n}
     /\ index' = index \cup {n}
     /\ owner' = [owner EXCEPT ![n] = Top(t).watch]
     /\ left' = [left EXCEPT ![n] = Top(t).left]
     /\ pushed' = n
     /\ IF queue' = {} THEN Arm(Top(t).left) ELSE UNCHANGED timer
  /\ Pop(t)
  /\ UNCHANGED <<released, ready, posted, calls, undefined>>

\* insert() under the lock: only an empty list needs the timer.
Enqueue(t) ==
  /\ At(t, "insert")
  /\ LET n == pushed + 1 IN
     /\ queue' = queue \cup {n}
     /\ index' = index \cup {n}
     /\ owner' = [owner EXCEPT ![n] = Top(t).watch]
     /\ left' = [left EXCEPT ![n] = Top(t).left]
     /\ pushed' = n
     /\ IF queue = {} THEN Arm(Top(t).left) ELSE UNCHANGED timer
  /\ Pop(t)
  /\ UNCHANGED <<released, ready, posted, calls, undefined>>

\* Mutated: the notified watches stay in the list.
TakeOutIndexed(t, x) ==
  /\ index' = index \ Hit(x)
  /\ Push(t, Releasing("notified", Hit(x)))
  /\ UNCHANGED <<queue, owner, left, pushed, released, timer, ready, undefined>>

\* notify() and notify_all() under the lock.
TakeOut(t, x) ==
  /\ queue' = queue \ Hit(x)
  /\ index' = index \ Hit(x)
  /\ Push(t, Releasing("notified", Hit(x)))
  /\ UNCHANGED <<owner, left, pushed, released, timer, ready, undefined>>

Notify(t, x) ==
  /\ May(t)
  /\ TakeOut(t, x)
  /\ UNCHANGED posted

AsyncNotify(t, x) ==
  /\ May(t)
  /\ posted' = [posted EXCEPT ![x] = @ + 1]
  /\ UNCHANGED <<queue, index, owner, left, pushed, released, timer, ready, stack, undefined>>

-----------------------------------------------------------------------------
(* The io_context *)

\* A thread runs what async_notify() has posted.
RunPosted(t, x) ==
  /\ Idle(t)
  /\ posted[x] > 0
  /\ posted' = [posted EXCEPT ![x] = @ - 1]
  /\ TakeOut(t, x)
  /\ UNCHANGED calls

\* The wait of the timer completes.
Fire ==
  /\ timer = 0
  /\ timer' = None
  /\ ready' = ready + 1
  /\ UNCHANGED <<queue, index, owner, left, pushed, released, posted, calls, stack, undefined>>

\* Mutated: expired() also runs for a wait that was cancelled.
ExpiredAborted(t) ==
  /\ Idle(t)
  /\ ready' = ready - 1
  /\ Push(t, Fresh("check"))
  /\ UNCHANGED <<queue, index, owner, left, pushed, released, timer, posted, calls, undefined>>

\* A thread runs expired().
Expired(t) ==
  /\ Idle(t)
  /\ ready > 0
  /\ ready' = ready - 1
  /\ Push(t, Fresh("check"))
  /\ UNCHANGED <<queue, index, owner, left, pushed, released, timer, posted, calls, undefined>>

\* Mutated: no test for an empty list.
CheckNothing(t) ==
  /\ At(t, "check")
  /\ Move(t, Fresh("front"))
  /\ UNCHANGED <<queue, index, owner, left, pushed, released, timer, ready, posted, calls, undefined>>

\* The first section of expired(): nothing but the test for an empty list.
Check(t) ==
  /\ At(t, "check")
  /\ Move(t, Fresh(IF queue = {} THEN "rearm" ELSE "front"))
  /\ UNCHANGED <<queue, index, owner, left, pushed, released, timer, ready, posted, calls, undefined>>

\* Mutated: a front that is not due is left to itself.
TakeFrontUnarmed(t) ==
  /\ At(t, "front")
  /\ UNCHANGED <<owner, left, pushed, released, ready, posted, calls>>
  /\ \/ /\ queue = {}
        /\ undefined' = TRUE
        /\ UNCHANGED <<queue, index, timer, stack>>
     \/ \E n \in queue :
          /\ Front(n)
          /\ left[n] > 0
          /\ Pop(t)
          /\ UNCHANGED <<queue, index, timer, undefined>>
     \/ \E n \in queue :
          /\ Front(n)
          /\ left[n] = 0
          /\ queue' = queue \ {n}
          /\ index' = index \ {n}
          /\ Move(t, Releasing("current", {n}))
          /\ UNCHANGED <<timer, undefined>>

\* The second section of expired(): the front is taken out when it is due and
\* waited for when it is not.
TakeFront(t) ==
  /\ At(t, "front")
  /\ UNCHANGED <<owner, left, pushed, released, ready, posted, calls>>
  /\ \/ /\ queue = {}
        /\ undefined' = TRUE
        /\ UNCHANGED <<queue, index, timer, stack>>
     \/ \E n \in queue :
          /\ Front(n)
          /\ left[n] > 0
          /\ Arm(left[n])
          /\ Pop(t)
          /\ UNCHANGED <<queue, index, undefined>>
     \/ \E n \in queue :
          /\ Front(n)
          /\ left[n] = 0
          /\ queue' = queue \ {n}
          /\ index' = index \ {n}
          /\ Move(t, Releasing("current", {n}))
          /\ UNCHANGED <<timer, undefined>>

\* release() of a watch that was taken out calls back the application.
Release(t, n) ==
  /\ At(t, "current") \/ At(t, "notified")
  /\ n \in Top(t).nodes
  /\ released' = [released EXCEPT ![n] = @ + 1]
  /\ Call(t, [Top(t) EXCEPT !.nodes = @ \ {n}], Fresh("callback"))
  /\ UNCHANGED <<queue, index, owner, left, pushed, timer, ready, posted, calls, undefined>>

\* The callback, or notify(), returns.
Return(t) ==
  /\ At(t, "callback") \/ At(t, "notified")
  /\ Top(t).nodes = {}
  /\ Pop(t)
  /\ UNCHANGED <<queue, index, owner, left, pushed, released, timer, ready, posted, calls, undefined>>

\* expired() has released the watch that was due.
Resume(t) ==
  /\ At(t, "current")
  /\ Top(t).nodes = {}
  /\ Move(t, Fresh("rearm"))
  /\ UNCHANGED <<queue, index, owner, left, pushed, released, timer, ready, posted, calls, undefined>>

\* Mutated: expired() does not arm the timer for the next watch.
RearmNever(t) ==
  /\ At(t, "rearm")
  /\ Pop(t)
  /\ UNCHANGED <<queue, index, owner, left, pushed, released, timer, ready, posted, calls, undefined>>

\* The last section of expired(): the timer is armed for the next watch.
Rearm(t) ==
  /\ At(t, "rearm")
  /\ \/ queue = {} /\ UNCHANGED timer
     \/ \E n \in queue : Front(n) /\ Arm(left[n])
  /\ Pop(t)
  /\ UNCHANGED <<queue, index, owner, left, pushed, released, ready, posted, calls, undefined>>

Aged(ticks) == IF ticks = 0 THEN 0 ELSE ticks - 1

\* A tick passes, for the timer and for every expiry.
Tick ==
  /\ \/ timer \notin {0, None}
     \/ \E n \in Node : left[n] > 0
     \/ \E t \in Worker : At(t, "insert") /\ Top(t).left > 0
  /\ timer' = IF timer = None THEN None ELSE Aged(timer)
  /\ left' = [n \in Node |-> Aged(left[n])]
  /\ stack' = [t \in Worker |->
                 [i \in DOMAIN stack[t] |-> [stack[t][i] EXCEPT !.left = Aged(@)]]]
  /\ UNCHANGED <<queue, index, owner, pushed, released, ready, posted, calls, undefined>>

\* What a thread does once it was called, and the handlers it runs.
Work(t) ==
  \/ Enqueue(t) \/ Check(t) \/ TakeFront(t) \/ Resume(t) \/ Rearm(t) \/ Return(t)
  \/ \E n \in Node : Release(t, n)
  \/ \E x \in Target : RunPosted(t, x)
  \/ Expired(t)

\* What the application may do.
Use(t) ==
  \/ \E w \in Watch : Insert(t, w)
  \/ \E x \in Target : Notify(t, x) \/ AsyncNotify(t, x)

\* The program has come to an end, or nothing is known of what it does.
Halted ==
  /\ \/ undefined
     \/ /\ \A t \in Worker : Idle(t)
        /\ queue = {} /\ timer = None /\ ready = 0 /\ calls = Calls
        /\ \A x \in Target : posted[x] = 0
  /\ UNCHANGED vars

Next ==
  \/ /\ ~undefined
     /\ \/ \E t \in Worker : Work(t) \/ Use(t)
        \/ Fire
        \/ Tick
  \/ Halted

Spec == Init /\ [][Next]_vars

\* The threads stay in io.run() and return from their callbacks, the clock
\* goes on and the io_context completes a wait whose time has come.  The
\* application need not call the watcher again.
FairSpec ==
  /\ Spec
  /\ \A t \in Worker : WF_vars(~undefined /\ Work(t))
  /\ WF_vars(~undefined /\ Fire)
  /\ WF_vars(~undefined /\ Tick)

-----------------------------------------------------------------------------
(* Properties *)

\* Frame i of thread t has still to release the watch in node n.
Holds(t, i, n) == n \in stack[t][i].nodes

Held(n) == \E t \in Worker : \E i \in DOMAIN stack[t] : Holds(t, i, n)

\* No two frames are to release the watch in the same node.
HeldOnce ==
  \A t, u \in Worker : \A i \in DOMAIN stack[t], j \in DOMAIN stack[u] : \A n \in Node :
    Holds(t, i, n) /\ Holds(u, j, n) => t = u /\ i = j

\* Every watch that was inserted is in the list, in the hands of exactly one
\* call of notify() or expired(), or released once: no watch is lost or
\* released twice, whoever takes it out and whatever its callback does.
ReleasedOnce ==
  /\ index = queue
  /\ HeldOnce
  /\ \A n \in 1 .. pushed :
       \/ n \in queue /\ ~Held(n) /\ released[n] = 0
       \/ n \notin queue /\ Held(n) /\ released[n] = 0
       \/ n \notin queue /\ ~Held(n) /\ released[n] = 1

\* A run of expired() that has still to look at the list or the timer.
Waking ==
  \/ ready > 0
  \/ \E t \in Worker : \E i \in DOMAIN stack[t] :
       stack[t][i].at \in {"check", "front", "current", "rearm"}

\* While a watch is waiting, a wait of the timer is pending or expired() is
\* still to be run to its end: the list is never left without a wake-up.
SomeoneWakes == queue # {} => timer # None \/ Waking

\* On one thread the pending wait ends no later than the front expires.
TimerCoversFront ==
  \A n \in Node : Front(n) => Waking \/ (timer # None /\ timer <= left[n])

\* front() is never called on an empty list.
FrontExists == ~undefined

\* A watch that was inserted is released in the end, unless the behaviour has
\* become undefined.
EventuallyReleased ==
  \A n \in Node : n \in queue ~> (released[n] > 0 \/ undefined)
=============================================================================
