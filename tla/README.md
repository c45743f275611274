# udho, specified and verified

udho is a header-only C++ library for http servers on Boost.Asio and Boost.Beast
(`includes/udho/*.h`). This directory holds TLA+ specifications of its stateful parts,
configurations that check them with TLC, and theorems about them with TLAPS proofs. Paths below
are relative to the repository; `h:n` is line `n` of `includes/udho/h`.

## 1. The system

| component | state | operations | works with |
|---|---|---|---|
| **activities** (`activities.h`) | per subtask: result data, required flag, three predicates, two signals; a combinator with counter, canceled flag and mutex; the collector | `start`, `after`/`done`, `success`/`failure`, `propagate`, `cancel`, final callback | the io threads; the context a final callback answers with |
| **accessor, analyzer** (`activities.h`) | the callbacks it was given, a state | `exists`, `failed`, `okay`, `apply` | the collector of a finished graph |
| **watcher** (`watcher.h`) | list of watches, index by key, one `deadline_timer`, mutex | `insert`, `notify(_all)`, `async_notify(_all)`, `expired` | callbacks of the application, which may call it again |
| **cache** (`cache.h`) | a table per type and the master table, in memory or in files, each with a mutex | `issue`, `exists`, `get`, `set`, `insert`, `update`, `remove` | sessions, all threads |
| **session, cookies** (`session.h`, `cookie.h`) | id, whether the visitor returns | `identify`, `get`, `set`, `remove` | cache, context |
| **connection** (`connection.h`) | request, socket, strand, context | `do_read`, `on_read`, `on_write`, `respond`, `do_close` | router, context, jobs of callables |
| **router, application** (`router.h`, `application.h`) | the chain of rules | `serve`, `resolve` | connection, callables |
| **context** (`context.h`, `contexts.h`) | stack of routes, status, response headers | `reroute`, `status`, `clear`, `patch`, `respond` | connection, callables |
| **client** (`client.h`) | options, callbacks, connection of an attempt | `request`, `then`/`failed`/`finally`, the `on_*` handlers | remote servers, the context |
| listener, server, bridge, configuration | wiring | accept loop, construction | connection |
| **forms** (`forms.h`, `util.h`) | per driver: what it read of a body; per field: its `field_data` and constraints; the accumulated verdict | `parse`, `fetch`, `validate`, `constrain`, `add` | context, callables |
| **views** (`scope.h`, `access.h`, `parser.h`) | lookup table of names and its level; tokens and stacks of an expression; the output tree | `down`, `up`, `add`, `eval`; `find`, `keys`, `count`; `tokenize`, `rpn`, `evaluate`; the directives | bridge, prepared data of callables |
| url, remaining utilities | text of a request | parse | context |
| logging, pages, type-level utilities | none that is read back | | |

What is hard in it, and what "correct" means there:

* *activities*: several threads report to one combinator; skipped subtasks must pass their
  cancelation on; mutexes are held while whole subgraphs run. Correct: a subtask starts once,
  after all its dependencies, unless one was canceled; the final callback comes once and sees what
  happened.
* *watcher*: one timer for a list that changes under it, locks released in the middle of
  `expired()`, reentrant callbacks. Correct: each watch is released once, in time.
* *sessions*: each operation takes several locks one after the other; files are truncated before
  they are written; ids travel to browsers and back. Correct: a client sees only its own session,
  an undisturbed operation takes effect, what ended stays ended.
* *connection*: one strand plus jobs on other threads; reroutes, exceptions, and responses given
  now, later or never. Correct: each request answered once, in order, with the status its callable
  asked for.
* *client*: callbacks are attached after the request was started; redirects start further
  requests; a shutdown may fail after success was reported. Correct: the caller is told the end
  once, and its options hold to the last hop.
* *forms*: fields are objects that are copied, constrained later, read again from another form and
  added to a verdict in any order; bodies come from elsewhere. Correct: a field holds what was
  sent first under its name, its message says what is wrong first, and the verdict covers every
  field that went through it.
* *views*: directives nest and each moves the level of one shared table; expressions go through a
  tokenizer, two stacks and short circuits; `find`, `keys` and `count` are three walks over the
  same data. Correct: scopes are left as they were entered, an expression means its tree, the
  walks agree, and a view is the sequence of what its nodes mean.

`PROJECT.json` lists the hazards line by line with the properties that cover them.

## 2. The modules

| module | what it is |
|---|---|
| `Activities` | the task graph, its combinators, signals and threads |
| `TaskGraph` | abstract: what a graph of subtasks promises, without threads or counters |
| `ActivitiesInv`, `ActivitiesProofs` | inductive invariant; safety proofs, and that Activities implements TaskGraph |
| `Analyzer` | EXTENDS `ActivitiesInv`: what accessor and analyzer answer of a finished graph |
| `Watcher`, `WatcherInv`, `WatcherProofs` | the expiry queue; two inductive invariants; proofs |
| `Sessions`, `SessionsInv`, `SessionsProofs` | sessions over the cache; invariant; proofs |
| `Router` | rules as data; which callable serves a request |
| `Connection` | EXTENDS `Router`: the strand, the context and the callables of one connection |
| `Exchange` | abstract: what the client at the other end of a connection sees |
| `ConnectionInv`, `ConnectionProofs` | properties, invariant and refinement mapping; proofs |
| `Client`, `ClientInv`, `ClientProofs` | the http client and its redirects; invariant; proofs |
| `FormBody` | the drivers: what they read of a body, and what they answer |
| `Fields` | EXTENDS `FormBody`: the fields of a callable, their constraints, the verdict |
| `FieldsInv`, `FieldsProofs` | properties and inductive invariant; proofs |
| `Scope` | the lookup table with its properties |
| `Access` | paths into prepared data: `find`, `keys`, `count` |
| `Expression` | EXTENDS `Access`, `Scope`: tokens, postfix, evaluation |
| `Template` | EXTENDS `Expression`: the directives and the traversal of a view |
| `Views`, `ViewsInv` | a callable that uses the table, evaluates and renders; what all that means |
| `ScopeProofs`, `ViewsProofs` | lemmas about table, data, environments, lists and expressions; proofs about documents and views |
| `MC*` | small instances for TLC |

Definitions named `...Early`, `...Never` and the like, introduced by "Mutated:", are broken
variants of the definition that follows them. The specifications do not use them: each shows that
a property can tell the code from a plausible bug in it.

### Activities

A thread of the io_context carries a *stack of frames*: completing an activity walks the slots of
its signal (`result::completed`, `cancel`), a slot enters the combinator of a dependent, and that
may start or skip the dependent in the same call. `Complete`, `Enter`, `Decrement`, `Test`,
`Invoke`/`Skip`/`Join`, `Leave` and `Return` are the steps of activities.h:690-807. The decrement
(793) and the test (794) of the counter are two actions, because they are two accesses to an
atomic. `Start` is `start::operator()`; `Suspend` and `Resume` are an activity's own asynchronous
operations.

Abstractions: the data of a result are its three flags; predicates answer arbitrarily; the order
of the slots of a signal, which is the order of the application's `done()` and `after()` calls, is
left open. Each activity has a result type of its own, hence a slot of its own in the collector.
Activities and predicates do not throw.

### Analyzer

Operators on what the collector holds for one subtask: `Exists` ... `IsOkay` are `accessor`,
`Apply` with the `On*` are `analyzer::apply()`. `AnalyzerTells` compares them with what became of
the subtask in the graph, when the final callback runs. A callback may be absent; a set of them is
a parameter.

### Watcher

What happens under the mutex is one action; `expired()`, which releases and takes it three times
(watcher.h:117-157), is three: `Check`, `TakeFront`, `Rearm`. `Insert` reads the clock before it
takes the lock, so it is apart from `Enqueue`. Time is what is left until an expiry; `Tick`
advances it. Callbacks may insert and notify from within a release. `front()` of an empty list is
undefined behaviour: the model stops there (`undefined`).

Left out: the destructor, and changes of local time (the code reads `local_time`, which jumps with
daylight saving). A callback that inserts the copy of the watch it was called on is rejected
(watcher.h:98-103), so that changes nothing and is no action.

### Sessions

What a storage does under the lock of a table is one action. `set()` is then up to five:
`TestIssued`, `TestPresent`, `Insert` or `Update` (two on disk: `Retrieve`, `Write`), a second
update of the master record, `Reissue`. `Identify`, `Issue`, `Respond` and the cookie model a
request from the cookie it came with to the one it leaves with. An exception becomes an error
response without the cookie (`Throw`). `Crash` empties the memory storage; on disk it tears the
files that were open for writing.

Left out: time stamps, the text and attributes of cookies, `size()`, and `store::insert()` and
`master::update()`, which nothing calls. Generated ids are never equal.

### Router, Connection

A callable is the sequence of its calls on the context (`AskStatus`, `Reroute`, `Respond`, `Hold`)
until it returns or throws. `OnRead`, `Serve`, `Served`, `Cleared` are the loop of
connection.h:132-160 over `router.serve()` and the alternative paths; `Return` is `resolve()` with
`patch()`; `JobResponds` and `JobDrops` are the jobs of deferred callables, on any thread at any
time. Two reads or writes at a time on one socket are undefined, and the model stops.

`Polite = TRUE` supposes that a callable disposes of a request once: that it does not respond,
reroute or pass its context on twice, in any combination. A callable that reroutes and then
throws, for one, is answered twice by the code. `ReturnsItsStatus` is proved without it.

Abstractions: a pattern is the set of subjects it matches, captures are a function; one level of
applications; no `reroute("")`; raw responses with a status of their own, which `patch()`
overwrites, are left out; a request that cannot be parsed but brought bytes is served like any
other (as in the code); errors of `async_write` are ignored (as in the code); `respond()` that
throws, because the client has gone, is a callable or a job that throws. The accept loop is left
out, hence one connection: connections share only the router, which does not change.

### Client

`Attempts` numbers the request and those that follow its redirects. The handlers of an attempt are
`OnResolve` ... `OnShutdown`, for http and https. `success()` is `Deliver`, or `Redirect` (start the
next attempt) and `HandOn` (give it the callbacks) apart, since on several threads the next attempt
may proceed in between, or `Unparsable`: `url::parse()` throws for the location, and the attempt
ends with nobody told. The client does not count redirects. `Attempts` bounds how many attempts are
looked at, and forbids none: `Redirect` has no guard about it, the attempt behind those `Handled` is
started like the others, and nothing more is said of it. `alone`, chosen in `Init`, says that one
thread runs the io_context and made the request. Without it handlers race with the caller that
attaches callbacks and options: a data race, so the model stops (`undefined`). It stops as well when
a callback made by `fetch()` or `body()` uses the first attempt after that was destroyed.

Left out: texts, and `http_version`, which http reads in `start()` before an option can have been
set. Requests are independent of each other, so there is one.

### Forms

A body is a sequence of characters; a name, a header or the boundary is one character of it, so
that the searches of `forms.h` and `util.h` keep their order and their ends while the bodies stay
short. An iterator is a position. A driver ends up as `read`, as `throws`, or as `undefined` where
it reads past the end. `Number` and `Moment` are tables for `lexical_cast` and `get_time` (library
code).

`Extract`, `ReadAndAdd`, `Accumulate`, `AddError`, `Constrain` and `Reword` are what a callable
does with the field objects it has declared (`Init`), in any order. `Constrain` makes a copy, as
`constrain()` does: what is done to the copy is not done to the original. Constraints added after
a field was fetched have not judged it; the history variables `source`, `ran` and `through`
remember from which form, by how many constraints, and through which verdict a field went. The
properties are about those.

What a browser sends (`FieldsInv`) is said without the drivers: a body is `AsSent` if pairs of a
name and a text, of any number and length, determine where each of them lies in it
(`UrlencodedAt`, `MultipartAt`). A name has no character that would end it; the head of a part
may have more parameters after the name, and more lines. `SeesWhatWasSent` compares a field with
the first pair of its name: what the field must hold is the text, or the trimmed text of a part
(`Seen`). `RequestsAssumption` says that the requests that claim to come from a browser are like
this; the run adds bodies that do not, about which only the other invariants speak.

Left out: how a number or a time is formatted back, user-written predicates (they are one more
comparison), files (a part with a file name is read like any other, as in the code).

### Views

A path is a sequence of steps, a name with indices. The data of a callable is a sequence of
objects, each a sequence of members in the order `find()` visits them. The level of the table is a
number modulo `Levels`, the width of its type. Expressions start at the words of `tokenize()`,
whose characters are single words where the code looks at single characters; documents are trees,
as pugixml gives them. `wild` says that a caller has left the discipline of `down()`, `add()` and
`up()`: it has gone up from the outermost level or down past the last one, cleared a depth, or
declared an alias for another depth than its own. The code does not defend against that; such
steps are in the model, but scopes are not restored after them. `Largest` bounds the numbers of
expressions.

A view leaves its aliases in the table it was given. An exception is the outcome `throws` or
`out_of_range`; an uninitialised result is `undefined`. After one the table may be a level down, so
the caller has lost its scopes (`wild`); it has as well after a view whose nesting could make the
level wrap.

What is recursive in the code is written as functions, so that it can be proved about. Data and
paths: what the first `k` steps of a path find (`Finding`, `Passing`). Expressions: the stacks
behind the first `k` tokens (`Shunting`, `Running`). Documents: `parse()` is one function of table
and node (`Parsing`). `Node`, `Object` and `Tree` are the sets of the nodes, objects and trees of
an instance, closed under what they hold; `Height` and `Depth` say of a node and of a tree how deep
it is, so that documents and trees are finite (`NodeAssumption`, `ExpressionsAssumption`). Data
needs no such measure, since only paths are walked. `ViewsAssumption` says what `dict()` can
declare: indices and keys of a collection differ, and a collection that is iterated over is named
without an index.

`ViewsInv` says what all this means, without tokens, stack, level or iterators. A tree has a
`Meaning`. A document has one in an *environment*, which tells what each name stands for and knows
no depth (`Means`): a block or a round of a loop leaves no trace in it, a condition and an element
do. The attributes of an element are those that stay, in their order, and behind them those that
are appended; a class goes to the first class there is when it is processed (`Receiver`).

Left out: the layout of the printed xml, comments and processing instructions in it.

## 3. The runs

| run | instance | what it shows |
|---|---|---|
| `activities_diamond` | 5 subtasks, a join inside and one at the end, one optional subtask, every predicate, 1 thread | no subtask overtakes its dependencies, is started twice or skipped without reason; the analyzer tells what happened; the graph implements `TaskGraph` with fairness, so that the final callback comes |
| `activities_threads` | a fork that joins only in the final callback, 2 threads | the inductive invariant; the final callback comes, once or twice, and sees every outcome; no start is lost; the nested mutexes do not block |
| `activities_race` | an inner join, 2 threads | *violated*: finding 1 |
| `watcher_one` | 2 watches, 3 calls, duration 2, 1 thread | the list is sorted, the timer covers it, `front()` is there |
| `watcher_threads` | the same, 2 threads | no watch released twice or left without a wake-up; every one is released |
| `sessions_threads` | 2 clients, 3 values, 2 ids, 3 requests, 2 threads, 1 crash, both storages | isolation, effects of operations, life and death of sessions |
| `connection` | 3 requests, 8 paths, 4 callables (composed, deferred, in an application), 2 methods | one answer for each request, in order, with its status; contexts stay valid; it implements `Exchange` |
| `connection_status` | 1 request | *violated*: finding 2 |
| `client` | a request and 2 redirects that are followed, a third that is not; http and https, every error, locations that throw | one verdict, options hold, no missed callback; an end is told unless redirects go on or a location throws |
| `forms` | 2 forms, 3 field objects, 5 declarations of them, 3 calls; requests as browsers send them and malformed ones | fields hold what was sent first, messages and verdict are right, nothing is fetched twice |
| `forms_multipart` | the same, a multipart body behind `ctx.form()` | *violated*: finding 3 |
| `views` | 3 groups of data, a table of 8 levels used 3 times, trees of up to two operators over three choices of operands, 7 pages with every directive | scopes, meaning of expressions, agreement of `find`, `keys` and `count`, meaning of views |

Why the bounds are enough. A combinator reacts to the *last* of its reports: two dependencies and
a subtask behind them show every order of success, failure and cancelation, and the diamond has an
inner join, a chain and a final join. With a second thread, the fork has every order of two
threads between the decrement, the test and the lock of one combinator, the final one, and two
threads inside mutexes that nest. The watcher's timer concerns the front and what is behind
it: two watches, and three calls so that one may be entered twice or come from a callback. Two ids
let a client lose a session and be given another while an old cookie circulates; three requests
let a third interfere with two that overlap. Three requests on a connection have a first, a middle
and a last one; the reroutes go two deep (composed to deferred to application). Two redirects are
the least for options to be carried twice. Two forms and three calls let a field be copied between
two reads or read from a second form before it is judged. Two operators show every pair of
precedences, on either side and in parentheses; the pages nest each directive in each kind of
scope. The proofs remove the bounds from most safety properties.

Bounds in the specifications: `Calls` (Watcher), `Ids`, `Requests`, `Crashes` (Sessions),
`Requests` (Connection), `Attempts` (Client), `Calls` (Fields), `Uses`, `Largest` (Views).
`SizeMax` is the width of `std::size_t`: the counter of a combinator wraps there; `Levels` is that
of the level of a table, narrower than in the code; a caller who goes up from the outermost scope
makes it wrap. Deadlock is
checked for the graph, the watcher, the forms and the views; the others end when all requests have
been made or the request is over.

### Fairness

* Activities: `WF` on the next step of each thread. A thread in `io.run()` goes on; asynchronous
  operations complete. Waiting for a mutex is not progress, so a deadlock would show.
* Watcher: `WF` on the steps of threads, on a completed wait being run, and on time.
* Connection: `WF` on the strand, on the completion of a write, and on a job answering or letting
  go. None on the client sending requests.
* Client: `WF` on the caller attaching what it attaches and on each attempt. The client has no
  timeout: that a silent server in the end answers or closes is an assumption about the network.
  Nothing is assumed about what it answers: `VerdictEventually` promises an end only to a request
  that is not redirected beyond the bound (`RedirectsOn`) and whose locations can be parsed. Without
  either exception TLC finds a request whose caller is never told its end.
* Fields and Views: none. A callable does what it likes, nothing has to happen.

## 4. What is proved

All proofs are for every value of the constants that satisfies the named assumptions
(`GraphAssumption`, `WorkerAssumption`, `WatcherAssumption`, `SessionAssumption`,
`ConnectionAssumption`, `ClientAssumption`, `FieldsAssumption`, `RequestsAssumption`,
`ScopeAssumption`, `NodeAssumption`, `ViewsAssumption`, `ExpressionsAssumption`): any acyclic or
cyclic graph, any number of threads, watches, clients, requests, redirects, fields, constraints and
aliases, bodies of any length, documents of any depth.

* **Activities on any number of threads** (`InnerUndisputed`). Finding 1 makes the join wrong
  where two threads may be between the decrement and the test of one counter. A combinator is
  *undisputed* if that cannot be: one thread runs the io_context, or one subtask reports to it.
  The theorems suppose it of every combinator but the final one, hence they are about every graph
  on one thread, and about every graph that joins only in the end on any number of threads
  (`SafeUses`); `activities_race` shows that they are false of the others. The final combinator
  may be disputed: its callback may then come twice (`StartsOnce` alone excludes that), and
  everything else holds.
  `IInv` ties the three ways the code represents a report to each other. The counter of a
  combinator is the number of dependencies whose report is in no slot list and not past the
  decrement (`CounterIsWaiting`); a mark was reported (`MarksAreReported`); the mutex of a
  combinator is held by the thread with the frame inside it, of which there is one (`MutexOK`);
  below it in the stack each frame holds the mutex of the subtask whose frame lies on top
  (`Nested`), and no result has two frames, in whatever threads (`Distinct`). `StartedAfterAll`
  and `StartsAreDue` are the two halves of a start: what was started had no report outstanding,
  and what has none outstanding was started or has a frame about to do it. From these follow
  `Joins`, `Skips`, `FinalData`, and `NoStartIsLost`: when nothing is left to do, no frame is
  left that owes a start. `LocksAreFree`: the frame that waits at a mutex has a target nobody
  has touched, or the final callback, so the chain of threads waiting for each other has one
  link. `AnalyzerIsRight` adds what accessor and analyzer answer when the final callback runs.
  `Refinement` maps the state to `TaskGraph` and each step to one step or a stutter; the second
  call of a final callback is a stutter.
* **Watcher on any number of threads**: `IInv` says that a node is in the list, in the hands of
  one frame, or released once, and that a wait is pending while the list is not empty or a frame
  will arm one. `CallsCover` counts the calls in progress, so that nodes never run out. On one
  thread `OneThreadInv` adds that the list is sorted, the timer covers all of it, and the test of
  `expired()` still holds at its `front()`.
* **Sessions on any number of threads, with crashes**: `FramesFit` says what a thread knows at
  each place of an operation; `Unborn`, that ids not generated are nowhere; `Isolation`, that
  every trace of an id is of its owner (removed sessions leave values behind: they need the owner,
  not the record); `Progresses`, what part of an undisturbed operation is done. From `IInv` follow
  the invariants and the action property `DeadStaysDead`.
* **Connection**: `IInv` is `TypeOK` and `Accounted`: where the strand stands determines what has
  become of the request: `Owed`, `Done`, `Taken` by a job, or at rest (`Stands`). From it follow
  the order of answers, the exclusion of reads and writes, and, with the mapping of
  `ConnectionInv`, the refinement to `Exchange`. `StatusInv` (a status never outlives the route of
  its callable) is proved apart, for all callables.
* **Client**: `Chain` (only the last attempt may wait), `Attachments` (the callbacks of an attempt
  are there when its predecessor has handed them on; its options are those of the first),
  `Verified` (the certificate was checked as the options ask before anything is written),
  `Tellers` (a verdict comes from the last attempt). `OneVerdict` needs `Chain` and `Tellers`,
  `AsAsked` needs `Attachments` and `Verified`.
* **Fields**: `FieldOK` says that a fetched field holds what the form it was fetched from gave,
  judged by the constraints it was validated with, and that its message explains it; `VerdictOK`,
  that a field behind the verdict was judged by its whole chain, and that the verdict and the
  errors know of it. `FirstFailureExplains`, `VerdictHolds` and `FetchedOnce` follow. Neither is
  inductive alone: a constraint made later must not change what a message explains, hence `ran`.
* **Bodies**: `BodiesAreRead` states `SeesWhatWasSent`. By `FormsAreRead` (in `IInv`) a form is
  what its driver made of the request, so the theorem is about the drivers. The places `at` of the
  pairs ascend (`Growing`), hence they are all the places where the urlencoded driver finds a
  pair, or the multipart driver a boundary, and no others. In each piece every search of the code
  ends where what it looks for was put: at the first `=` and the next `&`; at the empty line after
  the head (`HeadEnds`), at the quotes of the name (`NameIsTold`). What is looked up in the
  entries so made is the first one of a name (`EntriesDeliver`). Where induction would be used the
  proofs take a least counterexample (`MinExists`).
* **Scopes**: `ScopesOK` (no alias is deeper than the level, and the table at the entry of each
  scope was what is now declared outside of it) is inductive, and with it a scope that is left
  restores the table (`ScopesRestored`). Both hold as long as the caller keeps the discipline and
  the level has not wrapped, with views rendered in between: of a view it needs that the table it
  leaves is `Within` reach of the one it was given, at the same level.
* **Data**: `CountsKept`. For a path in sight the walk of `count()` and `keys()` comes to the
  member that the walk of `find()` comes to, step by step; an index behind it is then found if and
  only if the member has it, and what `keys()` tells are all of them, each once.
* **Views**: `ViewsKept`, and from it `ScopesLeft` and `ViewsRendered`. That the recursive
  functions exist is proved first: `Parsing` and `Means` by a least height for which they would not
  (`ParsingIs`, `MeansIs`), those over sequences by a least length. Then `Keeps` relates what a
  piece of a view does to what it means: it ends at the level it was given, the environment of its
  table is the one the piece means, and its output too; however it ends, no alias is lost. `Keeps` holds of
  what `travarse()`, a round, all rounds and each directive make, if it holds of the nodes inside
  (`TravarseKeeps` and the lemmas behind it), hence of every node: a node of least height for which
  it fails has only children for which it holds. The table of a scope differs from that of an
  environment in its depths only, and neither lookups nor expressions see depths (`SameLookup`,
  `SameValue`); this is where the level has to stay below the wrap (`Shallow`).
* **Attributes**: the loop of parser.h:395-413 over a list that directives change. `Midway` is its
  invariant: after `k` attributes the list is what stayed of them, then what is still to come,
  then what was appended (`Laid`), each as far as its classes have been received (`Present`). Each
  directive takes it from `k - 1` to `k` (`MidwayTarget`, `MidwayEval`, `MidwayClass` and others),
  and an appended attribute, to which the loop comes as well, changes nothing. It follows that no
  attribute is missed or processed twice (`AttributesMean`).

* **Expressions**: `ExpressionsEvaluated`. That words and values of all trees exist is proved as for
  documents (`InfixIs`, `ValueIs`). The claim about a tree is made for its words anywhere in an
  expression (`Works`): if what is on top of the stack of `rpn()` binds less than the tree (`Fits`)
  and the output so far leaves `evaluate()` with a stack, then behind these words the stack of
  `rpn()` is what it was with operators above it that bind at least as much as the tree (`Under`,
  `Above`), and once they are popped (`Drained`) `evaluate()` has the value of the tree on top of
  its stack. It holds of a word, of a call and of parentheses around a tree of which it holds, and
  of an operator between two such trees: the operator pops what is `Above` the stack and nothing
  below, since the left operand binds at least as much as it and what is below less
  (`OperatorIs`); what comes behind cannot separate it from its right operand, which binds more
  (`Bound`). Hence it holds of every tree (`TreesWork`). That two words become one operator and no
  others do is `WordRead` and `OpRead`: a word of a tree is no part of an operator, so the tokens
  are those meant. The operand a junction does not come to needs no value, as in `Meaning`, if it
  is a word: it is on the stack all the same. The tree of an expression has no `!=`, which
  `tokenize()` never makes, and the theorem says nothing of trees without a value.

Only model-checked: liveness and everything that needs ENABLED, which the prover does not handle,
and the fairness half of the refinement to `TaskGraph`.

## 5. Where code and documentation disagree

1. `activities_race` (activities.h:793): two threads that report to one combinator both find its
   counter at zero and start the next subtask twice; its second completion is counted for a
   subtask that has not completed.
2. `connection_status` (context.h:309): a status given to `respond()` is lost; the response is
   200.
3. `forms_multipart` (forms.h:523): the fields of a multipart body are not there for `ctx.form()`,
   whose driver reads the body and does not record of what type it was.

Seen while modelling, without a run of their own:

* activities: the final callback is not called "immediately" when a required subtask fails, but
  when all its dependencies have reported (activities.h:884, 794); `if_errored` is consulted also
  for a result that failed or never ran (722; the comment at 907 says otherwise).
* analyzer: a canceled callback is called whatever other callbacks are set (activities.h:525-528),
  documented is "if there is no error callback" (573-577); then neither the error callback nor the
  failure callback is called, although the conditions documented for them hold (582-588, 593-599).
  A skipped subtask has no data, so `apply()` calls nothing for it (233-239) and an analyzer returns
  the state of the time before: the incomplete callback is documented for it (562-568), and a
  callable given to `apply()` as "invoked exactly once", without arguments if incomplete (378-382).
  For the same reason `failed()` and `okay()` of the accessor are both true of it (184-203).
  `AnalyzerTells` states what the code does in all of these cases.
* watcher: the test of `insert()` for a queued watch sees a copy (watcher.h:97-101).
* cache: the memory storage keeps an old value when a session is removed and the value set again
  (cache.h:168, 726); `get()` with a default throws for an issued session without the value (695).
* connection: a reroute to a path that no rule matches is served for ever (connection.h:149); the
  prefix of an application is matched on the decoded subject and cut from the undecoded one
  (application.h:215-224).
* client: redirects are followed without limit (client.h:130-134), so that a server which redirects
  to itself keeps a request going for ever; a location that cannot be parsed, whose port is no
  number for instance (url.h:166, `std::stoul`), makes `success()` throw: neither `then()` nor
  `failed()` nor `finally()` is called, the connection is not shut down, and the exception leaves
  `io.run()`; a failing https shutdown calls `failed()` after `then()` (client.h:316); `finally()`
  is called when the first attempt ends, before a redirected one (91-155); `fetch()` and `body()`
  capture an attempt that a redirect outlives (173-182).
* forms: values are never url-decoded (forms.h:188-208); a field without `=` is not empty (194), an
  optional field sent as `name=` is malformed; a part without `Content-Disposition` throws (283) and
  one that lacks its line ends is searched past the end (384-403); `form_part::parsed()` ignores the
  format of a time (355); a quoted name with a `;` is cut at it (294); `submitted` ignores fields
  without constraints (1053-1057); `add_error()` leaves the form valid (1069).
* expressions: a decimal such as `0.5` is a real token (parser.h:69-72) that `fetch<int>` makes 0
  (283), where the model has a name without a value; `!=` is never made a token (183), `%` becomes
  part of a name, `&&` and `||` have one precedence (163), `not x` without parentheses is not a
  call, a unary minus takes from an empty stack (305-306), `max`, `min`, `avg` and missing keys
  leave the result uninitialised (341-352).
* views: an attribute `udho:target` or `udho:eval` with no name behind it throws in `substr`
  (parser.h:763, 844), which is not in the model; `add-class` adds nothing to an element without a
  class (parser.h:899-908; the comment at 870-879 shows one); `udho:if` opens no scope; an exception
  between `down()` and `up()` leaves the level (472-474); a second `process()` appends to the first
  (377-380); `add()` does not shadow (scope.h:118); `keys()` and `count()` do not resolve aliases
  (146-151), stop at the first nested member of a dotted path (access.h:525-569), and throw for a
  group whose object has a list.

## 6. Not modelled, and the plan

In the order in which the modules were and will be written:

1. `Activities`, `TaskGraph`, `Analyzer`: done and proved. Open: exceptions of activities
   (activities.h:795 would leave the mutex locked).
2. `Watcher`: done and proved. Open: the destructor.
3. `Sessions`: done and proved. Open: time stamps, the text of cookies.
4. `Router`, `Connection`, `Exchange`: done and proved. Open: several connections behind the
   listener, nested applications, the double answer of router.h:732.
5. `Client`: done and proved. Open: its composition with `Connection`, as the job of a deferred
   callable that fetches before it responds (`examples/simple.cpp`).
6. `FormBody`, `Fields`: done; bodies, fields and verdict proved.
7. `Scope`, `Access`, `Expression`, `Template`, `Views`: done and proved.
8. Proofs: done for every safety property of the runs.

Not planned: server, attachment and configuration (references between the parts, which do not
change while serving; `render()` of the bridge is in `Views`), url.h and `urldecode` (text),
logging and pages (text), `folding.h` and `visitor.h` (types only), `termcolor.hpp` (third party).

## 7. Running

`tlc -config X.cfg M` checks a run of `PROJECT.json` (module `M`, configuration `X.cfg`), `tlapm
M.tla` a module of proofs. `expect: violation` marks the runs of section 5.
