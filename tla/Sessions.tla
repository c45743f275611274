------------------------------ MODULE Sessions ------------------------------
(***************************************************************************)
(* HTTP sessions of udho: session_ (session.h), cookies_ (cookie.h) and    *)
(* the cache::shadow they use (cache.h), on the memory and on the disk     *)
(* storage.                                                                *)
(*                                                                         *)
(* A store has one table for each type of value and the master table of    *)
(* the issued sessions, each with a mutex of its own.  What a storage does *)
(* under its mutex is one action; an operation of the shadow is several.   *)
(* Threads serve the requests of clients that keep the session cookie.     *)
(* Time stamps are left out.                                               *)
(***************************************************************************)
EXTENDS Naturals

CONSTANTS
  Client,     \* the visitors
  Worker,     \* the threads that call io.run()
  Type,       \* the types of value a session holds
  Value,      \* the values
  Author,     \* Author[v]: the client whose requests set v
  Ids,        \* bound: how many session ids are generated
  Requests,   \* bound: how many requests are made
  Crashes,    \* bound: how often the server is killed and started again
  Storages,   \* the storages to look at, of {"memory", "disk"}
  Master,     \* the master table
  Issued,     \* what the master table has for an issued session
  Absent,     \* no record
  Torn,       \* a file that was truncated and not completely written
  None        \* no session, no value

ASSUME SessionAssumption ==
  /\ Author \in [Value -> Client]
  /\ Ids \in Nat /\ Requests \in Nat /\ Crashes \in Nat
  /\ Storages \subseteq {"memory", "disk"}
  /\ Master \notin Type
  /\ Value \cap {Issued, Absent, Torn, None} = {}
  /\ Absent # Issued /\ Absent # Torn
  /\ None \notin Nat

VARIABLES
  storage,    \* the storage the server was built with
  stored,     \* stored[b][id]: the record of id in table b
  generated,  \* the ids generated so far are 1 .. generated
  owner,      \* owner[id]: the client id was generated for
  cookie,     \* cookie[c]: the session id in the cookie of client c
  requests,   \* requests made so far
  crashes,    \* crashes so far
  frame,      \* frame[t]: what thread t is doing
  disturbed,  \* the threads whose record another one wrote during their operation
  dropped     \* the sessions that were removed as a whole at least once

vars == <<storage, stored, generated, owner, cookie, requests, crashes, frame,
          disturbed, dropped>>

-----------------------------------------------------------------------------
Id == 1 .. Ids
Table == Type \cup {Master}

\* "identify", "issue": in session_::identify(); "handler": in the handler,
\* between two operations; "issued": set() and get() test the session;
\* "present": set() tests the value; "read": get() calls at(); "insert":
\* shadow::insert(); "update", "retrieve", "write": the sections of update();
\* "reissue": the end of insert(); "erase", "drop": remove<V>(), remove();
\* "returned": the operation has returned.
Place == {"idle", "identify", "issue", "handler", "issued", "present", "read",
          "insert", "update", "retrieve", "write", "reissue", "erase", "drop",
          "returned"}

Operation == {"none", "set", "get", "remove", "leave"}

Frame ==
  [at     : Place,
   client : Client \cup {None},
   id     : Id \cup {None},           \* session_::_id
   fresh  : BOOLEAN,                  \* the response has the cookie
   op     : Operation,
   table  : Table \cup {None},        \* the record the operation is about
   value  : Value \cup {None},
   target : Table \cup {None},        \* the record update() is at
   insert : BOOLEAN]                  \* update() was called by insert()

Rest == [at |-> "idle", client |-> None, id |-> None, fresh |-> FALSE, op |-> "none",
         table |-> None, value |-> None, target |-> None, insert |-> FALSE]

TypeOK ==
  /\ storage \in Storages
  /\ stored \in [Table -> [Id -> Value \cup {Issued, Absent, Torn}]]
  /\ generated \in 0 .. Ids
  /\ owner \in [Id -> Client \cup {None}]
  /\ cookie \in [Client -> Id \cup {None}]
  /\ requests \in 0 .. Requests
  /\ crashes \in 0 .. Crashes
  /\ frame \in [Worker -> Frame]
  /\ disturbed \subseteq Worker
  /\ dropped \subseteq Id

Init ==
  /\ storage \in Storages
  /\ stored = [b \in Table |-> [id \in Id |-> Absent]]
  /\ generated = 0
  /\ owner = [id \in Id |-> None]
  /\ cookie = [c \in Client |-> None]
  /\ requests = 0
  /\ crashes = 0
  /\ frame = [t \in Worker |-> Rest]
  /\ disturbed = {}
  /\ dropped = {}

-----------------------------------------------------------------------------
(* Threads and records *)

At(t, place) == frame[t].at = place

Exists(b, id) == stored[b][id] # Absent

\* The thread goes on with f, or at another place.
Turn(t, f) == frame' = [frame EXCEPT ![t] = f]
Go(t, place) == Turn(t, [frame[t] EXCEPT !.at = place])

\* The operation of t has returned; the next one starts undisturbed.
Begin(t, f) == Turn(t, f) /\ disturbed' = disturbed \ {t}

\* The threads other than t whose operation is about record id of table b.
Concerned(t, b, id) ==
  {u \in Worker \ {t} : frame[u].op # "none" /\ frame[u].table = b /\ frame[u].id = id}

\* The record becomes r.
Store(t, b, id, r) ==
  /\ stored' = [stored EXCEPT ![b][id] = r]
  /\ disturbed' = IF r = stored[b][id] THEN disturbed
                  ELSE disturbed \cup Concerned(t, b, id)

\* storage::create(): map::insert keeps a record that is there, an ofstream
\* replaces it.
Create(t, b, id, r) ==
  Store(t, b, id, IF storage = "memory" /\ Exists(b, id) THEN stored[b][id] ELSE r)

\* Mutated: the master record is given the value as well.
ContentOfAll(f) == f.value

\* What update() gives the record it is at.
Content(f) == IF f.target = Master THEN Issued ELSE f.value

-----------------------------------------------------------------------------
(* A request and the identification of its session *)

\* The context of a request is built: a cookie names the session.
Accept(t, c) ==
  /\ At(t, "idle")
  /\ requests < Requests
  /\ requests' = requests + 1
  /\ Turn(t, [Rest EXCEPT !.at = "identify", !.client = c, !.id = cookie[c]])
  /\ UNCHANGED <<storage, stored, generated, owner, cookie, crashes, disturbed, dropped>>

\* Mutated: the generator returns an id that no session has now.
GenerateUnissued(t) ==
  \E id \in Id :
    /\ ~Exists(Master, id)
    /\ generated' = IF id > generated THEN id ELSE generated
    /\ owner' = [owner EXCEPT ![id] = frame[t].client]
    /\ Turn(t, [frame[t] EXCEPT !.at = "issue", !.id = id, !.fresh = TRUE])

\* Mutated: identify() does not issue the session it has generated.
GenerateOnly(t) ==
  /\ generated < Ids
  /\ generated' = generated + 1
  /\ owner' = [owner EXCEPT ![generated + 1] = frame[t].client]
  /\ Turn(t, [frame[t] EXCEPT !.at = "handler", !.id = generated + 1, !.fresh = TRUE])

\* generator<uuid>::generate() returns an id of its own every time.
Generate(t) ==
  /\ generated < Ids
  /\ generated' = generated + 1
  /\ owner' = [owner EXCEPT ![generated + 1] = frame[t].client]
  /\ Turn(t, [frame[t] EXCEPT !.at = "issue", !.id = generated + 1, !.fresh = TRUE])

\* Mutated: the id of the cookie is taken even if it is not issued.
IdentifyTrusting(t) ==
  /\ At(t, "identify")
  /\ IF frame[t].id # None
       THEN /\ Turn(t, [frame[t] EXCEPT !.at =
                           IF Exists(Master, frame[t].id) THEN "handler" ELSE "issue"])
            /\ UNCHANGED <<generated, owner>>
       ELSE Generate(t)
  /\ UNCHANGED <<storage, stored, cookie, requests, crashes, disturbed, dropped>>

\* identify(): a session that is issued is a returning one.
Identify(t) ==
  /\ At(t, "identify")
  /\ IF frame[t].id # None /\ Exists(Master, frame[t].id)
       THEN Go(t, "handler") /\ UNCHANGED <<generated, owner>>
       ELSE Generate(t)
  /\ UNCHANGED <<storage, stored, cookie, requests, crashes, disturbed, dropped>>

\* master::issue(), called by identify() or by insert().
Issue(t) ==
  /\ At(t, "issue")
  /\ Create(t, Master, frame[t].id, Issued)
  /\ Go(t, IF frame[t].op = "none" THEN "handler" ELSE "returned")
  /\ UNCHANGED <<storage, generated, owner, cookie, requests, crashes, dropped>>

\* The handler returns, and the response brings the client its cookie.
Respond(t) ==
  /\ At(t, "handler")
  /\ cookie' = IF frame[t].fresh THEN [cookie EXCEPT ![frame[t].client] = frame[t].id]
               ELSE cookie
  /\ Begin(t, Rest)
  /\ UNCHANGED <<storage, stored, generated, owner, requests, crashes, dropped>>

\* An exception of the storage leaves the handler: the response of the
\* router has no cookie.
Throw(t) ==
  /\ Begin(t, Rest)
  /\ UNCHANGED stored

-----------------------------------------------------------------------------
(* The operations of a handler on its session *)

Call(t, op, table, value, place) ==
  /\ At(t, "handler")
  /\ Begin(t, [frame[t] EXCEPT !.at = place, !.op = op, !.table = table, !.value = value])
  /\ UNCHANGED <<storage, stored, generated, owner, cookie, requests, crashes, dropped>>

Set(t, b, v) == Author[v] = frame[t].client /\ Call(t, "set", b, v, "issued")
Get(t, b) == Call(t, "get", b, None, "issued")
Remove(t, b) == Call(t, "remove", b, None, "erase")
Leave(t) == Call(t, "leave", Master, None, "drop")

Unchanged == UNCHANGED <<storage, generated, owner, cookie, requests, crashes>>

\* shadow::get() and shadow::exists(): is the session issued?
TestIssued(t) ==
  /\ At(t, "issued")
  /\ Go(t, IF frame[t].op = "set"
             THEN IF Exists(Master, frame[t].id) THEN "present" ELSE "insert"
             ELSE IF Exists(Master, frame[t].id) THEN "read" ELSE "returned")
  /\ UNCHANGED <<stored, disturbed, dropped>> /\ Unchanged

\* shadow::get() calls at(), which throws when there is nothing to read.
Read(t) ==
  /\ At(t, "read")
  /\ IF stored[frame[t].table][frame[t].id] \in {Absent, Torn}
       THEN Throw(t)
       ELSE Go(t, "returned") /\ UNCHANGED <<stored, disturbed>>
  /\ UNCHANGED dropped /\ Unchanged

\* flake::exists() in shadow::set().
TestPresent(t) ==
  /\ At(t, "present")
  /\ Turn(t, [frame[t] EXCEPT
       !.at = IF Exists(frame[t].table, frame[t].id) THEN "update" ELSE "insert",
       !.target = frame[t].table])
  /\ UNCHANGED <<stored, disturbed, dropped>> /\ Unchanged

\* Mutated: insert() does not write the value into a table that has none.
InsertNothing(t) ==
  /\ At(t, "insert")
  /\ Turn(t, [frame[t] EXCEPT !.at = "update", !.target = Master, !.insert = TRUE])
  /\ UNCHANGED <<stored, disturbed, dropped>> /\ Unchanged

\* flake::insert() in shadow::insert().
Insert(t) ==
  /\ At(t, "insert")
  /\ Create(t, frame[t].table, frame[t].id, frame[t].value)
  /\ Turn(t, [frame[t] EXCEPT !.at = "update", !.target = Master, !.insert = TRUE])
  /\ UNCHANGED dropped /\ Unchanged

\* What follows an update: set() goes on with the master record, insert()
\* issues the session, remove<V>() returns.
Updated(t) ==
  LET f == frame[t] IN
  Turn(t, [f EXCEPT
    !.at = CASE f.target # Master -> "update"
             [] f.target = Master /\ f.insert -> "reissue"
             [] OTHER -> "returned",
    !.target = IF f.target = Master THEN None ELSE Master,
    !.insert = FALSE])

\* memory::update() finds and changes a record under one lock; disk::update()
\* only tests for it.
Update(t) ==
  /\ At(t, "update")
  /\ LET b == frame[t].target
         id == frame[t].id IN
     \/ storage = "memory" /\ Exists(b, id) /\ Store(t, b, id, Content(frame[t])) /\ Updated(t)
     \/ ~Exists(b, id) /\ Updated(t) /\ UNCHANGED <<stored, disturbed>>
     \/ storage = "disk" /\ Exists(b, id) /\ Go(t, "retrieve") /\ UNCHANGED <<stored, disturbed>>
  /\ UNCHANGED dropped /\ Unchanged

\* disk::update() loads the record it has found ...
Retrieve(t) ==
  /\ At(t, "retrieve")
  /\ IF stored[frame[t].target][frame[t].id] \in {Absent, Torn}
       THEN Throw(t)
       ELSE Go(t, "write") /\ UNCHANGED <<stored, disturbed>>
  /\ UNCHANGED dropped /\ Unchanged

\* ... and writes the file anew.
Write(t) ==
  /\ At(t, "write")
  /\ Store(t, frame[t].target, frame[t].id, Content(frame[t]))
  /\ Updated(t)
  /\ UNCHANGED dropped /\ Unchanged

\* The end of insert(): a session that is not issued is issued.
Reissue(t) ==
  /\ At(t, "reissue")
  /\ Go(t, IF Exists(Master, frame[t].id) THEN "returned" ELSE "issue")
  /\ UNCHANGED <<stored, disturbed, dropped>> /\ Unchanged

\* shadow::remove<V>(): the value, and when there was one the master record.
Erase(t) ==
  /\ At(t, "erase")
  /\ IF Exists(frame[t].table, frame[t].id)
       THEN Turn(t, [frame[t] EXCEPT !.at = "update", !.target = Master])
       ELSE Go(t, "returned")
  /\ Store(t, frame[t].table, frame[t].id, Absent)
  /\ UNCHANGED dropped /\ Unchanged

\* shadow::remove() removes the master record: the values stay.
Drop(t) ==
  /\ At(t, "drop")
  /\ Store(t, Master, frame[t].id, Absent)
  /\ dropped' = dropped \cup {frame[t].id}
  /\ Go(t, "returned")
  /\ Unchanged

Return(t) ==
  /\ At(t, "returned")
  /\ Begin(t, [frame[t] EXCEPT !.at = "handler", !.op = "none", !.table = None, !.value = None])
  /\ UNCHANGED <<stored, dropped>> /\ Unchanged

-----------------------------------------------------------------------------
(* The server is killed and started again *)

\* The file a thread is writing.
Written(t) == <<IF At(t, "write") THEN frame[t].target
                ELSE IF At(t, "insert") THEN frame[t].table ELSE Master, frame[t].id>>

\* The memory is lost; on disk a file that was being written may be torn, one
\* of each table at most.
Crash ==
  /\ crashes < Crashes
  /\ crashes' = crashes + 1
  /\ frame' = [t \in Worker |-> Rest]
  /\ disturbed' = {}
  /\ \/ storage = "memory" /\ stored' = [b \in Table |-> [id \in Id |-> Absent]]
     \/ /\ storage = "disk"
        /\ \E W \in SUBSET {t \in Worker : frame[t].at \in {"issue", "insert", "write"}} :
             /\ \A t, u \in W : Written(t)[1] = Written(u)[1] => t = u
             /\ stored' = [b \in Table |-> [id \in Id |->
                             IF \E t \in W : Written(t) = <<b, id>> THEN Torn ELSE stored[b][id]]]
  /\ UNCHANGED <<storage, generated, owner, cookie, requests, dropped>>

Operate(t) ==
  \/ \E b \in Type : Get(t, b) \/ Remove(t, b) \/ \E v \in Value : Set(t, b, v)
  \/ Leave(t)
  \/ TestIssued(t) \/ Read(t) \/ TestPresent(t) \/ Insert(t)
  \/ Update(t) \/ Retrieve(t) \/ Write(t) \/ Reissue(t)
  \/ Erase(t) \/ Drop(t) \/ Return(t)

Serve(t) ==
  \/ \E c \in Client : Accept(t, c)
  \/ Identify(t) \/ Issue(t) \/ Operate(t) \/ Respond(t)

Next == (\E t \in Worker : Serve(t)) \/ Crash

Spec == Init /\ [][Next]_vars

-----------------------------------------------------------------------------
(* Properties *)

\* A session belongs to one client: its cookie, the requests that use it and
\* the values it holds are of the client it was generated for, although
\* remove() leaves the values behind.
Isolation ==
  /\ \A c \in Client : cookie[c] # None => owner[cookie[c]] = c
  /\ \A t \in Worker : frame[t].id # None => owner[frame[t].id] = frame[t].client
  /\ \A b \in Type, id \in Id : stored[b][id] \in Value => Author[stored[b][id]] = owner[id]

Returned(t, op) == At(t, "returned") /\ frame[t].op = op

\* What the record of the operation of t is now.
Outcome(t) == stored[frame[t].table][frame[t].id]

\* A set() that has returned has its value in the table, a remove() has left
\* nothing, unless another thread wrote the same record meanwhile.  A session
\* in memory that was removed as a whole is left out: memory::create() keeps the
\* value that is still there.
TakesEffect ==
  \A t \in Worker \ disturbed :
    /\ Returned(t, "set") /\ (storage = "disk" \/ frame[t].id \notin dropped) =>
         Outcome(t) = frame[t].value
    /\ Returned(t, "remove") \/ Returned(t, "leave") => Outcome(t) = Absent

\* The session a handler or a cookie names is issued, unless it was removed or
\* the server has lost its memory.
SessionsLast ==
  \A id \in Id \ dropped :
    \/ Exists(Master, id)
    \/ /\ \A t \in Worker : frame[t].id = id => frame[t].at \in {"identify", "issue"}
       /\ \A c \in Client : cookie[c] = id => storage = "memory" /\ crashes > 0

\* A session that is not issued and that no handler uses.
Dead(id) ==
  /\ id <= generated
  /\ ~Exists(Master, id)
  /\ \A t \in Worker : frame[t].id = id => At(t, "identify")

\* Such a session never comes back, whatever cookie a client presents.
DeadStaysDead == [][\A id \in Id : Dead(id) => Dead(id)']_vars
=============================================================================
