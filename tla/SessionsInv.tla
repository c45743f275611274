---------------------------- MODULE SessionsInv ----------------------------
(***************************************************************************)
(* The inductive invariant behind the properties of Sessions, for any      *)
(* number of threads and on both storages.                                 *)
(***************************************************************************)
EXTENDS Sessions

\* The thread is at a step of an update.
Updating(f) == f.at \in {"update", "retrieve", "write"}

\* What a place says of the operation in progress.
Fits(f) ==
  /\ f.at = "idle" => f.id = None
  /\ f.at # "idle" => f.client \in Client
  /\ f.at \notin {"idle", "identify"} => f.id # None
  /\ f.at \in {"idle", "identify", "handler"} => f.op = "none"
  /\ f.at = "issue" => f.op \in {"none", "set"}
  /\ f.at = "issued" => f.op \in {"set", "get"}
  /\ f.at \in {"present", "insert", "reissue"} => f.op = "set"
  /\ f.at = "read" => f.op = "get"
  /\ f.at = "erase" => f.op = "remove"
  /\ f.at = "drop" => f.op = "leave"
  /\ Updating(f) => \/ f.op \in {"set", "remove"} /\ f.target = Master
                    \/ f.op = "set" /\ f.target = f.table
  /\ f.insert => Updating(f) /\ f.op = "set"
  /\ f.op \in {"set", "get", "remove"} => f.table \in Type
  /\ f.op = "leave" => f.table = Master
  /\ f.op = "set" => f.value \in Value /\ Author[f.value] = f.client

FramesFit == \A t \in Worker : Fits(frame[t])

\* An id that was not generated is nowhere.
Unborn ==
  /\ \A c \in Client : cookie[c] # None => cookie[c] <= generated
  /\ \A t \in Worker : frame[t].id # None => frame[t].id <= generated
  /\ \A b \in Table, id \in Id : Exists(b, id) => id <= generated

\* The part of the operation that is about its own record is over.
Past(t) ==
  \/ Updating(frame[t]) /\ frame[t].target = Master
  \/ frame[t].at \in {"reissue", "issue", "returned"}

\* How far an operation has come that nobody disturbs.
Progress(t) ==
  LET f == frame[t] IN
  /\ Updating(f) /\ f.target # Master => Outcome(t) # Absent
  /\ f.at = "insert" /\ storage = "memory" /\ f.id \notin dropped => Outcome(t) = Absent
  /\ f.op = "set" /\ Past(t) /\ (storage = "disk" \/ f.id \notin dropped) =>
       Outcome(t) = f.value
  /\ f.op = "remove" /\ Past(t) => Outcome(t) = Absent
  /\ f.op = "leave" /\ f.at = "returned" => Outcome(t) = Absent

Progresses == \A t \in Worker \ disturbed : Progress(t)

\* The inductive invariant of the operations of a session.
IInv ==
  /\ TypeOK
  /\ FramesFit
  /\ Unborn
  /\ Isolation
  /\ SessionsLast
  /\ Progresses
=============================================================================
