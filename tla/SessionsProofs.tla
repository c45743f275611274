--------------------------- MODULE SessionsProofs ---------------------------
(***************************************************************************)
(* Proofs about Sessions, for any number of threads, clients, ids, types   *)
(* and values, on the memory and on the disk storage, with crashes.        *)
(***************************************************************************)
EXTENDS SessionsInv, TLAPS

Record == Value \cup {Issued, Absent, Torn}

-----------------------------------------------------------------------------
(* A step of one thread *)

LEMMA IdsAreNumbers == Id \subseteq Nat /\ None \notin Id
BY SessionAssumption DEF Id

LEMMA AtRest == Rest \in Frame /\ Fits(Rest) /\ Rest.id = None /\ Rest.op = "none"
                /\ Rest.at = "idle"
BY DEF Rest, Frame, Fits, Place, Operation, Updating

LEMMA TurnOf ==
  ASSUME TypeOK, NEW t \in Worker, NEW g \in Frame, Turn(t, g)
  PROVE  /\ frame' \in [Worker -> Frame]
         /\ frame'[t] = g
         /\ \A u \in Worker \ {t} : frame'[u] = frame[u]
BY DEF TypeOK, Turn

\* The frame of a thread after it has moved on within its request.
LEMMA SameRequest ==
  ASSUME TypeOK, NEW t \in Worker, NEW g \in Frame, Turn(t, g),
         g = Rest \/ (g.id = frame[t].id /\ g.client = frame[t].client)
  PROVE  \A u \in Worker :
           /\ frame'[u] \in Frame
           /\ frame'[u].id # None => /\ frame'[u].id = frame[u].id
                                     /\ frame'[u].client = frame[u].client
BY TurnOf, AtRest

LEMMA RecordsAfter ==
  ASSUME TypeOK, NEW b \in Table, NEW id \in Id, NEW r \in Record,
         stored' = [stored EXCEPT ![b][id] = r]
  PROVE  /\ stored' \in [Table -> [Id -> Record]]
         /\ stored'[b][id] = r
         /\ \A c \in Table, x \in Id : c # b \/ x # id => stored'[c][x] = stored[c][x]
BY DEF TypeOK, Record

LEMMA NothingStored ==
  ASSUME TypeOK, NEW b \in Table, NEW id \in Id, UNCHANGED stored
  PROVE  /\ stored[b][id] \in Record
         /\ stored' = [stored EXCEPT ![b][id] = stored[b][id]]
BY DEF TypeOK, Record

\* What Store() does to the threads.
LEMMA StoreOf ==
  ASSUME TypeOK, NEW t \in Worker, NEW b \in Table, NEW id \in Id, NEW r \in Record,
         Store(t, b, id, r)
  PROVE  /\ stored' = [stored EXCEPT ![b][id] = r]
         /\ disturbed' \subseteq Worker
         /\ disturbed \subseteq disturbed'
         /\ t \in disturbed' => t \in disturbed
         /\ \A u \in Worker \ {t} : u \notin disturbed' /\ r # stored[b][id] =>
              u \notin Concerned(t, b, id)
BY DEF TypeOK, Store, Concerned

\* A step of thread t within its request: it goes on with g and gives the
\* record of its session in one table the content r.
LEMMA Step ==
  ASSUME IInv, Unchanged,
         NEW t \in Worker, NEW g \in Frame, Turn(t, g), Fits(g),
         g = Rest \/ (g.id = frame[t].id /\ g.client = frame[t].client),
         NEW b \in Table, NEW r \in Record, frame[t].id \in Id,
         stored' = [stored EXCEPT ![b][frame[t].id] = r],
         b \in Type /\ r \in Value => Author[r] = frame[t].client,
         disturbed' \subseteq Worker,
         \A u \in Worker \ {t} : u \notin disturbed' =>
           /\ u \notin disturbed
           /\ r # stored[b][frame[t].id] => u \notin Concerned(t, b, frame[t].id),
         dropped \subseteq dropped', dropped' \subseteq Id,
         b = Master /\ r = Absent /\ stored[Master][frame[t].id] # Absent =>
           frame[t].id \in dropped',
         g.id = None \/ g.at \in {"identify", "issue"} \/ g.id \in dropped'
           \/ stored'[Master][g.id] # Absent,
         t \notin disturbed' => Progress(t)'
  PROVE  IInv'
<1> USE DEF IInv
<1>1. TypeOK'
  <2>1. stored' \in [Table -> [Id -> Record]]
    BY RecordsAfter
  <2>2. frame' \in [Worker -> Frame]
    BY TurnOf
  <2>. QED  BY <2>1, <2>2 DEF TypeOK, Unchanged, Record
<1>2. FramesFit'
  BY TurnOf DEF FramesFit
<1>3. Unborn'
  <2>1. frame[t].id <= generated
    BY IdsAreNumbers DEF Unborn
  <2>2. \A c \in Table, x \in Id : Exists(c, x)' => x <= generated
    BY <2>1, RecordsAfter DEF Unborn, Exists
  <2>3. \A u \in Worker : frame'[u].id # None => frame'[u].id <= generated
    BY SameRequest DEF Unborn
  <2>. QED  BY <2>2, <2>3 DEF Unborn, Unchanged
<1>4. Isolation'
  <2>1. \A u \in Worker : frame'[u].id # None => owner[frame'[u].id] = frame'[u].client
    BY SameRequest DEF Isolation
  <2>2. owner[frame[t].id] = frame[t].client
    BY IdsAreNumbers DEF Isolation
  <2>3. \A c \in Type, x \in Id : stored'[c][x] \in Value => Author[stored'[c][x]] = owner[x]
    BY <2>2, RecordsAfter DEF Isolation, Table
  <2>. QED  BY <2>1, <2>3 DEF Isolation, Unchanged
<1>5. SessionsLast'
  <2> SUFFICES ASSUME NEW x \in Id, x \notin dropped', ~Exists(Master, x)'
               PROVE  /\ \A u \in Worker : frame'[u].id = x => frame'[u].at \in {"identify", "issue"}
                      /\ \A c \in Client : cookie[c] = x => storage = "memory" /\ crashes > 0
    BY DEF SessionsLast, Unchanged
  <2>0. x # None
    BY IdsAreNumbers
  <2>1. ~Exists(Master, x)
    BY RecordsAfter DEF Exists, Table
  <2>2. /\ \A u \in Worker : frame[u].id = x => frame[u].at \in {"identify", "issue"}
        /\ \A c \in Client : cookie[c] = x => storage = "memory" /\ crashes > 0
    BY <2>1 DEF SessionsLast
  <2>3. g.id = x => g.at \in {"identify", "issue"}
    BY <2>0 DEF Exists
  <2>. QED  BY <2>2, <2>3, TurnOf
<1>6. Progresses'
  <2> SUFFICES ASSUME NEW u \in Worker \ {t}, u \notin disturbed'
               PROVE  Progress(u)'
    BY DEF Progresses
  <2>1. Progress(u)
    BY DEF Progresses
  <2>2. frame'[u] = frame[u] /\ frame[u] \in Frame
    BY TurnOf DEF TypeOK
  <2>3. CASE frame[u].op = "none"
    <3>1. Fits(frame[u])
      BY DEF FramesFit
    <3>. QED  BY <2>2, <2>3, <3>1 DEF Progress, Fits, Updating
  <2>4. CASE frame[u].op # "none"
    <3>1. frame[u].table \in Table /\ frame[u].id \in Id
      <4>1. Fits(frame[u])
        BY DEF FramesFit
      <4>. QED  BY <2>2, <2>4, <4>1 DEF Fits, Frame, Operation, Place, Table
    <3>2. Outcome(u)' = Outcome(u)
      BY <2>2, <2>4, <3>1, RecordsAfter DEF Outcome, Concerned
    <3>3. storage' = storage /\ (frame[u].id \notin dropped' => frame[u].id \notin dropped)
      BY DEF Unchanged
    <3>. QED  BY <2>1, <2>2, <3>2, <3>3 DEF Progress, Past, Updating
  <2>. QED  BY <2>3, <2>4
<1>. QED  BY <1>1, <1>2, <1>3, <1>4, <1>5, <1>6

\* A step within the request that stores nothing.
LEMMA Quiet ==
  ASSUME IInv, Unchanged, UNCHANGED <<stored, dropped>>,
         NEW t \in Worker, NEW g \in Frame, Turn(t, g), Fits(g), frame[t].id \in Id,
         g = Rest \/ (g.id = frame[t].id /\ g.client = frame[t].client),
         disturbed' = disturbed \/ disturbed' = disturbed \ {t},
         g.id = None \/ g.at \in {"identify", "issue"} \/ g.id \in dropped
           \/ stored[Master][g.id] # Absent,
         t \notin disturbed' => Progress(t)'
  PROVE  IInv'
<1>1. TypeOK
  BY DEF IInv
<1>2. Master \in Table
  BY DEF Table
<1> DEFINE r == stored[Master][frame[t].id]
<1>3. r \in Record /\ stored' = [stored EXCEPT ![Master][frame[t].id] = r]
  BY <1>1, <1>2, NothingStored
<1>4. disturbed' \subseteq Worker /\ dropped' \subseteq Id
  BY <1>1 DEF TypeOK
<1>5. Master \notin Type
  BY SessionAssumption
<1>6. \A u \in Worker \ {t} : u \notin disturbed' => u \notin disturbed
  OBVIOUS
<1>7. g.id = None \/ g.at \in {"identify", "issue"} \/ g.id \in dropped'
        \/ stored'[Master][g.id] # Absent
  OBVIOUS
<1>8. dropped \subseteq dropped'
  OBVIOUS
<1>9. r = stored[Master][frame[t].id]
  OBVIOUS
<1>. HIDE DEF r
<1>. QED  BY <1>1, <1>2, <1>3, <1>4, <1>5, <1>6, <1>7, <1>8, <1>9, Step

\* A step within the request that stores a record of the session.
LEMMA Stores ==
  ASSUME IInv, Unchanged,
         NEW t \in Worker, NEW g \in Frame, Turn(t, g), Fits(g),
         g.id = frame[t].id /\ g.client = frame[t].client, frame[t].id \in Id,
         NEW b \in Table, NEW r \in Record, Store(t, b, frame[t].id, r),
         b \in Type /\ r \in Value => Author[r] = frame[t].client,
         dropped \subseteq dropped', dropped' \subseteq Id,
         b = Master /\ r = Absent /\ stored[Master][frame[t].id] # Absent =>
           frame[t].id \in dropped',
         g.at = "issue" \/ g.id \in dropped' \/ stored'[Master][g.id] # Absent,
         t \notin disturbed => Progress(t)'
  PROVE  IInv'
<1>1. TypeOK
  BY DEF IInv
<1>2. stored' = [stored EXCEPT ![b][frame[t].id] = r]
  BY <1>1, StoreOf
<1>3. disturbed' \subseteq Worker /\ disturbed \subseteq disturbed'
  BY <1>1, StoreOf
<1>4. \A u \in Worker \ {t} : u \notin disturbed' =>
        /\ u \notin disturbed
        /\ r # stored[b][frame[t].id] => u \notin Concerned(t, b, frame[t].id)
  BY <1>1, <1>3, StoreOf
<1>5. t \notin disturbed' => Progress(t)'
  BY <1>3
<1>. QED  BY <1>2, <1>3, <1>4, <1>5, Step

\* What is known of a thread before its step.
LEMMA Here ==
  ASSUME IInv, NEW t \in Worker
  PROVE  /\ frame[t] \in Frame
         /\ Fits(frame[t])
         /\ frame[t].at \notin {"idle", "identify"} => frame[t].id \in Id
         /\ frame[t].at \notin {"idle", "identify", "issue"} =>
              frame[t].id \in dropped \/ stored[Master][frame[t].id] # Absent
         /\ frame[t].op # "none" => frame[t].table \in Table
         /\ t \notin disturbed => Progress(t)
<1>1. frame[t] \in Frame /\ Fits(frame[t])
  BY DEF IInv, TypeOK, FramesFit
<1>2. frame[t].at \notin {"idle", "identify"} => frame[t].id \in Id
  BY <1>1 DEF Fits, Frame
<1>3. frame[t].at \notin {"idle", "identify", "issue"} =>
        frame[t].id \in dropped \/ stored[Master][frame[t].id] # Absent
  BY <1>2 DEF IInv, SessionsLast, Exists
<1>4. frame[t].op # "none" => frame[t].table \in Table
  BY <1>1 DEF Fits, Frame, Operation, Table
<1>5. t \notin disturbed => Progress(t)
  BY DEF IInv, Progresses
<1>. QED  BY <1>1, <1>2, <1>3, <1>4, <1>5

-----------------------------------------------------------------------------
(* The operations keep the invariant *)

LEMMA KeptByCall ==
  ASSUME IInv, NEW t \in Worker,
         \/ \E b \in Type : Get(t, b) \/ Remove(t, b) \/ \E v \in Value : Set(t, b, v)
         \/ Leave(t)
  PROVE  IInv'
<1>1. ASSUME NEW op \in Operation \ {"none"}, NEW b \in Table, NEW v \in Value \cup {None},
             NEW place \in Place, Call(t, op, b, v, place),
             place = (CASE op \in {"set", "get"} -> "issued" [] op = "remove" -> "erase"
                        [] OTHER -> "drop"),
             op \in {"set", "get", "remove"} => b \in Type,
             op = "leave" => b = Master,
             op = "set" => v \in Value /\ Author[v] = frame[t].client
      PROVE  IInv'
  <2> DEFINE g == [frame[t] EXCEPT !.at = place, !.op = op, !.table = b, !.value = v]
  <2>1. Turn(t, g) /\ disturbed' = disturbed \ {t} /\ frame[t].at = "handler"
        /\ UNCHANGED <<stored, dropped>> /\ Unchanged
    BY <1>1 DEF Call, Begin, Unchanged, At
  <2>2. frame[t] \in Frame /\ Fits(frame[t]) /\ frame[t].id \in Id
        /\ (frame[t].id \in dropped \/ stored[Master][frame[t].id] # Absent)
    BY <2>1, Here
  <2>3. /\ g \in Frame /\ g.at = place /\ g.op = op /\ g.table = b /\ g.value = v
        /\ g.id = frame[t].id /\ g.client = frame[t].client /\ g.insert = frame[t].insert
    BY <2>2 DEF Frame
  <2>4. place \in {"issued", "erase", "drop"}
    BY <1>1
  <2>5. Fits(g)
    BY <1>1, <2>1, <2>2, <2>3, <2>4 DEF Fits, Updating, Operation
  <2>6. frame'[t] = g
    BY <2>1, <2>3, TurnOf DEF IInv
  <2>7. Progress(t)'
    BY <2>3, <2>4, <2>6 DEF Progress, Past, Updating
  <2>. HIDE DEF g
  <2>. QED  BY <2>1, <2>2, <2>3, <2>5, <2>7, Quiet
<1>2. \A b \in Type : b \in Table
  BY DEF Table
<1>3. CASE \E b \in Type : Get(t, b)
  BY <1>1, <1>2, <1>3 DEF Get, Operation, Place
<1>4. CASE \E b \in Type : Remove(t, b)
  BY <1>1, <1>2, <1>4 DEF Remove, Operation, Place
<1>5. CASE \E b \in Type, v \in Value : Set(t, b, v)
  BY <1>1, <1>2, <1>5 DEF Set, Operation, Place
<1>6. CASE Leave(t)
  BY <1>1, <1>6 DEF Leave, Operation, Place, Table
<1>. QED  BY <1>3, <1>4, <1>5, <1>6

LEMMA KeptByThrow ==
  ASSUME IInv, Unchanged, UNCHANGED dropped,
         NEW t \in Worker, frame[t].id \in Id, Throw(t)
  PROVE  IInv'
<1>1. Turn(t, Rest) /\ disturbed' = disturbed \ {t} /\ UNCHANGED <<stored, dropped>>
  BY DEF Throw, Begin
<1>2. frame'[t] = Rest
  BY <1>1, AtRest, TurnOf DEF IInv
<1>3. Progress(t)'
  BY <1>2, AtRest DEF Progress, Past, Updating
<1>. QED  BY <1>1, <1>3, AtRest, Quiet

LEMMA KeptByTestIssued ==
  ASSUME IInv, NEW t \in Worker, TestIssued(t)
  PROVE  IInv'
<1> DEFINE f == frame[t]
           place == IF f.op = "set"
                      THEN IF Exists(Master, f.id) THEN "present" ELSE "insert"
                      ELSE IF Exists(Master, f.id) THEN "read" ELSE "returned"
           g == [f EXCEPT !.at = place]
<1>1. f.at = "issued" /\ Turn(t, g) /\ UNCHANGED <<stored, disturbed, dropped>> /\ Unchanged
  BY DEF TestIssued, At, Go
<1>2. /\ f \in Frame /\ Fits(f) /\ f.id \in Id /\ f.op \in {"set", "get"}
      /\ f.id \in dropped \/ stored[Master][f.id] # Absent
  BY <1>1, Here DEF Fits
<1>3. place \in {"present", "insert", "read", "returned"} /\ place \in Place
  BY DEF Place
<1>4. g \in Frame /\ g.at = place
  BY <1>2, <1>3 DEF Frame
<1>5. /\ g.id = f.id /\ g.client = f.client /\ g.op = f.op /\ g.table = f.table
      /\ g.value = f.value /\ g.target = f.target /\ g.insert = f.insert
  BY <1>2 DEF Frame
<1>6. Fits(g)
  BY <1>1, <1>2, <1>3, <1>4, <1>5 DEF Fits, Updating
<1>7. frame'[t] = g
  BY <1>1, <1>4, TurnOf DEF IInv
<1>8. Progress(t)'
  BY <1>1, <1>2, <1>4, <1>5, <1>7 DEF Progress, Past, Updating, Exists
<1>. HIDE DEF g, place
<1>. QED  BY <1>1, <1>2, <1>4, <1>5, <1>6, <1>8, Quiet

LEMMA KeptByRead ==
  ASSUME IInv, NEW t \in Worker, Read(t)
  PROVE  IInv'
<1> DEFINE f == frame[t]
           g == [f EXCEPT !.at = "returned"]
<1>1. f.at = "read" /\ UNCHANGED <<stored, dropped>> /\ Unchanged
  BY DEF Read, Throw, At
<1>2. /\ f \in Frame /\ Fits(f) /\ f.id \in Id /\ f.op = "get"
      /\ f.id \in dropped \/ stored[Master][f.id] # Absent
  BY <1>1, Here DEF Fits
<1>3. CASE Throw(t)
  BY <1>1, <1>2, <1>3, KeptByThrow
<1>4. CASE Turn(t, g) /\ UNCHANGED disturbed
  <2>1. /\ g \in Frame /\ g.at = "returned"
        /\ g.id = f.id /\ g.client = f.client /\ g.op = f.op /\ g.table = f.table
        /\ g.value = f.value /\ g.target = f.target /\ g.insert = f.insert
    BY <1>2 DEF Frame, Place
  <2>2. Fits(g)
    BY <1>1, <1>2, <2>1 DEF Fits, Updating
  <2>3. frame'[t] = g
    BY <1>4, <2>1, TurnOf DEF IInv
  <2>4. Progress(t)'
    BY <1>2, <2>1, <2>3 DEF Progress, Past, Updating
  <2>. HIDE DEF g
  <2>. QED  BY <1>1, <1>2, <1>4, <2>1, <2>2, <2>4, Quiet
<1>. QED  BY <1>3, <1>4 DEF Read, Go

LEMMA KeptByTestPresent ==
  ASSUME IInv, NEW t \in Worker, TestPresent(t)
  PROVE  IInv'
<1> DEFINE f == frame[t]
           place == IF Exists(f.table, f.id) THEN "update" ELSE "insert"
           g == [f EXCEPT !.at = place, !.target = f.table]
<1>1. f.at = "present" /\ Turn(t, g) /\ UNCHANGED <<stored, disturbed, dropped>> /\ Unchanged
  BY DEF TestPresent, At
<1>2. /\ f \in Frame /\ Fits(f) /\ f.id \in Id /\ f.op = "set"
      /\ f.table \in Type /\ f.table # Master
      /\ f.id \in dropped \/ stored[Master][f.id] # Absent
  BY <1>1, Here, SessionAssumption DEF Fits
<1>3. place \in {"update", "insert"} /\ place \in Place
  BY DEF Place
<1>4. /\ g \in Frame /\ g.at = place
      /\ g.id = f.id /\ g.client = f.client /\ g.op = f.op /\ g.table = f.table
      /\ g.value = f.value /\ g.target = f.table /\ g.insert = f.insert
  BY <1>2, <1>3 DEF Frame
<1>5. Fits(g)
  BY <1>1, <1>2, <1>3, <1>4 DEF Fits, Updating
<1>6. frame'[t] = g
  BY <1>1, <1>4, TurnOf DEF IInv
<1>7. Progress(t)'
  BY <1>1, <1>2, <1>4, <1>6 DEF Progress, Past, Updating, Exists, Outcome
<1>. HIDE DEF g, place
<1>. QED  BY <1>1, <1>2, <1>4, <1>5, <1>7, Quiet

LEMMA KeptByReissue ==
  ASSUME IInv, NEW t \in Worker, Reissue(t)
  PROVE  IInv'
<1> DEFINE f == frame[t]
           place == IF Exists(Master, f.id) THEN "returned" ELSE "issue"
           g == [f EXCEPT !.at = place]
<1>1. f.at = "reissue" /\ Turn(t, g) /\ UNCHANGED <<stored, disturbed, dropped>> /\ Unchanged
  BY DEF Reissue, At, Go
<1>2. /\ f \in Frame /\ Fits(f) /\ f.id \in Id /\ f.op = "set"
      /\ f.id \in dropped \/ stored[Master][f.id] # Absent
      /\ t \notin disturbed => Progress(t)
  BY <1>1, Here DEF Fits
<1>3. place \in {"returned", "issue"} /\ place \in Place
  BY DEF Place
<1>4. /\ g \in Frame /\ g.at = place
      /\ g.id = f.id /\ g.client = f.client /\ g.op = f.op /\ g.table = f.table
      /\ g.value = f.value /\ g.target = f.target /\ g.insert = f.insert
  BY <1>2, <1>3 DEF Frame
<1>5. Fits(g)
  BY <1>1, <1>2, <1>3, <1>4 DEF Fits, Updating
<1>6. frame'[t] = g
  BY <1>1, <1>4, TurnOf DEF IInv
<1>7. t \notin disturbed => Progress(t)'
  BY <1>1, <1>2, <1>3, <1>4, <1>6 DEF Progress, Past, Updating, Outcome, Unchanged
<1>. HIDE DEF g, place
<1>. QED  BY <1>1, <1>2, <1>4, <1>5, <1>7, Quiet

LEMMA KeptByReturn ==
  ASSUME IInv, NEW t \in Worker, Return(t)
  PROVE  IInv'
<1> DEFINE f == frame[t]
           g == [f EXCEPT !.at = "handler", !.op = "none", !.table = None, !.value = None]
<1>1. f.at = "returned" /\ Turn(t, g) /\ disturbed' = disturbed \ {t}
      /\ UNCHANGED <<stored, dropped>> /\ Unchanged
  BY DEF Return, At, Begin
<1>2. /\ f \in Frame /\ Fits(f) /\ f.id \in Id
      /\ f.id \in dropped \/ stored[Master][f.id] # Absent
  BY <1>1, Here
<1>3. /\ g \in Frame /\ g.at = "handler" /\ g.op = "none"
      /\ g.id = f.id /\ g.client = f.client /\ g.insert = f.insert
  BY <1>2 DEF Frame, Place, Operation
<1>4. Fits(g)
  BY <1>1, <1>2, <1>3 DEF Fits, Updating
<1>5. frame'[t] = g
  BY <1>1, <1>3, TurnOf DEF IInv
<1>6. Progress(t)'
  BY <1>3, <1>5 DEF Progress, Past, Updating
<1>. HIDE DEF g
<1>. QED  BY <1>1, <1>2, <1>3, <1>4, <1>6, Quiet

LEMMA KeptByInsert ==
  ASSUME IInv, NEW t \in Worker, Insert(t)
  PROVE  IInv'
<1> DEFINE f == frame[t]
           g == [f EXCEPT !.at = "update", !.target = Master, !.insert = TRUE]
           r == IF storage = "memory" /\ Exists(f.table, f.id) THEN stored[f.table][f.id]
                ELSE f.value
<1>1. f.at = "insert" /\ Turn(t, g) /\ Store(t, f.table, f.id, r)
      /\ UNCHANGED dropped /\ Unchanged
  BY DEF Insert, At, Create
<1>2. /\ f \in Frame /\ Fits(f) /\ f.id \in Id /\ f.op = "set" /\ f.table \in Table
      /\ f.table \in Type /\ f.table # Master
      /\ f.value \in Value /\ Author[f.value] = f.client
      /\ f.id \in dropped \/ stored[Master][f.id] # Absent
      /\ t \notin disturbed => Progress(t)
  BY <1>1, Here, SessionAssumption DEF Fits
<1>3. /\ g \in Frame /\ g.at = "update" /\ g.target = Master
      /\ g.id = f.id /\ g.client = f.client /\ g.op = f.op /\ g.table = f.table
      /\ g.value = f.value
  BY <1>2 DEF Frame, Place, Table
<1>4. Fits(g)
  BY <1>1, <1>2, <1>3 DEF Fits, Updating
<1>5. frame'[t] = g
  BY <1>1, <1>3, TurnOf DEF IInv
<1>6. r \in Record /\ (r \in Value => Author[r] = f.client)
  <2>1. stored[f.table][f.id] \in Record
    BY <1>2 DEF IInv, TypeOK, Record
  <2>2. owner[f.id] = f.client
    BY <1>2, IdsAreNumbers DEF IInv, Isolation
  <2>. QED  BY <1>2, <2>1, <2>2 DEF IInv, Isolation, Record
<1>7. /\ stored'[f.table][f.id] = r
      /\ stored'[Master][f.id] = stored[Master][f.id]
  <2>2. TypeOK /\ Master \in Table /\ Master # f.table
    BY <1>2 DEF IInv, Table
  <2>3. f.table \in Table /\ f.id \in Id /\ r \in Record
    BY <1>2, <1>6
  <2>. HIDE DEF f, g, r
  <2>1. stored' = [stored EXCEPT ![f.table][f.id] = r]
    BY SMTT(60), <1>1, <2>2, <2>3, StoreOf
  <2>. QED  BY ZenonT(90), <2>1, <2>2, <2>3, RecordsAfter
<1>8. t \notin disturbed => Progress(t)'
  <2> SUFFICES ASSUME t \notin disturbed PROVE Progress(t)'
    OBVIOUS
  <2>1. storage = "disk" \/ f.id \notin dropped => r = f.value
    BY <1>1, <1>2, SessionAssumption DEF Progress, Outcome, Exists, IInv, TypeOK
  <2>. QED  BY SMTT(60), <1>1, <1>2, <1>3, <1>5, <1>7, <2>1
            DEF Progress, Past, Updating, Outcome, Unchanged
<1>9. dropped \subseteq dropped' /\ dropped' \subseteq Id
  BY <1>1 DEF IInv, TypeOK
<1>10. g.id \in dropped' \/ stored'[Master][g.id] # Absent
  BY <1>1, <1>2, <1>3, <1>7
<1>. HIDE DEF g, r
<1>. QED  BY <1>1, <1>2, <1>3, <1>4, <1>6, <1>8, <1>9, <1>10, Stores

\* The frame after the last step of an update.
LEMMA UpdatedOf ==
  ASSUME IInv, NEW t \in Worker, Updating(frame[t]), Updated(t)
  PROVE  \E g \in Frame :
           /\ Turn(t, g) /\ Fits(g)
           /\ g.id = frame[t].id /\ g.client = frame[t].client /\ g.op = frame[t].op
           /\ g.table = frame[t].table /\ g.value = frame[t].value
           /\ \/ frame[t].target # Master /\ g.at = "update" /\ g.target = Master
              \/ frame[t].target = Master /\ g.at \in {"reissue", "returned"}
<1> DEFINE f == frame[t]
           place == CASE f.target # Master -> "update"
                      [] f.target = Master /\ f.insert -> "reissue"
                      [] OTHER -> "returned"
           target == IF f.target = Master THEN None ELSE Master
           g == [f EXCEPT !.at = place, !.target = target, !.insert = FALSE]
<1>1. Turn(t, g)
  BY DEF Updated
<1>2. /\ f \in Frame /\ Fits(f) /\ f.id # None /\ f.client \in Client
  BY Here DEF Fits, Updating
<1>3. place \in {"update", "reissue", "returned"} /\ place \in Place
  BY DEF Place
<1>4. target \in Table \cup {None}
  BY DEF Table
<1>5. /\ g \in Frame /\ g.at = place /\ g.target = target /\ g.insert = FALSE
      /\ g.id = f.id /\ g.client = f.client /\ g.op = f.op
      /\ g.table = f.table /\ g.value = f.value
  BY <1>2, <1>3, <1>4 DEF Frame
<1>6. Fits(g)
  BY <1>2, <1>3, <1>5 DEF Fits, Updating
<1>. HIDE DEF g
<1>. QED  BY <1>1, <1>5, <1>6

\* The last step of an update gives the record it is at its content.
LEMMA KeptByContent ==
  ASSUME IInv, NEW t \in Worker, Updating(frame[t]), Updated(t), UNCHANGED dropped, Unchanged,
         Store(t, frame[t].target, frame[t].id, Content(frame[t]))
  PROVE  IInv'
<1> DEFINE f == frame[t]
           r == Content(f)
<1>1. PICK g \in Frame :
        /\ Turn(t, g) /\ Fits(g)
        /\ g.id = f.id /\ g.client = f.client /\ g.op = f.op
        /\ g.table = f.table /\ g.value = f.value
        /\ \/ f.target # Master /\ g.at = "update" /\ g.target = Master
           \/ f.target = Master /\ g.at \in {"reissue", "returned"}
  BY UpdatedOf
<1>2. /\ f \in Frame /\ Fits(f) /\ f.id \in Id /\ f.op \in {"set", "remove"}
      /\ f.table \in Type /\ f.table # Master
      /\ f.target = Master \/ (f.op = "set" /\ f.target = f.table)
      /\ f.op = "set" => f.value \in Value /\ Author[f.value] = f.client
      /\ f.id \in dropped \/ stored[Master][f.id] # Absent
      /\ t \notin disturbed => Progress(t)
  BY Here, SessionAssumption DEF Fits, Updating
<1>3. /\ f.target \in Table /\ Master \in Table /\ f.table \in Table
      /\ r \in Record /\ r # Absent
      /\ f.target # Master => r = f.value
      /\ f.target \in Type => r = f.value /\ f.op = "set"
  BY <1>2, SessionAssumption DEF Table, Content, Record
<1>4. frame'[t] = g
  BY <1>1, TurnOf DEF IInv
<1> HIDE DEF r
<1>5. /\ stored'[f.target][f.id] = r
      /\ f.target # Master => stored'[Master][f.id] = stored[Master][f.id]
      /\ f.target = Master => stored'[f.table][f.id] = stored[f.table][f.id]
  <2>1. stored' = [stored EXCEPT ![f.target][f.id] = r]
    BY <1>2, <1>3, StoreOf DEF IInv, r
  <2>2. TypeOK /\ f.target \in Table /\ f.id \in Id /\ r \in Record
    BY <1>2, <1>3 DEF IInv
  <2>3. stored'[f.target][f.id] = r
        /\ \A c \in Table : c # f.target => stored'[c][f.id] = stored[c][f.id]
    BY ZenonT(90), <2>1, <2>2, RecordsAfter
  <2>. QED  BY <1>2, <1>3, <2>3
<1>6. t \notin disturbed => Progress(t)'
  <2>1. CASE f.target # Master
    BY <1>1, <1>2, <1>3, <1>4, <1>5, <2>1 DEF Progress, Past, Updating, Outcome, Unchanged
  <2>2. CASE f.target = Master
    BY <1>1, <1>2, <1>4, <1>5, <2>2 DEF Progress, Past, Updating, Outcome, Unchanged
  <2>. QED  BY <2>1, <2>2
<1>7. dropped \subseteq dropped' /\ dropped' \subseteq Id
  BY DEF IInv, TypeOK
<1>8. g.id \in dropped' \/ stored'[Master][g.id] # Absent
  BY <1>1, <1>2, <1>3, <1>5
<1>9. Store(t, f.target, f.id, r)
  BY DEF r
<1>. QED  BY <1>1, <1>2, <1>3, <1>6, <1>7, <1>8, <1>9, Stores

LEMMA KeptByUpdate ==
  ASSUME IInv, NEW t \in Worker, Update(t)
  PROVE  IInv'
<1> DEFINE f == frame[t]
<1>1. f.at = "update" /\ Updating(f) /\ UNCHANGED dropped /\ Unchanged
  BY DEF Update, At, Updating
<1>2. CASE Store(t, f.target, f.id, Content(f)) /\ Updated(t)
  BY <1>1, <1>2, KeptByContent
<1>3. /\ f \in Frame /\ Fits(f) /\ f.id \in Id /\ f.op \in {"set", "remove"}
      /\ f.target = Master \/ (f.op = "set" /\ f.target = f.table)
      /\ f.id \in dropped \/ stored[Master][f.id] # Absent
      /\ t \notin disturbed => Progress(t)
  BY <1>1, Here DEF Fits
<1>4. CASE ~Exists(f.target, f.id) /\ Updated(t) /\ UNCHANGED <<stored, disturbed>>
  <2>1. PICK g \in Frame :
          /\ Turn(t, g) /\ Fits(g)
          /\ g.id = f.id /\ g.client = f.client /\ g.op = f.op
          /\ g.table = f.table /\ g.value = f.value
          /\ \/ f.target # Master /\ g.at = "update" /\ g.target = Master
             \/ f.target = Master /\ g.at \in {"reissue", "returned"}
    BY <1>1, <1>4, UpdatedOf
  <2>2. frame'[t] = g
    BY <2>1, TurnOf DEF IInv
  <2>3. t \notin disturbed => Progress(t)'
    BY <1>1, <1>3, <1>4, <2>1, <2>2
       DEF Progress, Past, Updating, Outcome, Exists, Unchanged
  <2>. QED  BY <1>1, <1>3, <1>4, <2>1, <2>3, Quiet
<1>5. CASE storage = "disk" /\ Exists(f.target, f.id) /\ Go(t, "retrieve")
           /\ UNCHANGED <<stored, disturbed>>
  <2> DEFINE g == [f EXCEPT !.at = "retrieve"]
  <2>1. Turn(t, g)
    BY <1>5 DEF Go
  <2>2. /\ g \in Frame /\ g.at = "retrieve"
        /\ g.id = f.id /\ g.client = f.client /\ g.op = f.op /\ g.table = f.table
        /\ g.value = f.value /\ g.target = f.target /\ g.insert = f.insert
    BY <1>3 DEF Frame, Place
  <2>3. Fits(g)
    BY <1>1, <1>3, <2>2 DEF Fits, Updating
  <2>4. frame'[t] = g
    BY <2>1, <2>2, TurnOf DEF IInv
  <2>5. t \notin disturbed => Progress(t)'
    BY <1>1, <1>3, <1>5, <2>2, <2>4 DEF Progress, Past, Updating, Outcome, Unchanged
  <2>. HIDE DEF g
  <2>. QED  BY <1>1, <1>3, <1>5, <2>1, <2>2, <2>3, <2>5, Quiet
<1>. QED  BY <1>2, <1>4, <1>5 DEF Update

LEMMA KeptByRetrieve ==
  ASSUME IInv, NEW t \in Worker, Retrieve(t)
  PROVE  IInv'
<1> DEFINE f == frame[t]
           g == [f EXCEPT !.at = "write"]
<1>1. f.at = "retrieve" /\ UNCHANGED <<stored, dropped>> /\ Unchanged
  BY DEF Retrieve, Throw, At
<1>2. /\ f \in Frame /\ Fits(f) /\ f.id \in Id
      /\ f.id \in dropped \/ stored[Master][f.id] # Absent
      /\ t \notin disturbed => Progress(t)
  BY <1>1, Here
<1>3. CASE Throw(t)
  BY <1>1, <1>2, <1>3, KeptByThrow
<1>4. CASE Turn(t, g) /\ UNCHANGED disturbed
  <2>1. /\ g \in Frame /\ g.at = "write"
        /\ g.id = f.id /\ g.client = f.client /\ g.op = f.op /\ g.table = f.table
        /\ g.value = f.value /\ g.target = f.target /\ g.insert = f.insert
    BY <1>2 DEF Frame, Place
  <2>2. Fits(g)
    BY <1>1, <1>2, <2>1 DEF Fits, Updating
  <2>3. frame'[t] = g
    BY <1>4, <2>1, TurnOf DEF IInv
  <2>4. t \notin disturbed => Progress(t)'
    BY <1>1, <1>2, <2>1, <2>3 DEF Progress, Past, Updating, Outcome, Unchanged
  <2>. HIDE DEF g
  <2>. QED  BY <1>1, <1>2, <1>4, <2>1, <2>2, <2>4, Quiet
<1>. QED  BY <1>3, <1>4 DEF Retrieve, Go

LEMMA KeptByWrite ==
  ASSUME IInv, NEW t \in Worker, Write(t)
  PROVE  IInv'
<1>1. Updating(frame[t])
  BY DEF Write, At, Updating
<1>. QED  BY <1>1, KeptByContent DEF Write

LEMMA KeptByErase ==
  ASSUME IInv, NEW t \in Worker, Erase(t)
  PROVE  IInv'
<1> DEFINE f == frame[t]
           g == IF Exists(f.table, f.id) THEN [f EXCEPT !.at = "update", !.target = Master]
                ELSE [f EXCEPT !.at = "returned"]
<1>1. f.at = "erase" /\ Turn(t, g) /\ Store(t, f.table, f.id, Absent)
      /\ UNCHANGED dropped /\ Unchanged
  BY DEF Erase, At, Go
<1>2. /\ f \in Frame /\ Fits(f) /\ f.id \in Id /\ f.op = "remove" /\ f.table \in Table
      /\ f.table \in Type /\ f.table # Master
      /\ f.id \in dropped \/ stored[Master][f.id] # Absent
  BY <1>1, Here, SessionAssumption DEF Fits
<1>3. /\ g \in Frame /\ ((g.at = "update" /\ g.target = Master) \/ g.at = "returned")
      /\ g.id = f.id /\ g.client = f.client /\ g.op = f.op /\ g.table = f.table
      /\ g.insert = f.insert
  BY <1>2 DEF Frame, Place, Table
<1>4. Fits(g)
  BY <1>1, <1>2, <1>3 DEF Fits, Updating
<1>5. frame'[t] = g
  BY <1>1, <1>3, TurnOf DEF IInv
<1>6. Absent \in Record /\ Absent \notin Value /\ Master \in Table
  BY SessionAssumption DEF Record, Table
<1>7. stored'[f.table][f.id] = Absent /\ stored'[Master][f.id] = stored[Master][f.id]
  <2>1. stored' = [stored EXCEPT ![f.table][f.id] = Absent]
    BY <1>1, <1>2, <1>6, StoreOf DEF IInv
  <2>2. TypeOK
    BY DEF IInv
  <2>3. f.table \in Table /\ f.id \in Id /\ Master # f.table
    BY <1>2
  <2>. HIDE DEF f, g
  <2>. QED  BY ZenonT(90), <1>6, <2>1, <2>2, <2>3, RecordsAfter
<1>8. Progress(t)'
  BY <1>2, <1>3, <1>5, <1>7 DEF Progress, Past, Updating, Outcome
<1>9. dropped \subseteq dropped' /\ dropped' \subseteq Id
  BY <1>1 DEF IInv, TypeOK
<1>10. g.id \in dropped' \/ stored'[Master][g.id] # Absent
  BY <1>1, <1>2, <1>3, <1>7
<1>. HIDE DEF g
<1>. QED  BY <1>1, <1>2, <1>3, <1>4, <1>6, <1>8, <1>9, <1>10, Stores

LEMMA KeptByDrop ==
  ASSUME IInv, NEW t \in Worker, Drop(t)
  PROVE  IInv'
<1> DEFINE f == frame[t]
           g == [f EXCEPT !.at = "returned"]
<1>1. f.at = "drop" /\ Turn(t, g) /\ Store(t, Master, f.id, Absent)
      /\ dropped' = dropped \cup {f.id} /\ Unchanged
  BY DEF Drop, At, Go
<1>2. /\ f \in Frame /\ Fits(f) /\ f.id \in Id /\ f.op = "leave" /\ f.table = Master
  BY <1>1, Here DEF Fits
<1>3. /\ g \in Frame /\ g.at = "returned"
      /\ g.id = f.id /\ g.client = f.client /\ g.op = f.op /\ g.table = f.table
      /\ g.insert = f.insert
  BY <1>2 DEF Frame, Place
<1>4. Fits(g)
  BY <1>1, <1>2, <1>3 DEF Fits, Updating
<1>5. frame'[t] = g
  BY <1>1, <1>3, TurnOf DEF IInv
<1>6. Absent \in Record /\ Absent \notin Value /\ Master \in Table
  BY SessionAssumption DEF Record, Table
<1>7. stored'[Master][f.id] = Absent
  <2>1. stored' = [stored EXCEPT ![Master][f.id] = Absent]
    BY <1>1, <1>2, <1>6, StoreOf DEF IInv
  <2>2. TypeOK
    BY DEF IInv
  <2>3. f.id \in Id
    BY <1>2
  <2>. HIDE DEF f, g
  <2>. QED  BY <1>6, <2>1, <2>2, <2>3, RecordsAfter
<1>8. Progress(t)'
  BY <1>2, <1>3, <1>5, <1>7 DEF Progress, Past, Updating, Outcome
<1>9. dropped \subseteq dropped' /\ dropped' \subseteq Id /\ f.id \in dropped'
  BY <1>1, <1>2 DEF IInv, TypeOK
<1>. HIDE DEF g
<1>. QED  BY <1>1, <1>2, <1>3, <1>4, <1>6, <1>8, <1>9, Stores

-----------------------------------------------------------------------------
(* The steps of a request keep the invariant *)

LEMMA KeptByIssue ==
  ASSUME IInv, NEW t \in Worker, Issue(t)
  PROVE  IInv'
<1> DEFINE f == frame[t]
           place == IF f.op = "none" THEN "handler" ELSE "returned"
           g == [f EXCEPT !.at = place]
           r == IF storage = "memory" /\ Exists(Master, f.id) THEN stored[Master][f.id]
                ELSE Issued
<1>1. f.at = "issue" /\ Turn(t, g) /\ Store(t, Master, f.id, r)
      /\ UNCHANGED dropped /\ Unchanged
  BY DEF Issue, At, Go, Create, Unchanged
<1>2. /\ f \in Frame /\ Fits(f) /\ f.id \in Id /\ f.op \in {"none", "set"}
      /\ f.op = "set" => f.table \in Table /\ f.table # Master
      /\ t \notin disturbed => Progress(t)
  BY <1>1, Here, SessionAssumption DEF Fits
<1>3. place \in {"handler", "returned"} /\ place \in Place /\ (place = "handler" => f.op = "none")
  BY DEF Place
<1>4. /\ g \in Frame /\ g.at = place
      /\ g.id = f.id /\ g.client = f.client /\ g.op = f.op /\ g.table = f.table
      /\ g.value = f.value /\ g.target = f.target /\ g.insert = f.insert
  BY <1>2, <1>3 DEF Frame
<1>5. Fits(g)
  BY <1>1, <1>2, <1>3, <1>4 DEF Fits, Updating
<1>6. frame'[t] = g
  BY <1>1, <1>4, TurnOf DEF IInv
<1>7. r \in Record /\ r # Absent /\ Master \in Table /\ Master \notin Type
  <2>1. stored[Master][f.id] \in Record
    BY <1>2 DEF IInv, TypeOK, Record, Table
  <2>. QED  BY <2>1, SessionAssumption DEF Record, Exists, Table
<1> HIDE DEF r, g, place
<1>8. /\ stored'[Master][f.id] = r
      /\ \A b \in Table : b # Master => stored'[b][f.id] = stored[b][f.id]
  <2>1. stored' = [stored EXCEPT ![Master][f.id] = r]
    BY <1>1, <1>2, <1>7, StoreOf DEF IInv
  <2>2. TypeOK
    BY DEF IInv
  <2>3. f.id \in Id
    BY <1>2
  <2>. HIDE DEF f
  <2>. QED  BY ZenonT(90), <1>7, <2>1, <2>2, <2>3, RecordsAfter
<1>9. t \notin disturbed => Progress(t)'
  BY <1>1, <1>2, <1>3, <1>4, <1>6, <1>8
     DEF Progress, Past, Updating, Outcome, Unchanged
<1>10. dropped \subseteq dropped' /\ dropped' \subseteq Id
  BY <1>1 DEF IInv, TypeOK
<1>11. g.id \in dropped' \/ stored'[Master][g.id] # Absent
  BY <1>4, <1>7, <1>8
<1>. QED  BY <1>1, <1>2, <1>4, <1>5, <1>7, <1>9, <1>10, <1>11, Stores

\* A step that leaves the records alone keeps the progress of the threads
\* that do not move.
LEMMA OthersProgress ==
  ASSUME IInv, NEW t \in Worker, NEW g \in Frame, Turn(t, g), g.op = "none", Fits(g),
         UNCHANGED <<storage, stored, dropped>>,
         \A u \in Worker \ {t} : u \notin disturbed' => u \notin disturbed
  PROVE  Progresses'
<1> SUFFICES ASSUME NEW u \in Worker, u \notin disturbed' PROVE Progress(u)'
  BY DEF Progresses
<1>1. CASE u = t
  BY <1>1, TurnOf DEF IInv, Progress, Updating, Fits
<1>2. CASE u # t
  <2>1. Progress(u) /\ frame'[u] = frame[u]
    BY <1>2, TurnOf DEF IInv, Progresses
  <2>. QED  BY <2>1 DEF Progress, Past, Updating, Outcome
<1>. QED  BY <1>1, <1>2

LEMMA KeptByAccept ==
  ASSUME IInv, NEW t \in Worker, NEW c \in Client, Accept(t, c)
  PROVE  IInv'
<1> DEFINE g == [Rest EXCEPT !.at = "identify", !.client = c, !.id = cookie[c]]
<1> USE DEF IInv
<1>1. Turn(t, g) /\ requests' \in 0 .. Requests
      /\ UNCHANGED <<storage, stored, generated, owner, cookie, crashes, disturbed, dropped>>
  BY SessionAssumption DEF Accept, TypeOK
<1>2. cookie[c] \in Id \cup {None}
  BY DEF TypeOK
<1>3. /\ g \in Frame /\ g.at = "identify" /\ g.client = c /\ g.id = cookie[c]
      /\ g.op = "none" /\ g.insert = FALSE
  BY <1>2 DEF Rest, Frame, Place, Operation
<1>4. Fits(g)
  BY <1>3 DEF Fits, Updating
<1> HIDE DEF g
<1>5. TypeOK'
  BY <1>1, <1>3, TurnOf DEF TypeOK
<1>6. FramesFit'
  BY <1>1, <1>3, <1>4, TurnOf DEF FramesFit
<1>7. Unborn'
  BY <1>1, <1>3, TurnOf DEF Unborn, Exists
<1>8. Isolation'
  BY <1>1, <1>3, TurnOf DEF Isolation
<1>9. SessionsLast'
  BY <1>1, <1>3, TurnOf DEF SessionsLast, Exists
<1>10. Progresses'
  BY <1>1, <1>3, <1>4, OthersProgress
<1>. QED  BY <1>5, <1>6, <1>7, <1>8, <1>9, <1>10

LEMMA KeptByGenerate ==
  ASSUME IInv, NEW t \in Worker, At(t, "identify"), Generate(t),
         UNCHANGED <<storage, stored, cookie, requests, crashes, disturbed, dropped>>
  PROVE  IInv'
<1> DEFINE n == generated + 1
           g == [frame[t] EXCEPT !.at = "issue", !.id = n, !.fresh = TRUE]
<1> USE DEF IInv
<1>1. Turn(t, g) /\ generated < Ids /\ generated' = n
      /\ owner' = [owner EXCEPT ![n] = frame[t].client]
  BY DEF Generate
<1>2. generated \in Nat /\ n \in Id /\ n \in 0 .. Ids /\ n # None
  BY <1>1, SessionAssumption, IdsAreNumbers DEF TypeOK, Id
<1>3. frame[t] \in Frame /\ Fits(frame[t]) /\ frame[t].client \in Client
      /\ frame[t].op = "none"
  BY Here DEF At, Fits
<1>4. /\ g \in Frame /\ g.at = "issue" /\ g.client = frame[t].client /\ g.id = n
      /\ g.op = "none" /\ g.insert = frame[t].insert
  BY <1>2, <1>3 DEF Frame, Place
<1>5. Fits(g)
  BY <1>2, <1>3, <1>4 DEF Fits, Updating
<1> HIDE DEF g
<1>6. TypeOK'
  BY <1>1, <1>2, <1>3, <1>4, TurnOf DEF TypeOK
<1>7. FramesFit'
  BY <1>1, <1>4, <1>5, TurnOf DEF FramesFit
<1>8. /\ \A x \in Id : x <= generated => x # n /\ x <= n
      /\ \A x \in Id : x # n => owner'[x] = owner[x]
      /\ owner'[n] = frame[t].client
  BY <1>1, <1>2, IdsAreNumbers DEF TypeOK
<1>9. /\ \A c \in Client : cookie[c] # None => cookie[c] \in Id /\ cookie[c] <= generated
      /\ \A u \in Worker : frame[u].id # None => frame[u].id \in Id /\ frame[u].id <= generated
      /\ \A b \in Table, x \in Id : Exists(b, x) => x <= generated
  <2>1. \A c \in Client : cookie[c] \in Id \cup {None}
    BY DEF TypeOK
  <2>2. \A u \in Worker : frame[u].id \in Id \cup {None}
    BY Here DEF Frame
  <2>. QED  BY <2>1, <2>2 DEF Unborn
<1>10. Unborn'
  <2>1. \A u \in Worker : frame'[u].id # None => frame'[u].id <= n
    BY <1>1, <1>2, <1>4, <1>8, <1>9, TurnOf
  <2>. QED  BY <1>1, <1>8, <1>9, <2>1 DEF Unborn, Exists
<1>11. Isolation'
  <2>1. \A u \in Worker : frame'[u].id # None => owner'[frame'[u].id] = frame'[u].client
    BY <1>1, <1>4, <1>8, <1>9, TurnOf DEF Isolation
  <2>2. \A b \in Type, x \in Id : stored[b][x] \in Value => Author[stored[b][x]] = owner'[x]
    BY <1>8, <1>9, SessionAssumption DEF Isolation, Exists, Table
  <2>3. \A c \in Client : cookie[c] # None => owner'[cookie[c]] = c
    BY <1>8, <1>9 DEF Isolation
  <2>. QED  BY <2>1, <2>2, <2>3 DEF Isolation
<1>12. SessionsLast'
  <2> SUFFICES ASSUME NEW x \in Id, x \notin dropped, ~Exists(Master, x)
               PROVE  /\ \A u \in Worker : frame'[u].id = x => frame'[u].at \in {"identify", "issue"}
                      /\ \A c \in Client : cookie[c] = x => storage = "memory" /\ crashes > 0
    BY DEF SessionsLast, Exists
  <2>. QED  BY <1>1, <1>4, TurnOf DEF SessionsLast
<1>13. Progresses'
  BY <1>1, <1>4, <1>5, OthersProgress
<1>. QED  BY <1>6, <1>7, <1>10, <1>11, <1>12, <1>13

LEMMA KeptByIdentify ==
  ASSUME IInv, NEW t \in Worker, Identify(t)
  PROVE  IInv'
<1> DEFINE f == frame[t]
           g == [f EXCEPT !.at = "handler"]
<1>1. f.at = "identify"
      /\ UNCHANGED <<storage, stored, cookie, requests, crashes, disturbed, dropped>>
  BY DEF Identify, At
<1>2. CASE f.id # None /\ Exists(Master, f.id) /\ Turn(t, g) /\ UNCHANGED <<generated, owner>>
  <2>1. f \in Frame /\ Fits(f) /\ f.id \in Id
    BY <1>2, Here DEF Frame
  <2>2. /\ g \in Frame /\ g.at = "handler"
        /\ g.id = f.id /\ g.client = f.client /\ g.op = f.op /\ g.insert = f.insert
    BY <2>1 DEF Frame, Place
  <2>3. Fits(g) /\ g.op = "none"
    BY <1>1, <1>2, <2>1, <2>2 DEF Fits, Updating
  <2>4. frame'[t] = g
    BY <1>2, <2>2, TurnOf DEF IInv
  <2>5. Progress(t)'
    BY <2>2, <2>3, <2>4 DEF Progress, Past, Updating
  <2>. HIDE DEF g
  <2>. QED  BY <1>1, <1>2, <2>1, <2>2, <2>3, <2>5, Quiet DEF Unchanged, Exists
<1>3. CASE Generate(t)
  BY <1>1, <1>3, KeptByGenerate DEF At
<1>. QED  BY <1>2, <1>3 DEF Identify, Go

LEMMA KeptByRespond ==
  ASSUME IInv, NEW t \in Worker, Respond(t)
  PROVE  IInv'
<1> DEFINE f == frame[t]
<1> USE DEF IInv
<1>1. f.at = "handler" /\ Turn(t, Rest) /\ disturbed' = disturbed \ {t}
      /\ UNCHANGED <<storage, stored, generated, owner, requests, crashes, dropped>>
  BY DEF Respond, Begin, At
<1>2. /\ f \in Frame /\ Fits(f) /\ f.id \in Id /\ f.client \in Client
      /\ f.id \in dropped \/ stored[Master][f.id] # Absent
  BY <1>1, Here DEF Fits
<1>3. cookie' = [cookie EXCEPT ![f.client] = f.id] \/ cookie' = cookie
  BY DEF Respond
<1>4. /\ cookie' \in [Client -> Id \cup {None}]
      /\ \A c \in Client : cookie'[c] = cookie[c] \/ (c = f.client /\ cookie'[c] = f.id)
  BY <1>2, <1>3 DEF TypeOK
<1>5. TypeOK'
  BY <1>1, <1>4, AtRest, TurnOf DEF TypeOK
<1>6. FramesFit'
  BY <1>1, AtRest, TurnOf DEF FramesFit
<1>7. Unborn'
  BY <1>1, <1>2, <1>4, AtRest, TurnOf, IdsAreNumbers DEF Unborn, Exists
<1>8. Isolation'
  BY <1>1, <1>2, <1>4, AtRest, TurnOf, IdsAreNumbers DEF Isolation
<1>9. SessionsLast'
  BY <1>1, <1>2, <1>4, AtRest, TurnOf, IdsAreNumbers DEF SessionsLast, Exists
<1>10. Progresses'
  BY <1>1, AtRest, OthersProgress
<1>. QED  BY <1>5, <1>6, <1>7, <1>8, <1>9, <1>10

LEMMA KeptByCrash ==
  ASSUME IInv, Crash
  PROVE  IInv'
<1> USE DEF IInv
<1>1. /\ crashes < Crashes /\ crashes' = crashes + 1 /\ crashes \in Nat
      /\ frame' = [t \in Worker |-> Rest] /\ disturbed' = {}
      /\ UNCHANGED <<storage, generated, owner, cookie, requests, dropped>>
  BY SessionAssumption DEF Crash, TypeOK
<1>2. /\ stored' \in [Table -> [Id -> Record]]
      /\ \A b \in Table, x \in Id : stored'[b][x] \in Value => stored'[b][x] = stored[b][x]
      /\ \A b \in Table, x \in Id : stored'[b][x] # Absent => x <= generated
      /\ \/ storage = "memory"
         \/ \A b \in Table, x \in Id : stored[b][x] # Absent => stored'[b][x] # Absent
  <2>1. CASE storage = "memory" /\ stored' = [b \in Table |-> [id \in Id |-> Absent]]
    BY <2>1, SessionAssumption DEF Record
  <2>2. ASSUME NEW W \in SUBSET {t \in Worker : frame[t].at \in {"issue", "insert", "write"}},
               stored' = [b \in Table |-> [id \in Id |->
                            IF \E t \in W : Written(t) = <<b, id>> THEN Torn ELSE stored[b][id]]]
        PROVE  /\ stored' \in [Table -> [Id -> Record]]
               /\ \A b \in Table, x \in Id : stored'[b][x] \in Value => stored'[b][x] = stored[b][x]
               /\ \A b \in Table, x \in Id : stored'[b][x] # Absent => x <= generated
               /\ \A b \in Table, x \in Id : stored[b][x] # Absent => stored'[b][x] # Absent
    <3>1. \A b \in Table, x \in Id :
            stored'[b][x] = IF \E t \in W : Written(t) = <<b, x>> THEN Torn ELSE stored[b][x]
      BY <2>2
    <3>2. \A b \in Table, x \in Id : stored[b][x] \in Record
      BY DEF TypeOK, Record
    <3>3. Torn \in Record /\ Torn \notin Value /\ Torn # Absent
      BY SessionAssumption DEF Record
    <3>4. \A b \in Table, x \in Id : (\E t \in W : Written(t) = <<b, x>>) => x <= generated
      <4>1. \A t \in W : frame[t].id <= generated
        BY Here, IdsAreNumbers DEF Unborn
      <4>. QED  BY <4>1 DEF Written
    <3>5. \A b \in Table, x \in Id : stored[b][x] # Absent => x <= generated
      BY DEF Unborn, Exists
    <3>6. stored' \in [Table -> [Id -> Record]]
      BY <2>2, <3>2, <3>3
    <3>. QED  BY <3>1, <3>3, <3>4, <3>5, <3>6
  <2>. QED  BY <2>1, <2>2 DEF Crash
<1>3. \A t \in Worker : frame'[t] = Rest
  BY <1>1
<1>4. TypeOK'
  BY <1>1, <1>2, AtRest, SessionAssumption DEF TypeOK, Record
<1>5. FramesFit'
  BY <1>3, AtRest DEF FramesFit
<1>6. Unborn'
  BY <1>1, <1>2, <1>3, AtRest DEF Unborn, Exists
<1>7. Isolation'
  BY <1>1, <1>2, <1>3, AtRest DEF Isolation, Table
<1>8. SessionsLast'
  <2> SUFFICES ASSUME NEW x \in Id, x \notin dropped, stored'[Master][x] = Absent,
                      NEW c \in Client, cookie[c] = x
               PROVE  storage = "memory" /\ crashes' > 0
    BY <1>1, <1>3, AtRest, IdsAreNumbers DEF SessionsLast, Exists
  <2>1. CASE storage = "memory"
    BY <1>1, <2>1
  <2>2. CASE storage # "memory"
    BY <1>2, <2>2 DEF SessionsLast, Exists, Table
  <2>. QED  BY <2>1, <2>2
<1>9. Progresses'
  BY <1>3, AtRest DEF Progresses, Progress, Updating
<1>. QED  BY <1>4, <1>5, <1>6, <1>7, <1>8, <1>9

-----------------------------------------------------------------------------
(* Theorems *)

LEMMA Start == Init => IInv
<1> SUFFICES ASSUME Init PROVE IInv
  OBVIOUS
<1>1. TypeOK
  BY AtRest, SessionAssumption DEF Init, TypeOK
<1>2. \A t \in Worker : frame[t] = Rest
  BY DEF Init
<1>3. FramesFit /\ Progresses
  BY <1>2, AtRest DEF FramesFit, Progresses, Progress, Updating
<1>4. \A b \in Table, id \in Id : stored[b][id] = Absent
  BY DEF Init
<1>5. Unborn
  BY <1>2, <1>4, AtRest DEF Init, Unborn, Exists
<1>6. Isolation
  BY <1>2, <1>4, AtRest, SessionAssumption DEF Init, Isolation, Table
<1>7. SessionsLast
  BY <1>2, AtRest, IdsAreNumbers DEF Init, SessionsLast
<1>. QED  BY <1>1, <1>3, <1>5, <1>6, <1>7 DEF IInv

LEMMA Kept == IInv /\ [Next]_vars => IInv'
<1> SUFFICES ASSUME IInv, [Next]_vars PROVE IInv'
  OBVIOUS
<1>1. CASE UNCHANGED vars
  BY <1>1 DEF vars, IInv, TypeOK, FramesFit, Unborn, Exists, Isolation, SessionsLast,
              Progresses, Progress, Past, Updating, Outcome
<1>2. CASE Crash
  BY <1>2, KeptByCrash
<1>3. ASSUME NEW t \in Worker, Serve(t) PROVE IInv'
  <2>1. CASE \E c \in Client : Accept(t, c)
    BY <2>1, KeptByAccept
  <2>2. CASE Identify(t)
    BY <2>2, KeptByIdentify
  <2>3. CASE Issue(t)
    BY <2>3, KeptByIssue
  <2>4. CASE Respond(t)
    BY <2>4, KeptByRespond
  <2>5. CASE Operate(t)
    BY <2>5, KeptByCall, KeptByTestIssued, KeptByRead, KeptByTestPresent, KeptByInsert,
       KeptByUpdate, KeptByRetrieve, KeptByWrite, KeptByReissue, KeptByErase, KeptByDrop,
       KeptByReturn DEF Operate
  <2>. QED  BY <1>3, <2>1, <2>2, <2>3, <2>4, <2>5 DEF Serve
<1>. QED  BY <1>1, <1>2, <1>3 DEF Next

\* The inductive invariant of the sessions, for any number of threads, on the
\* memory and on the disk storage, with crashes.
THEOREM Invariance == Spec => []IInv
BY Start, Kept, PTL DEF Spec

\* Type correctness: update() is never called without a value or a table.
THEOREM Typing == Spec => []TypeOK
<1>1. IInv => TypeOK
  BY DEF IInv
<1>. QED  BY <1>1, Invariance, PTL

\* No cookie, request or value is ever of a session of another client.
THEOREM Apart == Spec => []Isolation
<1>1. IInv => Isolation
  BY DEF IInv
<1>. QED  BY <1>1, Invariance, PTL

\* A session that a handler or a cookie names is issued, unless it was removed
\* or the memory was lost.
THEOREM Lasting == Spec => []SessionsLast
<1>1. IInv => SessionsLast
  BY DEF IInv
<1>. QED  BY <1>1, Invariance, PTL

\* An operation on a record that no other thread writes has its effect.
THEOREM Effective == Spec => []TakesEffect
<1>1. IInv => TakesEffect
  BY DEF IInv, Progresses, Progress, Past, TakesEffect, Returned, At
<1>. QED  BY <1>1, Invariance, PTL

\* What an operation stores of its own session leaves the others issued or not.
LEMMA OthersUntouched ==
  ASSUME TypeOK, NEW t \in Worker, NEW b, NEW r, NEW x \in Id, frame[t].id # x,
         Store(t, b, frame[t].id, r)
  PROVE  Exists(Master, x)' <=> Exists(Master, x)
BY DEF TypeOK, Store, Exists, Table

\* A step of an operation is within the session of its request.
LEMMA WithinSession ==
  ASSUME IInv, NEW t \in Worker, Operate(t) \/ Issue(t)
  PROVE  /\ ~At(t, "idle") /\ ~At(t, "identify")
         /\ generated' = generated
         /\ \A x \in Id : frame[t].id # x => (Exists(Master, x)' <=> Exists(Master, x))
         /\ \E g : Turn(t, g) /\ g.id \in {frame[t].id, None}
<1> DEFINE Within ==
      /\ ~At(t, "idle") /\ ~At(t, "identify")
      /\ generated' = generated
      /\ \A x \in Id : frame[t].id # x => (Exists(Master, x)' <=> Exists(Master, x))
      /\ \E g : Turn(t, g) /\ g.id \in {frame[t].id, None}
<1>1. TypeOK /\ frame[t] \in Frame
  BY Here DEF IInv
<1>2. \A place : [frame[t] EXCEPT !.at = place].id = frame[t].id
  BY <1>1 DEF Frame
<1>3. ASSUME NEW op, NEW b, NEW v, NEW place, Call(t, op, b, v, place) PROVE Within
  <2> DEFINE g == [frame[t] EXCEPT !.at = place, !.op = op, !.table = b, !.value = v]
  <2>1. Turn(t, g)
    BY <1>3 DEF Call, Begin
  <2>2. g.id = frame[t].id
    BY <1>1 DEF Frame
  <2>3. \E h : Turn(t, h) /\ h.id \in {frame[t].id, None}
    BY <2>1, <2>2
  <2>. HIDE DEF g
  <2>. QED  BY <1>1, <1>3, <2>3 DEF Call, At, Exists
<1>4. CASE TestIssued(t) \/ Reissue(t)
  BY <1>2, <1>4 DEF TestIssued, Reissue, Go, At, Exists, Unchanged
<1>5. CASE Read(t) \/ Retrieve(t)
  BY <1>2, <1>5, AtRest DEF Read, Retrieve, Throw, Begin, Go, At, Exists, Unchanged
<1>6. CASE TestPresent(t)
  <2> DEFINE g == [frame[t] EXCEPT
                     !.at = IF Exists(frame[t].table, frame[t].id) THEN "update" ELSE "insert",
                     !.target = frame[t].table]
  <2>1. Turn(t, g)
    BY <1>6 DEF TestPresent
  <2>2. g.id = frame[t].id
    BY <1>1 DEF Frame
  <2>3. \E h : Turn(t, h) /\ h.id \in {frame[t].id, None}
    BY <2>1, <2>2
  <2>. HIDE DEF g
  <2>. QED  BY <1>1, <1>6, <2>3 DEF TestPresent, At, Exists, Unchanged
<1>7. CASE Insert(t)
  <2> DEFINE g == [frame[t] EXCEPT !.at = "update", !.target = Master, !.insert = TRUE]
  <2>1. Turn(t, g)
    BY <1>7 DEF Insert
  <2>2. g.id = frame[t].id
    BY <1>1 DEF Frame
  <2>3. \E h : Turn(t, h) /\ h.id \in {frame[t].id, None}
    BY <2>1, <2>2
  <2>. HIDE DEF g
  <2>. QED  BY <1>1, <1>7, <2>3, OthersUntouched DEF Insert, Create, At, Unchanged
<1>8. ASSUME Updated(t) PROVE \E g : Turn(t, g) /\ g.id = frame[t].id
  <2> DEFINE f == frame[t]
             g == [f EXCEPT
                     !.at = CASE f.target # Master -> "update"
                              [] f.target = Master /\ f.insert -> "reissue"
                              [] OTHER -> "returned",
                     !.target = IF f.target = Master THEN None ELSE Master,
                     !.insert = FALSE]
  <2>1. Turn(t, g)
    BY <1>8 DEF Updated
  <2>2. g.id = frame[t].id
    BY <1>1 DEF Frame
  <2>. HIDE DEF g
  <2>. QED  BY <2>1, <2>2
<1>9. CASE Update(t)
  BY <1>1, <1>2, <1>8, <1>9, OthersUntouched DEF Update, Go, At, Exists, Unchanged
<1>10. CASE Write(t)
  BY <1>1, <1>8, <1>10, OthersUntouched DEF Write, At, Unchanged
<1>11. CASE Erase(t)
  <2> DEFINE g == IF Exists(frame[t].table, frame[t].id)
                  THEN [frame[t] EXCEPT !.at = "update", !.target = Master]
                  ELSE [frame[t] EXCEPT !.at = "returned"]
  <2>1. Turn(t, g)
    BY <1>11 DEF Erase, Go
  <2>2. g.id = frame[t].id
    BY <1>1 DEF Frame
  <2>3. \E h : Turn(t, h) /\ h.id \in {frame[t].id, None}
    BY <2>1, <2>2
  <2>. HIDE DEF g
  <2>. QED  BY <1>1, <1>11, <2>3, OthersUntouched DEF Erase, At, Unchanged
<1>12. CASE Drop(t)
  BY <1>1, <1>2, <1>12, OthersUntouched DEF Drop, Go, At, Unchanged
<1>13. CASE Return(t)
  <2> DEFINE g == [frame[t] EXCEPT !.at = "handler", !.op = "none", !.table = None, !.value = None]
  <2>1. Turn(t, g)
    BY <1>13 DEF Return, Begin
  <2>2. g.id = frame[t].id
    BY <1>1 DEF Frame
  <2>3. \E h : Turn(t, h) /\ h.id \in {frame[t].id, None}
    BY <2>1, <2>2
  <2>. HIDE DEF g
  <2>. QED  BY <1>1, <1>13, <2>3 DEF Return, At, Exists, Unchanged
<1>14. CASE Issue(t)
  BY <1>1, <1>2, <1>14, OthersUntouched DEF Issue, Create, Go, At
<1>. QED
  BY <1>3, <1>4, <1>5, <1>6, <1>7, <1>9, <1>10, <1>11, <1>12, <1>13, <1>14
     DEF Operate, Get, Set, Remove, Leave

LEMMA StaysDead ==
  ASSUME IInv, Next, NEW id \in Id, Dead(id)
  PROVE  Dead(id)'
<1>0. TypeOK /\ id # None /\ generated \in Nat /\ id \in Nat
  BY IdsAreNumbers DEF IInv, TypeOK
<1>1. CASE Crash
  <2>1. stored'[Master][id] = Absent
    BY <1>0, <1>1, SessionAssumption DEF Crash, Dead, At, Written, Table, Exists
  <2>. QED  BY <1>0, <1>1, <2>1, AtRest DEF Crash, Dead, At, Exists
<1>2. ASSUME NEW t \in Worker, Operate(t) \/ Issue(t) PROVE Dead(id)'
  <2>1. PICK g : Turn(t, g) /\ g.id \in {frame[t].id, None}
    BY <1>2, WithinSession
  <2>2. frame[t].id # id
    BY <1>2, WithinSession DEF Dead
  <2>. QED  BY <1>0, <1>2, <2>1, <2>2, WithinSession DEF Dead, At, Turn, TypeOK
<1>3. ASSUME NEW t \in Worker, NEW c \in Client, Accept(t, c) PROVE Dead(id)'
  BY <1>0, <1>3 DEF Accept, Turn, Dead, At, Exists, TypeOK, Rest
<1>4. ASSUME NEW t \in Worker, Identify(t) PROVE Dead(id)'
  <2>1. frame[t] \in Frame
    BY Here
  <2>2. CASE frame[t].id # None /\ Exists(Master, frame[t].id)
    BY <1>0, <1>4, <2>1, <2>2 DEF Identify, Go, Turn, Dead, At, Exists, TypeOK, Frame
  <2>3. CASE Generate(t)
    BY <1>0, <1>4, <2>1, <2>3 DEF Identify, Generate, Turn, Dead, At, Exists, TypeOK, Frame
  <2>. QED  BY <1>4, <2>2, <2>3 DEF Identify
<1>5. ASSUME NEW t \in Worker, Respond(t) PROVE Dead(id)'
  BY <1>0, <1>5, AtRest DEF Respond, Begin, Turn, Dead, At, Exists, TypeOK
<1>. QED  BY <1>1, <1>2, <1>3, <1>4, <1>5 DEF Next, Serve

\* A session that has ended, and that no handler uses any more, never comes
\* back, whatever cookies the clients present and whenever the server crashes.
THEOREM NoResurrection == Spec => DeadStaysDead
<1>1. IInv /\ [Next]_vars => [\A id \in Id : Dead(id) => Dead(id)']_vars
  BY StaysDead
<1>. QED  BY <1>1, Invariance, PTL DEF Spec, DeadStaysDead
=============================================================================
