--------------------------- MODULE WatcherProofs ---------------------------
(***************************************************************************)
(* Proofs about Watcher: for any number of threads what the sections under *)
(* the lock preserve, and for one thread that the timer is never late.     *)
(***************************************************************************)
EXTENDS WatcherInv, FiniteSetTheorems, TLAPS

-----------------------------------------------------------------------------
(* What a step does to the stack of thread t *)

\* Only the stack of t changes, and it has a frame to look at.
Others(t) ==
  /\ stack' \in [Worker -> Seq(Frame)]
  /\ \A u \in Worker \ {t} : stack'[u] = stack[u]

\* The innermost frame of t is Top(t).
Stacked(t) ==
  /\ stack[t] \in Seq(Frame)
  /\ 1 \in DOMAIN stack[t]
  /\ Top(t) = stack[t][1]
  /\ Top(t) \in Frame
  /\ \A i \in DOMAIN stack[t] : i \in Nat /\ i >= 1 /\ stack[t][i] \in Frame

LEMMA TopFacts ==
  ASSUME TypeOK, NEW t \in Worker, ~Idle(t)
  PROVE  Stacked(t)
  BY DEF TypeOK, Idle, Top, Stacked

\* The step replaces the innermost frame of t by f.
Moved(t, f) ==
  /\ Others(t)
  /\ ~Idle(t)'
  /\ Top(t)' = f
  /\ DOMAIN stack'[t] = DOMAIN stack[t]
  /\ stack'[t][1] = f
  /\ \A i \in DOMAIN stack[t] : i > 1 => stack'[t][i] = stack[t][i]

LEMMA MoveFacts ==
  ASSUME TypeOK, NEW t \in Worker, ~Idle(t), NEW f \in Frame, Move(t, f)
  PROVE  Moved(t, f)
  <1>1. stack'[t] = <<f>> \o Tail(stack[t])
    BY DEF Move, TypeOK
  <1>2. stack[t] \in Seq(Frame) /\ stack[t] # <<>>
    BY DEF TypeOK, Idle
  <1>3. <<f>> \o Tail(stack[t]) \in Seq(Frame)
    BY <1>2
  <1>4. Others(t)
    BY <1>3 DEF Move, TypeOK, Others
  <1>5. QED
    BY <1>1, <1>2, <1>4 DEF Moved, Idle, Top

\* The step puts frame f on top of the stack of t.
Pushed(t, f) ==
  /\ Others(t)
  /\ ~Idle(t)'
  /\ Top(t)' = f
  /\ 1 \in DOMAIN stack'[t]
  /\ stack'[t][1] = f
  /\ \A i \in DOMAIN stack'[t] : i \in Nat /\ i >= 1
  /\ \A i \in DOMAIN stack'[t] : i > 1 =>
       \E j \in DOMAIN stack[t] : i = j + 1 /\ stack'[t][i] = stack[t][j]
  /\ \A j \in DOMAIN stack[t] :
       \E i \in DOMAIN stack'[t] : i > 1 /\ i = j + 1 /\ stack'[t][i] = stack[t][j]

LEMMA PushFacts ==
  ASSUME TypeOK, NEW t \in Worker, NEW f \in Frame, Push(t, f)
  PROVE  Pushed(t, f)
  <1>1. stack'[t] = <<f>> \o stack[t]
    BY DEF Push, TypeOK
  <1>2. stack[t] \in Seq(Frame)
    BY DEF TypeOK
  <1>3. <<f>> \o stack[t] \in Seq(Frame)
    BY <1>2
  <1>4. Others(t)
    BY <1>3 DEF Push, TypeOK, Others
  <1>5. ASSUME NEW i \in DOMAIN stack'[t], i > 1
        PROVE  \E j \in DOMAIN stack[t] : i = j + 1 /\ stack'[t][i] = stack[t][j]
    <2>1. i - 1 \in DOMAIN stack[t] /\ i = (i - 1) + 1 /\ stack'[t][i] = stack[t][i - 1]
      BY <1>1, <1>2, <1>5
    <2>2. QED
      BY <2>1
  <1>6. ASSUME NEW j \in DOMAIN stack[t]
        PROVE  \E i \in DOMAIN stack'[t] : i > 1 /\ i = j + 1 /\ stack'[t][i] = stack[t][j]
    <2>1. j + 1 \in DOMAIN stack'[t] /\ j + 1 > 1 /\ stack'[t][j + 1] = stack[t][j]
      BY <1>1, <1>2, <1>6
    <2>2. QED
      BY <2>1
  <1>7. /\ 1 \in DOMAIN stack'[t] /\ stack'[t][1] = f
        /\ \A i \in DOMAIN stack'[t] : i \in Nat /\ i >= 1
    BY <1>1, <1>2
  <1>8. ~Idle(t)' /\ Top(t)' = f
    BY <1>1, <1>2 DEF Idle, Top
  <1>9. QED
    BY <1>4, <1>5, <1>6, <1>7, <1>8 DEF Pushed

\* The step replaces the innermost frame of t by f and puts g on top of it.
Called(t, f, g) ==
  /\ Others(t)
  /\ ~Idle(t)'
  /\ Top(t)' = g
  /\ 1 \in DOMAIN stack'[t] /\ 2 \in DOMAIN stack'[t]
  /\ stack'[t][1] = g
  /\ stack'[t][2] = f
  /\ \A i \in DOMAIN stack'[t] : i \in Nat /\ i >= 1
  /\ \A i \in DOMAIN stack'[t] : i > 2 =>
       \E j \in DOMAIN stack[t] : j > 1 /\ i = j + 1 /\ stack'[t][i] = stack[t][j]
  /\ \A j \in DOMAIN stack[t] : j > 1 =>
       \E i \in DOMAIN stack'[t] : i > 2 /\ i = j + 1 /\ stack'[t][i] = stack[t][j]

LEMMA CallFacts ==
  ASSUME TypeOK, NEW t \in Worker, ~Idle(t), NEW f \in Frame, NEW g \in Frame,
         Call(t, f, g)
  PROVE  Called(t, f, g)
  <1>1. stack'[t] = <<g, f>> \o Tail(stack[t])
    BY DEF Call, TypeOK
  <1>2. stack[t] \in Seq(Frame) /\ stack[t] # <<>>
    BY DEF TypeOK, Idle
  <1>3. <<g, f>> \o Tail(stack[t]) \in Seq(Frame)
    BY <1>2
  <1>4. Others(t)
    BY <1>3 DEF Call, TypeOK, Others
  <1>5. ASSUME NEW i \in DOMAIN stack'[t], i > 2
        PROVE  \E j \in DOMAIN stack[t] : j > 1 /\ i = j + 1 /\ stack'[t][i] = stack[t][j]
    <2>1. /\ i - 1 \in DOMAIN stack[t] /\ i - 1 > 1 /\ i = (i - 1) + 1
          /\ stack'[t][i] = stack[t][i - 1]
      BY <1>1, <1>2, <1>5
    <2>2. QED
      BY <2>1
  <1>6. ASSUME NEW j \in DOMAIN stack[t], j > 1
        PROVE  \E i \in DOMAIN stack'[t] : i > 2 /\ i = j + 1 /\ stack'[t][i] = stack[t][j]
    <2>1. /\ j + 1 \in DOMAIN stack'[t] /\ j + 1 > 2
          /\ stack'[t][j + 1] = stack[t][j]
      BY SMTT(30), <1>1, <1>2, <1>6
    <2>2. QED
      BY <2>1
  <1>7. /\ 1 \in DOMAIN stack'[t] /\ 2 \in DOMAIN stack'[t]
        /\ stack'[t][1] = g /\ stack'[t][2] = f
        /\ \A i \in DOMAIN stack'[t] : i \in Nat /\ i >= 1
    BY <1>1, <1>2
  <1>8. ~Idle(t)' /\ Top(t)' = g
    BY <1>1, <1>2 DEF Idle, Top
  <1>9. QED
    BY <1>4, <1>5, <1>6, <1>7, <1>8 DEF Called

\* The step removes the innermost frame of t.
Popped(t) ==
  /\ Others(t)
  /\ ~Idle(t)' => 1 \in DOMAIN stack'[t] /\ Top(t)' = stack'[t][1]
  /\ \A i \in DOMAIN stack'[t] : i \in Nat /\ i >= 1
  /\ \A i \in DOMAIN stack'[t] :
       \E j \in DOMAIN stack[t] : j > 1 /\ j = i + 1 /\ stack'[t][i] = stack[t][j]
  /\ \A j \in DOMAIN stack[t] : j > 1 =>
       \E i \in DOMAIN stack'[t] : j = i + 1 /\ stack'[t][i] = stack[t][j]

LEMMA PopFacts ==
  ASSUME TypeOK, NEW t \in Worker, ~Idle(t), Pop(t)
  PROVE  Popped(t)
  <1>1. stack'[t] = Tail(stack[t])
    BY DEF Pop, TypeOK
  <1>2. stack[t] \in Seq(Frame) /\ stack[t] # <<>>
    BY DEF TypeOK, Idle
  <1>3. Others(t)
    BY <1>2 DEF Pop, TypeOK, Others
  <1>4. ASSUME NEW i \in DOMAIN stack'[t]
        PROVE  \E j \in DOMAIN stack[t] : j > 1 /\ j = i + 1 /\ stack'[t][i] = stack[t][j]
    <2>1. /\ i + 1 \in DOMAIN stack[t] /\ i + 1 > 1
          /\ stack'[t][i] = stack[t][i + 1]
      BY <1>1, <1>2
    <2>2. QED
      BY <2>1
  <1>5. ASSUME NEW j \in DOMAIN stack[t], j > 1
        PROVE  \E i \in DOMAIN stack'[t] : j = i + 1 /\ stack'[t][i] = stack[t][j]
    <2>1. /\ j - 1 \in DOMAIN stack'[t] /\ j = (j - 1) + 1
          /\ stack'[t][j - 1] = stack[t][j]
      BY <1>1, <1>2, <1>5
    <2>2. QED
      BY <2>1
  <1>6. \A i \in DOMAIN stack'[t] : i \in Nat /\ i >= 1
    BY <1>1, <1>2
  <1>7. ~Idle(t)' => 1 \in DOMAIN stack'[t] /\ Top(t)' = stack'[t][1]
    BY <1>1, <1>2 DEF Idle, Top
  <1>8. QED
    BY <1>3, <1>4, <1>5, <1>6, <1>7 DEF Popped

-----------------------------------------------------------------------------
(* What a step of thread t on its stack leaves of the invariants *)

\* A frame that releases nothing holds no node.
Clean(f) == f.at \notin {"current", "notified"} => f.nodes = {}

LEMMA NestedMove ==
  ASSUME NEW t \in Worker, NEW f \in Frame, Nested, Stacked(t), Moved(t, f), Clean(f)
  PROVE  Nested'
  BY DEF Nested, Stacked, Moved, Others, Clean

LEMMA NestedPush ==
  ASSUME NEW t \in Worker, NEW f \in Frame, Nested, TypeOK, Pushed(t, f), Clean(f),
         Idle(t) \/ At(t, "callback")
  PROVE  Nested'
  <1>1. ASSUME NEW i \in DOMAIN stack'[t]
        PROVE  /\ i > 1 => stack'[t][i].at \in {"current", "notified", "callback"}
               /\ stack'[t][i].at \notin {"current", "notified"} => stack'[t][i].nodes = {}
    <2>1. CASE i = 1
      BY <2>1 DEF Pushed, Clean
    <2>2. CASE i > 1
      <3>1. PICK j \in DOMAIN stack[t] : i = j + 1 /\ stack'[t][i] = stack[t][j]
        BY <2>2 DEF Pushed
      <3>2. ~Idle(t)
        BY <3>1 DEF Idle
      <3>3. Stacked(t) /\ Top(t).at = "callback"
        BY <3>2, TopFacts DEF At
      <3>4. j = 1 \/ j > 1
        BY <3>3 DEF Stacked
      <3>5. QED
        BY <3>1, <3>3, <3>4 DEF Nested, Stacked
    <2>3. QED
      BY <2>1, <2>2 DEF Pushed
  <1>2. QED
    BY <1>1 DEF Nested, Pushed, Others

LEMMA NestedCall ==
  ASSUME NEW t \in Worker, NEW f \in Frame, NEW g \in Frame, Nested, Stacked(t),
         Called(t, f, g), Clean(g), f.at \in {"current", "notified"}
  PROVE  Nested'
  <1>1. ASSUME NEW i \in DOMAIN stack'[t]
        PROVE  /\ i > 1 => stack'[t][i].at \in {"current", "notified", "callback"}
               /\ stack'[t][i].at \notin {"current", "notified"} => stack'[t][i].nodes = {}
    <2>1. CASE i = 1 \/ i = 2
      BY <2>1 DEF Called, Clean
    <2>2. CASE i > 2
      <3>1. PICK j \in DOMAIN stack[t] : j > 1 /\ stack'[t][i] = stack[t][j]
        BY <2>2 DEF Called
      <3>2. QED
        BY <3>1 DEF Nested
    <2>3. QED
      BY <2>1, <2>2 DEF Called
  <1>2. QED
    BY <1>1 DEF Nested, Called, Others

LEMMA NestedPop ==
  ASSUME NEW t \in Worker, Nested, Popped(t)
  PROVE  Nested' /\ ~At(t, "insert")' /\ ~At(t, "front")'
  <1>1. ASSUME NEW i \in DOMAIN stack'[t]
        PROVE  /\ stack'[t][i].at \in {"current", "notified", "callback"}
               /\ stack'[t][i].at \notin {"current", "notified"} => stack'[t][i].nodes = {}
    <2>1. PICK j \in DOMAIN stack[t] : j > 1 /\ stack'[t][i] = stack[t][j]
      BY DEF Popped
    <2>2. QED
      BY <2>1 DEF Nested
  <1>2. Nested'
    BY <1>1 DEF Nested, Popped, Others
  <1>3. ASSUME ~Idle(t)'
        PROVE  Top(t)'.at \in {"current", "notified", "callback"}
    BY <1>1, <1>3 DEF Popped
  <1>4. QED
    BY <1>2, <1>3 DEF At

\* The threads in insert() stay the same when t neither was nor is in it.
LEMMA InsertingSame ==
  ASSUME NEW t \in Worker, Others(t), ~At(t, "insert"), ~At(t, "insert")'
  PROVE  Inserting' = Inserting
  BY DEF Inserting, Others, At, Top, Idle

\* Held nodes after each operation on the stack.
HeldAlso(S) ==
  /\ HeldOnce'
  /\ \A n \in Node : Held(n)' <=> Held(n) \/ n \in S

LEMMA HeldMove ==
  ASSUME NEW t \in Worker, NEW f \in Frame, Stacked(t), Moved(t, f), HeldOnce,
         Top(t).nodes = {}, \A n \in f.nodes : ~Held(n)
  PROVE  HeldAlso(f.nodes)
  <1>1. ASSUME NEW u \in Worker, NEW i \in DOMAIN stack'[u], NEW n \in Node
        PROVE  /\ u = t /\ i = 1 => (Holds(u, i, n)' <=> n \in f.nodes)
               /\ ~(u = t /\ i = 1) => i \in DOMAIN stack[u] /\ (Holds(u, i, n)' <=> Holds(u, i, n))
    BY DEF Stacked, Moved, Others, Holds
  <1>2. ASSUME NEW u \in Worker, NEW i \in DOMAIN stack[u], NEW n \in Node, Holds(u, i, n)
        PROVE  ~(u = t /\ i = 1) /\ i \in DOMAIN stack'[u]
    BY <1>2 DEF Stacked, Moved, Others, Holds
  <1>3. ASSUME NEW n \in Node
        PROVE  Held(n)' <=> Held(n) \/ n \in f.nodes
    <2>1. ASSUME Held(n)'
          PROVE  Held(n) \/ n \in f.nodes
      BY <1>1, <2>1 DEF Held
    <2>2. ASSUME Held(n)
          PROVE  Held(n)'
      BY <1>1, <1>2, <2>2 DEF Held
    <2>3. ASSUME n \in f.nodes
          PROVE  Held(n)'
      <3>1. 1 \in DOMAIN stack'[t] /\ Holds(t, 1, n)'
        BY <2>3 DEF Stacked, Moved, Holds
      <3>2. QED
        BY <3>1 DEF Held
    <2>4. QED
      BY <2>1, <2>2, <2>3
  <1>4. ASSUME NEW u \in Worker, NEW v \in Worker, NEW n \in Node,
               NEW i \in DOMAIN stack'[u], NEW j \in DOMAIN stack'[v],
               Holds(u, i, n)', Holds(v, j, n)'
        PROVE  u = v /\ i = j
    <2>1. n \in f.nodes => ~Held(n)
      OBVIOUS
    <2>2. CASE u = t /\ i = 1
      BY <1>1, <1>4, <2>1, <2>2 DEF Held
    <2>3. CASE v = t /\ j = 1
      BY <1>1, <1>4, <2>1, <2>3 DEF Held
    <2>4. CASE ~(u = t /\ i = 1) /\ ~(v = t /\ j = 1)
      BY <1>1, <1>4, <2>4 DEF HeldOnce
    <2>5. QED
      BY <2>2, <2>3, <2>4
  <1>5. HeldOnce'
    BY <1>4 DEF HeldOnce
  <1>6. QED
    BY <1>3, <1>5 DEF HeldAlso

LEMMA HeldPush ==
  ASSUME NEW t \in Worker, NEW f \in Frame, Pushed(t, f), HeldOnce,
         \A i \in DOMAIN stack[t] : i \in Nat,
         \A n \in f.nodes : ~Held(n)
  PROVE  HeldAlso(f.nodes)
  <1>1. ASSUME NEW u \in Worker, NEW i \in DOMAIN stack'[u]
        PROVE  \/ u = t /\ i = 1 /\ stack'[u][i] = f
               \/ u = t /\ \E j \in DOMAIN stack[u] : i = j + 1 /\ stack'[u][i] = stack[u][j]
               \/ u # t /\ i \in DOMAIN stack[u] /\ stack'[u][i] = stack[u][i]
    BY DEF Pushed, Others
  <1>2. ASSUME NEW u \in Worker, NEW j \in DOMAIN stack[u]
        PROVE  \E i \in DOMAIN stack'[u] : stack'[u][i] = stack[u][j]
    BY DEF Pushed, Others
  <1>3. ASSUME NEW n \in Node
        PROVE  Held(n)' <=> Held(n) \/ n \in f.nodes
    <2>1. ASSUME Held(n)'
          PROVE  Held(n) \/ n \in f.nodes
      BY <1>1, <2>1 DEF Held, Holds
    <2>2. ASSUME Held(n)
          PROVE  Held(n)'
      BY <1>2, <2>2 DEF Held, Holds
    <2>3. ASSUME n \in f.nodes
          PROVE  Held(n)'
      BY <2>3 DEF Pushed, Held, Holds
    <2>4. QED
      BY <2>1, <2>2, <2>3
  <1>4. ASSUME NEW u \in Worker, NEW v \in Worker, NEW n \in Node,
               NEW i \in DOMAIN stack'[u], NEW j \in DOMAIN stack'[v],
               Holds(u, i, n)', Holds(v, j, n)'
        PROVE  u = v /\ i = j
    <2>1. n \in f.nodes => ~Held(n)
      OBVIOUS
    <2>2. \/ u = t /\ i = 1 /\ n \in f.nodes
          \/ \E k \in DOMAIN stack[u] : Holds(u, k, n) /\ i = (IF u = t THEN k + 1 ELSE k)
      BY <1>1, <1>4 DEF Holds
    <2>3. \/ v = t /\ j = 1 /\ n \in f.nodes
          \/ \E k \in DOMAIN stack[v] : Holds(v, k, n) /\ j = (IF v = t THEN k + 1 ELSE k)
      BY <1>1, <1>4 DEF Holds
    <2>4. QED
      BY <2>1, <2>2, <2>3 DEF HeldOnce, Held
  <1>5. HeldOnce'
    BY <1>4 DEF HeldOnce
  <1>6. QED
    BY <1>3, <1>5 DEF HeldAlso

LEMMA HeldCall ==
  ASSUME NEW t \in Worker, NEW f \in Frame, NEW g \in Frame, NEW m \in Top(t).nodes,
         Stacked(t), Called(t, f, g), HeldOnce, Top(t).nodes \subseteq Node,
         f.nodes = Top(t).nodes \ {m}, g.nodes = {}
  PROVE  HeldOnce' /\ \A n \in Node : Held(n)' <=> Held(n) /\ n # m
  <1>1. ASSUME NEW u \in Worker, NEW i \in DOMAIN stack'[u], NEW n \in Node, Holds(u, i, n)'
        PROVE  \E k \in DOMAIN stack[u] :
                 Holds(u, k, n) /\ n # m /\ i = (IF u = t THEN k + 1 ELSE k)
    <2>1. Holds(t, 1, m)
      BY DEF Stacked, Holds
    <2>2. CASE u # t
      <3>1. i \in DOMAIN stack[u] /\ Holds(u, i, n)
        BY <1>1, <2>2 DEF Called, Others, Holds
      <3>2. n # m
        BY <2>1, <2>2, <3>1 DEF HeldOnce, Stacked
      <3>3. QED
        BY <2>2, <3>1, <3>2
    <2>3. CASE u = t /\ i = 2
      <3>1. n \in Top(t).nodes /\ n # m
        BY <1>1, <2>3 DEF Called, Holds
      <3>2. Holds(t, 1, n)
        BY <3>1 DEF Stacked, Holds
      <3>3. QED
        BY <2>3, <3>1, <3>2 DEF Stacked
    <2>4. CASE u = t /\ i > 2
      <3>1. PICK k \in DOMAIN stack[t] : k > 1 /\ i = k + 1 /\ stack'[t][i] = stack[t][k]
        BY <2>4 DEF Called
      <3>2. Holds(t, k, n)
        BY <1>1, <2>4, <3>1 DEF Holds
      <3>3. n # m
        BY <2>1, <3>1, <3>2 DEF HeldOnce, Stacked
      <3>4. QED
        BY <2>4, <3>1, <3>2, <3>3
    <2>5. ~(u = t /\ i = 1)
      BY <1>1 DEF Called, Holds
    <2>6. QED
      BY <2>2, <2>3, <2>4, <2>5 DEF Called
  <1>2. ASSUME NEW n \in Node, Held(n), n # m
        PROVE  Held(n)'
    <2>0. PICK u \in Worker : \E k \in DOMAIN stack[u] : Holds(u, k, n)
      BY <1>2 DEF Held
    <2>1. PICK k \in DOMAIN stack[u] : Holds(u, k, n)
      BY <2>0
    <2>2. CASE u # t
      BY <2>1, <2>2 DEF Called, Others, Held, Holds
    <2>3. CASE u = t /\ k = 1
      <3>1. 2 \in DOMAIN stack'[t] /\ Holds(t, 2, n)'
        BY <1>2, <2>1, <2>3 DEF Stacked, Called, Holds
      <3>2. QED
        BY <3>1 DEF Held
    <2>4. CASE u = t /\ k > 1
      <3>1. PICK i \in DOMAIN stack'[t] : stack'[t][i] = stack[t][k]
        BY <2>4 DEF Called
      <3>2. QED
        BY <2>1, <2>4, <3>1 DEF Held, Holds
    <2>5. QED
      BY <2>1, <2>2, <2>3, <2>4 DEF Stacked
  <1>3. ASSUME NEW u \in Worker, NEW v \in Worker, NEW n \in Node,
               NEW i \in DOMAIN stack'[u], NEW j \in DOMAIN stack'[v],
               Holds(u, i, n)', Holds(v, j, n)'
        PROVE  u = v /\ i = j
    BY <1>1, <1>3 DEF HeldOnce
  <1>4. HeldOnce'
    BY <1>3 DEF HeldOnce
  <1>5. ASSUME NEW n \in Node, Held(n)'
        PROVE  Held(n) /\ n # m
    BY <1>1, <1>5 DEF Held
  <1>6. QED
    BY <1>2, <1>4, <1>5

LEMMA HeldPop ==
  ASSUME NEW t \in Worker, Stacked(t), Popped(t), HeldOnce, Top(t).nodes = {}
  PROVE  HeldAlso({})
  <1>1. ASSUME NEW u \in Worker, NEW i \in DOMAIN stack'[u]
        PROVE  \E k \in DOMAIN stack[u] :
                 stack'[u][i] = stack[u][k] /\ k = (IF u = t THEN i + 1 ELSE i)
    BY DEF Popped, Others
  <1>2. ASSUME NEW n \in Node, Held(n)
        PROVE  Held(n)'
    <2>0. PICK u \in Worker : \E k \in DOMAIN stack[u] : Holds(u, k, n)
      BY <1>2 DEF Held
    <2>1. PICK k \in DOMAIN stack[u] : Holds(u, k, n)
      BY <2>0
    <2>2. u = t => k > 1
      BY <2>1 DEF Stacked, Holds
    <2>3. PICK i \in DOMAIN stack'[u] : stack'[u][i] = stack[u][k]
      BY <2>2 DEF Popped, Others
    <2>4. QED
      BY <2>1, <2>3 DEF Held, Holds
  <1>3. ASSUME NEW n \in Node, Held(n)'
        PROVE  Held(n)
    BY <1>1, <1>3 DEF Held, Holds
  <1>4. ASSUME NEW u \in Worker, NEW v \in Worker, NEW n \in Node,
               NEW i \in DOMAIN stack'[u], NEW j \in DOMAIN stack'[v],
               Holds(u, i, n)', Holds(v, j, n)'
        PROVE  u = v /\ i = j
    <2>1. PICK k \in DOMAIN stack[u] :
            stack'[u][i] = stack[u][k] /\ k = (IF u = t THEN i + 1 ELSE i)
      BY <1>1
    <2>2. PICK l \in DOMAIN stack[v] :
            stack'[v][j] = stack[v][l] /\ l = (IF v = t THEN j + 1 ELSE j)
      BY <1>1
    <2>3. u = v /\ k = l
      BY <1>4, <2>1, <2>2 DEF HeldOnce, Holds
    <2>4. u = t => i \in Nat /\ j \in Nat
      BY <2>3 DEF Popped
    <2>5. QED
      BY <2>1, <2>2, <2>3, <2>4
  <1>5. HeldOnce'
    BY <1>4 DEF HeldOnce
  <1>6. QED
    BY <1>2, <1>3, <1>5 DEF HeldAlso

\* A run of expired() that is not over stays so.
Awake(f) == f.at \in {"check", "front", "current", "rearm"}

LEMMA WakingPush ==
  ASSUME NEW t \in Worker, NEW f \in Frame, Pushed(t, f), Waking, ready' = ready
  PROVE  Waking'
  <1>1. ASSUME NEW u \in Worker, NEW i \in DOMAIN stack[u]
        PROVE  \E j \in DOMAIN stack'[u] : stack'[u][j] = stack[u][i]
    BY DEF Pushed, Others
  <1>2. QED
    BY <1>1 DEF Waking

LEMMA WakingMove ==
  ASSUME NEW t \in Worker, NEW f \in Frame, Stacked(t), Moved(t, f), Waking,
         ready' = ready, Awake(Top(t)) => Awake(f)
  PROVE  Waking'
  <1>1. ASSUME NEW u \in Worker, NEW i \in DOMAIN stack[u], Awake(stack[u][i])
        PROVE  i \in DOMAIN stack'[u] /\ Awake(stack'[u][i])
    <2> HIDE DEF Awake
    <2>1. CASE u # t
      BY <1>1, <2>1 DEF Moved, Others
    <2>2. CASE u = t /\ i = 1
      BY <1>1, <2>2 DEF Moved, Stacked
    <2>3. CASE u = t /\ i # 1
      BY <1>1, <2>3 DEF Moved, Stacked
    <2>4. QED
      BY <2>1, <2>2, <2>3
  <1>2. QED
    BY <1>1 DEF Waking, Awake

LEMMA WakingCall ==
  ASSUME NEW t \in Worker, NEW f \in Frame, NEW g \in Frame, Stacked(t),
         Called(t, f, g), Waking, ready' = ready, Awake(Top(t)) => Awake(f)
  PROVE  Waking'
  <1>1. ASSUME NEW u \in Worker, NEW i \in DOMAIN stack[u], Awake(stack[u][i])
        PROVE  \E j \in DOMAIN stack'[u] : Awake(stack'[u][j])
    <2>1. CASE u # t
      BY <1>1, <2>1 DEF Called, Others
    <2>2. CASE u = t /\ i = 1
      BY <1>1, <2>2 DEF Called, Stacked
    <2>3. CASE u = t /\ i > 1
      BY <1>1, <2>3 DEF Called
    <2>4. QED
      BY <2>1, <2>2, <2>3 DEF Stacked
  <1>2. QED
    BY <1>1 DEF Waking, Awake

LEMMA WakingPop ==
  ASSUME NEW t \in Worker, Stacked(t), Popped(t), Waking, ready' = ready,
         ~Awake(Top(t))
  PROVE  Waking'
  <1>1. ASSUME NEW u \in Worker, NEW i \in DOMAIN stack[u], Awake(stack[u][i])
        PROVE  \E j \in DOMAIN stack'[u] : stack'[u][j] = stack[u][i]
    <2>1. u = t => i > 1
      BY <1>1 DEF Stacked
    <2>2. QED
      BY <2>1 DEF Popped, Others
  <1>2. QED
    BY <1>1 DEF Waking, Awake

-----------------------------------------------------------------------------
(* One lemma per action: the step preserves IInv *)

LEMMA FrameTypes ==
  ASSUME NEW place \in Place, NEW nodes \in SUBSET Node
  PROVE  /\ Fresh(place) \in Frame
         /\ Fresh(place).at = place /\ Fresh(place).nodes = {}
         /\ Releasing(place, nodes) \in Frame
         /\ Releasing(place, nodes).at = place /\ Releasing(place, nodes).nodes = nodes
  BY WatcherAssumption DEF Fresh, Releasing, Frame, Time

\* Whoever is to release it, no watch changes its fate.
LEMMA FatesSame ==
  ASSUME NothingAhead, ReleasedOnce, HeldAlso({}), pushed \in 0 .. Calls,
         UNCHANGED <<queue, index, pushed, released>>
  PROVE  NothingAhead' /\ ReleasedOnce'
  <1>1. \A n \in Node : Held(n)' <=> Held(n)
    BY DEF HeldAlso
  <1>2. NothingAhead'
    BY <1>1 DEF NothingAhead
  <1>3. \A n \in 1 .. pushed : n \in Node
    BY WatcherAssumption DEF Node
  <1>4. QED
    BY <1>1, <1>2, <1>3 DEF ReleasedOnce, HeldAlso

LEMMA InsertPreserves ==
  ASSUME IInv, NEW t \in Worker, NEW w \in Watch, Insert(t, w)
  PROVE  IInv'
  <1> DEFINE f == [at |-> "insert", nodes |-> {}, watch |-> w, left |-> Duration]
  <1> USE DEF IInv
  <1>1. /\ Idle(t) \/ At(t, "callback")
        /\ calls < Calls /\ calls' = calls + 1
        /\ Push(t, f)
        /\ UNCHANGED <<queue, index, owner, left, pushed, released, timer, ready, posted, undefined>>
    BY DEF Insert, May
  <1>2. f \in Frame /\ f.at = "insert" /\ f.nodes = {}
    BY WatcherAssumption DEF Frame, Time, Place
  <1> HIDE DEF f
  <1>3. Pushed(t, f)
    BY <1>1, <1>2, PushFacts
  <1>4. TypeOK'
    BY <1>1, <1>3, WatcherAssumption DEF TypeOK, Pushed, Others
  <1>5. Nested'
    BY <1>1, <1>2, <1>3, NestedPush DEF Clean
  <1>6. Inserting' = Inserting \cup {t} /\ t \notin Inserting
    BY <1>1, <1>2, <1>3 DEF Inserting, Pushed, Others, At, Top, Idle
  <1>7. CallsCover'
    <2>1. Cardinality(Inserting \cup {t}) = Cardinality(Inserting) + 1
          /\ IsFiniteSet(Inserting \cup {t}) /\ Cardinality(Inserting) \in Nat
      BY <1>6, FS_AddElement, FS_CardinalityType DEF CallsCover
    <2>2. QED
      BY <1>1, <1>6, <2>1 DEF CallsCover, TypeOK
  <1>8. HeldAlso({})
    <2>1. \A i \in DOMAIN stack[t] : i \in Nat
      BY DEF TypeOK
    <2>2. HeldAlso(f.nodes)
      BY <1>2, <1>3, <2>1, HeldPush DEF ReleasedOnce
    <2>3. QED
      BY <1>2, <2>2
  <1>9. NothingAhead' /\ ReleasedOnce'
    BY <1>1, <1>8, FatesSame DEF TypeOK
  <1>10. SomeoneWakes'
    <2>1. Waking => Waking'
      BY <1>1, <1>2, <1>3, WakingPush
    <2>2. QED
      BY <1>1, <2>1 DEF SomeoneWakes
  <1>11. QED
    BY <1>4, <1>5, <1>7, <1>9, <1>10

LEMMA EnqueuePreserves ==
  ASSUME IInv, NEW t \in Worker, Enqueue(t)
  PROVE  IInv'
  <1> DEFINE n == pushed + 1
  <1> USE DEF IInv
  <1>1. /\ At(t, "insert") /\ ~Idle(t) /\ Top(t).at = "insert"
        /\ queue' = queue \cup {n} /\ index' = index \cup {n}
        /\ owner' = [owner EXCEPT ![n] = Top(t).watch]
        /\ left' = [left EXCEPT ![n] = Top(t).left]
        /\ pushed' = n
        /\ IF queue = {} THEN timer' = Top(t).left ELSE timer' = timer
        /\ Pop(t)
        /\ UNCHANGED <<released, ready, posted, calls, undefined>>
    BY DEF Enqueue, At, Arm
  <1>2. Stacked(t)
    BY <1>1, TopFacts
  <1>3. Popped(t)
    BY <1>1, PopFacts
  <1>4. t \in Inserting
    BY <1>1 DEF Inserting
  <1>5. /\ Cardinality(Inserting) \in Nat /\ IsFiniteSet(Inserting \ {t})
        /\ Cardinality(Inserting \ {t}) = Cardinality(Inserting) - 1
        /\ Cardinality(Inserting \ {t}) \in Nat
    BY <1>4, FS_RemoveElement, FS_CardinalityType DEF CallsCover
  <1>6. n \in Node /\ n \in 0 .. Calls
    BY <1>5, WatcherAssumption DEF CallsCover, TypeOK, Node
  <1>7. TypeOK'
    BY <1>1, <1>2, <1>3, <1>6 DEF TypeOK, Stacked, Popped, Others, Frame
  <1>8. Nested' /\ ~At(t, "insert")'
    BY <1>3, NestedPop
  <1>9. Inserting' = Inserting \ {t}
    BY <1>3, <1>8 DEF Inserting, Popped, Others, At, Top, Idle
  <1>10. CallsCover'
    BY <1>1, <1>5, <1>9 DEF CallsCover, TypeOK
  <1>11. HeldAlso({})
    <2>1. Top(t).nodes = {}
      BY <1>1, <1>2 DEF Stacked, Nested
    <2>2. QED
      BY <1>2, <1>3, <2>1, HeldPop DEF ReleasedOnce
  <1>12. n > pushed /\ \A m \in 1 .. n : m \in 1 .. pushed \/ m = n
    BY DEF TypeOK
  <1>13. ReleasedOnce'
    <2>1. ~Held(n) /\ released[n] = 0
      BY <1>6, <1>12 DEF NothingAhead
    <2>2. \A m \in 1 .. n : m \in Node /\ (Held(m)' <=> Held(m))
      BY <1>6, <1>11, WatcherAssumption DEF HeldAlso, Node
    <2>3. QED
      BY <1>1, <1>11, <1>12, <2>1, <2>2 DEF ReleasedOnce, HeldAlso
  <1>14. NothingAhead'
    BY <1>1, <1>11, <1>12 DEF NothingAhead, HeldAlso, TypeOK, Node
  <1>15. SomeoneWakes'
    <2>1. Waking => Waking'
      BY <1>1, <1>2, <1>3, WakingPop DEF Awake
    <2>2. Top(t).left # None
      BY <1>2, WatcherAssumption DEF Stacked, Frame, Time
    <2>3. QED
      BY <1>1, <2>1, <2>2 DEF SomeoneWakes
  <1>16. QED
    BY <1>7, <1>8, <1>10, <1>13, <1>14, <1>15

\* A step on the stack after which the same nodes are held.
Kept ==
  /\ stack' \in [Worker -> Seq(Frame)]
  /\ Nested'
  /\ HeldAlso({})
  /\ Inserting' = Inserting

LEMMA CallsCoverSame ==
  ASSUME CallsCover, pushed \in Nat, calls \in Nat, pushed' = pushed, Inserting' = Inserting,
         calls' \in Nat, calls' >= calls
  PROVE  CallsCover'
  BY FS_CardinalityType DEF CallsCover

LEMMA PushKeeps ==
  ASSUME IInv, NEW t \in Worker, NEW f \in Frame, Push(t, f),
         Idle(t) \/ At(t, "callback"), f.at # "insert", f.nodes = {}
  PROVE  Pushed(t, f) /\ Kept
  <1> USE DEF IInv
  <1>1. Pushed(t, f)
    BY PushFacts
  <1>2. Nested'
    BY <1>1, NestedPush DEF Clean
  <1>3. HeldAlso({})
    <2>1. \A i \in DOMAIN stack[t] : i \in Nat
      BY DEF TypeOK
    <2>2. HeldAlso(f.nodes)
      BY <1>1, <2>1, HeldPush DEF ReleasedOnce
    <2>3. QED
      BY <2>2
  <1>4. Inserting' = Inserting
    <2>1. ~At(t, "insert") /\ ~At(t, "insert")'
      BY <1>1 DEF At, Pushed
    <2>2. QED
      BY <1>1, <2>1, InsertingSame DEF Pushed
  <1>5. QED
    BY <1>1, <1>2, <1>3, <1>4 DEF Kept, Pushed, Others

LEMMA MoveKeeps ==
  ASSUME IInv, NEW t \in Worker, NEW f \in Frame, Move(t, f), ~Idle(t),
         Top(t).at # "insert", f.at # "insert", Top(t).nodes = {}, f.nodes = {}
  PROVE  Stacked(t) /\ Moved(t, f) /\ Kept
  <1> USE DEF IInv
  <1>1. Stacked(t) /\ Moved(t, f)
    BY TopFacts, MoveFacts
  <1>2. Nested'
    BY <1>1, NestedMove DEF Clean
  <1>3. HeldAlso({})
    <2>1. HeldAlso(f.nodes)
      BY <1>1, HeldMove DEF ReleasedOnce
    <2>2. QED
      BY <2>1
  <1>4. Inserting' = Inserting
    <2>1. ~At(t, "insert") /\ ~At(t, "insert")'
      BY <1>1 DEF At, Moved
    <2>2. QED
      BY <1>1, <2>1, InsertingSame DEF Moved
  <1>5. QED
    BY <1>1, <1>2, <1>3, <1>4 DEF Kept, Moved, Others

LEMMA PopKeeps ==
  ASSUME IInv, NEW t \in Worker, Pop(t), ~Idle(t), Top(t).at # "insert", Top(t).nodes = {}
  PROVE  Stacked(t) /\ Popped(t) /\ Kept
  <1> USE DEF IInv
  <1>1. Stacked(t) /\ Popped(t)
    BY TopFacts, PopFacts
  <1>2. Nested' /\ ~At(t, "insert")'
    BY <1>1, NestedPop
  <1>3. HeldAlso({})
    BY <1>1, HeldPop DEF ReleasedOnce
  <1>4. Inserting' = Inserting
    <2>1. ~At(t, "insert")
      BY DEF At
    <2>2. QED
      BY <1>1, <1>2, <2>1, InsertingSame DEF Popped
  <1>5. QED
    BY <1>1, <1>2, <1>3, <1>4 DEF Kept, Popped, Others

\* The innermost frame of a thread that is in none of the releasing places.
LEMMA TopClean ==
  ASSUME IInv, NEW t \in Worker, ~Idle(t), Top(t).at \notin {"current", "notified"}
  PROVE  Top(t).nodes = {}
  BY TopFacts DEF IInv, Stacked, Nested

\* The thread that takes them out has the nodes to itself.
LEMMA TakeOutPreserves ==
  ASSUME IInv, NEW t \in Worker, NEW x \in Target, TakeOut(t, x),
         Idle(t) \/ At(t, "callback"),
         posted' \in [Target -> Nat], calls' \in 0 .. Calls, calls' >= calls
  PROVE  IInv'
  <1> DEFINE f == Releasing("notified", Hit(x))
  <1> USE DEF IInv
  <1>1. /\ queue' = queue \ Hit(x) /\ index' = index \ Hit(x)
        /\ Push(t, f)
        /\ UNCHANGED <<owner, left, pushed, released, timer, ready, undefined>>
    BY DEF TakeOut
  <1>2. Hit(x) \subseteq index /\ Hit(x) \subseteq Node
    BY DEF Hit, TypeOK
  <1>3. f \in Frame /\ f.at = "notified" /\ f.nodes = Hit(x)
    BY <1>2, FrameTypes DEF Place
  <1> HIDE DEF f
  <1>4. Pushed(t, f)
    BY <1>1, <1>3, PushFacts
  <1>5. TypeOK'
    BY <1>1, <1>4 DEF TypeOK, Pushed, Others
  <1>6. Nested'
    BY <1>3, <1>4, NestedPush DEF Clean
  <1>7. CallsCover'
    <2>1. ~At(t, "insert") /\ ~At(t, "insert")'
      BY <1>3, <1>4 DEF At, Pushed
    <2>2. Inserting' = Inserting
      BY <1>4, <2>1, InsertingSame DEF Pushed
    <2>3. QED
      BY <1>1, <2>2, CallsCoverSame DEF TypeOK
  <1>8. ASSUME NEW n \in Hit(x)
        PROVE  n \in 1 .. pushed /\ n \in queue /\ ~Held(n)
    BY <1>2 DEF ReleasedOnce, NothingAhead, Node, TypeOK
  <1>9. HeldAlso(Hit(x))
    <2>1. \A i \in DOMAIN stack[t] : i \in Nat
      BY DEF TypeOK
    <2>2. HeldAlso(f.nodes)
      BY <1>3, <1>4, <1>8, <2>1, HeldPush DEF ReleasedOnce
    <2>3. QED
      BY <1>3, <2>2
  <1>10. ReleasedOnce'
    <2>1. \A n \in 1 .. pushed : n \in Node
      BY WatcherAssumption DEF Node, TypeOK
    <2>2. QED
      BY <1>1, <1>8, <1>9, <2>1 DEF ReleasedOnce, HeldAlso
  <1>11. NothingAhead'
    BY <1>1, <1>8, <1>9 DEF NothingAhead, HeldAlso, TypeOK, Node
  <1>12. SomeoneWakes'
    <2>1. Waking => Waking'
      BY <1>1, <1>3, <1>4, WakingPush
    <2>2. QED
      BY <1>1, <2>1 DEF SomeoneWakes
  <1>13. QED
    BY <1>5, <1>6, <1>7, <1>10, <1>11, <1>12

LEMMA NotifyPreserves ==
  ASSUME IInv, NEW t \in Worker, NEW x \in Target, Notify(t, x)
  PROVE  IInv'
  <1>1. /\ Idle(t) \/ At(t, "callback")
        /\ calls < Calls /\ calls' = calls + 1 /\ posted' = posted
        /\ TakeOut(t, x)
    BY DEF Notify, May
  <1>2. calls' \in 0 .. Calls /\ calls' >= calls /\ posted' \in [Target -> Nat]
    BY <1>1, WatcherAssumption DEF IInv, TypeOK
  <1>3. QED
    BY <1>1, <1>2, TakeOutPreserves

LEMMA RunPostedPreserves ==
  ASSUME IInv, NEW t \in Worker, NEW x \in Target, RunPosted(t, x)
  PROVE  IInv'
  <1>1. /\ Idle(t) /\ posted[x] > 0 /\ posted' = [posted EXCEPT ![x] = @ - 1]
        /\ calls' = calls /\ TakeOut(t, x)
    BY DEF RunPosted
  <1>2. calls' \in 0 .. Calls /\ calls' >= calls /\ posted' \in [Target -> Nat]
    BY <1>1 DEF IInv, TypeOK
  <1>3. QED
    BY <1>1, <1>2, TakeOutPreserves

\* A step that leaves the stack alone.
LEMMA StackSame ==
  ASSUME IInv, stack' = stack
  PROVE  Kept
  BY DEF Kept, IInv, TypeOK, Nested, HeldAlso, HeldOnce, Held, Holds, ReleasedOnce,
         Inserting, At, Top, Idle

LEMMA AsyncNotifyPreserves ==
  ASSUME IInv, NEW t \in Worker, NEW x \in Target, AsyncNotify(t, x)
  PROVE  IInv'
  <1> USE DEF IInv
  <1>1. /\ calls < Calls /\ calls' = calls + 1
        /\ posted' = [posted EXCEPT ![x] = @ + 1]
        /\ UNCHANGED <<queue, index, owner, left, pushed, released, timer, ready, stack, undefined>>
    BY DEF AsyncNotify, May
  <1>2. Kept
    BY <1>1, StackSame
  <1>3. TypeOK'
    BY <1>1, WatcherAssumption DEF TypeOK
  <1>4. CallsCover'
    BY <1>1, <1>2, CallsCoverSame DEF Kept, TypeOK
  <1>5. NothingAhead' /\ ReleasedOnce'
    BY <1>1, <1>2, FatesSame DEF Kept, TypeOK
  <1>6. SomeoneWakes'
    BY <1>1 DEF SomeoneWakes, Waking
  <1>7. QED
    BY <1>2, <1>3, <1>4, <1>5, <1>6 DEF Kept

LEMMA FirePreserves ==
  ASSUME IInv, Fire
  PROVE  IInv'
  <1> USE DEF IInv
  <1>1. /\ timer' = None /\ ready' = ready + 1
        /\ UNCHANGED <<queue, index, owner, left, pushed, released, posted, calls, stack, undefined>>
    BY DEF Fire
  <1>2. Kept
    BY <1>1, StackSame
  <1>3. TypeOK'
    BY <1>1 DEF TypeOK
  <1>4. CallsCover'
    BY <1>1, <1>2, CallsCoverSame DEF Kept, TypeOK
  <1>5. NothingAhead' /\ ReleasedOnce'
    BY <1>1, <1>2, FatesSame DEF Kept, TypeOK
  <1>6. SomeoneWakes'
    BY <1>1 DEF SomeoneWakes, Waking, TypeOK
  <1>7. QED
    BY <1>2, <1>3, <1>4, <1>5, <1>6 DEF Kept

LEMMA ExpiredPreserves ==
  ASSUME IInv, NEW t \in Worker, Expired(t)
  PROVE  IInv'
  <1> USE DEF IInv
  <1>1. /\ Idle(t) /\ ready > 0 /\ ready' = ready - 1
        /\ Push(t, Fresh("check"))
        /\ UNCHANGED <<queue, index, owner, left, pushed, released, timer, posted, calls, undefined>>
    BY DEF Expired
  <1>2. /\ Fresh("check") \in Frame /\ Fresh("check").at = "check"
        /\ Fresh("check").nodes = {}
    BY FrameTypes DEF Place
  <1>3. Pushed(t, Fresh("check")) /\ Kept
    BY <1>1, <1>2, PushKeeps
  <1>4. TypeOK'
    BY <1>1, <1>3 DEF TypeOK, Kept
  <1>5. CallsCover'
    BY <1>1, <1>3, CallsCoverSame DEF Kept, TypeOK
  <1>6. NothingAhead' /\ ReleasedOnce'
    BY <1>1, <1>3, FatesSame DEF Kept, TypeOK
  <1>7. Waking'
    BY <1>2, <1>3 DEF Waking, Pushed
  <1>8. QED
    BY <1>3, <1>4, <1>5, <1>6, <1>7 DEF Kept, SomeoneWakes

LEMMA CheckPreserves ==
  ASSUME IInv, NEW t \in Worker, Check(t)
  PROVE  IInv'
  <1> DEFINE place == IF queue = {} THEN "rearm" ELSE "front"
  <1> USE DEF IInv
  <1>1. /\ ~Idle(t) /\ Top(t).at = "check"
        /\ Move(t, Fresh(place))
        /\ UNCHANGED <<queue, index, owner, left, pushed, released, timer, ready, posted, calls, undefined>>
    BY DEF Check, At
  <1>2. /\ Fresh(place) \in Frame /\ Fresh(place).at = place
        /\ Fresh(place).nodes = {} /\ place \in {"rearm", "front"}
    BY FrameTypes DEF Place
  <1> HIDE DEF place
  <1>3. Top(t).nodes = {}
    BY <1>1, TopClean
  <1>4. Stacked(t) /\ Moved(t, Fresh(place)) /\ Kept
    BY <1>1, <1>2, <1>3, MoveKeeps
  <1>5. TypeOK'
    BY <1>1, <1>4 DEF TypeOK, Kept
  <1>6. CallsCover'
    BY <1>1, <1>4, CallsCoverSame DEF Kept, TypeOK
  <1>7. NothingAhead' /\ ReleasedOnce'
    BY <1>1, <1>4, FatesSame DEF Kept, TypeOK
  <1>8. Waking'
    BY <1>2, <1>4 DEF Waking, Moved, Stacked
  <1>9. QED
    BY <1>4, <1>5, <1>6, <1>7, <1>8 DEF Kept, SomeoneWakes

LEMMA ReturnPreserves ==
  ASSUME IInv, NEW t \in Worker, Return(t)
  PROVE  IInv'
  <1> USE DEF IInv
  <1>1. /\ ~Idle(t) /\ Top(t).at \in {"callback", "notified"} /\ Top(t).nodes = {}
        /\ Pop(t)
        /\ UNCHANGED <<queue, index, owner, left, pushed, released, timer, ready, posted, calls, undefined>>
    BY DEF Return, At
  <1>2. Stacked(t) /\ Popped(t) /\ Kept
    BY <1>1, PopKeeps
  <1>3. TypeOK'
    BY <1>1, <1>2 DEF TypeOK, Kept
  <1>4. CallsCover'
    BY <1>1, <1>2, CallsCoverSame DEF Kept, TypeOK
  <1>5. NothingAhead' /\ ReleasedOnce'
    BY <1>1, <1>2, FatesSame DEF Kept, TypeOK
  <1>6. SomeoneWakes'
    <2>1. Waking => Waking'
      BY <1>1, <1>2, WakingPop DEF Awake
    <2>2. QED
      BY <1>1, <2>1 DEF SomeoneWakes
  <1>7. QED
    BY <1>2, <1>3, <1>4, <1>5, <1>6 DEF Kept

LEMMA ResumePreserves ==
  ASSUME IInv, NEW t \in Worker, Resume(t)
  PROVE  IInv'
  <1> USE DEF IInv
  <1>1. /\ ~Idle(t) /\ Top(t).at = "current" /\ Top(t).nodes = {}
        /\ Move(t, Fresh("rearm"))
        /\ UNCHANGED <<queue, index, owner, left, pushed, released, timer, ready, posted, calls, undefined>>
    BY DEF Resume, At
  <1>2. /\ Fresh("rearm") \in Frame /\ Fresh("rearm").at = "rearm"
        /\ Fresh("rearm").nodes = {}
    BY FrameTypes DEF Place
  <1>3. Stacked(t) /\ Moved(t, Fresh("rearm")) /\ Kept
    BY <1>1, <1>2, MoveKeeps
  <1>4. TypeOK'
    BY <1>1, <1>3 DEF TypeOK, Kept
  <1>5. CallsCover'
    BY <1>1, <1>3, CallsCoverSame DEF Kept, TypeOK
  <1>6. NothingAhead' /\ ReleasedOnce'
    BY <1>1, <1>3, FatesSame DEF Kept, TypeOK
  <1>7. Waking'
    BY <1>2, <1>3 DEF Waking, Moved, Stacked
  <1>8. QED
    BY <1>3, <1>4, <1>5, <1>6, <1>7 DEF Kept, SomeoneWakes

LEMMA RearmPreserves ==
  ASSUME IInv, NEW t \in Worker, Rearm(t)
  PROVE  IInv'
  <1> USE DEF IInv
  <1>1. /\ ~Idle(t) /\ Top(t).at = "rearm" /\ Pop(t)
        /\ UNCHANGED <<queue, index, owner, left, pushed, released, ready, posted, calls, undefined>>
        /\ (queue = {} /\ timer' = timer) \/ timer' \in Time
    BY DEF Rearm, At, Arm, IInv, TypeOK
  <1>2. Top(t).nodes = {}
    BY <1>1, TopClean
  <1>3. Stacked(t) /\ Popped(t) /\ Kept
    BY <1>1, <1>2, PopKeeps
  <1>4. TypeOK'
    BY <1>1, <1>3 DEF TypeOK, Kept
  <1>5. CallsCover'
    BY <1>1, <1>3, CallsCoverSame DEF Kept, TypeOK
  <1>6. NothingAhead' /\ ReleasedOnce'
    BY <1>1, <1>3, FatesSame DEF Kept, TypeOK
  <1>7. SomeoneWakes'
    BY <1>1, WatcherAssumption DEF SomeoneWakes, Time
  <1>8. QED
    BY <1>3, <1>4, <1>5, <1>6, <1>7 DEF Kept

LEMMA TakeFrontPreserves ==
  ASSUME IInv, NEW t \in Worker, TakeFront(t)
  PROVE  IInv'
  <1> USE DEF IInv
  <1>1. /\ ~Idle(t) /\ Top(t).at = "front"
        /\ UNCHANGED <<owner, left, pushed, released, ready, posted, calls>>
    BY DEF TakeFront, At
  <1>2. Stacked(t) /\ Top(t).nodes = {}
    BY <1>1, TopClean, TopFacts
  <1>3. CASE queue = {} /\ undefined' = TRUE /\ UNCHANGED <<queue, index, timer, stack>>
    <2>1. Kept
      BY <1>3, StackSame
    <2>2. TypeOK'
      BY <1>1, <1>3 DEF TypeOK
    <2>3. CallsCover'
      BY <1>1, <2>1, CallsCoverSame DEF Kept, TypeOK
    <2>4. NothingAhead' /\ ReleasedOnce'
      BY <1>1, <1>3, <2>1, FatesSame DEF Kept, TypeOK
    <2>5. SomeoneWakes'
      BY <1>3 DEF SomeoneWakes
    <2>6. QED
      BY <2>1, <2>2, <2>3, <2>4, <2>5 DEF Kept
  <1>4. CASE \E n \in queue : Front(n) /\ left[n] > 0 /\ Arm(left[n]) /\ Pop(t)
                              /\ UNCHANGED <<queue, index, undefined>>
    <2>1. timer' \in Time /\ Pop(t) /\ UNCHANGED <<queue, index, undefined>>
      BY <1>4 DEF Arm, TypeOK
    <2>2. Kept
      BY <1>1, <1>2, <2>1, PopKeeps
    <2>3. TypeOK'
      BY <1>1, <2>1, <2>2 DEF TypeOK, Kept
    <2>4. CallsCover'
      BY <1>1, <2>2, CallsCoverSame DEF Kept, TypeOK
    <2>5. NothingAhead' /\ ReleasedOnce'
      BY <1>1, <2>1, <2>2, FatesSame DEF Kept, TypeOK
    <2>6. SomeoneWakes'
      BY <2>1, WatcherAssumption DEF SomeoneWakes, Time
    <2>7. QED
      BY <2>2, <2>3, <2>4, <2>5, <2>6 DEF Kept
  <1>5. ASSUME NEW n \in queue, queue' = queue \ {n}, index' = index \ {n},
               Move(t, Releasing("current", {n})), UNCHANGED <<timer, undefined>>
        PROVE  IInv'
    <2> DEFINE f == Releasing("current", {n})
    <2>1. n \in Node /\ n \in 1 .. pushed /\ ~Held(n)
      BY DEF TypeOK, NothingAhead, ReleasedOnce, Node
    <2>2. f \in Frame /\ f.at = "current" /\ f.nodes = {n}
      BY <2>1, FrameTypes DEF Place
    <2> HIDE DEF f
    <2>3. Moved(t, f)
      BY <1>1, <1>5, <2>2, MoveFacts DEF f
    <2>4. TypeOK'
      BY <1>1, <1>5, <2>3 DEF TypeOK, Moved, Others
    <2>5. Nested'
      BY <1>2, <2>2, <2>3, NestedMove DEF Clean
    <2>6. CallsCover'
      <3>1. ~At(t, "insert") /\ ~At(t, "insert")'
        BY <1>1, <2>2, <2>3 DEF At, Moved
      <3>2. Inserting' = Inserting
        BY <2>3, <3>1, InsertingSame DEF Moved
      <3>3. QED
        BY <1>1, <3>2, CallsCoverSame DEF TypeOK
    <2>7. HeldAlso({n})
      <3>1. HeldAlso(f.nodes)
        BY <1>2, <2>1, <2>2, <2>3, HeldMove DEF ReleasedOnce
      <3>2. QED
        BY <2>2, <3>1
    <2>8. ReleasedOnce'
      <3>1. \A m \in 1 .. pushed : m \in Node
        BY WatcherAssumption DEF Node, TypeOK
      <3>2. QED
        BY <1>1, <1>5, <2>7, <3>1 DEF ReleasedOnce, HeldAlso
    <2>9. NothingAhead'
      BY <1>1, <1>5, <2>1, <2>7 DEF NothingAhead, HeldAlso, TypeOK, Node
    <2>10. Waking'
      BY <1>2, <2>2, <2>3 DEF Waking, Moved, Stacked
    <2>11. QED
      BY <2>4, <2>5, <2>6, <2>8, <2>9, <2>10 DEF SomeoneWakes
  <1>6. QED
    BY <1>3, <1>4, <1>5 DEF TakeFront

LEMMA ReleasePreserves ==
  ASSUME IInv, NEW t \in Worker, NEW n \in Node, Release(t, n)
  PROVE  IInv'
  <1> DEFINE f == [Top(t) EXCEPT !.nodes = @ \ {n}]
  <1> DEFINE g == Fresh("callback")
  <1> USE DEF IInv
  <1>1. /\ ~Idle(t) /\ Top(t).at \in {"current", "notified"}
        /\ n \in Top(t).nodes
        /\ released' = [released EXCEPT ![n] = @ + 1]
        /\ Call(t, f, g)
        /\ UNCHANGED <<queue, index, owner, left, pushed, timer, ready, posted, calls, undefined>>
    BY DEF Release, At
  <1>2. Stacked(t)
    BY <1>1, TopFacts
  <1>3. f \in Frame /\ f.at = Top(t).at /\ f.nodes = Top(t).nodes \ {n}
    BY <1>2 DEF Stacked, Frame
  <1>4. g \in Frame /\ g.at = "callback" /\ g.nodes = {}
    BY FrameTypes DEF Place
  <1> HIDE DEF f, g
  <1>5. Called(t, f, g)
    BY <1>1, <1>3, <1>4, CallFacts
  <1>6. Held(n) /\ n \in 1 .. pushed /\ n \notin queue /\ released[n] = 0
    <2>1. Held(n)
      BY <1>1, <1>2 DEF Held, Holds, Stacked
    <2>2. n \in 1 .. pushed
      BY <2>1 DEF NothingAhead, TypeOK, Node
    <2>3. QED
      BY <2>1, <2>2 DEF ReleasedOnce
  <1>7. TypeOK'
    BY <1>1, <1>5, <1>6 DEF TypeOK, Called, Others
  <1>8. Nested'
    BY <1>1, <1>2, <1>3, <1>4, <1>5, NestedCall DEF Clean
  <1>9. CallsCover'
    <2>1. ~At(t, "insert") /\ ~At(t, "insert")'
      BY <1>1, <1>4, <1>5 DEF At, Called
    <2>2. Inserting' = Inserting
      BY <1>5, <2>1, InsertingSame DEF Called
    <2>3. QED
      BY <1>1, <2>2, CallsCoverSame DEF TypeOK
  <1>10. HeldOnce' /\ \A m \in Node : Held(m)' <=> Held(m) /\ m # n
    <2>1. Top(t).nodes \subseteq Node
      BY <1>2 DEF Stacked, Frame
    <2>2. QED
      BY <1>1, <1>2, <1>3, <1>4, <1>5, <2>1, HeldCall DEF ReleasedOnce
  <1>11. ReleasedOnce'
    <2>1. \A m \in 1 .. pushed : m \in Node
      BY WatcherAssumption DEF Node, TypeOK
    <2>2. \A m \in Node : released'[m] = IF m = n THEN 1 ELSE released[m]
      BY <1>1, <1>6 DEF TypeOK
    <2>3. QED
      BY <1>1, <1>6, <1>10, <2>1, <2>2 DEF ReleasedOnce
  <1>12. NothingAhead'
    BY <1>1, <1>6, <1>10 DEF NothingAhead, TypeOK, Node
  <1>13. SomeoneWakes'
    <2>1. Waking => Waking'
      BY <1>1, <1>2, <1>3, <1>4, <1>5, WakingCall DEF Awake
    <2>2. QED
      BY <1>1, <2>1 DEF SomeoneWakes
  <1>14. QED
    BY <1>7, <1>8, <1>9, <1>11, <1>12, <1>13

LEMMA TickPreserves ==
  ASSUME IInv, Tick
  PROVE  IInv'
  <1> USE DEF IInv
  <1>1. /\ timer' = IF timer = None THEN None ELSE Aged(timer)
        /\ left' = [n \in Node |-> Aged(left[n])]
        /\ stack' = [t \in Worker |->
                       [i \in DOMAIN stack[t] |-> [stack[t][i] EXCEPT !.left = Aged(@)]]]
        /\ UNCHANGED <<queue, index, owner, pushed, released, ready, posted, calls, undefined>>
    BY DEF Tick
  <1>2. \A ticks \in Time : Aged(ticks) \in Time
    BY WatcherAssumption DEF Aged, Time
  <1>3. ASSUME NEW t \in Worker
        PROVE  /\ stack'[t] \in Seq(Frame)
               /\ DOMAIN stack'[t] = DOMAIN stack[t]
               /\ Len(stack'[t]) = Len(stack[t])
    <2>1. stack[t] \in Seq(Frame)
      BY DEF TypeOK
    <2>2. stack'[t] = [i \in 1 .. Len(stack[t]) |-> [stack[t][i] EXCEPT !.left = Aged(@)]]
      BY <1>1, <2>1
    <2>3. \A i \in 1 .. Len(stack[t]) : [stack[t][i] EXCEPT !.left = Aged(@)] \in Frame
      <3>1. ASSUME NEW f \in Frame
            PROVE  [f EXCEPT !.left = Aged(@)] \in Frame
        BY <1>2 DEF Frame
      <3>2. QED
        BY <2>1, <3>1
    <2>4. QED
      BY <2>1, <2>2, <2>3
  <1>4. ASSUME NEW t \in Worker, NEW i \in DOMAIN stack[t]
        PROVE  stack'[t][i].at = stack[t][i].at /\ stack'[t][i].nodes = stack[t][i].nodes
    <2>1. stack[t][i] \in Frame
      BY DEF TypeOK
    <2>2. stack'[t][i] = [stack[t][i] EXCEPT !.left = Aged(@)]
      BY <1>1
    <2>3. QED
      BY <2>1, <2>2 DEF Frame
  <1>5. TypeOK'
    BY <1>1, <1>2, <1>3 DEF TypeOK
  <1>6. Nested'
    BY <1>3, <1>4 DEF Nested
  <1>7. \A t \in Worker : At(t, "insert")' <=> At(t, "insert")
    BY <1>3, <1>4 DEF TypeOK, At, Idle, Top
  <1>8. CallsCover'
    <2>1. Inserting' = Inserting
      BY <1>7 DEF Inserting
    <2>2. QED
      BY <1>1, <2>1, CallsCoverSame DEF TypeOK
  <1>9. HeldAlso({})
    BY SMTT(30), <1>3, <1>4 DEF HeldAlso, HeldOnce, Held, Holds, ReleasedOnce
  <1>10. NothingAhead' /\ ReleasedOnce'
    BY <1>1, <1>9, FatesSame DEF TypeOK
  <1>11. SomeoneWakes'
    <2>1. Waking => Waking'
      BY <1>1, <1>3, <1>4 DEF Waking
    <2>2. timer # None => timer' # None
      BY <1>1, <1>2, WatcherAssumption DEF TypeOK, Time
    <2>3. QED
      BY <1>1, <2>1, <2>2 DEF SomeoneWakes
  <1>12. QED
    BY <1>5, <1>6, <1>8, <1>10, <1>11

LEMMA InitIInv ==
  ASSUME Init
  PROVE  IInv
  <1>1. TypeOK
    <2>1. 0 \in Time /\ 0 \in 0 .. Calls /\ <<>> \in Seq(Frame)
      BY WatcherAssumption DEF Time
    <2>2. QED
      BY <2>1 DEF Init, TypeOK
  <1>2. Inserting = {}
    BY DEF Init, Inserting, At, Idle
  <1>3. CallsCover
    BY <1>2, FS_EmptySet DEF Init, CallsCover
  <1>4. Nested /\ NothingAhead /\ SomeoneWakes
    BY DEF Init, Nested, NothingAhead, SomeoneWakes, Held, Holds
  <1>5. ReleasedOnce
    BY DEF Init, ReleasedOnce, HeldOnce
  <1>6. QED
    BY <1>1, <1>3, <1>4, <1>5 DEF IInv

LEMMA StutterPreserves ==
  ASSUME IInv, UNCHANGED vars
  PROVE  IInv'
  <1> USE DEF IInv
  <1>1. Kept
    BY StackSame DEF vars
  <1>2. TypeOK'
    BY DEF TypeOK, vars
  <1>3. CallsCover'
    BY <1>1, CallsCoverSame DEF Kept, TypeOK, vars
  <1>4. NothingAhead' /\ ReleasedOnce'
    BY <1>1, FatesSame DEF Kept, TypeOK, vars
  <1>5. SomeoneWakes'
    BY DEF SomeoneWakes, Waking, vars
  <1>6. QED
    BY <1>1, <1>2, <1>3, <1>4, <1>5 DEF Kept

LEMMA NextPreserves ==
  ASSUME IInv, [Next]_vars
  PROVE  IInv'
  <1>1. ASSUME NEW t \in Worker, Work(t)
        PROVE  IInv'
    BY <1>1, EnqueuePreserves, CheckPreserves, TakeFrontPreserves, ResumePreserves,
       RearmPreserves, ReturnPreserves, ReleasePreserves, RunPostedPreserves,
       ExpiredPreserves DEF Work
  <1>2. ASSUME NEW t \in Worker, Use(t)
        PROVE  IInv'
    BY <1>2, InsertPreserves, NotifyPreserves, AsyncNotifyPreserves DEF Use
  <1>3. CASE Fire
    BY <1>3, FirePreserves
  <1>4. CASE Tick
    BY <1>4, TickPreserves
  <1>5. CASE UNCHANGED vars
    BY <1>5, StutterPreserves
  <1>6. QED
    BY <1>1, <1>2, <1>3, <1>4, <1>5 DEF Next, Halted

-----------------------------------------------------------------------------
(* Any number of threads *)

\* The inductive invariant of watcher.h under any interleaving of its locked
\* sections.
THEOREM Invariance == Spec => []IInv
  BY InitIInv, NextPreserves, PTL DEF Spec

\* Type correctness: no more nodes are pushed than insert() was called, and no
\* frame leaves its places.
THEOREM Typing == Spec => []TypeOK
  <1>1. IInv => TypeOK
    BY DEF IInv
  <1>2. QED
    BY <1>1, Invariance, PTL

\* No watch is lost and none released twice, whichever calls of notify() and
\* expired() compete for it.
THEOREM ReleaseOnce == Spec => []ReleasedOnce
  <1>1. IInv => ReleasedOnce
    BY DEF IInv
  <1>2. QED
    BY <1>1, Invariance, PTL

\* While a watch is queued, a wait of the timer is pending or expired() is
\* still to come to its end.
THEOREM WakeUp == Spec => []SomeoneWakes
  <1>1. IInv => SomeoneWakes
    BY DEF IInv
  <1>2. QED
    BY <1>1, Invariance, PTL

-----------------------------------------------------------------------------
(* One thread: every step preserves what OneThreadInv adds to IInv *)

Punctual == Sorted /\ TimerCoversAll /\ FrontInSight

LEMMA Elsewhere ==
  ASSUME OneThread, Sorted, FrontInSight, NEW t \in Worker,
         ~At(t, "insert")', ~At(t, "front")',
         queue' \subseteq queue, left' = left, undefined' = undefined
  PROVE  Sorted' /\ FrontInSight'
  BY DEF OneThread, Sorted, FrontInSight

LEMMA CoverSame ==
  ASSUME TimerCoversAll, Waking => Waking', queue' \subseteq queue, left' = left,
         timer' = timer
  PROVE  TimerCoversAll'
  BY DEF TimerCoversAll

LEMMA InsertPunctual ==
  ASSUME OneThread, OneThreadInv, NEW t \in Worker, NEW w \in Watch, Insert(t, w)
  PROVE  Punctual'
  <1> DEFINE f == [at |-> "insert", nodes |-> {}, watch |-> w, left |-> Duration]
  <1> USE DEF OneThreadInv, IInv
  <1>1. /\ Push(t, f)
        /\ UNCHANGED <<queue, left, timer, ready, undefined>>
    BY DEF Insert
  <1>2. f \in Frame /\ f.at = "insert" /\ f.left = Duration
    BY WatcherAssumption DEF Frame, Time, Place
  <1> HIDE DEF f
  <1>3. Pushed(t, f)
    BY <1>1, <1>2, PushFacts
  <1>4. \A n \in queue : left[n] <= Duration
    BY WatcherAssumption DEF TypeOK, Time
  <1>5. Sorted'
    BY <1>1, <1>2, <1>3, <1>4 DEF Sorted, Pushed, OneThread
  <1>6. FrontInSight'
    BY <1>1, <1>2, <1>3 DEF FrontInSight, Pushed, OneThread, At
  <1>7. Waking => Waking'
    BY <1>1, <1>2, <1>3, WakingPush
  <1>8. QED
    BY <1>1, <1>5, <1>6, <1>7, CoverSame DEF Punctual

LEMMA EnqueuePunctual ==
  ASSUME OneThread, OneThreadInv, NEW t \in Worker, Enqueue(t)
  PROVE  Punctual'
  <1> DEFINE n == pushed + 1
  <1> USE DEF OneThreadInv, IInv
  <1>1. /\ At(t, "insert") /\ ~Idle(t) /\ Top(t).at = "insert"
        /\ queue' = queue \cup {n}
        /\ left' = [left EXCEPT ![n] = Top(t).left]
        /\ IF queue = {} THEN timer' = Top(t).left ELSE timer' = timer
        /\ Pop(t)
        /\ UNCHANGED <<ready, undefined>>
    BY DEF Enqueue, At, Arm
  <1>2. Stacked(t) /\ Popped(t)
    BY <1>1, TopFacts, PopFacts
  <1>3. \A u \in Worker : ~At(u, "insert")' /\ ~At(u, "front")'
    BY <1>2, NestedPop DEF OneThread
  <1>4. \A m \in queue : m < n /\ m \in Node /\ left'[m] = left[m] /\ left[m] \in Time
    BY <1>1 DEF NothingAhead, TypeOK, Node
  <1>5. Top(t).left \in Time /\ Top(t).left # None
    BY <1>2, WatcherAssumption DEF Stacked, Frame, Time
  <1>6. n \in Node
    <2>1. TypeOK'
      BY EnqueuePreserves
    <2>2. QED
      BY <1>1, <2>1 DEF TypeOK
  <1>7. left'[n] = Top(t).left
    BY <1>1, <1>6 DEF TypeOK
  <1>8. \A m \in queue : left[m] <= left'[n]
    BY <1>1, <1>7 DEF Sorted
  <1>9. Sorted'
    <2>1. \A l, m \in queue' : l < m => left'[l] <= left'[m]
      <3>1. ASSUME NEW l \in queue', NEW m \in queue', l < m
            PROVE  left'[l] <= left'[m]
        <4>1. CASE l = n
          BY <1>1, <1>4, <1>6, <3>1, <4>1 DEF Node
        <4>2. CASE l # n /\ m = n
          BY <1>1, <1>4, <1>8, <4>2
        <4>3. CASE l # n /\ m # n
          BY <1>1, <1>4, <3>1, <4>3 DEF Sorted
        <4>4. QED
          BY <4>1, <4>2, <4>3
      <3>2. QED
        BY <3>1
    <2>2. QED
      BY <1>3, <2>1 DEF Sorted
  <1>10. FrontInSight'
    BY <1>1, <1>3 DEF FrontInSight
  <1>11. TimerCoversAll'
    <2>1. Waking => Waking'
      BY <1>1, <1>2, WakingPop DEF Awake
    <2>2. ASSUME NEW m \in queue', ~Waking
          PROVE  timer' # None /\ timer' <= left'[m]
      <3>1. CASE queue = {}
        BY <1>1, <1>5, <1>7, <3>1 DEF Time
      <3>2. CASE m \in queue
        BY <1>1, <1>4, <2>2, <3>2 DEF TimerCoversAll
      <3>3. CASE queue # {} /\ m = n
        <4>1. PICK l \in queue : TRUE
          BY <3>3
        <4>2. timer # None /\ timer <= left[l]
          BY <2>2 DEF TimerCoversAll
        <4>3. left[l] <= left'[n] /\ left[l] \in Int /\ left'[n] \in Int /\ timer \in Int
          BY <1>4, <1>5, <1>7, <1>8, <4>2 DEF TypeOK, Time
        <4>4. QED
          BY <1>1, <3>3, <4>2, <4>3
      <3>4. QED
        BY <1>1, <3>1, <3>2, <3>3
    <2>3. QED
      BY <2>1, <2>2 DEF TimerCoversAll
  <1>12. QED
    BY <1>9, <1>10, <1>11 DEF Punctual

LEMMA TakeOutPunctual ==
  ASSUME OneThread, OneThreadInv, NEW t \in Worker, NEW x \in Target, TakeOut(t, x)
  PROVE  Punctual'
  <1> DEFINE f == Releasing("notified", Hit(x))
  <1> USE DEF OneThreadInv, IInv
  <1>1. /\ queue' \subseteq queue
        /\ Push(t, f)
        /\ UNCHANGED <<left, timer, ready, undefined>>
    BY DEF TakeOut
  <1>2. Hit(x) \subseteq Node
    BY DEF Hit, TypeOK
  <1>3. f \in Frame /\ f.at = "notified"
    BY <1>2, FrameTypes DEF Place
  <1> HIDE DEF f
  <1>4. Pushed(t, f)
    BY <1>1, <1>3, PushFacts
  <1>5. ~At(t, "insert")' /\ ~At(t, "front")'
    BY <1>3, <1>4 DEF Pushed, At
  <1>6. Sorted' /\ FrontInSight'
    BY <1>1, <1>5, Elsewhere
  <1>7. Waking => Waking'
    BY <1>1, <1>3, <1>4, WakingPush
  <1>8. QED
    BY <1>1, <1>6, <1>7, CoverSame DEF Punctual

LEMMA CallsPunctual ==
  ASSUME OneThread, OneThreadInv, NEW t \in Worker, NEW x \in Target,
         Notify(t, x) \/ RunPosted(t, x) \/ AsyncNotify(t, x)
  PROVE  Punctual'
  <1>1. CASE Notify(t, x) \/ RunPosted(t, x)
    BY <1>1, TakeOutPunctual DEF Notify, RunPosted
  <1>2. CASE AsyncNotify(t, x)
    BY <1>2 DEF AsyncNotify, OneThreadInv, Punctual, Sorted, TimerCoversAll, FrontInSight,
                Waking, At, Idle, Top
  <1>3. QED
    BY <1>1, <1>2

LEMMA FirePunctual ==
  ASSUME OneThreadInv, Fire
  PROVE  Punctual'
  <1>1. UNCHANGED <<queue, left, stack, undefined>> /\ ready' = ready + 1
    BY DEF Fire
  <1>2. Waking'
    BY <1>1 DEF Waking, OneThreadInv, IInv, TypeOK
  <1>3. QED
    BY <1>1, <1>2 DEF OneThreadInv, Punctual, Sorted, TimerCoversAll, FrontInSight,
                      At, Idle, Top

LEMMA ExpiredPunctual ==
  ASSUME OneThread, OneThreadInv, NEW t \in Worker, Expired(t)
  PROVE  Punctual'
  <1> USE DEF OneThreadInv
  <1>1. Push(t, Fresh("check")) /\ UNCHANGED <<queue, left, timer, undefined>>
    BY DEF Expired
  <1>2. Fresh("check") \in Frame /\ Fresh("check").at = "check"
    BY FrameTypes DEF Place
  <1>3. Pushed(t, Fresh("check"))
    BY <1>1, <1>2, PushFacts DEF IInv
  <1>4. ~At(t, "insert")' /\ ~At(t, "front")' /\ Waking'
    BY <1>2, <1>3 DEF Pushed, At, Waking
  <1>5. Sorted' /\ FrontInSight'
    BY <1>1, <1>4, Elsewhere
  <1>6. QED
    BY <1>4, <1>5 DEF Punctual, TimerCoversAll

LEMMA CheckPunctual ==
  ASSUME OneThread, OneThreadInv, NEW t \in Worker, Check(t)
  PROVE  Punctual'
  <1> DEFINE place == IF queue = {} THEN "rearm" ELSE "front"
  <1> USE DEF OneThreadInv
  <1>1. ~Idle(t) /\ Move(t, Fresh(place)) /\ UNCHANGED <<queue, left, timer, undefined>>
    BY DEF Check, At
  <1>2. /\ Fresh(place) \in Frame /\ Fresh(place).at = place
        /\ place \in {"rearm", "front"} /\ (place = "front" => queue # {})
    BY FrameTypes DEF Place
  <1> HIDE DEF place
  <1>3. Stacked(t) /\ Moved(t, Fresh(place))
    BY <1>1, <1>2, TopFacts, MoveFacts DEF IInv
  <1>4. ~At(t, "insert")' /\ (At(t, "front")' => queue' # {}) /\ Waking'
    BY <1>1, <1>2, <1>3 DEF Moved, Stacked, At, Waking
  <1>5. Sorted' /\ FrontInSight'
    BY <1>1, <1>4 DEF OneThread, Sorted, FrontInSight
  <1>6. QED
    BY <1>4, <1>5 DEF Punctual, TimerCoversAll

\* Waiting for the front covers the whole list.
LEMMA FrontCovers ==
  ASSUME OneThreadInv, NEW n \in queue, Front(n), timer' = left[n],
         queue' = queue, left' = left
  PROVE  TimerCoversAll'
  <1>1. \A m \in queue : left[n] <= left[m] /\ left[n] # None
    <2>1. \A m \in queue : m \in Node /\ left[m] \in Time
      BY DEF OneThreadInv, IInv, TypeOK
    <2>2. \A m \in queue : n = m \/ n < m
      BY <2>1 DEF Front, Node
    <2>3. QED
      BY <2>1, <2>2, WatcherAssumption DEF OneThreadInv, Sorted, Time
  <1>2. QED
    BY <1>1 DEF TimerCoversAll

LEMMA TakeFrontPunctual ==
  ASSUME OneThread, OneThreadInv, NEW t \in Worker, TakeFront(t)
  PROVE  Punctual'
  <1> USE DEF OneThreadInv, IInv
  <1>1. ~Idle(t) /\ Top(t).at = "front" /\ left' = left /\ queue # {}
    BY DEF TakeFront, At, FrontInSight
  <1>2. Stacked(t)
    BY <1>1, TopFacts
  <1>3. ASSUME NEW n \in queue, Front(n), timer' = left[n], Pop(t),
               UNCHANGED <<queue, undefined>>
        PROVE  Punctual'
    <2>1. Popped(t)
      BY <1>1, <1>3, PopFacts
    <2>2. ~At(t, "insert")' /\ ~At(t, "front")'
      BY <2>1, NestedPop
    <2>3. Sorted' /\ FrontInSight'
      BY <1>1, <1>3, <2>2, Elsewhere
    <2>4. QED
      BY <1>1, <1>3, <2>3, FrontCovers DEF Punctual
  <1>4. ASSUME NEW n \in queue, queue' = queue \ {n}, undefined' = undefined,
               Move(t, Releasing("current", {n}))
        PROVE  Punctual'
    <2> DEFINE f == Releasing("current", {n})
    <2>1. f \in Frame /\ f.at = "current"
      BY FrameTypes DEF Place, TypeOK
    <2> HIDE DEF f
    <2>2. Moved(t, f)
      BY <1>1, <1>4, <2>1, MoveFacts DEF f
    <2>3. ~At(t, "insert")' /\ ~At(t, "front")' /\ Waking'
      BY <1>2, <2>1, <2>2 DEF Moved, Stacked, At, Waking
    <2>4. Sorted' /\ FrontInSight'
      BY <1>1, <1>4, <2>3, Elsewhere
    <2>5. QED
      BY <2>3, <2>4 DEF Punctual, TimerCoversAll
  <1>5. QED
    BY <1>1, <1>3, <1>4 DEF TakeFront, Arm

LEMMA ReleasePunctual ==
  ASSUME OneThread, OneThreadInv, NEW t \in Worker, NEW n \in Node, Release(t, n)
  PROVE  Punctual'
  <1> DEFINE f == [Top(t) EXCEPT !.nodes = @ \ {n}]
  <1> DEFINE g == Fresh("callback")
  <1> USE DEF OneThreadInv, IInv
  <1>1. /\ ~Idle(t) /\ Call(t, f, g)
        /\ UNCHANGED <<queue, left, timer, ready, undefined>>
    BY DEF Release, At
  <1>2. Stacked(t)
    BY <1>1, TopFacts
  <1>3. f \in Frame /\ f.at = Top(t).at
    BY <1>2 DEF Stacked, Frame
  <1>4. g \in Frame /\ g.at = "callback"
    BY FrameTypes DEF Place
  <1> HIDE DEF f, g
  <1>5. Called(t, f, g)
    BY <1>1, <1>3, <1>4, CallFacts
  <1>6. ~At(t, "insert")' /\ ~At(t, "front")'
    BY <1>4, <1>5 DEF Called, At
  <1>7. Sorted' /\ FrontInSight'
    BY <1>1, <1>6, Elsewhere
  <1>8. Waking => Waking'
    BY <1>1, <1>2, <1>3, <1>4, <1>5, WakingCall DEF Awake
  <1>9. QED
    BY <1>1, <1>7, <1>8, CoverSame DEF Punctual

LEMMA ReturnPunctual ==
  ASSUME OneThread, OneThreadInv, NEW t \in Worker, Return(t)
  PROVE  Punctual'
  <1> USE DEF OneThreadInv, IInv
  <1>1. /\ ~Idle(t) /\ Top(t).at \in {"callback", "notified"} /\ Pop(t)
        /\ UNCHANGED <<queue, left, timer, ready, undefined>>
    BY DEF Return, At
  <1>2. Stacked(t) /\ Popped(t)
    BY <1>1, TopFacts, PopFacts
  <1>3. ~At(t, "insert")' /\ ~At(t, "front")'
    BY <1>2, NestedPop
  <1>4. Sorted' /\ FrontInSight'
    BY <1>1, <1>3, Elsewhere
  <1>5. Waking => Waking'
    BY <1>1, <1>2, WakingPop DEF Awake
  <1>6. QED
    BY <1>1, <1>4, <1>5, CoverSame DEF Punctual

LEMMA ResumePunctual ==
  ASSUME OneThread, OneThreadInv, NEW t \in Worker, Resume(t)
  PROVE  Punctual'
  <1> USE DEF OneThreadInv, IInv
  <1>1. ~Idle(t) /\ Move(t, Fresh("rearm")) /\ UNCHANGED <<queue, left, undefined>>
    BY DEF Resume, At
  <1>2. Fresh("rearm") \in Frame /\ Fresh("rearm").at = "rearm"
    BY FrameTypes DEF Place
  <1>3. Stacked(t) /\ Moved(t, Fresh("rearm"))
    BY <1>1, <1>2, TopFacts, MoveFacts
  <1>4. ~At(t, "insert")' /\ ~At(t, "front")' /\ Waking'
    BY <1>2, <1>3 DEF Moved, Stacked, At, Waking
  <1>5. Sorted' /\ FrontInSight'
    BY <1>1, <1>4, Elsewhere
  <1>6. QED
    BY <1>4, <1>5 DEF Punctual, TimerCoversAll

LEMMA RearmPunctual ==
  ASSUME OneThread, OneThreadInv, NEW t \in Worker, Rearm(t)
  PROVE  Punctual'
  <1> USE DEF OneThreadInv, IInv
  <1>1. ~Idle(t) /\ Pop(t) /\ UNCHANGED <<queue, left, undefined>>
    BY DEF Rearm, At
  <1>2. Popped(t)
    BY <1>1, PopFacts
  <1>3. ~At(t, "insert")' /\ ~At(t, "front")'
    BY <1>2, NestedPop
  <1>4. Sorted' /\ FrontInSight'
    BY <1>1, <1>3, Elsewhere
  <1>5. TimerCoversAll'
    <2>1. CASE queue = {}
      BY <1>1, <2>1 DEF TimerCoversAll
    <2>2. CASE \E n \in queue : Front(n) /\ timer' = left[n]
      BY <1>1, <2>2, FrontCovers
    <2>3. QED
      BY <2>1, <2>2 DEF Rearm, Arm
  <1>6. QED
    BY <1>4, <1>5 DEF Punctual

LEMMA TickPunctual ==
  ASSUME OneThreadInv, Tick
  PROVE  Punctual'
  <1> USE DEF OneThreadInv, IInv
  <1>1. /\ timer' = IF timer = None THEN None ELSE Aged(timer)
        /\ left' = [n \in Node |-> Aged(left[n])]
        /\ stack' = [t \in Worker |->
                       [i \in DOMAIN stack[t] |-> [stack[t][i] EXCEPT !.left = Aged(@)]]]
        /\ UNCHANGED <<queue, ready, undefined>>
    BY DEF Tick
  <1>2. \A m, n \in Time : Aged(m) \in Nat /\ (m <= n => Aged(m) <= Aged(n))
    BY WatcherAssumption DEF Aged, Time
  <1>3. ASSUME NEW t \in Worker, NEW i \in DOMAIN stack[t]
        PROVE  /\ stack'[t][i].at = stack[t][i].at
               /\ stack'[t][i].left = Aged(stack[t][i].left)
               /\ stack[t][i].left \in Time
    <2>1. stack[t][i] \in Frame
      BY DEF TypeOK
    <2>2. stack'[t][i] = [stack[t][i] EXCEPT !.left = Aged(@)]
      BY <1>1
    <2>3. QED
      BY <2>1, <2>2 DEF Frame
  <1>4. \A t \in Worker : DOMAIN stack'[t] = DOMAIN stack[t]
    BY <1>1
  <1>5. ASSUME NEW t \in Worker, ~Idle(t)'
        PROVE  /\ ~Idle(t) /\ Top(t)'.at = Top(t).at
               /\ Top(t)'.left = Aged(Top(t).left) /\ Top(t).left \in Time
    <2>1. stack'[t] \in Seq(Frame) /\ stack[t] \in Seq(Frame)
      BY TickPreserves DEF TypeOK
    <2>2. 1 \in DOMAIN stack'[t] /\ Top(t)' = stack'[t][1] /\ ~Idle(t) /\ Top(t) = stack[t][1]
      BY <1>4, <1>5, <2>1 DEF Idle, Top
    <2>3. QED
      BY <1>3, <1>4, <2>2
  <1>6. Sorted'
    <2>1. \A n \in queue : left[n] \in Time /\ left'[n] = Aged(left[n])
      BY <1>1 DEF TypeOK
    <2>2. ASSUME NEW m \in queue', NEW n \in queue', m < n
          PROVE  left'[m] <= left'[n]
      <3> HIDE DEF OneThreadInv, IInv
      <3>1. m \in queue /\ n \in queue
        BY <1>1
      <3>2. Sorted
        BY DEF OneThreadInv
      <3>3. left[m] <= left[n]
        BY <2>2, <3>1, <3>2 DEF Sorted
      <3>4. Aged(left[m]) <= Aged(left[n])
        BY <1>2, <2>1, <3>1, <3>3
      <3>5. QED
        BY <2>1, <3>1, <3>4
    <2>3. ASSUME NEW t \in Worker, At(t, "insert")', NEW n \in queue'
          PROVE  left'[n] <= Top(t)'.left
      <3>1. At(t, "insert") /\ Top(t)'.left = Aged(Top(t).left) /\ Top(t).left \in Time
        BY <1>5, <2>3 DEF At
      <3>2. QED
        BY <1>1, <1>2, <2>1, <3>1 DEF Sorted
    <2>4. QED
      BY <2>2, <2>3 DEF Sorted
  <1>7. FrontInSight'
    BY <1>1, <1>5 DEF FrontInSight, At
  <1>8. TimerCoversAll'
    <2>1. Waking => Waking'
      BY <1>1, <1>3, <1>4 DEF Waking
    <2>2. \A n \in queue : left[n] \in Time /\ left'[n] = Aged(left[n])
      BY <1>1 DEF TypeOK
    <2>3. timer # None => timer \in Time /\ timer' = Aged(timer) /\ timer' # None
      BY <1>1, <1>2, WatcherAssumption DEF TypeOK
    <2>4. QED
      BY <1>1, <1>2, <2>1, <2>2, <2>3 DEF TimerCoversAll
  <1>9. QED
    BY <1>6, <1>7, <1>8 DEF Punctual

LEMMA NextPunctual ==
  ASSUME OneThread, OneThreadInv, [Next]_vars
  PROVE  OneThreadInv'
  <1>1. ASSUME NEW t \in Worker, Work(t)
        PROVE  Punctual'
    BY <1>1, EnqueuePunctual, CheckPunctual, TakeFrontPunctual, ResumePunctual,
       RearmPunctual, ReturnPunctual, ReleasePunctual, CallsPunctual,
       ExpiredPunctual DEF Work
  <1>2. ASSUME NEW t \in Worker, Use(t)
        PROVE  Punctual'
    BY <1>2, InsertPunctual, CallsPunctual DEF Use
  <1>3. ASSUME UNCHANGED vars
        PROVE  Punctual'
    <2>1. UNCHANGED <<queue, left, timer, ready, stack, undefined>>
      BY <1>3 DEF vars
    <2>2. Sorted' /\ FrontInSight'
      BY <2>1 DEF OneThreadInv, Sorted, FrontInSight, At, Idle, Top
    <2>3. TimerCoversAll'
      BY <2>1 DEF OneThreadInv, TimerCoversAll, Waking
    <2>4. QED
      BY <2>2, <2>3 DEF Punctual
  <1>4. ASSUME Fire
        PROVE  Punctual'
    BY <1>4, FirePunctual
  <1>5. ASSUME Tick
        PROVE  Punctual'
    BY <1>5, TickPunctual
  <1>6. Punctual'
    BY <1>1, <1>2, <1>3, <1>4, <1>5 DEF Next, Halted
  <1>7. QED
    BY <1>6, NextPreserves DEF OneThreadInv, Punctual

-----------------------------------------------------------------------------
(* One thread *)

\* With one thread the list stays sorted by expiry and the timer covers it.
THEOREM OneThreadInvariance ==
  ASSUME OneThread
  PROVE  Spec => []OneThreadInv
  <1>1. Init => OneThreadInv
    BY InitIInv DEF Init, OneThreadInv, Sorted, TimerCoversAll, FrontInSight, At, Idle
  <1>2. OneThreadInv /\ [Next]_vars => OneThreadInv'
    BY NextPunctual
  <1>3. QED
    BY <1>1, <1>2, PTL DEF Spec

\* With one thread the pending wait ends no later than the front of the list
\* expires: no watch is released late.
THEOREM TimerIsNeverLate ==
  ASSUME OneThread
  PROVE  Spec => []TimerCoversFront
  <1>1. OneThreadInv => TimerCoversFront
    BY DEF OneThreadInv, TimerCoversAll, TimerCoversFront, Front
  <1>2. QED
    BY <1>1, OneThreadInvariance, PTL

\* With one thread expired() never reads the front of an empty list.
THEOREM FrontIsThere ==
  ASSUME OneThread
  PROVE  Spec => []FrontExists
  <1>1. OneThreadInv => FrontExists
    BY DEF OneThreadInv, FrontInSight, FrontExists
  <1>2. QED
    BY <1>1, OneThreadInvariance, PTL
=============================================================================
