-------------------------- MODULE ActivitiesProofs --------------------------
(***************************************************************************)
(* Proofs about Activities for every graph, every choice of required       *)
(* flags and predicates, and any number of threads, of which only          *)
(* InnerUndisputed is assumed: the io_context is run by one thread, or no  *)
(* two subtasks report to one activity.  (The final callback may have any  *)
(* number of dependencies.)  Without it the join is wrong.                 *)
(***************************************************************************)
EXTENDS Analyzer, FiniteSetTheorems, TLAPS

-----------------------------------------------------------------------------
(* Frames *)

LEMMA FreshType ==
  ASSUME NEW n \in Node, NEW p \in Place
  PROVE  Fresh(n, p) \in Frame
  BY DEF Fresh, Frame

LEMMA WalkType ==
  ASSUME NEW n \in Node, NEW signal \in Emission
  PROVE  /\ Walk(n, signal) \in Frame
         /\ Walk(n, signal).node = n
         /\ Walk(n, signal).at = "slots"
         /\ Walk(n, signal).cancel <=> signal = "cancel"
         /\ Walk(n, signal).todo = IF signal = "abort" THEN {} ELSE Dependents(n)
  BY DEF Walk, Fresh, Frame, Place, Dependents

\* A frame is known by its subtask.
LEMMA FrameFacts ==
  ASSUME TypeOK, Distinct
  PROVE  /\ \A g \in Frames : g \in Frame
         /\ \A g, h \in Frames : g.node = h.node => g = h
  <1>1. ASSUME NEW g \in Frames
        PROVE  g \in Frame
    BY DEF Frames, FramesOf, TypeOK
  <1>2. ASSUME NEW g \in Frames, NEW h \in Frames, g.node = h.node
        PROVE  g = h
    <2>1. PICK t \in Worker : \E i \in DOMAIN stack[t] : g = stack[t][i]
      BY DEF Frames, FramesOf
    <2>2. PICK i \in DOMAIN stack[t] : g = stack[t][i]
      BY <2>1
    <2>3. PICK u \in Worker : \E j \in DOMAIN stack[u] : h = stack[u][j]
      BY DEF Frames, FramesOf
    <2>4. PICK j \in DOMAIN stack[u] : h = stack[u][j]
      BY <2>3
    <2>5. QED
      BY <1>2, <2>2, <2>4 DEF Distinct
  <1>3. QED
    BY <1>1, <1>2

LEMMA TopFacts ==
  ASSUME TypeOK, NEW t \in Worker, ~Idle(t)
  PROVE  /\ 1 \in DOMAIN stack[t]
         /\ Top(t) = stack[t][1]
         /\ Top(t) \in FramesOf(t)
         /\ Top(t) \in Frames
         /\ Top(t) \in Frame
  <1>1. /\ 1 \in DOMAIN stack[t]
        /\ Top(t) = stack[t][1]
        /\ Top(t) \in Frame
    BY DEF TypeOK, Idle, Top
  <1>2. QED
    BY <1>1 DEF FramesOf, Frames

\* A frame that is not at an unlock is the innermost of its thread.
LEMMA InnermostFacts ==
  ASSUME TypeOK, Nested, NEW g \in Frames, g.at # "unlock"
  PROVE  \E t \in Worker : ~Idle(t) /\ g = Top(t)
  <1>1. PICK t \in Worker : \E i \in DOMAIN stack[t] : g = stack[t][i]
    BY DEF Frames, FramesOf
  <1>2. PICK i \in DOMAIN stack[t] : g = stack[t][i]
    BY <1>1
  <1>3. i = 1 /\ stack[t] # <<>>
    BY <1>2 DEF Nested, TypeOK
  <1>4. QED
    BY <1>2, <1>3 DEF Idle, Top, TypeOK

-----------------------------------------------------------------------------
(* What a step does to the frames *)

\* The step replaces the frames old of t, if any, by the frames new.
Swapped(t, old, new) ==
  /\ stack' \in [Worker -> Seq(Frame)]
  /\ FramesOf(t)' = (FramesOf(t) \ old) \cup new
  /\ \A u \in Worker \ {t} : FramesOf(u)' = FramesOf(u)
  /\ Frames' = (Frames \ old) \cup new
  /\ Nested' /\ Distinct'

LEMMA SwapFrames ==
  ASSUME NEW t \in Worker, NEW old, NEW new,
         FramesOf(t)' = (FramesOf(t) \ old) \cup new,
         \A u \in Worker \ {t} : FramesOf(u)' = FramesOf(u) /\ FramesOf(u) \cap old = {}
  PROVE  Frames' = (Frames \ old) \cup new
  <1>1. ASSUME NEW g \in Frames'
        PROVE  g \in (Frames \ old) \cup new
    <2>1. PICK u \in Worker : g \in FramesOf(u)'
      BY DEF Frames
    <2>2. QED
      BY <2>1 DEF Frames
  <1>2. ASSUME NEW g \in (Frames \ old) \cup new
        PROVE  g \in Frames'
    <2>1. CASE g \in new
      BY <2>1 DEF Frames
    <2>2. CASE g \in Frames \ old
      <3>1. PICK u \in Worker : g \in FramesOf(u)
        BY <2>2 DEF Frames
      <3>2. g \in FramesOf(u)'
        BY <2>2, <3>1
      <3>3. QED
        BY <3>2 DEF Frames
    <2>3. QED
      BY <2>1, <2>2
  <1>3. QED
    BY <1>1, <1>2

\* The innermost frame is in no other stack and has no copy.
LEMMA TopApart ==
  ASSUME TypeOK, Distinct, NEW t \in Worker, ~Idle(t)
  PROVE  /\ \A u \in Worker \ {t} : FramesOf(u) \cap {Top(t)} = {}
         /\ \A i \in DOMAIN stack[t] : i # 1 => stack[t][i] # Top(t)
  <1>1. 1 \in DOMAIN stack[t] /\ Top(t) = stack[t][1]
    BY TopFacts
  <1>2. QED
    BY <1>1 DEF Distinct, FramesOf

\* The other stacks are as before.
LEMMA OthersKept ==
  ASSUME TypeOK, NEW t \in Worker, NEW s, stack' = [stack EXCEPT ![t] = s]
  PROVE  /\ stack'[t] = s
         /\ \A u \in Worker \ {t} : stack'[u] = stack[u] /\ FramesOf(u)' = FramesOf(u)
  <1>1. stack'[t] = s /\ \A u \in Worker \ {t} : stack'[u] = stack[u]
    BY DEF TypeOK
  <1>2. QED
    BY <1>1 DEF FramesOf

LEMMA MoveFacts ==
  ASSUME TypeOK, Nested, Distinct, NEW t \in Worker, ~Idle(t),
         NEW f \in Frame, f.node = Top(t).node, Move(t, f)
  PROVE  Swapped(t, {Top(t)}, {f})
  <1>1. /\ stack'[t] = <<f>> \o Tail(stack[t])
        /\ \A u \in Worker \ {t} : stack'[u] = stack[u] /\ FramesOf(u)' = FramesOf(u)
    BY OthersKept DEF Move, TypeOK
  <1>2. stack[t] \in Seq(Frame) /\ stack[t] # <<>> /\ Top(t) = stack[t][1]
    BY TopFacts DEF TypeOK, Idle
  <1>3. <<f>> \o Tail(stack[t]) \in Seq(Frame)
    BY <1>2
  <1>4. stack' \in [Worker -> Seq(Frame)]
    BY <1>3 DEF Move, TypeOK
  <1>5. /\ DOMAIN stack'[t] = DOMAIN stack[t]
        /\ 1 \in DOMAIN stack[t]
        /\ stack'[t][1] = f
        /\ \A i \in DOMAIN stack[t] :
             /\ i \in Nat /\ i >= 1
             /\ i > 1 => i - 1 \in DOMAIN stack[t] /\ stack'[t][i] = stack[t][i]
    BY <1>1, <1>2
  <1>6. \A u \in Worker : \A i \in DOMAIN stack'[u] :
          i \in DOMAIN stack[u] /\ stack'[u][i].node = stack[u][i].node
    <2> TAKE u \in Worker
    <2> TAKE i \in DOMAIN stack'[u]
    <2>1. CASE u # t
      BY <1>1, <2>1
    <2>2. CASE u = t /\ i = 1
      BY <1>2, <1>5, <2>2
    <2>3. CASE u = t /\ i > 1
      BY <1>5, <2>3
    <2>4. QED
      BY <1>5, <2>1, <2>2, <2>3
  <1>7. Nested'
    <2> SUFFICES ASSUME NEW u \in Worker, NEW i \in DOMAIN stack'[u], i > 1
                 PROVE  /\ stack'[u][i].at = "unlock"
                        /\ stack'[u][i].to = stack'[u][i - 1].node
      BY DEF Nested
    <2>1. CASE u = t
      BY <1>5, <1>6, <2>1 DEF Nested
    <2>2. CASE u # t
      BY <1>1, <2>2 DEF Nested
    <2>3. QED
      BY <2>1, <2>2
  <1>8. Distinct'
    BY <1>6 DEF Distinct
  <1>9. FramesOf(t)' = (FramesOf(t) \ {Top(t)}) \cup {f}
    BY <1>2, <1>5, TopApart DEF FramesOf
  <1>10. Frames' = (Frames \ {Top(t)}) \cup {f}
    <2>1. PICK top : top = Top(t)
      OBVIOUS
    <2>2. \A u \in Worker \ {t} : FramesOf(u)' = FramesOf(u) /\ FramesOf(u) \cap {top} = {}
      BY <1>1, <2>1, TopApart
    <2>3. FramesOf(t)' = (FramesOf(t) \ {top}) \cup {f}
      BY <1>9, <2>1
    <2>4. Frames' = (Frames \ {top}) \cup {f}
      BY <2>2, <2>3, SwapFrames
    <2>5. QED
      BY <2>1, <2>4
  <1>11. QED
    BY <1>1, <1>4, <1>7, <1>8, <1>9, <1>10 DEF Swapped

\* The frame g that is put on top belongs to a subtask that has none.
LEMMA CallFacts ==
  ASSUME TypeOK, Nested, Distinct, NEW t \in Worker, ~Idle(t),
         NEW f \in Frame, f.node = Top(t).node, f.at = "unlock",
         NEW g \in Frame, f.to = g.node, \A h \in Frames : h.node # g.node,
         Call(t, f, g)
  PROVE  Swapped(t, {Top(t)}, {f, g})
  <1>1. /\ stack'[t] = <<g, f>> \o Tail(stack[t])
        /\ \A u \in Worker \ {t} : stack'[u] = stack[u] /\ FramesOf(u)' = FramesOf(u)
    BY OthersKept DEF Call, TypeOK
  <1>2. stack[t] \in Seq(Frame) /\ stack[t] # <<>> /\ Top(t) = stack[t][1]
    BY TopFacts DEF TypeOK, Idle
  <1>3. <<g, f>> \o Tail(stack[t]) \in Seq(Frame)
    BY <1>2
  <1>4. stack' \in [Worker -> Seq(Frame)]
    BY <1>3 DEF Call, TypeOK
  <1>5. /\ 1 \in DOMAIN stack[t] /\ 1 \in DOMAIN stack'[t] /\ 2 \in DOMAIN stack'[t]
        /\ stack'[t][1] = g
        /\ stack'[t][2] = f
        /\ \A i \in DOMAIN stack'[t] : i \in Nat /\ i >= 1
        /\ \A i \in DOMAIN stack[t] : i \in Nat /\ i >= 1
    BY <1>1, <1>2
  <1>6. ASSUME NEW i \in DOMAIN stack'[t], i > 2
        PROVE  i - 1 \in DOMAIN stack[t] /\ i - 1 > 1 /\ stack'[t][i] = stack[t][i - 1]
    BY <1>1, <1>2, <1>6
  <1>7. ASSUME NEW j \in DOMAIN stack[t], j > 1
        PROVE  j + 1 \in DOMAIN stack'[t] /\ stack'[t][j + 1] = stack[t][j]
    <2>1. Tail(stack[t]) \in Seq(Frame)
      BY <1>2
    <2>2. /\ j - 1 \in DOMAIN Tail(stack[t]) /\ Tail(stack[t])[j - 1] = stack[t][j]
          /\ j \in Nat /\ j + 1 > 2 /\ j + 1 <= Len(Tail(stack[t])) + 2
      BY <1>2, <1>7
    <2>3. QED
      BY <1>1, <2>1, <2>2
  <1>8. Nested'
    <2> SUFFICES ASSUME NEW u \in Worker, NEW i \in DOMAIN stack'[u], i > 1
                 PROVE  /\ stack'[u][i].at = "unlock"
                        /\ stack'[u][i].to = stack'[u][i - 1].node
      BY DEF Nested
    <2>1. CASE u # t
      BY <1>1, <2>1 DEF Nested
    <2>2. CASE u = t /\ i = 2
      BY <1>5, <2>2
    <2>3. CASE u = t /\ i > 2
      <3>1. /\ i - 1 \in DOMAIN stack[t] /\ i - 1 > 1
            /\ stack'[t][i] = stack[t][i - 1]
            /\ stack[t][i - 1].at = "unlock"
            /\ stack[t][i - 1].to = stack[t][i - 1 - 1].node
        BY <1>6, <2>3 DEF Nested
      <3>2. stack'[t][i - 1].node = stack[t][i - 1 - 1].node
        <4>1. CASE i = 3
          BY <1>2, <1>5, <4>1
        <4>2. CASE i # 3
          <5>1. i - 1 \in DOMAIN stack'[t] /\ i - 1 > 2
            BY <1>1, <1>2, <1>5, <2>3, <4>2
          <5>2. QED
            BY <1>6, <5>1
        <4>3. QED
          BY <4>1, <4>2
      <3>3. QED
        BY <2>3, <3>1, <3>2
    <2>4. QED
      BY <1>5, <2>1, <2>2, <2>3
  <1>9. \A u \in Worker : \A i \in DOMAIN stack[u] : stack[u][i].node # g.node
    BY DEF Frames, FramesOf
  <1>10. ASSUME NEW u \in Worker, NEW i \in DOMAIN stack'[t], NEW j \in DOMAIN stack'[u],
               stack'[t][i].node = stack'[u][j].node
        PROVE  t = u /\ i = j
    <2>1. ASSUME NEW k \in DOMAIN stack'[t], k # 1
          PROVE  k - 1 \in DOMAIN stack[t] /\ stack'[t][k].node = stack[t][k - 1].node
      BY <1>2, <1>5, <1>6, <2>1
    <2>2. CASE u # t
      <3>1. j \in DOMAIN stack[u] /\ stack'[u][j] = stack[u][j]
        BY <1>1, <2>2
      <3>2. i # 1
        BY <1>5, <1>9, <1>10, <3>1
      <3>3. stack[t][i - 1].node = stack[u][j].node /\ i - 1 \in DOMAIN stack[t]
        BY <1>10, <2>1, <3>1, <3>2
      <3>4. QED
        BY <2>2, <3>1, <3>3 DEF Distinct
    <2>3. CASE u = t
      <3>1. CASE i = 1 \/ j = 1
        BY <1>5, <1>9, <1>10, <2>1, <2>3, <3>1
      <3>2. CASE i # 1 /\ j # 1
        <4>1. i - 1 = j - 1
          BY <1>10, <2>1, <2>3, <3>2 DEF Distinct
        <4>2. QED
          BY <1>5, <2>3, <4>1
      <3>3. QED
        BY <3>1, <3>2
    <2>4. QED
      BY <2>2, <2>3
  <1>11. Distinct'
    <2> SUFFICES ASSUME NEW u \in Worker, NEW w \in Worker,
                        NEW i \in DOMAIN stack'[u], NEW j \in DOMAIN stack'[w],
                        stack'[u][i].node = stack'[w][j].node
                 PROVE  u = w /\ i = j
      BY DEF Distinct
    <2>1. CASE u = t
      BY <1>10, <2>1
    <2>2. CASE w = t
      BY <1>10, <2>2
    <2>3. CASE u # t /\ w # t
      BY <1>1, <2>3 DEF Distinct
    <2>4. QED
      BY <2>1, <2>2, <2>3
  <1>12. FramesOf(t)' = (FramesOf(t) \ {Top(t)}) \cup {f, g}
    <2>1. ASSUME NEW h \in FramesOf(t)'
          PROVE  h \in (FramesOf(t) \ {Top(t)}) \cup {f, g}
      <3>1. PICK i \in DOMAIN stack'[t] : h = stack'[t][i]
        BY DEF FramesOf
      <3>2. CASE i > 2
        BY <1>6, <3>1, <3>2, TopApart DEF FramesOf
      <3>3. QED
        BY <1>5, <3>1, <3>2
    <2>2. ASSUME NEW h \in FramesOf(t), h # Top(t)
          PROVE  h \in FramesOf(t)'
      <3>1. PICK j \in DOMAIN stack[t] : h = stack[t][j]
        BY DEF FramesOf
      <3>2. j > 1
        BY <1>2, <1>5, <2>2, <3>1
      <3>3. j + 1 \in DOMAIN stack'[t] /\ stack'[t][j + 1] = h
        BY <1>7, <3>1, <3>2
      <3>4. QED
        BY <3>3 DEF FramesOf
    <2>3. f \in FramesOf(t)' /\ g \in FramesOf(t)'
      BY <1>5 DEF FramesOf
    <2>4. QED
      BY <2>1, <2>2, <2>3
  <1>13. Frames' = (Frames \ {Top(t)}) \cup {f, g}
    <2>1. PICK top : top = Top(t)
      OBVIOUS
    <2>2. \A u \in Worker \ {t} : FramesOf(u)' = FramesOf(u) /\ FramesOf(u) \cap {top} = {}
      BY <1>1, <2>1, TopApart
    <2>3. PICK new : new = {f, g}
      OBVIOUS
    <2>4. FramesOf(t)' = (FramesOf(t) \ {top}) \cup new
      BY <1>12, <2>1, <2>3
    <2>5. Frames' = (Frames \ {top}) \cup new
      BY <2>2, <2>4, SwapFrames
    <2>6. QED
      BY <2>1, <2>3, <2>5
  <1>14. QED
    BY <1>1, <1>4, <1>8, <1>11, <1>12, <1>13 DEF Swapped

LEMMA PopFacts ==
  ASSUME TypeOK, Nested, Distinct, NEW t \in Worker, ~Idle(t), Pop(t)
  PROVE  Swapped(t, {Top(t)}, {})
  <1>1. /\ stack'[t] = Tail(stack[t])
        /\ \A u \in Worker \ {t} : stack'[u] = stack[u] /\ FramesOf(u)' = FramesOf(u)
    BY OthersKept DEF Pop, TypeOK
  <1>2. stack[t] \in Seq(Frame) /\ stack[t] # <<>> /\ Top(t) = stack[t][1]
    BY TopFacts DEF TypeOK, Idle
  <1>3. stack' \in [Worker -> Seq(Frame)]
    BY <1>2 DEF Pop, TypeOK
  <1>4. /\ \A i \in DOMAIN stack'[t] :
             /\ i \in Nat /\ i >= 1
             /\ i + 1 \in DOMAIN stack[t] /\ stack'[t][i] = stack[t][i + 1]
             /\ i > 1 => i - 1 \in DOMAIN stack'[t]
        /\ \A i \in DOMAIN stack[t] : i \in Nat /\ i >= 1
    BY <1>1, <1>2
  <1>5. ASSUME NEW j \in DOMAIN stack[t], j > 1
        PROVE  j - 1 \in DOMAIN stack'[t] /\ stack'[t][j - 1] = stack[t][j]
    BY <1>1, <1>2, <1>5
  <1>6. Nested'
    <2> SUFFICES ASSUME NEW u \in Worker, NEW i \in DOMAIN stack'[u], i > 1
                 PROVE  /\ stack'[u][i].at = "unlock"
                        /\ stack'[u][i].to = stack'[u][i - 1].node
      BY DEF Nested
    <2>1. CASE u # t
      BY <1>1, <2>1 DEF Nested
    <2>2. CASE u = t
      <3>1. /\ i - 1 \in DOMAIN stack'[t] /\ i + 1 \in DOMAIN stack[t]
            /\ stack'[t][i] = stack[t][i + 1]
            /\ stack'[t][i - 1] = stack[t][(i - 1) + 1]
            /\ (i - 1) + 1 = (i + 1) - 1 /\ i + 1 > 1
        BY <1>4, <2>2
      <3>2. QED
        BY <2>2, <3>1 DEF Nested
    <2>3. QED
      BY <2>1, <2>2
  <1>7. ASSUME NEW u \in Worker, NEW i \in DOMAIN stack'[t], NEW j \in DOMAIN stack'[u],
               stack'[t][i].node = stack'[u][j].node
        PROVE  t = u /\ i = j
    <2>1. CASE u # t
      BY <1>1, <1>4, <1>7, <2>1 DEF Distinct
    <2>2. CASE u = t
      <3>1. i + 1 = j + 1
        BY <1>4, <1>7, <2>2 DEF Distinct
      <3>2. QED
        BY <1>4, <2>2, <3>1
    <2>3. QED
      BY <2>1, <2>2
  <1>8. Distinct'
    <2> SUFFICES ASSUME NEW u \in Worker, NEW w \in Worker,
                        NEW i \in DOMAIN stack'[u], NEW j \in DOMAIN stack'[w],
                        stack'[u][i].node = stack'[w][j].node
                 PROVE  u = w /\ i = j
      BY DEF Distinct
    <2>1. CASE u = t
      BY <1>7, <2>1
    <2>2. CASE w = t
      BY <1>7, <2>2
    <2>3. CASE u # t /\ w # t
      BY <1>1, <2>3 DEF Distinct
    <2>4. QED
      BY <2>1, <2>2, <2>3
  <1>9. FramesOf(t)' = FramesOf(t) \ {Top(t)}
    <2>1. ASSUME NEW h \in FramesOf(t)'
          PROVE  h \in FramesOf(t) /\ h # Top(t)
      <3>1. PICK i \in DOMAIN stack'[t] : h = stack'[t][i]
        BY DEF FramesOf
      <3>2. i + 1 \in DOMAIN stack[t] /\ i + 1 # 1 /\ h = stack[t][i + 1]
        BY <1>4, <3>1
      <3>3. QED
        BY <3>2, TopApart DEF FramesOf
    <2>2. ASSUME NEW h \in FramesOf(t), h # Top(t)
          PROVE  h \in FramesOf(t)'
      <3>1. PICK j \in DOMAIN stack[t] : h = stack[t][j]
        BY DEF FramesOf
      <3>2. j - 1 \in DOMAIN stack'[t] /\ stack'[t][j - 1] = h
        BY <1>2, <1>4, <1>5, <2>2, <3>1
      <3>3. QED
        BY <3>2 DEF FramesOf
    <2>3. QED
      BY <2>1, <2>2
  <1>10. Frames' = Frames \ {Top(t)}
    <2>1. PICK top : top = Top(t)
      OBVIOUS
    <2>2. \A u \in Worker \ {t} : FramesOf(u)' = FramesOf(u) /\ FramesOf(u) \cap {top} = {}
      BY <1>1, <2>1, TopApart
    <2>3. FramesOf(t)' = (FramesOf(t) \ {top}) \cup {}
      BY <1>9, <2>1
    <2>4. Frames' = (Frames \ {top}) \cup {}
      BY <2>2, <2>3, SwapFrames
    <2>5. QED
      BY <2>1, <2>4
  <1>11. QED
    BY <1>1, <1>3, <1>6, <1>8, <1>9, <1>10 DEF Swapped

LEMMA PushFacts ==
  ASSUME TypeOK, Nested, Distinct, NEW t \in Worker, Idle(t),
         NEW g \in Frame, \A h \in Frames : h.node # g.node,
         stack' = [stack EXCEPT ![t] = <<g>>]
  PROVE  Swapped(t, {}, {g})
  <1>1. /\ stack'[t] = <<g>>
        /\ \A u \in Worker \ {t} : stack'[u] = stack[u] /\ FramesOf(u)' = FramesOf(u)
    BY OthersKept
  <1>2. stack' \in [Worker -> Seq(Frame)]
    BY DEF TypeOK
  <1>3. DOMAIN stack'[t] = {1} /\ stack'[t][1] = g /\ DOMAIN stack[t] = {}
    BY <1>1 DEF Idle
  <1>4. FramesOf(t)' = (FramesOf(t) \ {}) \cup {g}
    BY <1>3 DEF FramesOf
  <1>5. Frames' = (Frames \ {}) \cup {g}
    <2>1. \A u \in Worker \ {t} : FramesOf(u)' = FramesOf(u) /\ FramesOf(u) \cap {} = {}
      BY <1>1
    <2>2. QED
      BY <1>4, <2>1, SwapFrames
  <1>6. Nested'
    <2> SUFFICES ASSUME NEW u \in Worker, NEW i \in DOMAIN stack'[u], i > 1
                 PROVE  /\ stack'[u][i].at = "unlock"
                        /\ stack'[u][i].to = stack'[u][i - 1].node
      BY DEF Nested
    <2>1. u # t
      BY <1>3
    <2>2. QED
      BY <1>1, <2>1 DEF Nested
  <1>7. \A u \in Worker : \A i \in DOMAIN stack[u] : stack[u][i].node # g.node
    BY DEF Frames, FramesOf
  <1>8. Distinct'
    BY <1>1, <1>3, <1>7 DEF Distinct
  <1>9. QED
    BY <1>1, <1>2, <1>4, <1>5, <1>6, <1>8 DEF Swapped
-----------------------------------------------------------------------------
(* What an action leaves alone *)

\* Two frames on their way into an undisputed combinator are one.
LEMMA OneEntry ==
  ASSUME IInv, NEW g \in Frames, NEW h \in Frames, NEW m \in Node, Undisputed(m),
         g.to = m, g.at \in {"test", "lock"}, h.to = m, h.at \in {"test", "lock"}
  PROVE  g = h
  <1> USE DEF IInv
  <1>1. CASE OneWorker
    <2>1. PICK t \in Worker : g = Top(t)
      BY InnermostFacts
    <2>2. PICK u \in Worker : h = Top(u)
      BY InnermostFacts
    <2>3. QED
      BY <1>1, <2>1, <2>2 DEF OneWorker
  <1>2. CASE \A d, e \in Deps[m] : d = e
    <2>1. g.node \in Deps[m] /\ h.node \in Deps[m]
      BY DEF FramesOK, FrameOK, SlotFrame, Dependents
    <2>2. QED
      BY <1>2, <2>1, FrameFacts
  <1>3. QED
    BY <1>1, <1>2 DEF Undisputed

\* The frame of t goes on without taking or giving up a report.
LEMMA ReportsKept ==
  ASSUME TypeOK, Distinct, NEW t \in Worker, NEW g \in Frames, NEW f,
         Swapped(t, {g}, {f}), f.node = g.node, f.todo = g.todo
  PROVE  \A d, m : Settled(d, m)' <=> Settled(d, m)
  BY FrameFacts DEF Swapped, Settled

LEMMA DeliveriesKept ==
  ASSUME CounterIsWaiting, UNCHANGED counter,
         \A m \in Node : \A d \in Deps[m] : Delivered(d, m)' <=> Delivered(d, m)
  PROVE  CounterIsWaiting'
  <1>1. \A m \in Node : Waiting(m)' = Waiting(m)
    BY DEF Waiting
  <1>2. QED
    BY <1>1 DEF CounterIsWaiting

LEMMA MarksKept ==
  ASSUME MarksAreReported, UNCHANGED <<emitted, canceled>>,
         \A m \in Node : \A d \in Deps[m] : Delivered(d, m)' <=> Delivered(d, m)
  PROVE  MarksAreReported'
  BY DEF MarksAreReported

LEMMA DueKept ==
  ASSUME StartsAreDue, UNCHANGED counter,
         \A m \in Node : Untouched(m)' => Untouched(m),
         \A g \in Frames : g.at \in {"test", "lock"} => g \in Frames'
  PROVE  StartsAreDue'
  <1> SUFFICES ASSUME NEW m \in Node, Deps[m] # {}, counter'[m] = 0, Untouched(m)'
               PROVE  \E g \in Frames' : g.to = m /\ g.at \in {"test", "lock"}
    BY DEF StartsAreDue
  <1>1. QED
    BY DEF StartsAreDue

LEMMA MutexKept ==
  ASSUME MutexOK, UNCHANGED mutex, NEW t \in Worker, NEW old, NEW new,
         Swapped(t, old, new), \A g \in old \cup new : g.at # "unlock"
  PROVE  MutexOK'
  <1>1. ASSUME NEW u \in Worker, NEW g, g.at = "unlock"
        PROVE  g \in FramesOf(u)' <=> g \in FramesOf(u)
    BY <1>1 DEF Swapped
  <1>2. ASSUME NEW g, g.at = "unlock"
        PROVE  g \in Frames' <=> g \in Frames
    BY <1>2 DEF Swapped
  <1>3. QED
    BY <1>1, <1>2 DEF MutexOK

\* A thread takes the mutex of m, and f is the frame that holds it.
LEMMA MutexTaken ==
  ASSUME TypeOK, MutexOK, NEW t \in Worker, NEW m \in Node,
         mutex[m] = None, mutex' = [mutex EXCEPT ![m] = t],
         NEW g, NEW new, Swapped(t, {g}, new), g.at # "unlock",
         NEW f \in new, f.at = "unlock", f.to = m,
         \A h \in new : h = f \/ h.at # "unlock"
  PROVE  MutexOK'
  <1>1. mutex'[m] = t /\ \A n \in Node : n # m => mutex'[n] = mutex[n]
    BY DEF TypeOK
  <1>2. ASSUME NEW h \in Frames, h.at = "unlock"
        PROVE  h.to # m
    <2>1. PICK u \in Worker : h \in FramesOf(u)
      BY DEF Frames
    <2>2. QED
      BY <1>2, <2>1, WorkerAssumption DEF MutexOK
  <1>3. ASSUME NEW u \in Worker, NEW n \in Node
        PROVE  mutex'[n] = u <=> \E h \in FramesOf(u)' : h.at = "unlock" /\ h.to = n
    <2>1. CASE n # m
      <3>1. ASSUME NEW h, h.at = "unlock", h.to = n
            PROVE  h \in FramesOf(u)' <=> h \in FramesOf(u)
        BY <2>1, <3>1 DEF Swapped
      <3>2. QED
        BY <1>1, <2>1, <3>1 DEF MutexOK
    <2>2. CASE n = m /\ u = t
      BY <1>1, <2>2 DEF Swapped
    <2>3. CASE n = m /\ u # t
      <3>1. FramesOf(u)' = FramesOf(u) /\ FramesOf(u) \subseteq Frames
        BY <2>3 DEF Swapped, Frames
      <3>2. QED
        BY <1>1, <1>2, <2>3, <3>1
    <2>4. QED
      BY <2>1, <2>2, <2>3
  <1>4. ASSUME NEW h \in Frames', NEW k \in Frames',
               h.at = "unlock", k.at = "unlock", h.to = k.to
        PROVE  h = k
    <2>1. (h = f \/ h \in Frames) /\ (k = f \/ k \in Frames)
      BY <1>4 DEF Swapped
    <2>2. QED
      BY <1>2, <1>4, <2>1 DEF MutexOK
  <1>5. QED
    BY <1>3, <1>4 DEF MutexOK

-----------------------------------------------------------------------------
(* One lemma per action: the step preserves the invariant *)

LEMMA TestPreserves ==
  ASSUME IInv, NEW t \in Worker, Test(t)
  PROVE  IInv'
  <1> USE DEF IInv
  <1>1. PICK g : g = Top(t)
    OBVIOUS
  <1>2. PICK f : f = [g EXCEPT !.at = IF Reached(counter[g.to]) THEN "lock" ELSE "slots"]
    OBVIOUS
  <1>3. /\ ~Idle(t) /\ g.at = "test" /\ Move(t, f)
        /\ UNCHANGED <<data, store, emitted, invoked, pending, counter, canceled, mutex>>
    BY <1>1, <1>2 DEF Test, At
  <1>4. g \in Frames /\ g \in Frame /\ FrameOK(g)
    BY <1>1, <1>3, TopFacts DEF FramesOK
  <1>5. /\ f \in Frame
        /\ f.node = g.node /\ f.todo = g.todo /\ f.to = g.to /\ f.cancel = g.cancel
        /\ f.at = IF counter[f.to] = 0 THEN "lock" ELSE "slots"
    BY <1>3, <1>4, <1>2 DEF Frame, Place, Reached
  <1>6. Swapped(t, {g}, {f})
    BY <1>1, <1>3, <1>5, MoveFacts
  <1>7. TypeOK' /\ Nested' /\ Distinct'
    BY <1>3, <1>6 DEF Swapped, TypeOK
  <1>8. FramesOK'
    <2>1. FrameOK(f)'
      <3>1. BodyFrame(f)' /\ SlotFrame(f)'
        BY <1>3, <1>4, <1>5 DEF FrameOK, BodyFrame, SlotFrame
      <3>2. EntryFrame(f)'
        BY <1>3, <1>4, <1>5 DEF FrameOK, EntryFrame, Untouched
      <3>3. QED
        BY <1>4, <1>5, <3>1, <3>2 DEF FrameOK
    <2>2. ASSUME NEW h \in Frames
          PROVE  FrameOK(h)'
      BY <1>3 DEF FramesOK, FrameOK, BodyFrame, SlotFrame, EntryFrame, Untouched
    <2>3. QED
      BY <1>6, <2>1, <2>2 DEF FramesOK, Swapped
  <1>9. \A d, m : Delivered(d, m)' <=> Delivered(d, m)
    BY <1>3, <1>4, <1>5, <1>6, ReportsKept DEF Delivered, Released
  <1>10. CounterIsWaiting' /\ MarksAreReported'
    BY <1>3, <1>9, DeliveriesKept, MarksKept
  <1>11. StartedAfterAll' /\ ResultsOK' /\ FinalOK'
    BY <1>3 DEF StartedAfterAll, ResultsOK, FinalOK, Untouched
  <1>12. StartsAreDue'
    <2> SUFFICES ASSUME NEW m \in Node, Deps[m] # {}, counter[m] = 0, Untouched(m)
                 PROVE  \E h \in Frames' : h.to = m /\ h.at \in {"test", "lock"}
      BY <1>3 DEF StartsAreDue, Untouched
    <2>1. PICK h \in Frames : h.to = m /\ h.at \in {"test", "lock"}
      BY DEF StartsAreDue
    <2>2. CASE h = g
      BY <1>5, <1>6, <2>1, <2>2 DEF Swapped
    <2>3. CASE h # g
      BY <1>6, <2>1, <2>3 DEF Swapped
    <2>4. QED
      BY <2>2, <2>3
  <1>13. PendingOK'
    BY <1>3, <1>4, <1>5, <1>6 DEF Swapped, PendingOK
  <1>14. MutexOK'
    BY <1>3, <1>5, <1>6, MutexKept
  <1>15. QED
    BY <1>7, <1>8, <1>10, <1>11, <1>12, <1>13, <1>14

LEMMA SlotPreserves ==
  ASSUME IInv, NEW t \in Worker, NEW m \in Node, Slot(t, m)
  PROVE  IInv'
  <1> USE DEF IInv
  <1>1. PICK g : g = Top(t)
    OBVIOUS
  <1> DEFINE f == [g EXCEPT !.at = "dec", !.to = m]
  <1>2. /\ ~Idle(t) /\ g.at = "slots" /\ m \in g.todo /\ Move(t, f)
        /\ canceled' = [canceled EXCEPT ![m] = @ \/ g.cancel]
        /\ UNCHANGED <<data, store, emitted, invoked, pending, counter, mutex>>
    BY <1>1 DEF Slot, At
  <1>3. g \in Frames /\ g \in Frame /\ FrameOK(g)
    BY <1>1, <1>2, TopFacts DEF FramesOK
  <1>4. /\ f \in Frame /\ f.at = "dec" /\ f.to = m
        /\ f.node = g.node /\ f.todo = g.todo /\ f.cancel = g.cancel
    BY <1>2, <1>3 DEF Frame, Place
  <1> HIDE DEF f
  <1>5. Swapped(t, {g}, {f})
    BY <1>1, <1>2, <1>4, MoveFacts
  <1>6. /\ g.node \in Deps[m]
        /\ g.cancel <=> emitted[g.node] = "cancel"
        /\ ~Delivered(g.node, m)
    BY <1>2, <1>3 DEF FrameOK, SlotFrame, Dependents, Delivered, Settled
  <1>7. counter[m] # 0
    <2>1. g.node \in Waiting(m)
      BY <1>6 DEF Waiting
    <2>2. IsFiniteSet(Waiting(m))
      BY GraphAssumption, FS_Subset DEF Waiting
    <2>3. QED
      BY <2>1, <2>2, FS_EmptySet DEF CounterIsWaiting
  <1>8. /\ canceled' \in [Node -> BOOLEAN]
        /\ \A n \in Node : n # m => canceled'[n] = canceled[n]
        /\ canceled'[m] <=> canceled[m] \/ g.cancel
    BY <1>2, <1>3 DEF TypeOK, Frame
  <1>9. TypeOK' /\ Nested' /\ Distinct'
    BY <1>2, <1>5, <1>8 DEF Swapped, TypeOK
  <1>10. FramesOK'
    <2>1. FrameOK(f)'
      BY <1>2, <1>3, <1>4, <1>8 DEF FrameOK, BodyFrame, SlotFrame, EntryFrame
    <2>2. ASSUME NEW h \in Frames
          PROVE  FrameOK(h)'
      <3>1. FrameOK(h) /\ (h.to \in Node => (canceled[h.to] => canceled'[h.to]))
        BY <1>8 DEF FramesOK
      <3>2. h.at = "dec" => h.to \in Node
        BY <3>1 DEF FrameOK, SlotFrame, Dependents
      <3>3. QED
        BY <1>2, <3>1, <3>2 DEF FrameOK, BodyFrame, SlotFrame, EntryFrame, Untouched
    <2>3. QED
      BY <1>5, <2>1, <2>2 DEF FramesOK, Swapped
  <1>11. \A d, n : Delivered(d, n)' <=> Delivered(d, n)
    BY <1>2, <1>3, <1>4, <1>5, ReportsKept DEF Delivered, Released
  <1>12. CounterIsWaiting'
    BY <1>2, <1>11, DeliveriesKept
  <1>13. MarksAreReported'
    BY <1>2, <1>6, <1>8, <1>11, GraphAssumption DEF MarksAreReported
  <1>14. StartedAfterAll'
    BY <1>2, <1>7, <1>8 DEF StartedAfterAll, Untouched
  <1>15. StartsAreDue'
    <2>1. \A h \in Frames : h.at \in {"test", "lock"} => h \in Frames'
      BY <1>2, <1>5 DEF Swapped
    <2>2. QED
      BY <1>2, <2>1, DueKept DEF Untouched
  <1>16. PendingOK'
    BY <1>2, <1>3, <1>4, <1>5 DEF Swapped, PendingOK
  <1>17. ResultsOK' /\ FinalOK'
    BY <1>2 DEF ResultsOK, FinalOK
  <1>18. MutexOK'
    BY <1>2, <1>4, <1>5, MutexKept
  <1>19. QED
    BY <1>9, <1>10, <1>12, <1>13, <1>14, <1>15, <1>16, <1>17, <1>18

LEMMA DecrementPreserves ==
  ASSUME IInv, NEW t \in Worker, Decrement(t)
  PROVE  IInv'
  <1> USE DEF IInv
  <1>1. PICK g, m, d : g = Top(t) /\ m = g.to /\ d = g.node
    OBVIOUS
  <1> DEFINE f == [g EXCEPT !.at = "test", !.todo = @ \ {m}]
  <1>2. /\ ~Idle(t) /\ g.at = "dec" /\ Move(t, f)
        /\ counter' = [counter EXCEPT ![m] = Decremented(@)]
        /\ UNCHANGED <<data, store, emitted, invoked, pending, canceled, mutex>>
    BY <1>1 DEF Decrement, At
  <1>3. g \in Frames /\ g \in Frame /\ FrameOK(g) /\ d \in Node
    BY <1>1, <1>2, TopFacts DEF FramesOK, Frame
  <1>4. /\ f \in Frame /\ f.at = "test" /\ f.to = m
        /\ f.node = d /\ f.todo = g.todo \ {m} /\ f.cancel = g.cancel
    BY <1>1, <1>2, <1>3 DEF Frame, Place
  <1> HIDE DEF f
  <1>5. Swapped(t, {g}, {f})
    BY <1>1, <1>2, <1>4, MoveFacts
  <1>6. /\ m \in Node /\ d \in Deps[m] /\ m \in g.todo
        /\ Released(d) /\ (emitted[d] = "cancel" => canceled[m])
        /\ ~Delivered(d, m)
    <2>1. /\ m \in Node /\ d \in Deps[m] /\ m \in g.todo
          /\ emitted[d] # "nothing" /\ emitted[d] # "abort"
          /\ emitted[d] = "cancel" => canceled[m]
      BY <1>1, <1>2, <1>3 DEF FrameOK, SlotFrame, Dependents
    <2>2. Released(d)
      BY <1>3, <2>1 DEF Released, TypeOK, Emission
    <2>3. ~Delivered(d, m)
      BY <1>1, <1>3, <2>1 DEF Delivered, Settled
    <2>4. QED
      BY <2>1, <2>2, <2>3
  <1>7. /\ Delivered(d, m)'
        /\ \A n \in Node : \A e \in Deps[n] :
             <<e, n>> # <<d, m>> => (Delivered(e, n)' <=> Delivered(e, n))
    <2>1. \A h \in Frames : h.node = d => h = g
      BY <1>1, <1>3, FrameFacts
    <2>2. Settled(d, m)'
      BY <1>4, <1>5, <2>1 DEF Swapped, Settled
    <2>3. ASSUME NEW e, NEW n, e # d \/ n # m
          PROVE  Settled(e, n)' <=> Settled(e, n)
      BY <1>1, <1>3, <1>4, <1>5, <2>1, <2>3 DEF Swapped, Settled
    <2>4. QED
      BY <1>2, <1>6, <2>2, <2>3 DEF Delivered, Released
  <1>8. /\ d \in Waiting(m)
        /\ Waiting(m)' = Waiting(m) \ {d}
        /\ \A n \in Node : n # m => Waiting(n)' = Waiting(n)
    BY <1>6, <1>7 DEF Waiting
  <1>9. /\ counter[m] = Cardinality(Waiting(m))
        /\ Cardinality(Waiting(m)) \in Nat \ {0}
        /\ Cardinality(Waiting(m) \ {d}) = Cardinality(Waiting(m)) - 1
    <2>1. IsFiniteSet(Waiting(m))
      BY <1>6, GraphAssumption, FS_Subset DEF Waiting
    <2>2. QED
      BY <1>6, <1>8, <2>1, FS_EmptySet, FS_CardinalityType, FS_RemoveElement DEF CounterIsWaiting
  <1>10. /\ counter'[m] = counter[m] - 1
         /\ counter' \in [Node -> 0 .. SizeMax]
         /\ \A n \in Node : n # m => counter'[n] = counter[n]
    BY <1>2, <1>6, <1>9, WorkerAssumption DEF TypeOK, Decremented
  <1>11. Untouched(m)
    BY <1>6, <1>9 DEF StartedAfterAll
  <1>12. TypeOK' /\ Nested' /\ Distinct'
    BY <1>2, <1>5, <1>10 DEF Swapped, TypeOK
  <1>13. FramesOK'
    <2>1. FrameOK(f)'
      BY <1>1, <1>2, <1>3, <1>4, <1>6, <1>11
      DEF FrameOK, BodyFrame, SlotFrame, EntryFrame, Untouched
    <2>2. ASSUME NEW h \in Frames
          PROVE  FrameOK(h)'
      <3>1. FrameOK(h) /\ (h.at = "lock" => h.to \in Node /\ h.to # m)
        BY <1>9 DEF FramesOK, FrameOK, EntryFrame, SlotFrame, Dependents
      <3>2. QED
        BY <1>2, <1>10, <3>1 DEF FrameOK, BodyFrame, SlotFrame, EntryFrame, Untouched
    <2>3. QED
      BY <1>5, <2>1, <2>2 DEF FramesOK, Swapped
  <1>14. CounterIsWaiting'
    BY <1>8, <1>9, <1>10 DEF CounterIsWaiting
  <1>15. MarksAreReported'
    BY <1>2, <1>6, <1>7 DEF MarksAreReported
  <1>16. StartedAfterAll'
    BY <1>2, <1>10, <1>11 DEF StartedAfterAll, Untouched
  <1>17. StartsAreDue'
    <2> SUFFICES ASSUME NEW n \in Node, Deps[n] # {}, counter'[n] = 0, Untouched(n)
                 PROVE  \E h \in Frames' : h.to = n /\ h.at \in {"test", "lock"}
      BY <1>2 DEF StartsAreDue, Untouched
    <2>1. CASE n = m
      BY <1>4, <1>5, <2>1 DEF Swapped
    <2>2. CASE n # m
      <3>1. PICK h \in Frames : h.to = n /\ h.at \in {"test", "lock"}
        BY <1>10, <2>2 DEF StartsAreDue
      <3>2. QED
        BY <1>2, <1>5, <3>1 DEF Swapped
    <2>3. QED
      BY <2>1, <2>2
  <1>18. PendingOK'
    BY <1>1, <1>2, <1>3, <1>4, <1>5 DEF Swapped, PendingOK
  <1>19. ResultsOK' /\ FinalOK'
    BY <1>2 DEF ResultsOK, FinalOK
  <1>20. MutexOK'
    BY <1>2, <1>4, <1>5, MutexKept
  <1>21. QED
    BY <1>12, <1>13, <1>14, <1>15, <1>16, <1>17, <1>18, <1>19, <1>20

LEMMA LeavePreserves ==
  ASSUME IInv, NEW t \in Worker, Leave(t)
  PROVE  IInv'
  <1> USE DEF IInv
  <1>1. PICK g, m : g = Top(t) /\ m = g.to
    OBVIOUS
  <1> DEFINE f == [g EXCEPT !.at = "slots", !.to = None]
  <1>2. /\ ~Idle(t) /\ g.at = "unlock" /\ Move(t, f)
        /\ mutex' = [mutex EXCEPT ![m] = None]
        /\ UNCHANGED <<data, store, emitted, invoked, pending, counter, canceled>>
    BY <1>1 DEF Leave, At
  <1>3. /\ g \in FramesOf(t) /\ g \in Frames /\ g \in Frame /\ FrameOK(g)
        /\ m \in Node
    BY <1>1, <1>2, TopFacts DEF FramesOK, FrameOK, SlotFrame, Dependents
  <1>4. /\ f \in Frame /\ f.at = "slots"
        /\ f.node = g.node /\ f.todo = g.todo /\ f.cancel = g.cancel
    BY <1>2, <1>3 DEF Frame, Place
  <1> HIDE DEF f
  <1>5. Swapped(t, {g}, {f})
    BY <1>1, <1>2, <1>4, MoveFacts
  <1>6. /\ mutex' \in [Node -> Worker \cup {None}]
        /\ mutex'[m] = None
        /\ \A n \in Node : n # m => mutex'[n] = mutex[n]
    BY <1>2, <1>3 DEF TypeOK
  <1>7. TypeOK' /\ Nested' /\ Distinct'
    BY <1>2, <1>5, <1>6 DEF Swapped, TypeOK
  <1>8. FramesOK'
    <2>1. FrameOK(f)'
      BY <1>2, <1>3, <1>4 DEF FrameOK, BodyFrame, SlotFrame, EntryFrame
    <2>2. ASSUME NEW h \in Frames
          PROVE  FrameOK(h)'
      BY <1>2 DEF FramesOK, FrameOK, BodyFrame, SlotFrame, EntryFrame, Untouched
    <2>3. QED
      BY <1>5, <2>1, <2>2 DEF FramesOK, Swapped
  <1>9. \A d, n : Delivered(d, n)' <=> Delivered(d, n)
    BY <1>2, <1>3, <1>4, <1>5, ReportsKept DEF Delivered, Released
  <1>10. CounterIsWaiting' /\ MarksAreReported'
    BY <1>2, <1>9, DeliveriesKept, MarksKept
  <1>11. StartedAfterAll' /\ ResultsOK' /\ FinalOK'
    BY <1>2 DEF StartedAfterAll, ResultsOK, FinalOK, Untouched
  <1>12. StartsAreDue'
    <2>1. \A h \in Frames : h.at \in {"test", "lock"} => h \in Frames'
      BY <1>2, <1>5 DEF Swapped
    <2>2. QED
      BY <1>2, <2>1, DueKept DEF Untouched
  <1>13. PendingOK'
    BY <1>2, <1>3, <1>4, <1>5 DEF Swapped, PendingOK
  <1>14. MutexOK'
    <2>1. \A h \in Frames : h.at = "unlock" /\ h.to = m => h = g
      BY <1>1, <1>2, <1>3 DEF MutexOK
    <2>2. ASSUME NEW u \in Worker, NEW n \in Node
          PROVE  mutex'[n] = u <=> \E h \in FramesOf(u)' : h.at = "unlock" /\ h.to = n
      <3>1. ASSUME n # m, NEW h, h.at = "unlock", h.to = n
            PROVE  h \in FramesOf(u)' <=> h \in FramesOf(u)
        BY <1>1, <1>4, <1>5, <3>1 DEF Swapped
      <3>2. CASE n # m
        BY <1>6, <3>1, <3>2 DEF MutexOK
      <3>3. CASE n = m
        <4>1. mutex'[n] # u
          BY <1>6, <3>3, WorkerAssumption
        <4>2. ASSUME NEW h \in FramesOf(u)', h.at = "unlock", h.to = m
              PROVE  FALSE
          <5>1. h \in FramesOf(u) /\ h # f
            BY <1>4, <1>5, <4>2 DEF Swapped
          <5>2. h = g
            BY <2>1, <4>2, <5>1 DEF Frames
          <5>3. u # t
            BY <1>5, <4>2, <5>1, <5>2 DEF Swapped
          <5>4. mutex[m] = u /\ mutex[m] = t
            BY <1>3, <4>2, <5>1, <5>2 DEF MutexOK
          <5>5. QED
            BY <5>3, <5>4
        <4>3. QED
          BY <3>3, <4>1, <4>2
      <3>4. QED
        BY <3>2, <3>3
    <2>3. ASSUME NEW h \in Frames', NEW k \in Frames',
                 h.at = "unlock", k.at = "unlock", h.to = k.to
          PROVE  h = k
      BY <1>4, <1>5, <2>3 DEF Swapped, MutexOK
    <2>4. QED
      BY <2>2, <2>3 DEF MutexOK
  <1>15. QED
    BY <1>7, <1>8, <1>10, <1>11, <1>12, <1>13, <1>14

LEMMA ReturnPreserves ==
  ASSUME IInv, NEW t \in Worker, Return(t)
  PROVE  IInv'
  <1> USE DEF IInv
  <1>1. PICK g : g = Top(t)
    OBVIOUS
  <1>2. /\ ~Idle(t) /\ g.at = "slots" /\ g.todo = {} /\ Pop(t)
        /\ UNCHANGED <<data, store, emitted, invoked, pending, counter, canceled, mutex>>
    BY <1>1 DEF Return, At
  <1>3. Swapped(t, {g}, {})
    BY <1>1, <1>2, PopFacts
  <1>4. TypeOK' /\ Nested' /\ Distinct'
    BY <1>2, <1>3 DEF Swapped, TypeOK
  <1>5. FramesOK'
    <2>1. ASSUME NEW h \in Frames
          PROVE  FrameOK(h)'
      BY <1>2 DEF FramesOK, FrameOK, BodyFrame, SlotFrame, EntryFrame, Untouched
    <2>2. QED
      BY <1>3, <2>1 DEF FramesOK, Swapped
  <1>6. \A d, n : Delivered(d, n)' <=> Delivered(d, n)
    BY <1>2, <1>3 DEF Delivered, Released, Settled, Swapped
  <1>7. CounterIsWaiting' /\ MarksAreReported'
    BY <1>2, <1>6, DeliveriesKept, MarksKept
  <1>8. StartedAfterAll' /\ ResultsOK' /\ FinalOK'
    BY <1>2 DEF StartedAfterAll, ResultsOK, FinalOK, Untouched
  <1>9. StartsAreDue'
    <2>1. \A h \in Frames : h.at \in {"test", "lock"} => h \in Frames'
      BY <1>2, <1>3 DEF Swapped
    <2>2. QED
      BY <1>2, <2>1, DueKept DEF Untouched
  <1>10. PendingOK'
    BY <1>2, <1>3 DEF Swapped, PendingOK
  <1>11. MutexOK'
    BY <1>2, <1>3, MutexKept
  <1>12. QED
    BY <1>4, <1>5, <1>7, <1>8, <1>9, <1>10, <1>11

LEMMA SuspendPreserves ==
  ASSUME IInv, NEW t \in Worker, Suspend(t)
  PROVE  IInv'
  <1> USE DEF IInv
  <1>1. PICK g, n : g = Top(t) /\ n = g.node
    OBVIOUS
  <1>2. /\ ~Idle(t) /\ g.at = "body" /\ Pop(t)
        /\ pending' = [pending EXCEPT ![n] = @ + 1]
        /\ UNCHANGED <<data, store, emitted, invoked, counter, canceled, mutex>>
    BY <1>1 DEF Suspend, At
  <1>3. g \in Frames /\ g \in Frame /\ FrameOK(g)
    BY <1>1, <1>2, TopFacts DEF FramesOK
  <1>4. Swapped(t, {g}, {})
    BY <1>1, <1>2, PopFacts
  <1>5. /\ n \in Node /\ n # Final /\ g.todo = {}
        /\ emitted[n] = "nothing" /\ invoked[n] = 1 /\ pending[n] = 0
    BY <1>1, <1>2, <1>3 DEF FrameOK, BodyFrame, Frame
  <1>6. /\ pending' \in [Node -> Nat]
        /\ pending'[n] = 1
        /\ \A m \in Node : m # n => pending'[m] = pending[m]
    BY <1>2, <1>5 DEF TypeOK
  <1>7. TypeOK' /\ Nested' /\ Distinct'
    BY <1>2, <1>4, <1>6 DEF Swapped, TypeOK
  <1>8. \A h \in Frames' : h \in Frames /\ h \in Frame /\ h.node # n
    BY <1>1, <1>3, <1>4, FrameFacts DEF Swapped
  <1>9. FramesOK'
    <2>1. ASSUME NEW h \in Frames'
          PROVE  FrameOK(h)'
      <3>1. FrameOK(h) /\ h.node \in Node /\ h.node # n
        BY <1>8 DEF FramesOK, Frame
      <3>2. h.at \in {"test", "lock", "unlock"} => h.to \in Node
        BY <3>1 DEF FrameOK, SlotFrame, Dependents
      <3>3. EntryFrame(h)'
        BY <1>2, <1>5, <1>6, <3>1, <3>2 DEF FrameOK, EntryFrame, Untouched
      <3>4. BodyFrame(h)' /\ SlotFrame(h)'
        BY <1>2, <1>6, <3>1 DEF FrameOK, BodyFrame, SlotFrame
      <3>5. QED
        BY <3>1, <3>3, <3>4 DEF FrameOK
    <2>2. QED
      BY <2>1 DEF FramesOK
  <1>10. \A d, m : Delivered(d, m)' <=> Delivered(d, m)
    BY <1>2, <1>4, <1>5 DEF Delivered, Released, Settled, Swapped
  <1>11. CounterIsWaiting' /\ MarksAreReported'
    BY <1>2, <1>10, DeliveriesKept, MarksKept
  <1>12. StartedAfterAll'
    BY <1>2, <1>5, <1>6 DEF StartedAfterAll, Untouched
  <1>13. StartsAreDue'
    <2>1. \A h \in Frames : h.at \in {"test", "lock"} => h \in Frames'
      BY <1>2, <1>4 DEF Swapped
    <2>2. \A m \in Node : Untouched(m)' => Untouched(m)
      BY <1>2, <1>5, <1>6 DEF Untouched
    <2>3. QED
      BY <1>2, <2>1, <2>2, DueKept
  <1>14. PendingOK'
    BY <1>2, <1>5, <1>6, <1>8 DEF PendingOK
  <1>15. ResultsOK' /\ FinalOK'
    BY <1>2, <1>5, <1>6, GraphAssumption DEF ResultsOK, FinalOK
  <1>16. MutexOK'
    BY <1>2, <1>4, MutexKept
  <1>17. QED
    BY <1>7, <1>9, <1>11, <1>12, <1>13, <1>14, <1>15, <1>16

LEMMA ResumePreserves ==
  ASSUME IInv, NEW t \in Worker, NEW n \in Node, Resume(t, n)
  PROVE  IInv'
  <1> DEFINE g == Fresh(n, "handler")
  <1> USE DEF IInv
  <1>1. /\ Idle(t) /\ pending[n] > 0
        /\ pending' = [pending EXCEPT ![n] = @ - 1]
        /\ stack' = [stack EXCEPT ![t] = <<g>>]
        /\ UNCHANGED <<data, store, emitted, invoked, counter, canceled, mutex>>
    BY DEF Resume
  <1>2. g \in Frame /\ g.node = n /\ g.at = "handler" /\ g.todo = {}
    BY FreshType DEF Fresh, Place
  <1> HIDE DEF g
  <1>3. /\ n # Final
        /\ emitted[n] = "nothing" /\ invoked[n] = 1 /\ pending[n] = 1
        /\ \A h \in Frames : h.node # n
    BY <1>1 DEF PendingOK, FinalOK
  <1>4. Swapped(t, {}, {g})
    BY <1>1, <1>2, <1>3, PushFacts
  <1>5. /\ pending' \in [Node -> Nat]
        /\ pending'[n] = 0
        /\ \A m \in Node : m # n => pending'[m] = pending[m]
    BY <1>1, <1>3 DEF TypeOK
  <1>6. TypeOK' /\ Nested' /\ Distinct'
    BY <1>1, <1>4, <1>5 DEF Swapped, TypeOK
  <1>7. \A m \in Node : Untouched(m)' <=> Untouched(m)
    BY <1>1, <1>3, <1>5 DEF Untouched
  <1>8. FramesOK'
    <2>1. FrameOK(g)'
      BY <1>1, <1>2, <1>3, <1>5 DEF FrameOK, BodyFrame, SlotFrame, EntryFrame
    <2>2. ASSUME NEW h \in Frames
          PROVE  FrameOK(h)'
      <3>1. FrameOK(h) /\ h.node \in Node /\ h.node # n
        BY <1>3, FrameFacts DEF FramesOK, Frame
      <3>2. h.at \in {"test", "lock", "unlock"} => h.to \in Node
        BY <3>1 DEF FrameOK, SlotFrame, Dependents
      <3>3. EntryFrame(h)'
        BY <1>1, <1>7, <3>1, <3>2 DEF FrameOK, EntryFrame
      <3>4. BodyFrame(h)' /\ SlotFrame(h)'
        BY <1>1, <1>5, <3>1 DEF FrameOK, BodyFrame, SlotFrame
      <3>5. QED
        BY <3>1, <3>3, <3>4 DEF FrameOK
    <2>3. QED
      BY <1>4, <2>1, <2>2 DEF FramesOK, Swapped
  <1>9. \A d, m : Delivered(d, m)' <=> Delivered(d, m)
    BY <1>1, <1>2, <1>4 DEF Delivered, Released, Settled, Swapped
  <1>10. CounterIsWaiting' /\ MarksAreReported'
    BY <1>1, <1>9, DeliveriesKept, MarksKept
  <1>11. StartedAfterAll'
    BY <1>1, <1>7 DEF StartedAfterAll
  <1>12. StartsAreDue'
    <2>1. \A h \in Frames : h.at \in {"test", "lock"} => h \in Frames'
      BY <1>4 DEF Swapped
    <2>2. QED
      BY <1>1, <1>7, <2>1, DueKept
  <1>13. PendingOK'
    BY <1>1, <1>2, <1>4, <1>5 DEF Swapped, PendingOK
  <1>14. ResultsOK' /\ FinalOK'
    BY <1>1, <1>3, <1>5, GraphAssumption DEF ResultsOK, FinalOK
  <1>15. MutexOK'
    BY <1>1, <1>2, <1>4, MutexKept
  <1>16. QED
    BY <1>6, <1>8, <1>10, <1>11, <1>12, <1>13, <1>14, <1>15

\* A frame belongs to a subtask that was touched.
LEMMA FramesAreTouched ==
  ASSUME IInv, NEW m \in Node, Untouched(m)
  PROVE  \A h \in Frames : h.node # m
  BY DEF IInv, FramesOK, FrameOK, BodyFrame, SlotFrame, Untouched

LEMMA StartPreserves ==
  ASSUME IInv, NEW t \in Worker, NEW r \in Node, Start(t, r)
  PROVE  IInv'
  <1> DEFINE g == Fresh(r, "body")
  <1> USE DEF IInv
  <1>1. /\ Idle(t) /\ Deps[r] = {} /\ invoked[r] = 0
        /\ invoked' = [invoked EXCEPT ![r] = 1]
        /\ stack' = [stack EXCEPT ![t] = <<g>>]
        /\ UNCHANGED <<data, store, emitted, pending, counter, canceled, mutex>>
    BY DEF Start, Root
  <1>2. g \in Frame /\ g.node = r /\ g.at = "body" /\ g.todo = {}
    BY FreshType DEF Fresh, Place
  <1> HIDE DEF g
  <1>3. r # Final /\ ~canceled[r] /\ counter[r] = 0
    <2>1. Waiting(r) = {}
      BY <1>1 DEF Waiting
    <2>2. QED
      BY <1>1, <2>1, FS_EmptySet, GraphAssumption DEF CounterIsWaiting, MarksAreReported
  <1>4. Untouched(r)
    BY <1>1, <1>3 DEF StartedAfterAll
  <1>5. Swapped(t, {}, {g})
    BY <1>1, <1>2, <1>4, FramesAreTouched, PushFacts
  <1>6. /\ invoked' \in [Node -> Nat]
        /\ invoked'[r] = 1
        /\ \A m \in Node : m # r => invoked'[m] = invoked[m]
    BY <1>1 DEF TypeOK
  <1>7. TypeOK' /\ Nested' /\ Distinct'
    BY <1>1, <1>5, <1>6 DEF Swapped, TypeOK
  <1>8. /\ ~Untouched(r)'
        /\ \A m \in Node : m # r => (Untouched(m)' <=> Untouched(m))
    BY <1>1, <1>6 DEF Untouched
  <1>9. FramesOK'
    <2>1. FrameOK(g)'
      BY <1>1, <1>2, <1>3, <1>4, <1>6 DEF FrameOK, BodyFrame, SlotFrame, EntryFrame, Untouched
    <2>2. ASSUME NEW h \in Frames
          PROVE  FrameOK(h)'
      <3>1. FrameOK(h) /\ h.node \in Node /\ h.node # r
        BY <1>4, FramesAreTouched, FrameFacts DEF FramesOK, Frame
      <3>2. h.at \in {"test", "lock", "unlock"} => h.to \in Node /\ h.to # r
        BY <1>1, <3>1 DEF FrameOK, SlotFrame, Dependents
      <3>3. EntryFrame(h)'
        BY <1>1, <1>8, <3>1, <3>2 DEF FrameOK, EntryFrame
      <3>4. BodyFrame(h)' /\ SlotFrame(h)'
        BY <1>1, <1>6, <3>1 DEF FrameOK, BodyFrame, SlotFrame
      <3>5. QED
        BY <3>1, <3>3, <3>4 DEF FrameOK
    <2>3. QED
      BY <1>5, <2>1, <2>2 DEF FramesOK, Swapped
  <1>10. \A d, m : Delivered(d, m)' <=> Delivered(d, m)
    BY <1>1, <1>2, <1>5 DEF Delivered, Released, Settled, Swapped
  <1>11. CounterIsWaiting' /\ MarksAreReported'
    BY <1>1, <1>10, DeliveriesKept, MarksKept
  <1>12. StartedAfterAll'
    BY <1>1, <1>3, <1>6, <1>8 DEF StartedAfterAll
  <1>13. StartsAreDue'
    <2>1. \A h \in Frames : h.at \in {"test", "lock"} => h \in Frames'
      BY <1>5 DEF Swapped
    <2>2. QED
      BY <1>1, <1>8, <2>1, DueKept
  <1>14. PendingOK'
    BY <1>1, <1>2, <1>4, <1>5, <1>6 DEF Swapped, PendingOK, Untouched
  <1>15. ResultsOK' /\ FinalOK'
    BY <1>1, <1>4, <1>6 DEF ResultsOK, FinalOK, Untouched
  <1>16. MutexOK'
    BY <1>1, <1>2, <1>5, MutexKept
  <1>17. QED
    BY <1>7, <1>9, <1>11, <1>12, <1>13, <1>14, <1>15, <1>16

LEMMA RaisedFacts ==
  ASSUME NEW n, NEW d, NEW veto \in BOOLEAN, NEW signal \in Raised(n, d, veto)
  PROVE  IF veto THEN signal \in {"cancel", "abort"} ELSE signal = "signal"
  BY DEF Raised

LEMMA CompletePreserves ==
  ASSUME IInv, NEW t \in Worker, Complete(t)
  PROVE  IInv'
  <1> USE DEF IInv
  <1>1. PICK g, n : g = Top(t) /\ n = g.node
    OBVIOUS
  <1>2. PICK ok \in BOOLEAN, veto \in BOOLEAN :
          LET r == [completed |-> TRUE, success |-> ok, canceled |-> data[n].canceled \/ veto]
          IN /\ data' = [data EXCEPT ![n] = r]
             /\ store' = [store EXCEPT ![n] = r]
             /\ \E signal \in Raised(n, r, veto) :
                  /\ emitted' = [emitted EXCEPT ![n] = signal]
                  /\ Move(t, Walk(n, signal))
    <2>1. PICK ok \in BOOLEAN : \E veto \in Vetoes(n, ok) :
            LET r == [completed |-> TRUE, success |-> ok,
                      canceled |-> data[n].canceled \/ veto]
            IN /\ data' = [data EXCEPT ![n] = r]
               /\ store' = [store EXCEPT ![n] = r]
               /\ \E signal \in Raised(n, r, veto) :
                    /\ emitted' = [emitted EXCEPT ![n] = signal]
                    /\ Move(t, Walk(n, signal))
      BY <1>1 DEF Complete
    <2>2. \A veto \in Vetoes(n, ok) : veto \in BOOLEAN
      BY DEF Vetoes
    <2>3. QED
      BY <2>1, <2>2
  <1>3. PICK d : d = [completed |-> TRUE, success |-> ok, canceled |-> data[n].canceled \/ veto]
    OBVIOUS
  <1>4. PICK signal \in Raised(n, d, veto) :
          /\ data' = [data EXCEPT ![n] = d]
          /\ store' = [store EXCEPT ![n] = d]
          /\ emitted' = [emitted EXCEPT ![n] = signal]
          /\ Move(t, Walk(n, signal))
    BY <1>2, <1>3
  <1>5. /\ ~Idle(t) /\ g.at \in {"body", "handler"}
        /\ UNCHANGED <<invoked, pending, counter, canceled, mutex>>
    BY <1>1 DEF Complete, At
  <1>6. g \in Frames /\ g \in Frame /\ FrameOK(g)
    BY <1>1, <1>5, TopFacts DEF FramesOK
  <1>7. /\ n \in Node /\ n # Final
        /\ emitted[n] = "nothing" /\ invoked[n] = 1 /\ pending[n] = 0
        /\ data[n] = Blank
    BY <1>1, <1>5, <1>6 DEF FrameOK, BodyFrame, Frame, ResultsOK
  <1>8. /\ IF veto THEN signal \in {"cancel", "abort"} ELSE signal = "signal"
        /\ signal \in Emission \ {"nothing"}
    <2>1. IF veto THEN signal \in {"cancel", "abort"} ELSE signal = "signal"
      BY <1>4, RaisedFacts
    <2>2. QED
      BY <2>1 DEF Emission
  <1>9. d \in ResultData /\ d.completed /\ (d.canceled <=> veto)
    BY <1>3, <1>7 DEF ResultData, Blank
  <1> DEFINE f == Walk(n, signal)
  <1>10. /\ f \in Frame
        /\ f.node = n /\ f.at = "slots" /\ (f.cancel <=> signal = "cancel")
        /\ f.todo = IF signal = "abort" THEN {} ELSE Dependents(n)
    BY <1>7, <1>8, WalkType
  <1>11. Move(t, f)
    BY <1>4
  <1> HIDE DEF f
  <1>12. Swapped(t, {g}, {f})
    BY <1>1, <1>5, <1>10, <1>11, MoveFacts
  <1>13. /\ data' \in [Node -> ResultData] /\ data'[n] = d
         /\ store' \in [Node -> ResultData \cup {None}] /\ store'[n] = d
         /\ emitted' \in [Node -> Emission] /\ emitted'[n] = signal
         /\ \A m \in Node : m # n =>
              data'[m] = data[m] /\ store'[m] = store[m] /\ emitted'[m] = emitted[m]
    BY <1>4, <1>7, <1>8, <1>9 DEF TypeOK
  <1>14. TypeOK' /\ Nested' /\ Distinct'
    BY <1>5, <1>12, <1>13 DEF Swapped, TypeOK
  <1>15. \A h \in Frames : h # g => h.node \in Node /\ h.node # n
    BY <1>1, <1>6, FrameFacts DEF Frame
  <1>16. \A m \in Node : Untouched(m)' <=> Untouched(m)
    BY <1>5, <1>7, <1>8, <1>13 DEF Untouched
  <1>17. FramesOK'
    <2>1. FrameOK(f)'
      BY <1>7, <1>8, <1>10, <1>13 DEF FrameOK, BodyFrame, SlotFrame, EntryFrame
    <2>2. ASSUME NEW h \in Frames, h # g
          PROVE  FrameOK(h)'
      <3>1. FrameOK(h) /\ h.node \in Node /\ h.node # n
        BY <1>15, <2>2 DEF FramesOK
      <3>2. h.at \in {"test", "lock", "unlock"} => h.to \in Node
        BY <3>1 DEF FrameOK, SlotFrame, Dependents
      <3>3. EntryFrame(h)'
        BY <1>5, <1>16, <3>1, <3>2 DEF FrameOK, EntryFrame
      <3>4. BodyFrame(h)' /\ SlotFrame(h)'
        BY <1>5, <1>13, <3>1 DEF FrameOK, BodyFrame, SlotFrame
      <3>5. QED
        BY <3>1, <3>3, <3>4 DEF FrameOK
    <2>3. QED
      BY <1>12, <2>1, <2>2 DEF FramesOK, Swapped
  <1>18. \A m \in Node : \A e \in Deps[m] : Delivered(e, m)' <=> Delivered(e, m)
    <2> TAKE m \in Node
    <2> TAKE e \in Deps[m]
    <2>1. CASE e = n
      <3>1. ~Delivered(e, m)
        BY <1>7, <2>1 DEF Delivered, Released
      <3>2. signal # "abort" => m \in f.todo
        BY <1>10, <2>1 DEF Dependents
      <3>3. ~Delivered(e, m)'
        BY <1>10, <1>12, <1>13, <2>1, <3>2 DEF Delivered, Released, Settled, Swapped
      <3>4. QED
        BY <3>1, <3>3
    <2>2. CASE e # n
      <3>1. Settled(e, m)' <=> Settled(e, m)
        BY <1>1, <1>10, <1>12, <2>2 DEF Settled, Swapped
      <3>2. Released(e)' <=> Released(e)
        BY <1>13, <2>2, GraphAssumption DEF Released
      <3>3. QED
        BY <3>1, <3>2 DEF Delivered
    <2>3. QED
      BY <2>1, <2>2
  <1>19. CounterIsWaiting'
    BY <1>5, <1>18, DeliveriesKept
  <1>20. MarksAreReported'
    <2> SUFFICES ASSUME NEW m \in Node
                 PROVE  /\ \A e \in Deps[m] :
                             emitted'[e] = "cancel" /\ Delivered(e, m)' => canceled'[m]
                        /\ canceled'[m] => \E e \in Deps[m] : emitted'[e] = "cancel"
      BY DEF MarksAreReported
    <2>1. \A e \in Deps[m] : emitted'[e] = "cancel" /\ Delivered(e, m)' => canceled'[m]
      BY <1>5, <1>7, <1>13, <1>18, GraphAssumption DEF MarksAreReported, Delivered, Released
    <2>2. canceled'[m] => \E e \in Deps[m] : emitted'[e] = "cancel"
      BY <1>5, <1>7, <1>13, GraphAssumption DEF MarksAreReported
    <2>3. QED
      BY <2>1, <2>2
  <1>21. StartedAfterAll'
    BY <1>5, <1>16 DEF StartedAfterAll
  <1>22. StartsAreDue'
    <2>1. \A h \in Frames : h.at \in {"test", "lock"} => h \in Frames'
      BY <1>5, <1>12 DEF Swapped
    <2>2. QED
      BY <1>5, <1>16, <2>1, DueKept
  <1>23. PendingOK'
    BY <1>5, <1>7, <1>10, <1>12, <1>13 DEF Swapped, PendingOK
  <1>24. ResultsOK'
    BY <1>5, <1>7, <1>8, <1>9, <1>13 DEF ResultsOK
  <1>25. FinalOK'
    BY <1>5, <1>7, <1>13, GraphAssumption DEF FinalOK
  <1>26. MutexOK'
    BY <1>5, <1>10, <1>12, MutexKept
  <1>27. QED
    BY <1>14, <1>17, <1>19, <1>20, <1>21, <1>22, <1>23, <1>24, <1>25, <1>26

\* A thread at the lock of m's combinator: all dependencies have delivered,
\* and an undisputed m has not started.
LEMMA LockFacts ==
  ASSUME IInv, NEW g \in Frames, NEW m, g.at = "lock", m = g.to
  PROVE  /\ m \in Node /\ counter[m] = 0
         /\ Undisputed(m) => /\ Untouched(m)
                             /\ data[m] = Blank /\ store[m] = None
                             /\ \A h \in Frames : h.node # m
  <1> USE DEF IInv
  <1>1. m \in Node /\ counter[m] = 0 /\ (Undisputed(m) => Untouched(m))
    BY DEF FramesOK, FrameOK, SlotFrame, EntryFrame, Dependents
  <1>2. Untouched(m) => data[m] = Blank /\ store[m] = None
    BY <1>1 DEF ResultsOK, Untouched
  <1>3. QED
    BY <1>1, <1>2, FramesAreTouched

\* A step of t into m, from its frame g to the frames new, starts or skips m;
\* the other frames are unaffected by it.
Entered(t, g, m, new) ==
  /\ Swapped(t, {g}, new)
  /\ ~Untouched(m)'
  /\ \A n \in Node : n # m =>
       /\ emitted'[n] = emitted[n]
       /\ invoked'[n] = invoked[n]
       /\ data'[n] = data[n]
  /\ UNCHANGED <<store, pending, counter, canceled>>

LEMMA OtherFrames ==
  ASSUME IInv, NEW t \in Worker, NEW g \in Frames, NEW m, NEW new,
         g.at = "lock", m = g.to, m = Final \/ Undisputed(m), Entered(t, g, m, new),
         NEW h \in Frames, h # g
  PROVE  FrameOK(h)'
  <1> USE DEF IInv
  <1>1. m \in Node /\ FrameOK(h) /\ h.node \in Node /\ h.node # m
    BY LockFacts, FrameFacts DEF FramesOK, FrameOK, Frame
  <1>2. h.at \in {"test", "lock", "unlock"} => h.to \in Node
    BY <1>1 DEF FrameOK, SlotFrame, Dependents
  <1>3. ~(h.to = m /\ h.at \in {"test", "lock"} /\ Undisputed(m))
    BY <1>1, OneEntry
  <1>4. \A n \in Node : n # m => (Untouched(n)' <=> Untouched(n))
    BY DEF Entered, Untouched
  <1>5. EntryFrame(h)'
    BY <1>1, <1>2, <1>3, <1>4 DEF FrameOK, EntryFrame, Entered
  <1>6. BodyFrame(h)' /\ SlotFrame(h)'
    BY <1>1 DEF FrameOK, BodyFrame, SlotFrame, Entered
  <1>7. QED
    BY <1>1, <1>5, <1>6 DEF FrameOK

\* The frame that enters m is right once m was touched.
LEMMA EnteringFrame ==
  ASSUME IInv, NEW t \in Worker, NEW g \in Frames, NEW m, NEW new,
         g.at = "lock", m = g.to, m = Final \/ Undisputed(m), Entered(t, g, m, new),
         NEW f, f = [g EXCEPT !.at = "unlock"]
  PROVE  /\ f \in Frame
         /\ f.node = g.node /\ f.todo = g.todo /\ f.to = m /\ f.at = "unlock"
         /\ FrameOK(f)'
  <1> USE DEF IInv
  <1>1. m \in Node /\ FrameOK(g) /\ g \in Frame /\ g.node \in Node /\ g.node # m
    BY LockFacts, FrameFacts DEF FramesOK, FrameOK, Frame
  <1>2. /\ f \in Frame
        /\ f.node = g.node /\ f.todo = g.todo /\ f.to = m /\ f.cancel = g.cancel
        /\ f.at = "unlock"
    BY <1>1 DEF Frame, Place
  <1>3. BodyFrame(f)' /\ SlotFrame(f)' /\ EntryFrame(f)'
    BY <1>1, <1>2 DEF FrameOK, BodyFrame, SlotFrame, EntryFrame, Entered
  <1>4. QED
    BY <1>1, <1>2, <1>3 DEF FrameOK

\* The subtasks whose start is due, but m, still have a frame on its way.
LEMMA DueElsewhere ==
  ASSUME IInv, NEW t \in Worker, NEW g \in Frames, NEW m, NEW new,
         m = g.to, Entered(t, g, m, new)
  PROVE  StartsAreDue'
  <1> USE DEF IInv
  <1> SUFFICES ASSUME NEW n \in Node, Deps[n] # {}, counter'[n] = 0, Untouched(n)'
               PROVE  \E h \in Frames' : h.to = n /\ h.at \in {"test", "lock"}
    BY DEF StartsAreDue
  <1>1. n # m /\ counter[n] = 0 /\ Untouched(n)
    BY DEF Entered, Untouched
  <1>2. PICK h \in Frames : h.to = n /\ h.at \in {"test", "lock"}
    BY <1>1 DEF StartsAreDue
  <1>3. QED
    BY <1>1, <1>2 DEF Entered, Swapped

LEMMA JoinPreserves ==
  ASSUME IInv, NEW t \in Worker, Enter(t), Top(t).to = Final, Join(t, Final)
  PROVE  IInv'
  <1> USE DEF IInv
  <1>1. PICK g, f : g = Top(t) /\ f = [g EXCEPT !.at = "unlock"]
    OBVIOUS
  <1>2. /\ ~Idle(t) /\ g.at = "lock" /\ g.to = Final /\ Move(t, f)
        /\ mutex[Final] = None /\ mutex' = [mutex EXCEPT ![Final] = t]
        /\ invoked' = [invoked EXCEPT ![Final] = @ + 1]
        /\ UNCHANGED <<data, store, emitted, pending, counter, canceled>>
    BY <1>1 DEF Enter, Join, At
  <1>3. g \in Frames /\ g \in Frame /\ FrameOK(g)
    BY <1>1, <1>2, TopFacts DEF FramesOK
  <1>4. f \in Frame /\ f.node = g.node /\ f.todo = g.todo
    BY <1>1, <1>2, <1>3 DEF Frame, Place
  <1>5. Swapped(t, {g}, {f})
    BY <1>1, <1>2, <1>4, MoveFacts
  <1>6. /\ Final \in Node /\ counter[Final] = 0
        /\ Undisputed(Final) => Untouched(Final)
    BY <1>2, <1>3, LockFacts
  <1>7. /\ invoked' \in [Node -> Nat]
        /\ invoked'[Final] > 0 /\ invoked'[Final] = invoked[Final] + 1
        /\ \A n \in Node : n # Final => invoked'[n] = invoked[n]
    BY <1>2, <1>6 DEF TypeOK
  <1>8. mutex' \in [Node -> Worker \cup {None}]
    BY <1>2 DEF TypeOK
  <1>9. Entered(t, g, Final, {f})
    BY <1>2, <1>5, <1>7 DEF Entered, Untouched
  <1>10. TypeOK' /\ Nested' /\ Distinct'
    BY <1>2, <1>5, <1>7, <1>8 DEF Swapped, TypeOK
  <1>11. f.to = Final /\ f.at = "unlock" /\ FrameOK(f)'
    BY <1>1, <1>2, <1>3, <1>9, EnteringFrame
  <1>12. FramesOK'
    <2>1. \A h \in Frames : h # g => FrameOK(h)'
      BY <1>2, <1>3, <1>9, OtherFrames
    <2>2. QED
      BY <1>5, <1>11, <2>1 DEF FramesOK, Swapped
  <1>13. \A d, n : Delivered(d, n)' <=> Delivered(d, n)
    BY <1>2, <1>3, <1>4, <1>5, ReportsKept DEF Delivered, Released
  <1>14. CounterIsWaiting' /\ MarksAreReported'
    BY <1>2, <1>13, DeliveriesKept, MarksKept
  <1>15. StartedAfterAll'
    BY <1>2, <1>6, <1>7 DEF StartedAfterAll, Untouched
  <1>16. StartsAreDue'
    BY <1>2, <1>3, <1>9, DueElsewhere
  <1>17. PendingOK'
    BY <1>2, <1>3, <1>4, <1>5, <1>7 DEF Swapped, PendingOK, FinalOK
  <1>18. ResultsOK' /\ FinalOK'
    BY <1>2, <1>6, <1>7 DEF ResultsOK, FinalOK, Untouched
  <1>19. MutexOK'
    <2>1. PICK new : new = {f}
      OBVIOUS
    <2>2. Swapped(t, {g}, new) /\ f \in new /\ \A h \in new : h = f \/ h.at # "unlock"
      BY <1>5, <2>1
    <2>3. QED
      BY <1>2, <1>6, <1>11, <2>2, MutexTaken
  <1>20. QED
    BY <1>10, <1>12, <1>14, <1>15, <1>16, <1>17, <1>18, <1>19

LEMMA InvokePreserves ==
  ASSUME IInv, InnerUndisputed, NEW t \in Worker, NEW m, Enter(t), m = Top(t).to,
         m # Final, ~canceled[m], Invoke(t, m)
  PROVE  IInv'
  <1> USE DEF IInv
  <1>1. PICK g, f, k : g = Top(t) /\ f = [g EXCEPT !.at = "unlock"] /\ k = Fresh(m, "body")
    OBVIOUS
  <1>2. /\ ~Idle(t) /\ g.at = "lock" /\ g.to = m /\ Call(t, f, k)
        /\ mutex[m] = None /\ mutex' = [mutex EXCEPT ![m] = t]
        /\ invoked' = [invoked EXCEPT ![m] = @ + 1]
        /\ UNCHANGED <<data, store, emitted, pending, counter, canceled>>
    BY <1>1 DEF Enter, Invoke, At
  <1>3. g \in Frames /\ g \in Frame /\ FrameOK(g)
    BY <1>1, <1>2, TopFacts DEF FramesOK
  <1>4. /\ m \in Node /\ counter[m] = 0 /\ Untouched(m) /\ Undisputed(m)
        /\ \A h \in Frames : h.node # m
    BY <1>2, <1>3, LockFacts DEF InnerUndisputed
  <1>5. f \in Frame /\ f.node = g.node /\ f.todo = g.todo /\ f.to = m /\ f.at = "unlock"
    BY <1>1, <1>2, <1>3 DEF Frame, Place
  <1>6. k \in Frame /\ k.node = m /\ k.at = "body" /\ k.todo = {}
    BY <1>1, <1>4, FreshType DEF Fresh, Place
  <1>7. Swapped(t, {g}, {f, k})
    BY <1>1, <1>2, <1>4, <1>5, <1>6, CallFacts
  <1>8. /\ invoked' \in [Node -> Nat]
        /\ invoked'[m] = 1
        /\ \A n \in Node : n # m => invoked'[n] = invoked[n]
    BY <1>2, <1>4 DEF TypeOK, Untouched
  <1>9. mutex' \in [Node -> Worker \cup {None}]
    BY <1>2 DEF TypeOK
  <1>10. Entered(t, g, m, {f, k})
    BY <1>2, <1>7, <1>8 DEF Entered, Untouched
  <1>11. TypeOK' /\ Nested' /\ Distinct'
    BY <1>2, <1>7, <1>8, <1>9 DEF Swapped, TypeOK
  <1>12. FramesOK'
    <2>1. FrameOK(f)'
      BY <1>1, <1>2, <1>3, <1>4, <1>10, EnteringFrame
    <2>2. FrameOK(k)'
      BY <1>2, <1>4, <1>6, <1>8 DEF FrameOK, BodyFrame, SlotFrame, EntryFrame, Untouched
    <2>3. \A h \in Frames : h # g => FrameOK(h)'
      BY <1>2, <1>3, <1>4, <1>10, OtherFrames
    <2>4. QED
      BY <1>7, <2>1, <2>2, <2>3 DEF FramesOK, Swapped
  <1>13. \A d, n : Delivered(d, n)' <=> Delivered(d, n)
    BY <1>2, <1>3, <1>5, <1>6, <1>7 DEF Delivered, Released, Settled, Swapped
  <1>14. CounterIsWaiting' /\ MarksAreReported'
    BY <1>2, <1>13, DeliveriesKept, MarksKept
  <1>15. StartedAfterAll'
    BY <1>2, <1>4, <1>8 DEF StartedAfterAll, Untouched
  <1>16. StartsAreDue'
    BY <1>2, <1>3, <1>10, DueElsewhere
  <1>17. PendingOK'
    BY <1>2, <1>3, <1>4, <1>5, <1>6, <1>7, <1>8 DEF Swapped, PendingOK, Untouched
  <1>18. ResultsOK' /\ FinalOK'
    BY <1>2, <1>4, <1>8 DEF ResultsOK, FinalOK, Untouched
  <1>19. MutexOK'
    <2>1. PICK new : new = {f, k}
      OBVIOUS
    <2>2. Swapped(t, {g}, new) /\ f \in new /\ \A h \in new : h = f \/ h.at # "unlock"
      BY <1>6, <1>7, <2>1
    <2>3. QED
      BY <1>2, <1>4, <1>5, <2>2, MutexTaken
  <1>20. QED
    BY <1>11, <1>12, <1>14, <1>15, <1>16, <1>17, <1>18, <1>19

LEMMA SkipPreserves ==
  ASSUME IInv, InnerUndisputed, NEW t \in Worker, NEW m, Enter(t), m = Top(t).to,
         m # Final, canceled[m], Skip(t, m)
  PROVE  IInv'
  <1> USE DEF IInv
  <1>1. PICK g, f, d : /\ g = Top(t) /\ f = [g EXCEPT !.at = "unlock"]
                       /\ d = [data[m] EXCEPT !.canceled = TRUE]
    OBVIOUS
  <1>2. PICK signal \in Raised(m, d, TRUE) :
          emitted' = [emitted EXCEPT ![m] = signal] /\ Call(t, f, Walk(m, signal))
    BY <1>1 DEF Skip
  <1>3. /\ ~Idle(t) /\ g.at = "lock" /\ g.to = m
        /\ mutex[m] = None /\ mutex' = [mutex EXCEPT ![m] = t]
        /\ data' = [data EXCEPT ![m] = d]
        /\ UNCHANGED <<store, invoked, pending, counter, canceled>>
    BY <1>1 DEF Enter, Skip, At
  <1>4. g \in Frames /\ g \in Frame /\ FrameOK(g)
    BY <1>1, <1>3, TopFacts DEF FramesOK
  <1>5. /\ m \in Node /\ counter[m] = 0 /\ Untouched(m) /\ Undisputed(m)
        /\ data[m] = Blank /\ store[m] = None
        /\ \A h \in Frames : h.node # m
    BY <1>3, <1>4, LockFacts DEF InnerUndisputed
  <1>6. f \in Frame /\ f.node = g.node /\ f.todo = g.todo /\ f.to = m /\ f.at = "unlock"
    BY <1>1, <1>3, <1>4 DEF Frame, Place
  <1>7. signal \in {"cancel", "abort"} /\ signal \in Emission
    BY RaisedFacts DEF Emission
  <1>8. d \in ResultData /\ ~d.completed /\ d.canceled
    <2>1. d = [Blank EXCEPT !.canceled = TRUE]
      BY <1>1, <1>5
    <2>2. QED
      BY <2>1 DEF ResultData, Blank
  <1> DEFINE k == Walk(m, signal)
  <1>9. /\ k \in Frame
        /\ k.node = m /\ k.at = "slots" /\ (k.cancel <=> signal = "cancel")
        /\ k.todo = IF signal = "abort" THEN {} ELSE Dependents(m)
    BY <1>5, <1>7, WalkType
  <1>10. Call(t, f, k)
    BY <1>2
  <1> HIDE DEF k
  <1>11. Swapped(t, {g}, {f, k})
    BY <1>1, <1>3, <1>5, <1>6, <1>9, <1>10, CallFacts
  <1>12. /\ data' \in [Node -> ResultData] /\ data'[m] = d
         /\ emitted' \in [Node -> Emission] /\ emitted'[m] = signal
         /\ \A n \in Node : n # m => data'[n] = data[n] /\ emitted'[n] = emitted[n]
    BY <1>2, <1>3, <1>5, <1>7, <1>8 DEF TypeOK
  <1>13. mutex' \in [Node -> Worker \cup {None}]
    BY <1>3 DEF TypeOK
  <1>14. Entered(t, g, m, {f, k})
    BY <1>3, <1>7, <1>11, <1>12 DEF Entered, Untouched
  <1>15. TypeOK' /\ Nested' /\ Distinct'
    BY <1>3, <1>11, <1>12, <1>13 DEF Swapped, TypeOK
  <1>16. FramesOK'
    <2>1. FrameOK(f)'
      BY <1>1, <1>3, <1>4, <1>5, <1>14, EnteringFrame
    <2>2. FrameOK(k)'
      BY <1>5, <1>7, <1>9, <1>12 DEF FrameOK, BodyFrame, SlotFrame, EntryFrame
    <2>3. \A h \in Frames : h # g => FrameOK(h)'
      BY <1>3, <1>4, <1>5, <1>14, OtherFrames
    <2>4. QED
      BY <1>11, <2>1, <2>2, <2>3 DEF FramesOK, Swapped
  <1>17. \A n \in Node : \A e \in Deps[n] : Delivered(e, n)' <=> Delivered(e, n)
    <2> TAKE n \in Node
    <2> TAKE e \in Deps[n]
    <2>1. CASE e = m
      <3>1. ~Delivered(e, n)
        BY <1>5, <2>1 DEF Delivered, Released, Untouched
      <3>2. signal # "abort" => n \in k.todo
        BY <1>9, <2>1 DEF Dependents
      <3>3. ~Delivered(e, n)'
        BY <1>9, <1>11, <1>12, <2>1, <3>2 DEF Delivered, Released, Settled, Swapped
      <3>4. QED
        BY <3>1, <3>3
    <2>2. CASE e # m
      <3>1. Settled(e, n)' <=> Settled(e, n)
        BY <1>4, <1>6, <1>9, <1>11, <2>2 DEF Settled, Swapped
      <3>2. Released(e)' <=> Released(e)
        BY <1>12, <2>2, GraphAssumption DEF Released
      <3>3. QED
        BY <3>1, <3>2 DEF Delivered
    <2>3. QED
      BY <2>1, <2>2
  <1>18. CounterIsWaiting'
    BY <1>3, <1>17, DeliveriesKept
  <1>19. MarksAreReported'
    <2> SUFFICES ASSUME NEW n \in Node
                 PROVE  /\ \A e \in Deps[n] :
                             emitted'[e] = "cancel" /\ Delivered(e, n)' => canceled'[n]
                        /\ canceled'[n] => \E e \in Deps[n] : emitted'[e] = "cancel"
      BY DEF MarksAreReported
    <2>1. \A e \in Deps[n] : emitted'[e] = "cancel" /\ Delivered(e, n)' => canceled'[n]
      BY <1>3, <1>5, <1>12, <1>17, GraphAssumption
      DEF MarksAreReported, Delivered, Released, Untouched
    <2>2. canceled'[n] => \E e \in Deps[n] : emitted'[e] = "cancel"
      BY <1>3, <1>5, <1>12, GraphAssumption DEF MarksAreReported, Untouched
    <2>3. QED
      BY <2>1, <2>2
  <1>20. StartedAfterAll'
    BY <1>3, <1>5, <1>12 DEF StartedAfterAll, Untouched
  <1>21. StartsAreDue'
    BY <1>3, <1>4, <1>14, DueElsewhere
  <1>22. PendingOK'
    BY <1>3, <1>4, <1>5, <1>6, <1>9, <1>11, <1>12 DEF Swapped, PendingOK, Untouched
  <1>23. ResultsOK'
    BY <1>3, <1>5, <1>7, <1>8, <1>12 DEF ResultsOK, Untouched
  <1>24. FinalOK'
    BY <1>3, <1>12, GraphAssumption DEF FinalOK
  <1>25. MutexOK'
    <2>1. PICK new : new = {f, k}
      OBVIOUS
    <2>2. Swapped(t, {g}, new) /\ f \in new /\ \A h \in new : h = f \/ h.at # "unlock"
      BY <1>9, <1>11, <2>1
    <2>3. QED
      BY <1>3, <1>5, <1>6, <2>2, MutexTaken
  <1>26. QED
    BY <1>15, <1>16, <1>18, <1>19, <1>20, <1>21, <1>22, <1>23, <1>24, <1>25

LEMMA EnterPreserves ==
  ASSUME IInv, InnerUndisputed, NEW t \in Worker, Enter(t)
  PROVE  IInv'
  <1>1. PICK m : m = Top(t).to
    OBVIOUS
  <1>2. CASE m = Final /\ Join(t, m)
    BY <1>1, <1>2, JoinPreserves
  <1>3. CASE m # Final /\ canceled[m] /\ Skip(t, m)
    BY <1>1, <1>3, SkipPreserves
  <1>4. CASE m # Final /\ ~canceled[m] /\ Invoke(t, m)
    BY <1>1, <1>4, InvokePreserves
  <1>5. QED
    BY <1>1, <1>2, <1>3, <1>4 DEF Enter

-----------------------------------------------------------------------------
(* The specification *)

LEMMA InitInv ==
  ASSUME Init
  PROVE  IInv
  <1>1. Frames = {} /\ \A t \in Worker : FramesOf(t) = {}
    BY DEF Init, Frames, FramesOf
  <1>2. \A m \in Node : counter[m] = Cardinality(Deps[m]) /\ Waiting(m) = Deps[m]
    BY GraphAssumption DEF Init, Outstanding, Waiting, Delivered, Released
  <1>3. \A m \in Node : counter[m] \in 0 .. SizeMax
    BY <1>2, GraphAssumption, WorkerAssumption, FS_CardinalityType
  <1>4. TypeOK
    <2>1. Blank \in ResultData
      BY DEF Blank, ResultData
    <2>2. counter \in [Node -> 0 .. SizeMax]
      BY <1>3 DEF Init
    <2>3. stack \in [Worker -> Seq(Frame)]
      BY DEF Init
    <2>4. QED
      BY <2>1, <2>2, <2>3 DEF Init, TypeOK, Emission
  <1>5. CounterIsWaiting
    BY <1>2 DEF CounterIsWaiting
  <1>6. Nested /\ Distinct
    BY DEF Init, Nested, Distinct
  <1>7. FramesOK
    BY <1>1 DEF FramesOK
  <1>8. MarksAreReported
    BY GraphAssumption DEF Init, MarksAreReported
  <1>9. StartedAfterAll /\ PendingOK
    BY DEF Init, StartedAfterAll, PendingOK, Untouched
  <1>10. StartsAreDue
    BY <1>2, GraphAssumption, FS_EmptySet DEF StartsAreDue
  <1>11. ResultsOK /\ FinalOK
    BY GraphAssumption DEF Init, ResultsOK, FinalOK
  <1>12. MutexOK
    BY <1>1, WorkerAssumption DEF Init, MutexOK
  <1>13. QED
    BY <1>4, <1>5, <1>6, <1>7, <1>8, <1>9, <1>10, <1>11, <1>12 DEF IInv

LEMMA StutterPreserves ==
  ASSUME IInv, UNCHANGED vars
  PROVE  IInv'
  <1> USE DEF IInv, vars
  <1>1. Frames' = Frames /\ \A t : FramesOf(t)' = FramesOf(t)
    BY DEF Frames, FramesOf
  <1>2. TypeOK' /\ ResultsOK' /\ FinalOK' /\ Nested' /\ Distinct'
    BY DEF TypeOK, ResultsOK, FinalOK, Nested, Distinct
  <1>3. FramesOK'
    BY <1>1 DEF FramesOK, FrameOK, BodyFrame, SlotFrame, EntryFrame, Untouched
  <1>4. \A d, m : Delivered(d, m)' <=> Delivered(d, m)
    BY <1>1 DEF Delivered, Released, Settled
  <1>5. CounterIsWaiting' /\ MarksAreReported'
    BY <1>4, DeliveriesKept, MarksKept
  <1>6. StartedAfterAll' /\ StartsAreDue' /\ PendingOK' /\ MutexOK'
    BY <1>1 DEF StartedAfterAll, StartsAreDue, PendingOK, MutexOK, Untouched
  <1>7. QED
    BY <1>2, <1>3, <1>5, <1>6

LEMMA NextPreserves ==
  ASSUME IInv, InnerUndisputed, [Next]_vars
  PROVE  IInv'
  <1>1. ASSUME NEW t \in Worker, Step(t)
        PROVE  IInv'
    <2>1. CASE \E r \in Node : Start(t, r)
      BY <2>1, StartPreserves
    <2>2. CASE Suspend(t)
      BY <2>2, SuspendPreserves
    <2>3. CASE \E n \in Node : Resume(t, n)
      BY <2>3, ResumePreserves
    <2>4. CASE Complete(t)
      BY <2>4, CompletePreserves
    <2>5. CASE \E m \in Node : Slot(t, m)
      BY <2>5, SlotPreserves
    <2>6. CASE Decrement(t)
      BY <2>6, DecrementPreserves
    <2>7. CASE Test(t)
      BY <2>7, TestPreserves
    <2>8. CASE Enter(t)
      BY <2>8, EnterPreserves
    <2>9. CASE Leave(t)
      BY <2>9, LeavePreserves
    <2>10. CASE Return(t)
      BY <2>10, ReturnPreserves
    <2>11. QED
      BY <1>1, <2>1, <2>2, <2>3, <2>4, <2>5, <2>6, <2>7, <2>8, <2>9, <2>10 DEF Step
  <1>2. CASE Finished \/ UNCHANGED vars
    BY <1>2, StutterPreserves DEF Finished
  <1>3. QED
    BY <1>1, <1>2 DEF Next

\* The invariant holds in every reachable state, whatever the graph, the
\* required flags, the predicates and the number of threads, if the combinator
\* of no activity is disputed (combinator::propagate).
THEOREM Invariance ==
  ASSUME InnerUndisputed
  PROVE  Spec => []IInv
  <1>1. Init => IInv
    BY InitInv
  <1>2. IInv /\ [Next]_vars => IInv'
    BY NextPreserves
  <1>3. QED
    BY <1>1, <1>2, PTL DEF Spec

\* Type correctness of the task graph (includes/udho/activities.h).
THEOREM Typing ==
  ASSUME InnerUndisputed
  PROVE  Spec => []TypeOK
  BY Invariance, PTL DEF IInv

\* The two uses of a graph that the theorems are about: an io_context that one
\* thread runs, and a graph in which only the final callback joins subtasks.
LEMMA SafeUses ==
  /\ OneWorker => InnerUndisputed
  /\ (\A n \in Node \ {Final} : \A d, e \in Deps[n] : d = e) => InnerUndisputed
  BY DEF InnerUndisputed, Undisputed

-----------------------------------------------------------------------------
(* The safety properties *)

\* A combinator whose counter is zero has the reports of all its dependencies,
\* and is marked iff one of them was a cancelation.
LEMMA ZeroFacts ==
  ASSUME IInv, NEW m \in Node, counter[m] = 0
  PROVE  /\ \A d \in Deps[m] : Released(d)
         /\ canceled[m] <=> \E d \in Deps[m] : emitted[d] = "cancel"
  <1> USE DEF IInv
  <1>1. IsFiniteSet(Waiting(m)) /\ Cardinality(Waiting(m)) = 0
    BY GraphAssumption, FS_Subset DEF Waiting, CounterIsWaiting
  <1>2. \A d \in Deps[m] : Delivered(d, m)
    BY <1>1, FS_EmptySet DEF Waiting
  <1>3. QED
    BY <1>2 DEF MarksAreReported, Delivered

\* What the invariant says of a subtask that was touched: all its dependencies
\* have released it, and one of them as canceled iff it was not invoked.
LEMMA TouchedFacts ==
  ASSUME IInv, NEW m \in Node, ~Untouched(m)
  PROVE  /\ \A d \in Deps[m] : Released(d)
         /\ m # Final => (invoked[m] = 0 <=> \E d \in Deps[m] : emitted[d] = "cancel")
  BY ZeroFacts DEF IInv, StartedAfterAll

\* No subtask overtakes the subtasks it is attached after(): the join of
\* combinator::propagate is right wherever it is not disputed.
THEOREM Joins ==
  ASSUME InnerUndisputed
  PROVE  Spec => []InvokedAfterDependencies
  <1>1. IInv => InvokedAfterDependencies
    <2> SUFFICES ASSUME IInv, NEW n \in Node, invoked[n] > 0, NEW d \in Deps[n]
                 PROVE  /\ Released(d)
                        /\ n # Final => emitted[d] = "signal" /\ store[d] = data[d]
      BY DEF InvokedAfterDependencies
    <2>1. d \in Node /\ ~Untouched(n)
      BY GraphAssumption DEF Untouched
    <2>2. Released(d) /\ (n # Final => emitted[d] # "cancel")
      BY <2>1, TouchedFacts
    <2>3. n # Final => emitted[d] = "signal"
      BY <2>2 DEF Released
    <2>4. emitted[d] = "signal" => store[d] = data[d]
      BY <2>1 DEF IInv, ResultsOK
    <2>5. QED
      BY <2>2, <2>3, <2>4
  <1>2. QED
    BY <1>1, Invariance, PTL

\* A subtask is started at most once, and never both started and skipped; for
\* the final callback this needs its own combinator to be undisputed.
THEOREM StartsOnce ==
  ASSUME \A n \in Node : Undisputed(n)
  PROVE  Spec => []RunsOnceOrNever
  <1>1. IInv => RunsOnceOrNever
    BY DEF IInv, ResultsOK, RunsOnceOrNever
  <1>2. InnerUndisputed
    BY DEF InnerUndisputed
  <1>3. QED
    BY <1>1, <1>2, Invariance, PTL

\* A cancelation waits for the other dependencies and is never invented.
THEOREM Skips ==
  ASSUME InnerUndisputed
  PROVE  Spec => []SkipsAreExplained
  <1>1. IInv => SkipsAreExplained
    <2> SUFFICES ASSUME IInv, NEW n \in Node, data[n].canceled, ~data[n].completed
                 PROVE  /\ \A d \in Deps[n] : Released(d)
                        /\ \E d \in Deps[n] : emitted[d] = "cancel"
      BY DEF SkipsAreExplained
    <2>1. emitted[n] # "nothing" /\ invoked[n] # 1
      BY DEF IInv, ResultsOK, Blank
    <2>2. n # Final
      BY <2>1 DEF IInv, FinalOK
    <2>3. invoked[n] = 0
      BY <2>1, <2>2 DEF IInv, TypeOK, ResultsOK, InnerUndisputed
    <2>4. ~Untouched(n)
      BY <2>1 DEF Untouched
    <2>5. QED
      BY <2>2, <2>3, <2>4, TouchedFacts
  <1>2. QED
    BY <1>1, Invariance, PTL

\* The final callback finds in the collector what became of the subtasks it
\* waits for.
THEOREM FinalData ==
  ASSUME InnerUndisputed
  PROVE  Spec => []FinalSeesOutcomes
  <1>1. IInv => FinalSeesOutcomes
    <2> SUFFICES ASSUME IInv, invoked[Final] > 0, NEW d \in Deps[Final]
                 PROVE  IF emitted[d] = "signal"
                        THEN store[d] # None /\ store[d].completed /\ ~store[d].canceled
                        ELSE IF invoked[d] = 0 THEN store[d] = None
                             ELSE store[d] # None /\ store[d].canceled
      BY DEF FinalSeesOutcomes
    <2>1. d \in Node /\ d # Final /\ ~Untouched(Final) /\ Final \in Node
      BY GraphAssumption DEF Untouched
    <2>2. emitted[d] \in {"signal", "cancel"}
      BY <2>1, TouchedFacts DEF Released
    <2>3. /\ data[d] \in ResultData /\ data[d] # None
          /\ invoked[d] = 0 \/ invoked[d] = 1
      BY <2>1, WorkerAssumption DEF IInv, TypeOK, ResultsOK, InnerUndisputed
    <2>4. /\ emitted[d] = "signal" => invoked[d] = 1 /\ ~data[d].canceled
          /\ emitted[d] = "cancel" => data[d].canceled
          /\ IF invoked[d] = 1 THEN data[d].completed /\ store[d] = data[d]
             ELSE ~data[d].completed /\ store[d] = None
      BY <2>1, <2>2 DEF IInv, ResultsOK
    <2>5. QED
      BY <2>2, <2>3, <2>4
  <1>2. QED
    BY <1>1, Invariance, PTL

\* No start is lost: when nothing is left to do, every subtask that all its
\* dependencies have released was started or skipped.
THEOREM NoStartIsLost ==
  ASSUME InnerUndisputed
  PROVE  Spec => []NothingLost
  <1>1. IInv => NothingLost
    <2> SUFFICES ASSUME IInv, Quiescent, NEW n \in Node, \A d \in Deps[n] : Released(d)
                 PROVE  invoked[n] > 0 \/ emitted[n] # "nothing"
      BY DEF NothingLost
    <2> USE DEF IInv
    <2>1. Frames = {}
      BY DEF Quiescent, Idle, Frames, FramesOf
    <2>2. counter[n] = 0
      <3>1. Waiting(n) = {}
        BY <2>1 DEF Waiting, Delivered, Settled
      <3>2. QED
        BY <3>1, FS_EmptySet DEF CounterIsWaiting
    <2>3. CASE Deps[n] = {}
      BY <2>3 DEF Quiescent, Root
    <2>4. CASE Deps[n] # {}
      <3>1. ~Untouched(n)
        BY <2>1, <2>2, <2>4 DEF StartsAreDue
      <3>2. QED
        BY <3>1 DEF Untouched, Quiescent, TypeOK
    <2>5. QED
      BY <2>3, <2>4
  <1>2. QED
    BY <1>1, Invariance, PTL

\* No thread waits for the mutex of an activity, and the one that waits for the
\* mutex of the final callback waits for a thread that is about to unlock it:
\* the mutexes that synchronous activities nest are never waited for in a circle.
THEOREM LocksAreFree ==
  ASSUME InnerUndisputed
  PROVE  Spec => []NoStandstill
  <1>1. IInv => NoStandstill
    <2> SUFFICES ASSUME IInv, NEW t \in Worker, At(t, "lock"), mutex[Top(t).to] # None
                 PROVE  /\ Top(t).to = Final
                        /\ \E u \in Worker : u # t /\ At(u, "unlock") /\ Top(u).to = Final
      BY DEF NoStandstill
    <2> USE DEF IInv
    <2>1. PICK g, m : g = Top(t) /\ m = g.to
      OBVIOUS
    <2>2. g \in Frames /\ g.at = "lock" /\ m \in Node /\ (Undisputed(m) => Untouched(m))
      BY <2>1, TopFacts, LockFacts DEF At
    <2>3. PICK u \in Worker : mutex[m] = u
      BY <2>1, <2>2 DEF TypeOK
    <2>4. PICK h \in FramesOf(u) : h.at = "unlock" /\ h.to = m
      BY <2>2, <2>3 DEF MutexOK
    <2>5. FrameOK(h) /\ ~Untouched(m)
      BY <2>4 DEF Frames, FramesOK, FrameOK, EntryFrame
    <2>6. m = Final
      BY <2>2, <2>5 DEF InnerUndisputed
    <2>7. ~Idle(u) /\ h = Top(u)
      <3>1. PICK i \in DOMAIN stack[u] : h = stack[u][i]
        BY DEF FramesOf
      <3>2. ~Idle(u)
        BY <3>1 DEF Idle
      <3>3. CASE i = 1
        BY <3>1, <3>2, <3>3, TopFacts
      <3>4. CASE i # 1
        <4>1. i > 1 /\ i - 1 \in DOMAIN stack[u]
          BY <3>1, <3>4 DEF TypeOK
        <4>2. stack[u][i - 1] \in Frames /\ stack[u][i - 1].node = Final
          BY <2>4, <2>6, <3>1, <4>1 DEF Nested, Frames, FramesOf
        <4>3. QED
          BY <4>2 DEF FramesOK, FrameOK
      <3>5. QED
        BY <3>3, <3>4
    <2>8. u # t
      BY <2>1, <2>2, <2>4, <2>7
    <2>9. QED
      BY <2>1, <2>4, <2>6, <2>7, <2>8 DEF At
  <1>2. QED
    BY <1>1, Invariance, PTL

\* What an analyzer says of an activity, with whatever callbacks, is how the
\* activity ended, for every graph.
THEOREM AnalyzerIsRight ==
  ASSUME InnerUndisputed
  PROVE  Spec => []AnalyzerTells
  <1>1. IInv => AnalyzerTells
    <2> SUFFICES ASSUME IInv, NEW n \in Node \ {Final}, NEW set \in SUBSET Callbacks,
                        NEW before \in {"unknown", "success"}
                 PROVE  LET ended == invoked[n] > 0 /\ emitted[n] # "nothing"
                            says == Apply(set, store[n], before)
                        IN /\ says = IF ended THEN Says(set, Fitting(n, set)) ELSE SaysNothing(before)
                           /\ IsOkay(store[n]) /\ IsFailed(store[n]) <=> ~ended
                           /\ ended => (IsOkay(store[n]) <=> emitted[n] = "signal" /\ data[n].success)
      BY DEF AnalyzerTells
    <2> DEFINE ended == invoked[n] > 0 /\ emitted[n] # "nothing"
    <2>1. /\ data[n] \in ResultData /\ data[n] # None
          /\ data[n].completed \in BOOLEAN /\ data[n].success \in BOOLEAN
          /\ data[n].canceled \in BOOLEAN
          /\ invoked[n] \in Nat /\ invoked[n] <= 1
      BY WorkerAssumption DEF IInv, TypeOK, ResultsOK, ResultData, InnerUndisputed
    <2>2. ~ended => store[n] = None
      BY <2>1 DEF IInv, ResultsOK
    <2>3. ended => /\ store[n] = data[n] /\ data[n].completed
                   /\ emitted[n] = "signal" <=> ~data[n].canceled
      BY <2>1 DEF IInv, ResultsOK, TypeOK, Emission
    <2>4. CASE ~ended
      BY <2>2, <2>4 DEF Apply, IsOkay, IsFailed, Exists
    <2>5. CASE ended
      <3>1. /\ store[n] # None /\ store[n].completed
            /\ store[n].success = data[n].success
            /\ emitted[n] = "signal" <=> ~store[n].canceled
        BY <2>1, <2>3, <2>5
      <3>2. Apply(set, store[n], before) = Says(set, Fitting(n, set))
        BY <3>1 DEF Apply, Fitting, Exists, Failed, OnCanceled, OnFailure, OnSuccess, Unless,
                    IsFailed, IsCanceled, IsCompleted
      <3>3. /\ ~(IsOkay(store[n]) /\ IsFailed(store[n]))
            /\ IsOkay(store[n]) <=> emitted[n] = "signal" /\ data[n].success
        BY <3>1 DEF IsOkay, IsFailed, Exists, Failed
      <3>4. QED
        BY <2>5, <3>2, <3>3
    <2>6. QED
      BY <2>4, <2>5
  <1>2. QED
    BY <1>1, Invariance, PTL

-----------------------------------------------------------------------------
(***************************************************************************)
(* Activities implements TaskGraph, on any number of threads, if no        *)
(* combinator but the final one is disputed: the signals, slots, counters, *)
(* marks and mutexes amount to waiting for the dependencies.               *)
(***************************************************************************)

\* The abstract state.
Bar == [n \in Node |-> StatusOf(n)]

LEMMA BarQuiet ==
  ASSUME UNCHANGED <<emitted, invoked>>
  PROVE  Bar' = Bar
  BY DEF Bar, StatusOf

\* A step that changes the outcome of one subtask changes its status only.
LEMMA BarStep ==
  ASSUME NEW n \in Node, NEW s, StatusOf(n)' = s,
         \A m \in Node : m # n => emitted'[m] = emitted[m] /\ invoked'[m] = invoked[m]
  PROVE  Bar' = [Bar EXCEPT ![n] = s]
  <1>1. \A m \in Node : m # n => StatusOf(m)' = StatusOf(m)
    BY DEF StatusOf
  <1>2. \A m \in Node : Bar'[m] = [Bar EXCEPT ![n] = s][m]
    BY <1>1 DEF Bar
  <1>3. QED
    BY <1>2 DEF Bar

LEMMA BarReleased ==
  ASSUME NEW d \in Node, d # Final, Released(d)
  PROVE  /\ Abstract!Released(d)
         /\ emitted[d] = "signal" <=> Bar[d] = "passed"
         /\ emitted[d] = "cancel" <=> Bar[d] = "canceled"
  BY DEF Released, Abstract!Released, Bar, StatusOf

\* A subtask with no report outstanding that was not touched is ready.
LEMMA BarReady ==
  ASSUME IInv, NEW m \in Node, Bar[m] = "waiting", counter[m] = 0
  PROVE  /\ Abstract!Ready(m)
         /\ canceled[m] => \E d \in Deps[m] : Bar[d] = "canceled"
         /\ ~canceled[m] => \A d \in Deps[m] : Bar[d] = "passed"
  <1>1. /\ \A d \in Deps[m] : d \in Node /\ d # Final /\ Released(d)
        /\ canceled[m] <=> \E d \in Deps[m] : emitted[d] = "cancel"
    BY ZeroFacts, GraphAssumption
  <1>2. Abstract!Ready(m)
    BY <1>1, BarReleased DEF Abstract!Ready, Bar
  <1>3. QED
    BY <1>1, <1>2, BarReleased DEF Released

LEMMA StartRefines ==
  ASSUME IInv, NEW t \in Worker, NEW r \in Node, Start(t, r)
  PROVE  Abstract!Run(r)
  <1> USE DEF IInv
  <1>1. /\ Deps[r] = {} /\ invoked[r] = 0 /\ r # Final
        /\ invoked' = [invoked EXCEPT ![r] = 1]
        /\ UNCHANGED emitted
    BY GraphAssumption DEF Start, Root
  <1>2. emitted[r] = "nothing"
    BY <1>1 DEF StartedAfterAll, MarksAreReported, Untouched
  <1>3. StatusOf(r)' = "running"
    BY <1>1, <1>2 DEF StatusOf, TypeOK
  <1>4. Bar' = [Bar EXCEPT ![r] = "running"]
    BY <1>1, <1>3, BarStep DEF TypeOK
  <1>5. Abstract!Ready(r)
    BY <1>1, <1>2 DEF Abstract!Ready, StatusOf
  <1>6. QED
    BY <1>1, <1>4, <1>5 DEF Abstract!Run, Abstract!Becomes, Bar

LEMMA CompleteRefines ==
  ASSUME IInv, NEW t \in Worker, Complete(t)
  PROVE  \E n \in Node : Abstract!Complete(n)
  <1> USE DEF IInv
  <1>1. PICK n : n = Top(t).node
    OBVIOUS
  <1>2. ~Idle(t) /\ Top(t).at \in {"body", "handler"} /\ UNCHANGED invoked
    BY DEF Complete, At
  <1>3. n \in Node /\ n # Final /\ emitted[n] = "nothing" /\ invoked[n] = 1
    BY <1>1, <1>2, TopFacts DEF FramesOK, FrameOK, BodyFrame, Frame
  <1>4. PICK signal \in {"signal", "cancel", "abort"} :
          emitted' = [emitted EXCEPT ![n] = signal]
    BY <1>1 DEF Complete, Raised
  <1>5. PICK s \in {"passed", "canceled", "aborted"} : StatusOf(n)' = s
    BY <1>3, <1>4 DEF StatusOf, TypeOK
  <1>6. Bar' = [Bar EXCEPT ![n] = s]
    BY <1>2, <1>3, <1>4, <1>5, BarStep DEF TypeOK
  <1>7. Bar[n] = "running"
    BY <1>3 DEF Bar, StatusOf
  <1>8. QED
    BY <1>3, <1>6, <1>7 DEF Abstract!Complete, Abstract!Becomes, Bar

LEMMA EnterRefines ==
  ASSUME IInv, InnerUndisputed, NEW t \in Worker, Enter(t)
  PROVE  Abstract!Next \/ Bar' = Bar
  <1> USE DEF IInv
  <1>1. PICK m : m = Top(t).to
    OBVIOUS
  <1>2. ~Idle(t) /\ Top(t).at = "lock"
    BY DEF Enter, At
  <1>3. m \in Node /\ counter[m] = 0 /\ (m # Final => Untouched(m))
    BY <1>1, <1>2, TopFacts, LockFacts DEF InnerUndisputed
  <1>4. Bar[m] = "waiting" =>
          /\ Abstract!Ready(m)
          /\ canceled[m] => \E d \in Deps[m] : Bar[d] = "canceled"
          /\ ~canceled[m] => \A d \in Deps[m] : Bar[d] = "passed"
    BY <1>3, BarReady
  <1>5. CASE m = Final /\ Join(t, m)
    <2>1. /\ invoked' = [invoked EXCEPT ![m] = @ + 1] /\ UNCHANGED emitted
          /\ invoked[m] \in Nat /\ invoked'[m] = invoked[m] + 1
      BY <1>3, <1>5 DEF Join, TypeOK
    <2>2. StatusOf(m)' = "called"
      BY <1>5, <2>1 DEF StatusOf
    <2>3. Bar' = [Bar EXCEPT ![m] = "called"]
      BY <1>3, <2>1, <2>2, BarStep DEF TypeOK
    <2>4. CASE Bar[m] = "waiting"
      BY <1>4, <1>5, <2>3, <2>4 DEF Abstract!Next, Abstract!CallFinal, Abstract!Becomes, Bar
    <2>5. CASE Bar[m] = "called"
      BY <1>3, <2>3, <2>5 DEF Bar
    <2>6. QED
      BY <1>3, <1>5, <2>4, <2>5 DEF Bar, StatusOf
  <1> USE DEF Untouched
  <1>6. CASE m # Final /\ canceled[m] /\ Skip(t, m)
    <2> Bar[m] = "waiting"
      BY <1>3, <1>6 DEF Bar, StatusOf
    <2>1. PICK signal \in {"cancel", "abort"} : emitted' = [emitted EXCEPT ![m] = signal]
      BY <1>6 DEF Skip, Raised
    <2>2. UNCHANGED invoked
      BY <1>6 DEF Skip
    <2>3. PICK s \in {"canceled", "aborted"} : StatusOf(m)' = s
      BY <1>3, <1>6, <2>1 DEF StatusOf, TypeOK
    <2>4. Bar' = [Bar EXCEPT ![m] = s]
      BY <1>3, <2>1, <2>2, <2>3, BarStep DEF TypeOK
    <2>5. Abstract!Skip(m)
      BY <1>4, <1>6, <2>4 DEF Abstract!Skip, Abstract!Becomes, Bar
    <2>6. QED
      BY <1>3, <2>5 DEF Abstract!Next, Abstract!Advance
  <1>7. CASE m # Final /\ ~canceled[m] /\ Invoke(t, m)
    <2> Bar[m] = "waiting"
      BY <1>3, <1>7 DEF Bar, StatusOf
    <2>1. invoked' = [invoked EXCEPT ![m] = @ + 1] /\ UNCHANGED emitted
      BY <1>7 DEF Invoke
    <2>2. StatusOf(m)' = "running"
      BY <1>3, <1>7, <2>1 DEF StatusOf, TypeOK, Untouched
    <2>3. Bar' = [Bar EXCEPT ![m] = "running"]
      BY <1>3, <2>1, <2>2, BarStep DEF TypeOK
    <2>4. Abstract!Run(m)
      BY <1>4, <1>7, <2>3 DEF Abstract!Run, Abstract!Becomes, Bar
    <2>5. QED
      BY <1>3, <2>4 DEF Abstract!Next, Abstract!Advance
  <1>8. QED
    BY <1>1, <1>5, <1>6, <1>7 DEF Enter

LEMMA NextRefines ==
  ASSUME IInv, InnerUndisputed, [Next]_vars
  PROVE  Abstract!Next \/ Bar' = Bar
  <1>1. ASSUME NEW t \in Worker, Step(t)
        PROVE  Abstract!Next \/ Bar' = Bar
    <2>1. CASE \E r \in Node : Start(t, r)
      BY <2>1, StartRefines DEF Abstract!Next, Abstract!Advance
    <2>2. CASE Complete(t)
      BY <2>2, CompleteRefines DEF Abstract!Next, Abstract!Advance
    <2>3. CASE Enter(t)
      BY <2>3, EnterRefines
    <2>4. CASE \/ Suspend(t) \/ (\E n \in Node : Resume(t, n))
               \/ (\E m \in Node : Slot(t, m)) \/ Decrement(t) \/ Test(t)
               \/ Leave(t) \/ Return(t)
      <3>1. UNCHANGED <<emitted, invoked>>
        BY <2>4 DEF Suspend, Resume, Slot, Decrement, Test, Leave, Return
      <3>2. QED
        BY <3>1, BarQuiet
    <2>5. QED
      BY <1>1, <2>1, <2>2, <2>3, <2>4 DEF Step
  <1>2. CASE Finished \/ UNCHANGED vars
    BY <1>2, BarQuiet DEF Finished, vars
  <1>3. QED
    BY <1>1, <1>2 DEF Next

\* Every behaviour of the task graph is a behaviour of the abstract graph, for
\* every graph and any number of threads: what subtask::after() promises.  The
\* final callback that the race of a disputed counter repeats is a stutter.
THEOREM Refinement ==
  ASSUME InnerUndisputed
  PROVE  Spec => Abstract!Spec
  <1>1. Init => Abstract!Init
    BY DEF Init, Abstract!Init, StatusOf
  <1>2. IInv /\ [Next]_vars => [Abstract!Next]_Bar
    BY NextRefines
  <1>3. [Abstract!Next]_Bar => [Abstract!Next]_([n \in Node |-> StatusOf(n)])
    BY DEF Bar
  <1>4. QED
    BY <1>1, <1>2, <1>3, Invariance, PTL DEF Spec, Abstract!Spec
=============================================================================
