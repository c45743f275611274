---------------------------- MODULE MCActivities ----------------------------
(* Task graphs for TLC. *)
EXTENDS Analyzer, TLC

CONSTANTS r, a, b, c, f,   \* subtasks
          w1, w2           \* threads

\* One root forks into a and b, c joins both, the final callback waits for
\* b and c.
DiamondNode == {r, a, b, c, f}
DiamondDeps == (r :> {}) @@ (a :> {r}) @@ (b :> {r}) @@ (c :> {a, b}) @@ (f :> {b, c})

\* Every subtask but b is required.
OptionalB == DiamondNode \ {b}

\* A fork whose branches meet in the final callback only.
ForkDeps == (r :> {}) @@ (a :> {r}) @@ (b :> {r}) @@ (c :> {a}) @@ (f :> {b, c})

\* c joins the roots a and b, the final callback waits for c and the root r.
LadderDeps == (r :> {}) @@ (a :> {}) @@ (b :> {}) @@ (c :> {a, b}) @@ (f :> {c, r})
=============================================================================
