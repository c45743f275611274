------------------------------ MODULE Exchange ------------------------------
(***************************************************************************)
(* What a connection promises to its client: requests are answered in the  *)
(* order in which they were sent, each once, and no request is taken       *)
(* before the one before it has its answer; at any time the connection may *)
(* end instead, and then no more answers come.                             *)
(***************************************************************************)
EXTENDS Naturals

VARIABLES
  received,  \* requests taken from the client
  answered,  \* answers given to it
  open       \* the connection goes on

vars == <<received, answered, open>>

Init ==
  /\ received = 0
  /\ answered = 0
  /\ open = TRUE

Receive ==
  /\ open
  /\ received = answered
  /\ received' = received + 1
  /\ UNCHANGED <<answered, open>>

Answer ==
  /\ open
  /\ answered < received
  /\ answered' = answered + 1
  /\ UNCHANGED <<received, open>>

Close ==
  /\ open
  /\ open' = FALSE
  /\ UNCHANGED <<received, answered>>

Next == Receive \/ Answer \/ Close

Spec == Init /\ [][Next]_vars
=============================================================================
