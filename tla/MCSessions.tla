----------------------------- MODULE MCSessions -----------------------------
(* Clients and their values for TLC. *)
EXTENDS SessionsInv, TLC

CONSTANTS c1, c2, v1, v2, w1, A, t1, t2

\* Client c1 has two values to set, client c2 has one.
Authors == (v1 :> c1) @@ (v2 :> c1) @@ (w1 :> c2)

Interchangeable == Permutations(Worker)
=============================================================================
