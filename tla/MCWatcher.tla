----------------------------- MODULE MCWatcher ------------------------------
(* Watches and keys for TLC. *)
EXTENDS WatcherInv, TLC

CONSTANTS w1, w2, k1, k2, t1, t2

\* Two watches with a key of their own.
OwnKeys == (w1 :> k1) @@ (w2 :> k2)
=============================================================================
