----------------------------- MODULE MCInitLoop -----------------------------
(***************************************************************************)
(* InitLoop on a small instance: a child that exits and is restarted, and   *)
(* clients enough to leave a second message in the queue.                   *)
(***************************************************************************)
EXTENDS InitLoop

CONSTANTS c1, k1, k2

OneChild == {c1}
TwoClients == {k1, k2}
=============================================================================
