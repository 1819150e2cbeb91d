---------------------------- MODULE MCReconcileLock ----------------------------
(* Instances of ReconcileLock for TLC.                                     *)
EXTENDS ReconcileLock

CONSTANTS w1, w2, w3, c1

MCWorkers == {w1, w2, w3}
MCCallers == {c1}
===============================================================================
