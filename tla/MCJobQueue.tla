----------------------------- MODULE MCJobQueue -----------------------------
(***************************************************************************)
(* TLC instances of JobQueue.tla.                                          *)
(***************************************************************************)
EXTENDS JobQueue, TLC

CONSTANTS t1, t2, t3, j1, j2, j3

Symmetry == Permutations(Threads) \cup Permutations(Jobs)
=============================================================================
