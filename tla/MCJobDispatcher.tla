--------------------------- MODULE MCJobDispatcher ---------------------------
(***************************************************************************)
(* TLC instances of JobDispatcher.tla.                                     *)
(***************************************************************************)
EXTENDS JobDispatcher, TLC

CONSTANTS d1, d2, c1, c2, j1, j2, j3

Symmetry == Permutations(Dispatchers) \cup Permutations(Callers) \cup Permutations(Jobs)
=============================================================================
