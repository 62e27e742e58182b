------------------------- MODULE MCJavaCollections -------------------------
(* Instances of JavaCollections.tla for TLC. *)
EXTENDS JavaCollections

CONSTANTS w1, w2, w3, n1, n2, n3

Symmetry ==
    Permutations(Wrappers) \cup Permutations(Containers \ {JsArray, JsMap})
=============================================================================
