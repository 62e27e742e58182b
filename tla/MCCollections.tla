---------------------------- MODULE MCCollections ----------------------------
(***************************************************************************)
(* Both implementations of the containers for TLC: the variable platform   *)
(* says which one a behaviour is of.                                       *)
(***************************************************************************)
EXTENDS Collections

CONSTANTS
    JavaWrites,     \* bounds for the Java side, which can do more with each container
    JavaSpares,     \* containers that it leaves unused
    w1, w2, w3, n1, n2, n3

VARIABLES arrived, platform

OnJava == INSTANCE JavaCollections WITH MaxWrites <- JavaWrites
OnIos == INSTANCE ObjcCollections

Init ==
    /\ platform \in {"java", "objc"}
    /\ OnJava!Init

Next ==
    /\ \/ /\ platform = "java" /\ OnJava!Next
          /\ Cardinality(Unused') >= JavaSpares
       \/ platform = "objc" /\ OnIos!Next /\ UNCHANGED arrived
    /\ UNCHANGED platform

Spec == Init /\ [][Next]_<<collectionVars, arrived, platform>>

Symmetry ==
    Permutations(Wrappers) \cup Permutations(Containers \ {JsArray, JsMap})
=============================================================================
