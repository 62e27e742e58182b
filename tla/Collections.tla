---------------------------- MODULE Collections ----------------------------
(***************************************************************************)
(* What the two implementations of JavascriptArray and JavascriptMap have  *)
(* in common (support-lib/react.djinni:49-110): containers of React Native *)
(* that refer to each other, and wrapper objects around them that C++ code *)
(* reads and writes through.  JavaCollections.tla and ObjcCollections.tla  *)
(* extend this module with what each platform does.                        *)
(*                                                                         *)
(* A container's content is a function: from 1..n for an array, from a set *)
(* of keys for a map.  A scalar stands for all the values of its type.     *)
(***************************************************************************)
EXTENDS Naturals, FiniteSets, Sequences, TLC

CONSTANTS
    Containers,     \* arrays and maps of React Native
    Wrappers,       \* JavascriptArray and JavascriptMap objects
    Keys,           \* keys of maps
    JsArray, JsMap, \* the containers that JavaScript passes as arguments
    MaxLength,      \* bound: length of an array that is written to
    MaxWrites,      \* bound: writes to containers
    None            \* no container, no wrapper, nothing at hand

Scalars == {"null", "boolean", "number", "string"}
Values == Scalars \cup Containers

ASSUME CollectionsAssumption ==
    /\ {JsArray, JsMap} \subseteq Containers
    /\ JsArray # JsMap
    /\ Keys # {}
    /\ MaxLength \in Nat
    /\ MaxWrites \in Nat
    /\ None \notin Values \cup Wrappers
    /\ Scalars \cap Containers = {}

VARIABLES
    kind,       \* [Containers -> {"array", "map", "unused"}]
    content,    \* [Containers -> positions -> Values]
    readable,   \* [Wrappers -> the container the getters use, None if unused]
    writable,   \* [Wrappers -> the container the setters use, or None]
    frozen,     \* containers that can no longer be written to
    argument,   \* history: the wrappers that C++ code got as arguments
    object,     \* the JavascriptObject at hand: [type, payload, from], or None
    writes      \* writes so far

collectionVars == <<kind, content, readable, writable, frozen, argument, object, writes>>

\* JavascriptType, and the type that React Native knows of a value.
Type == {"NIL", "BOOLEAN", "NUMBER", "STRING", "ARRAY", "MAP"}

TypeOf(v) ==
    CASE v = "null" -> "NIL"
      [] v = "boolean" -> "BOOLEAN"
      [] v = "number" -> "NUMBER"
      [] v = "string" -> "STRING"
      [] v \in Containers -> IF kind[v] = "array" THEN "ARRAY" ELSE "MAP"

ScalarOf(type) ==
    CHOOSE s \in Scalars : TypeOf(s) = type

\* JavaScript holds an array of a boolean and a map, and that map.
CollectionsInit ==
    /\ kind = [c \in Containers |->
                  CASE c = JsArray -> "array" [] c = JsMap -> "map" [] OTHER -> "unused"]
    /\ content = [c \in Containers |->
                  CASE c = JsArray -> <<"boolean", JsMap>>
                    [] c = JsMap -> [k \in Keys |-> "number"]
                    [] OTHER -> <<>>]
    /\ readable = [w \in Wrappers |-> None]
    /\ writable = [w \in Wrappers |-> None]
    /\ frozen = {}
    /\ argument = {}
    /\ object = None
    /\ writes = 0

Unused == {c \in Containers : kind[c] = "unused"}
Free(w) == readable[w] = None
InUse(w) == readable[w] # None
IsArray(w) == InUse(w) /\ kind[readable[w]] = "array"
IsMap(w) == InUse(w) /\ kind[readable[w]] = "map"
Elements(w) == content[readable[w]]

\* A new wrapper w, which reads r and writes to x.
NewWrapper(w, r, x) ==
    /\ Free(w)
    /\ readable' = [readable EXCEPT ![w] = r]
    /\ writable' = [writable EXCEPT ![w] = x]

\* The container c, unused so far, becomes one of kind k with content f.
NewContainer(c, k, f) ==
    /\ c \in Unused
    /\ kind' = [kind EXCEPT ![c] = k]
    /\ content' = [content EXCEPT ![c] = f]

\* Where the container x may be written next, and what it becomes.
Positions(x) == IF kind[x] = "array" THEN {Len(content[x]) + 1} ELSE Keys
Stored(f, p, v) == [q \in {p} \cup DOMAIN f |-> IF q = p THEN v ELSE f[q]]
Write(x, p, v) == [content EXCEPT ![x] = Stored(@, p, v)]

\* All elements of the container y are added to x, in its own order or by key.
Merged(f, g) ==
    [q \in DOMAIN f \cup DOMAIN g |-> IF q \in DOMAIN g THEN g[q] ELSE f[q]]
Added(x, y) ==
    [content EXCEPT ![x] = IF kind[x] = "array" THEN @ \o content[y] ELSE Merged(@, content[y])]

\* The bounds of a write that leaves the contents f.
WithinBounds(f) ==
    /\ writes < MaxWrites
    /\ writes' = writes + 1
    /\ \A c \in Containers : Cardinality(DOMAIN f[c]) <= MaxLength

-----------------------------------------------------------------------------
\* Every variable has its type.
TypeOK ==
    /\ kind \in [Containers -> {"array", "map", "unused"}]
    /\ DOMAIN content = Containers
    /\ \A c \in Containers :
          /\ \A p \in DOMAIN content[c] : content[c][p] \in Values
          /\ kind[c] = "array" => DOMAIN content[c] = 1..Len(content[c])
          /\ kind[c] = "map" => DOMAIN content[c] \subseteq Keys
    /\ readable \in [Wrappers -> Containers \cup {None}]
    /\ writable \in [Wrappers -> Containers \cup {None}]
    /\ frozen \subseteq Containers
    /\ argument \subseteq Wrappers
    /\ object = None \/ object.type \in Type
    /\ writes \in 0..MaxWrites

\* Whatever C++ code does with what it was passed, and with copies and elements of it,
\* the arrays and maps that JavaScript passed stay as they were, and so do the copies
\* that were pushed (RVJavascriptArrayImpl.mm:13-18, 60-62 and 76-78) or consumed.
JavascriptKeepsItsOwn ==
    [][\A c \in {JsArray, JsMap} \cup frozen : content'[c] = content[c]]_collectionVars

\* "the instances passed as arguments are readonly" (README.md:24): what an argument reads as
\* never changes, whatever C++ code does with it, with copies of it and with its elements.  So
\* it is in Java (JavascriptArrayImpl.java:74).  It is not so in Objective-C, where every
\* wrapper is writable (RVJavascriptArrayImpl.mm:13-18, 64-90).
ArgumentsAreReadonly ==
    [][\A w \in argument : Elements(w)' = Elements(w)]_collectionVars

\* No two wrappers write to the same container, though wrappers are made from elements
\* of containers, from copies and from the wrappers put into others: a write through one
\* wrapper is never a write through another (ReactDjinni.java:44-50,
\* RVReactDjinni.mm:36-42).
WritersAreAlone ==
    \A v, w \in Wrappers : v # w /\ writable[v] = writable[w] => writable[v] = None

\* JavascriptObject is a "dynamic wrapper for any type" (README.md:25): one made from an
\* element has the type that element has.
ObjectsKeepTheirType ==
    object # None /\ object.from # None => object.type = TypeOf(object.from)
=============================================================================
