------------------------- MODULE CollectionsProofs -------------------------
(***************************************************************************)
(* Lemmas about Collections.tla that the proofs about both platforms use:  *)
(* what a container may hold, and that each kind of write keeps it so.     *)
(***************************************************************************)
EXTENDS Collections, SequenceTheorems, TLAPS

Js == {JsArray, JsMap}
Used == Containers \ Unused

\* What may be inside a container: nothing that is not in use yet.
Holdable == Scalars \cup Used

\* f may be the content of a container of kind k whose elements are in S.
Holds(k, f, S) ==
    IF k = "map" THEN DOMAIN f \subseteq Keys /\ \A p \in DOMAIN f : f[p] \in S
                 ELSE f \in Seq(S)

Types ==
    /\ kind \in [Containers -> {"array", "map", "unused"}]
    /\ DOMAIN content = Containers
    /\ readable \in [Wrappers -> Containers \cup {None}]
    /\ writable \in [Wrappers -> Containers \cup {None}]
    /\ frozen \subseteq Containers
    /\ argument \subseteq Wrappers
    /\ writes \in 0..MaxWrites

Contents == \A c \in Containers : Holds(kind[c], content[c], Holdable)

\* What a wrapper reads is in use.
ReadersUse == \A w \in Wrappers : readable[w] # None => readable[w] \in Used

\* JavaScript's containers and those that cannot be written to again are in use, so that no
\* new container is one of them.
KeptInUse == frozen \cup Js \subseteq Used

\* What a wrapper writes to is what it reads, and is not JavaScript's.
WritersOwn ==
    \A w \in Wrappers : writable[w] # None => writable[w] = readable[w] /\ writable[w] \notin Js

Common == Types /\ Contents /\ ReadersUse /\ KeptInUse /\ WritersOwn /\ WritersAreAlone

\* A step keeps what JavaScript has and what cannot be written to.
Harmless == \A c \in Js \cup frozen : content'[c] = content[c]

-----------------------------------------------------------------------------
(* Types *)

\* A scalar has one of the four types that are neither ARRAY nor MAP.
LEMMA ScalarTypes ==
    ASSUME NEW s \in Scalars
    PROVE  TypeOf(s) \in {"NIL", "BOOLEAN", "NUMBER", "STRING"}
BY CollectionsAssumption DEF Scalars, TypeOf

\* An array or a map has one of the other two.
LEMMA ContainerTypes ==
    ASSUME NEW c \in Containers
    PROVE  TypeOf(c) \in {"ARRAY", "MAP"}
BY CollectionsAssumption DEF Scalars, TypeOf

\* What stands for a scalar type is a scalar.
LEMMA ScalarOfType ==
    ASSUME NEW type \in {"NIL", "BOOLEAN", "NUMBER", "STRING"}
    PROVE  ScalarOf(type) \in Scalars
<1>1. \E s \in Scalars : TypeOf(s) = type
  <2>1. /\ TypeOf("null") = "NIL" /\ TypeOf("boolean") = "BOOLEAN"
        /\ TypeOf("number") = "NUMBER" /\ TypeOf("string") = "STRING"
    BY CollectionsAssumption DEF Scalars, TypeOf
  <2> QED BY <2>1 DEF Scalars
<1> QED BY <1>1 DEF ScalarOf

-----------------------------------------------------------------------------
(* What a container holds *)

\* What may be held does not become forbidden.
LEMMA HoldsMore ==
    ASSUME NEW k, NEW f, NEW S, NEW T, S \subseteq T, Holds(k, f, S)
    PROVE  Holds(k, f, T)
BY DEF Holds

\* An array gets one more element, or a map an entry.
LEMMA StoredHolds ==
    ASSUME NEW k \in {"array", "map"}, NEW f, NEW S, Holds(k, f, S), NEW v \in S,
           NEW p \in IF k = "array" THEN {Len(f) + 1} ELSE Keys
    PROVE  Holds(k, Stored(f, p, v), S)
<1>1. CASE k = "map"
  BY <1>1 DEF Holds, Stored
<1>2. CASE k = "array"
  <2>1. f \in Seq(S) /\ p = Len(f) + 1 /\ DOMAIN f = 1..Len(f)
    BY <1>2 DEF Holds
  <2>2. {p} \cup DOMAIN f = 1..Len(f) + 1
    BY <2>1
  <2>3. Stored(f, p, v) \in [1..Len(f) + 1 -> S]
    BY <2>1, <2>2 DEF Stored
  <2>4. Stored(f, p, v) \in Seq(S)
    BY <2>1, <2>3
  <2> QED BY <1>2, <2>4 DEF Holds
<1> QED BY <1>1, <1>2

\* An array or a map gets all that another one of its kind holds.
LEMMA AddedHolds ==
    ASSUME NEW k \in {"array", "map"}, NEW f, NEW g, NEW S, Holds(k, f, S), Holds(k, g, S)
    PROVE  Holds(k, IF k = "array" THEN f \o g ELSE Merged(f, g), S)
<1>1. CASE k = "map"
  BY <1>1 DEF Holds, Merged
<1>2. CASE k = "array"
  BY <1>2, ConcatProperties DEF Holds
<1> QED BY <1>1, <1>2

\* Nothing is held by a new container.
LEMMA EmptyHolds ==
    ASSUME NEW k, NEW S
    PROVE  Holds(k, <<>>, S)
BY DEF Holds

-----------------------------------------------------------------------------
(* What steps of each kind preserve *)

\* A new container c of kind k with the content f, and what it can be held by.
LEMMA NewContents ==
    ASSUME Common, NEW c \in Containers, NEW k \in {"array", "map"}, NEW f,
           NewContainer(c, k, f), Holds(k, f, Holdable)
    PROVE  /\ kind' \in [Containers -> {"array", "map", "unused"}]
           /\ DOMAIN content' = Containers
           /\ Used' = Used \cup {c} /\ Contents'
           /\ c \notin Used
           /\ Harmless
<1>1. /\ c \in Unused
      /\ kind' = [kind EXCEPT ![c] = k] /\ content' = [content EXCEPT ![c] = f]
  BY DEF NewContainer
<1>2. /\ kind' \in [Containers -> {"array", "map", "unused"}] /\ DOMAIN content' = Containers
  BY <1>1 DEF Common, Types
<1>3. Used' = Used \cup {c} /\ c \notin Used
  BY <1>1 DEF Common, Types, Used, Unused
<1>4. Holdable \subseteq Holdable'
  BY <1>3 DEF Holdable
<1>5. \A d \in Containers : Holds(kind'[d], content'[d], Holdable)
  BY <1>1 DEF Common, Types, Contents
<1>6. Contents'
  BY <1>4, <1>5, HoldsMore DEF Contents
<1>7. Harmless
  BY <1>1, <1>3 DEF Common, Types, KeptInUse, Harmless
<1> QED BY <1>2, <1>3, <1>6, <1>7

\* createArray(), createMap() and the like: a container with a wrapper on both sides.
LEMMA NewKeeps ==
    ASSUME Common, NEW w \in Wrappers, NEW c \in Containers, NEW k \in {"array", "map"}, NEW f,
           NewContainer(c, k, f), NewWrapper(w, c, c), Holds(k, f, Holdable),
           UNCHANGED <<frozen, writes>>, argument' \in {argument, argument \cup {w}}
    PROVE  Common' /\ Harmless
<1>1. /\ readable' = [readable EXCEPT ![w] = c] /\ writable' = [writable EXCEPT ![w] = c]
      /\ Free(w)
  BY DEF NewWrapper
<1>2. /\ kind' \in [Containers -> {"array", "map", "unused"}]
      /\ DOMAIN content' = Containers
      /\ Used' = Used \cup {c} /\ Contents' /\ c \notin Used /\ Harmless
  BY NewContents
<1>3. Types'
  BY <1>1, <1>2 DEF Common, Types
<1>4. ReadersUse' /\ KeptInUse'
  BY <1>1, <1>2 DEF Common, Types, ReadersUse, KeptInUse
<1>5. c \notin Js /\ \A v \in Wrappers : writable[v] # c
  BY <1>2, CollectionsAssumption DEF Common, Types, ReadersUse, KeptInUse, WritersOwn, Values
<1>6. WritersOwn'
  BY <1>1, <1>5 DEF Common, Types, WritersOwn
<1>7. WritersAreAlone'
  BY <1>1, <1>5 DEF Common, Types, WritersAreAlone
<1> QED BY <1>2, <1>3, <1>4, <1>6, <1>7 DEF Common

\* A write to a container x that is neither JavaScript's nor frozen; what is written may be
\* consumed.
LEMMA WriteKeeps ==
    ASSUME Common, NEW x \in Used \ (Js \cup frozen), NEW f,
           content' = [content EXCEPT ![x] = f], Holds(kind[x], f, Holdable),
           frozen \subseteq frozen', frozen' \subseteq Used, writes' \in 0..MaxWrites,
           UNCHANGED <<kind, readable, writable, argument>>
    PROVE  Common' /\ Harmless
<1>1. Used' = Used /\ Holdable' = Holdable
  BY DEF Used, Unused, Holdable
<1>2. Types'
  BY DEF Common, Types, Used
<1>3. Contents'
  BY <1>1 DEF Common, Types, Contents
<1>4. ReadersUse' /\ KeptInUse' /\ WritersOwn' /\ WritersAreAlone'
  BY <1>1 DEF Common, ReadersUse, KeptInUse, WritersOwn, WritersAreAlone
<1>5. Harmless
  BY DEF Common, Types, Used, Harmless
<1> QED BY <1>2, <1>3, <1>4, <1>5 DEF Common

\* One element is written.
LEMMA StoreKeeps ==
    ASSUME Common, NEW x \in Used \ (Js \cup frozen), NEW p \in Positions(x), NEW v \in Holdable,
           content' = Write(x, p, v), WithinBounds(content'),
           frozen \subseteq frozen', frozen' \subseteq Used,
           UNCHANGED <<kind, readable, writable, argument>>
    PROVE  Common' /\ Harmless
<1>1. kind[x] \in {"array", "map"} /\ x \in Containers /\ Holds(kind[x], content[x], Holdable)
  BY DEF Common, Types, Contents, Used, Unused
<1>2. Holds(kind[x], Stored(content[x], p, v), Holdable)
  BY <1>1, StoredHolds DEF Positions
<1>3. writes' \in 0..MaxWrites
  BY CollectionsAssumption DEF Common, Types, WithinBounds
<1>4. content' = [content EXCEPT ![x] = Stored(content[x], p, v)]
  BY <1>1 DEF Write, Common, Types
<1> QED BY <1>2, <1>3, <1>4, WriteKeeps

\* All elements of a container y of the same kind are written.
LEMMA AddKeeps ==
    ASSUME Common, NEW x \in Used \ (Js \cup frozen), NEW y \in Used, kind[x] = kind[y],
           content' = Added(x, y), WithinBounds(content'),
           UNCHANGED <<kind, readable, writable, argument, frozen>>
    PROVE  Common' /\ Harmless
<1>1. /\ kind[x] \in {"array", "map"} /\ x \in Containers
      /\ Holds(kind[x], content[x], Holdable) /\ Holds(kind[x], content[y], Holdable)
  BY DEF Common, Types, Contents, Used, Unused
<1> DEFINE f == IF kind[x] = "array" THEN content[x] \o content[y]
                                     ELSE Merged(content[x], content[y])
<1>2. Holds(kind[x], f, Holdable)
  BY <1>1, AddedHolds
<1>3. writes' \in 0..MaxWrites
  BY CollectionsAssumption DEF Common, Types, WithinBounds
<1>4. content' = [content EXCEPT ![x] = f]
  BY <1>1 DEF Added, Common, Types
<1>5. frozen' \subseteq Used
  BY DEF Common, KeptInUse
<1> QED BY <1>2, <1>3, <1>4, <1>5, WriteKeeps

\* A step that leaves containers and wrappers alone, but may consume one.
LEMMA RestKeeps ==
    ASSUME Common, UNCHANGED <<kind, content, readable, writable, argument, writes>>,
           frozen' \subseteq Used
    PROVE  Common' /\ Harmless
<1>1. Used' = Used /\ Holdable' = Holdable
  BY DEF Used, Unused, Holdable
<1>2. Types'
  BY DEF Common, Types, Used
<1>3. Contents' /\ ReadersUse' /\ WritersOwn' /\ WritersAreAlone'
  BY <1>1 DEF Common, Contents, ReadersUse, WritersOwn, WritersAreAlone
<1>4. KeptInUse'
  BY <1>1 DEF Common, KeptInUse
<1> QED BY <1>2, <1>3, <1>4 DEF Common, Harmless

\* An element of what a wrapper reads that is a container is in use.
LEMMA ElementsAreUsed ==
    ASSUME Common, NEW w \in Wrappers, InUse(w), NEW p \in DOMAIN Elements(w)
    PROVE  Elements(w)[p] \in Holdable
<1>1. readable[w] \in Containers /\ readable[w] \in Used
  BY DEF Common, ReadersUse, InUse, Used
<1>2. Holds(kind[readable[w]], Elements(w), Holdable)
  BY <1>1 DEF Common, Contents, Elements
<1>3. CASE kind[readable[w]] = "map"
  BY <1>2, <1>3 DEF Holds
<1>4. CASE kind[readable[w]] # "map"
  BY <1>2, <1>4 DEF Holds
<1> QED BY <1>3, <1>4

\* A container in use and what it holds can become a copy.
LEMMA UsedHolds ==
    ASSUME Common, NEW c \in Used
    PROVE  kind[c] \in {"array", "map"} /\ Holds(kind[c], content[c], Holdable)
BY DEF Common, Types, Contents, Used, Unused

\* What the invariant says of the types is what TypeOK does.
LEMMA TypesAreOK ==
    ASSUME Common, object # None => object.type \in Type
    PROVE  TypeOK
<1>1. ASSUME NEW c \in Containers
      PROVE  /\ \A p \in DOMAIN content[c] : content[c][p] \in Values
             /\ kind[c] = "array" => DOMAIN content[c] = 1..Len(content[c])
             /\ kind[c] = "map" => DOMAIN content[c] \subseteq Keys
  <2>1. Holdable \subseteq Values
    BY DEF Holdable, Values, Used
  <2>2. Holds(kind[c], content[c], Holdable)
    BY DEF Common, Contents
  <2>3. CASE kind[c] = "map"
    BY <2>1, <2>2, <2>3 DEF Holds
  <2>4. CASE kind[c] # "map"
    BY <2>1, <2>2, <2>4 DEF Holds
  <2> QED BY <2>3, <2>4
<1> QED BY <1>1 DEF Common, Types, TypeOK

\* At first there are JavaScript's two containers.
LEMMA CommonAtFirst == CollectionsInit => Common
<1> SUFFICES ASSUME CollectionsInit PROVE Common
  OBVIOUS
<1>1. Types
  BY CollectionsAssumption DEF CollectionsInit, Types
<1>2. Js \subseteq Used
  BY CollectionsAssumption DEF CollectionsInit, Js, Used, Unused
<1>3. Contents
  <2>1. "boolean" \in Holdable /\ "number" \in Holdable /\ JsMap \in Holdable
    BY <1>2 DEF Holdable, Scalars, Js
  <2> QED BY <2>1, CollectionsAssumption DEF CollectionsInit, Contents, Holds
<1>4. ReadersUse /\ KeptInUse /\ WritersOwn /\ WritersAreAlone
  BY <1>2 DEF CollectionsInit, ReadersUse, KeptInUse, WritersOwn, WritersAreAlone
<1> QED BY <1>1, <1>3, <1>4 DEF Common
=============================================================================
