----------------------- MODULE ObjcCollectionsProofs -----------------------
(***************************************************************************)
(* Proofs about ObjcCollections.tla, for any containers, wrappers and keys *)
(* and any bounds: every wrapper has a container of its own, so that what  *)
(* JavaScript passed and what was pushed as a copy is never written to.    *)
(***************************************************************************)
EXTENDS ObjcCollections, CollectionsProofs

\* A wrapper writes to what it reads, and that is no immutable copy.
WrappersOwn ==
    \A w \in Wrappers : readable[w] # None => writable[w] = readable[w] /\ writable[w] \notin frozen

\* An object of an array or a map has a wrapper in use, and one of a scalar has the type of one.
ObjectHasPayload ==
    object # None =>
        \/ /\ object.type \in {"ARRAY", "MAP"}
           /\ object.payload \in Wrappers
           /\ readable[object.payload] # None
        \/ object.type \in {"NIL", "BOOLEAN", "NUMBER", "STRING"}

\* The inductive invariant.
Inv == Common /\ WrappersOwn /\ ObjectHasPayload

Kept == Inv' /\ Harmless

-----------------------------------------------------------------------------
(* What is handed over *)

\* A wrapper in use is unwrapped to the container that is its own.
LEMMA UnwrapsToOwn ==
    ASSUME Inv, NEW w \in Wrappers, InUse(w)
    PROVE  /\ writable[w] = readable[w]
           /\ Unwrap(w) \in Used \ (Js \cup frozen)
BY DEF Inv, Common, WrappersOwn, WritersOwn, ReadersUse, InUse, Unwrap

\* An object is unwrapped to a scalar or to the container of its wrapper.
LEMMA ObjectUnwrapsToUsed ==
    ASSUME Inv, object # None
    PROVE  UnwrapObject(object) \in Holdable
<1>1. CASE /\ object.type \in {"ARRAY", "MAP"}
           /\ object.payload \in Wrappers
           /\ readable[object.payload] # None
  BY <1>1, UnwrapsToOwn DEF UnwrapObject, InUse, Holdable
<1>2. CASE object.type \in {"NIL", "BOOLEAN", "NUMBER", "STRING"}
  BY <1>2, ScalarOfType DEF UnwrapObject, Holdable
<1> QED BY <1>1, <1>2 DEF Inv, ObjectHasPayload

-----------------------------------------------------------------------------
(* What steps of each kind preserve *)

\* A step that keeps the common part, the wrappers, the copies and the object.
LEMMA OthersKeep ==
    ASSUME Inv, Common', UNCHANGED <<readable, writable, object>>,
           frozen' \cap Used = frozen
    PROVE  Inv'
BY DEF Inv, Common, ReadersUse, WrappersOwn, ObjectHasPayload

\* A wrapper with a new container, filled or empty.
LEMMA FillKeeps ==
    ASSUME Inv, NEW w \in Wrappers, NEW c \in Containers, NEW k \in {"array", "map"}, NEW f,
           NewContainer(c, k, f), NewWrapper(w, c, c), Holds(k, f, Holdable),
           UNCHANGED <<frozen, writes>>, argument' \in {argument, argument \cup {w}}
    PROVE  Common' /\ Harmless /\ WrappersOwn' /\ InUse(w)'
           /\ (UNCHANGED object => ObjectHasPayload')
<1>1. Common' /\ Harmless
  BY NewKeeps DEF Inv
<1>2. /\ readable' = [readable EXCEPT ![w] = c] /\ writable' = [writable EXCEPT ![w] = c]
      /\ c \notin frozen /\ c # None
  BY CollectionsAssumption
     DEF Inv, Common, KeptInUse, Used, NewWrapper, NewContainer, Values
<1>3. WrappersOwn' /\ InUse(w)'
  BY <1>2 DEF Inv, Common, Types, WrappersOwn, InUse
<1>4. ASSUME UNCHANGED object
      PROVE  ObjectHasPayload'
  BY <1>2, <1>4 DEF Inv, Common, Types, ObjectHasPayload
<1> QED BY <1>1, <1>3, <1>4

\* A wrapper whose new container holds what the container v does.
LEMMA WrapKeeps ==
    ASSUME Inv, NEW w \in Wrappers, NEW c \in Containers, NEW v \in Used, Wrap(w, c, v),
           UNCHANGED <<frozen, writes>>, argument' \in {argument, argument \cup {w}}
    PROVE  Common' /\ Harmless /\ WrappersOwn' /\ InUse(w)'
           /\ (UNCHANGED object => ObjectHasPayload')
<1>1. kind[v] \in {"array", "map"} /\ Holds(kind[v], content[v], Holdable)
  BY UsedHolds DEF Inv
<1> QED BY <1>1, FillKeeps DEF Wrap

\* Every setter but pushArray: and pushMap:.
LEMMA PutKeeps ==
    ASSUME Inv, NEW w \in Wrappers, NEW v \in Holdable, Put(w, v)
    PROVE  Kept
<1>1. /\ InUse(w) /\ UNCHANGED <<kind, readable, writable, argument, object, frozen>>
      /\ WithinBounds(content')
  BY DEF Put
<1>2. PICK p \in Positions(writable[w]) : content' = Write(writable[w], p, v)
  BY DEF Put
<1>3. writable[w] \in Used \ (Js \cup frozen)
  BY <1>1, UnwrapsToOwn DEF Unwrap
<1>4. frozen \subseteq Used
  BY DEF Inv, Common, KeptInUse
<1>5. Common' /\ Harmless
  BY <1>1, <1>2, <1>3, <1>4, StoreKeeps DEF Inv
<1> QED BY <1>1, <1>4, <1>5, OthersKeep DEF Kept

\* Steps that touch nothing but the object at hand.
LEMMA ObjectKeeps ==
    ASSUME Inv, ObjectHasPayload',
           UNCHANGED <<kind, content, readable, writable, frozen, argument, writes>>
    PROVE  Kept
<1>1. Common' /\ Harmless
  BY RestKeeps DEF Inv, Common, KeptInUse
<1> QED BY <1>1 DEF Inv, WrappersOwn, Kept

-----------------------------------------------------------------------------
(* The steps *)

\* A new container is empty.
LEMMA CreateStep ==
    ASSUME Inv, NEW w \in Wrappers, NEW c \in Containers, NEW k \in {"array", "map"},
           Create(w, c, k)
    PROVE  Kept
BY FillKeeps, EmptyHolds DEF Create, Kept, Inv

\* A copy is filled with what the other one holds.
LEMMA CopyStep ==
    ASSUME Inv, NEW v \in Wrappers, NEW w \in Wrappers, NEW c \in Containers, Copy(w, c, v)
    PROVE  Kept
<1>1. readable[v] \in Used
  BY DEF Copy, InUse, Inv, Common, ReadersUse
<1> QED BY <1>1, WrapKeeps DEF Copy, Kept, Inv

\* An argument is filled with what JavaScript's container holds.
LEMMA ReceiveStep ==
    ASSUME Inv, NEW w \in Wrappers, NEW c \in Containers, NEW v \in {JsArray, JsMap},
           Receive(w, c, v)
    PROVE  Kept
<1>1. v \in Used
  BY DEF Inv, Common, KeptInUse, Js
<1> QED BY <1>1, WrapKeeps DEF Receive, Kept, Inv

\* So is the wrapper of an element.
LEMMA GetStep ==
    ASSUME Inv, NEW v \in Wrappers, NEW w \in Wrappers, NEW c \in Containers, NEW p,
           Get(w, c, v, p)
    PROVE  Kept
<1>1. Elements(v)[p] \in Used
  BY ElementsAreUsed, CollectionsAssumption DEF Get, Inv, Holdable
<1> QED BY <1>1, WrapKeeps DEF Get, Kept, Inv

\* An object of a scalar has its type, or is a number.
LEMMA FromScalarStep ==
    ASSUME Inv, NEW s \in Scalars, FromScalar(s)
    PROVE  Kept
BY ObjectKeeps, ScalarTypes DEF FromScalar, ObjectHasPayload

\* An object of a wrapper has that wrapper, which is in use.
LEMMA FromWrapperStep ==
    ASSUME Inv, NEW w \in Wrappers, FromWrapper(w)
    PROVE  Kept
<1>1. readable[w] \in Containers /\ readable[w] # None
  BY DEF FromWrapper, InUse, Inv, Common, ReadersUse, Used
<1> QED BY <1>1, ObjectKeeps, ContainerTypes DEF FromWrapper, ObjectHasPayload

\* An element that is a scalar becomes an object of a scalar type.
LEMMA GetScalarObjectStep ==
    ASSUME Inv, NEW v \in Wrappers, NEW p, GetScalarObject(v, p)
    PROVE  Kept
<1>1. GetType(Elements(v)[p]) \in {"NIL", "BOOLEAN", "NUMBER", "STRING"}
  BY ScalarTypes DEF GetScalarObject, GetType
<1> QED BY <1>1, ObjectKeeps DEF GetScalarObject, ObjectHasPayload

\* An element that is an array or a map gets a wrapper for its object.
LEMMA GetObjectStep ==
    ASSUME Inv, NEW v \in Wrappers, NEW w \in Wrappers, NEW c \in Containers, NEW p,
           GetObject(w, c, v, p)
    PROVE  Kept
<1> DEFINE e == Elements(v)[p]
<1>1. e \in Used /\ e \in Containers /\ e # "boolean"
  BY ElementsAreUsed, CollectionsAssumption DEF GetObject, Inv, Holdable, Scalars
<1>2. Common' /\ Harmless /\ WrappersOwn' /\ InUse(w)'
  BY <1>1, WrapKeeps DEF GetObject
<1>3. GetType(e) \in {"ARRAY", "MAP"}
  BY <1>1, ContainerTypes DEF GetType
<1>4. ObjectHasPayload'
  BY <1>2, <1>3 DEF GetObject, ObjectHasPayload, InUse
<1> QED BY <1>2, <1>4 DEF Kept, Inv

\* append: and merge: write what is in use to what is the wrapper's own.
LEMMA AppendAllStep ==
    ASSUME Inv, NEW v \in Wrappers, NEW w \in Wrappers, AppendAll(w, v)
    PROVE  Kept
<1>1. writable[w] \in Used \ (Js \cup frozen) /\ readable[v] \in Used
  BY UnwrapsToOwn DEF AppendAll, Unwrap
<1>2. Common' /\ Harmless
  BY <1>1, AddKeeps DEF AppendAll, Inv
<1>3. frozen \subseteq Used
  BY DEF Inv, Common, KeptInUse
<1> QED BY <1>2, <1>3, OthersKeep DEF AppendAll, Kept

\* pushArray: and pushMap: in two steps of thought: the copy is made, and then pushed.
LEMMA PushWrapperStep ==
    ASSUME Inv, NEW v \in Wrappers, NEW w \in Wrappers, NEW c \in Containers,
           PushWrapper(w, c, v)
    PROVE  Kept
<1> DEFINE x == writable[w]
           k == kind[readable[v]]
           p == Len(content[x]) + 1
<1>1. /\ IsArray(w) /\ InUse(w) /\ InUse(v) /\ c \in Unused
      /\ kind' = [kind EXCEPT ![c] = k]
      /\ content' = [Write(x, p, c) EXCEPT ![c] = Elements(v)]
      /\ frozen' = frozen \cup {c}
      /\ WithinBounds(content')
      /\ UNCHANGED <<readable, writable, argument, object>>
  BY DEF PushWrapper, IsArray
<1>2. x \in Used \ (Js \cup frozen) /\ x = readable[w] /\ x \in Containers /\ x # c
  BY <1>1, UnwrapsToOwn DEF Unwrap, Used
<1>3. readable[v] \in Used /\ c \notin Used
  BY <1>1, UnwrapsToOwn DEF Unwrap, Used
<1>4. k \in {"array", "map"} /\ Holds(k, Elements(v), Holdable)
  BY <1>3, UsedHolds DEF Inv, Elements
<1>5. Used' = Used \cup {c} /\ Holdable' = Holdable \cup {c}
  BY <1>1, <1>4 DEF Inv, Common, Types, Used, Unused, Holdable
<1>6. Contents'
  <2>1. /\ content'[c] = Elements(v) /\ content'[x] = Stored(content[x], p, c)
        /\ \A d \in Containers \ {x, c} : content'[d] = content[d]
    BY <1>1, <1>2 DEF Inv, Common, Types, Write
  <2>2. /\ kind'[c] = k /\ kind'[x] = "array"
        /\ \A d \in Containers \ {x, c} : kind'[d] = kind[d]
    BY <1>1, <1>2 DEF Inv, Common, Types, IsArray
  <2>3. Holds("array", content[x], Holdable')
    BY <1>1, <1>2, <1>5, HoldsMore DEF Inv, Common, Contents, IsArray
  <2>4. Holds("array", Stored(content[x], p, c), Holdable')
    BY <1>5, <2>3, StoredHolds
  <2>5. Holds(k, Elements(v), Holdable')
    BY <1>4, <1>5, HoldsMore
  <2>6. \A d \in Containers \ {x, c} : Holds(kind[d], content[d], Holdable')
    BY <1>5, HoldsMore DEF Inv, Common, Contents
  <2> QED BY <2>1, <2>2, <2>4, <2>5, <2>6 DEF Contents
<1>7. Types'
  <2>1. writes' \in 0..MaxWrites
    BY <1>1, CollectionsAssumption DEF Inv, Common, Types, WithinBounds
  <2> QED BY <1>1, <1>4, <2>1 DEF Inv, Common, Types, Write
<1>8. ReadersUse' /\ KeptInUse'
  BY <1>1, <1>5 DEF Inv, Common, ReadersUse, KeptInUse
<1>9. WritersOwn' /\ WritersAreAlone' /\ ObjectHasPayload'
  BY <1>1 DEF Inv, Common, WritersOwn, WritersAreAlone, ObjectHasPayload
<1>10. WrappersOwn'
  BY <1>1, <1>3 DEF Inv, Common, ReadersUse, WrappersOwn
<1>11. Harmless
  BY <1>1, <1>2, <1>3 DEF Inv, Common, Types, KeptInUse, Write, Harmless, Used
<1> QED BY <1>6, <1>7, <1>8, <1>9, <1>10, <1>11 DEF Kept, Inv, Common

\* Whatever C++ code does, the invariant holds after it, and it was harmless.
LEMMA StepKeeps ==
    ASSUME Inv, [Next]_collectionVars
    PROVE  Kept
<1>1. ASSUME NEW w \in Wrappers, NEW s \in Scalars, PutScalar(w, s)
      PROVE  Kept
  BY <1>1, PutKeeps DEF PutScalar, Holdable
<1>2. ASSUME NEW v \in Wrappers, NEW w \in Wrappers, PutWrapper(w, v)
      PROVE  Kept
  BY <1>2, PutKeeps, UnwrapsToOwn DEF PutWrapper, Holdable
<1>3. ASSUME NEW w \in Wrappers, PutObject(w)
      PROVE  Kept
  BY <1>3, PutKeeps, ObjectUnwrapsToUsed DEF PutObject
<1>4. ASSUME UNCHANGED collectionVars
      PROVE  Kept
  BY <1>4, ObjectKeeps DEF collectionVars, Inv, ObjectHasPayload
<1> QED
  BY <1>1, <1>2, <1>3, <1>4, CreateStep, CopyStep, PushWrapperStep, ReceiveStep, GetStep,
     GetObjectStep, GetScalarObjectStep, AppendAllStep, FromWrapperStep, FromScalarStep DEF Next

-----------------------------------------------------------------------------
(* The theorems *)

\* JavaScript's two containers are all there is at first.
LEMMA InitEstablishes == CollectionsInit => Inv
BY CommonAtFirst DEF CollectionsInit, Inv, WrappersOwn, ObjectHasPayload

\* The invariant holds in every state.
LEMMA Invariance == Spec => []Inv
<1>1. Inv /\ [Next]_collectionVars => Inv'
  BY StepKeeps DEF Kept
<1> QED BY <1>1, InitEstablishes, PTL DEF Spec

\* Every variable has its type: in particular, nothing but scalars and containers is ever
\* inside a container, and the keys of an array are 1..n.
THEOREM TypeCorrect == Spec => []TypeOK
<1>1. Inv => TypeOK
  BY TypesAreOK DEF Inv, ObjectHasPayload, Type
<1> QED BY <1>1, Invariance, PTL

\* No two wrappers write to one container.
THEOREM WritersKeepApart == Spec => []WritersAreAlone
<1>1. Inv => WritersAreAlone
  BY DEF Inv, Common
<1> QED BY <1>1, Invariance, PTL

\* What JavaScript passed is never written to, nor is a copy that was pushed.
THEOREM JavascriptIsSafe == Spec => JavascriptKeepsItsOwn
<1>1. Inv /\ [Next]_collectionVars =>
        [\A c \in {JsArray, JsMap} \cup frozen : content'[c] = content[c]]_collectionVars
  BY StepKeeps DEF Kept, Harmless, Js
<1> QED BY <1>1, Invariance, PTL DEF Spec, JavascriptKeepsItsOwn
=============================================================================
