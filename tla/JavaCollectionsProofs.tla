----------------------- MODULE JavaCollectionsProofs -----------------------
(***************************************************************************)
(* Proofs about JavaCollections.tla, for any containers, wrappers and keys *)
(* and any bounds: who writes to a container, and that nobody writes to    *)
(* one that JavaScript passed or that was consumed.                        *)
(***************************************************************************)
EXTENDS JavaCollections, CollectionsProofs

\* An argument reads one of JavaScript's containers.
ArgumentsRead == \A w \in argument : readable[w] \in Js

\* An object of an array or a map has a wrapper, and one of a scalar has the type of one.
ObjectHasPayload ==
    object # None =>
        \/ object.type \in {"ARRAY", "MAP"} /\ object.payload \in Wrappers
        \/ object.type \in {"NIL", "BOOLEAN", "NUMBER", "STRING"}

\* The inductive invariant.
Inv == Common /\ ArgumentsRead /\ ObjectHasPayload

\* An argument goes on reading what it reads.
ArgumentsStay == \A w \in argument : readable'[w] = readable[w]

Kept == Inv' /\ Harmless /\ ArgumentsStay

-----------------------------------------------------------------------------
(* What is handed over *)

\* What a wrapper is unwrapped to is in use, or null.
LEMMA UnwrapsToUsed ==
    ASSUME Inv, NEW w \in Wrappers
    PROVE  Unwrap(w) \in Holdable
BY DEF Inv, Common, WritersOwn, ReadersUse, Unwrap, Holdable, Scalars

\* So is what an object is unwrapped to.
LEMMA ObjectUnwrapsToUsed ==
    ASSUME Inv, object # None
    PROVE  UnwrapObject(object) \in Holdable
<1>1. CASE object.type \in {"ARRAY", "MAP"} /\ object.payload \in Wrappers
  BY <1>1, UnwrapsToUsed DEF UnwrapObject
<1>2. CASE object.type \in {"NIL", "BOOLEAN", "NUMBER", "STRING"}
  BY <1>2, ScalarOfType DEF UnwrapObject, Holdable
<1> QED BY <1>1, <1>2 DEF Inv, ObjectHasPayload

\* What is handed over is consumed, and was in use.
LEMMA HandKeepsInUse ==
    ASSUME Inv, NEW v \in Holdable, Hand(v)
    PROVE  frozen \subseteq frozen' /\ frozen' \subseteq Used
BY CollectionsAssumption DEF Inv, Common, KeptInUse, Hand, Holdable, Used

-----------------------------------------------------------------------------
(* What steps of each kind preserve *)

\* A step that keeps the common part and touches neither arguments nor the object.
LEMMA OthersKeep ==
    ASSUME Inv, Common', UNCHANGED <<readable, argument, object>>
    PROVE  Inv' /\ ArgumentsStay
BY DEF Inv, ArgumentsRead, ObjectHasPayload, ArgumentsStay

\* A new wrapper without a writable side.
LEMMA WrapKeeps ==
    ASSUME Inv, NEW w \in Wrappers, NEW c \in Used, Wrap(w, c), UNCHANGED <<frozen, writes>>,
           argument' \in {argument, argument \cup {w}}
    PROVE  /\ Common' /\ Harmless /\ ArgumentsStay
           /\ readable' = [readable EXCEPT ![w] = c]
           /\ w \notin argument
<1>1. /\ Free(w) /\ UNCHANGED <<kind, content>>
      /\ readable' = [readable EXCEPT ![w] = c]
      /\ writable' = [writable EXCEPT ![w] = None]
  BY DEF Wrap, NewWrapper
<1>2. w \notin argument
  BY <1>1, CollectionsAssumption DEF Inv, ArgumentsRead, Free, Js, Values
<1>3. Used' = Used /\ Holdable' = Holdable
  BY <1>1 DEF Used, Unused, Holdable
<1>4. Types'
  BY <1>1 DEF Inv, Common, Types, Used
<1>5. Contents' /\ KeptInUse' /\ Harmless
  BY <1>1, <1>3 DEF Inv, Common, Contents, KeptInUse, Harmless
<1>6. ReadersUse'
  BY <1>1, <1>3 DEF Inv, Common, Types, ReadersUse
<1>7. WritersOwn' /\ WritersAreAlone'
  BY <1>1 DEF Inv, Common, Types, WritersOwn, WritersAreAlone
<1>8. ArgumentsStay
  BY <1>1, <1>2 DEF Inv, Common, Types, ArgumentsStay
<1> QED BY <1>1, <1>2, <1>4, <1>5, <1>6, <1>7, <1>8 DEF Common

\* createArray(), createMap() and their copies.
LEMMA CreateKeeps ==
    ASSUME Inv, NEW w \in Wrappers, NEW c \in Containers, NEW k \in {"array", "map"}, NEW f,
           NewContainer(c, k, f), NewWrapper(w, c, c), Holds(k, f, Holdable),
           UNCHANGED <<frozen, argument, object, writes>>
    PROVE  Kept
<1>1. Common' /\ Harmless
  BY NewKeeps DEF Inv
<1>2. readable' = [readable EXCEPT ![w] = c] /\ w \notin argument
  BY CollectionsAssumption DEF Inv, ArgumentsRead, NewWrapper, Free, Js, Values
<1>3. ArgumentsRead' /\ ArgumentsStay
  BY <1>2 DEF Inv, Common, Types, ArgumentsRead, ArgumentsStay
<1>4. ObjectHasPayload'
  BY DEF Inv, ObjectHasPayload
<1> QED BY <1>1, <1>3, <1>4 DEF Kept, Inv

\* Every setter.
LEMMA PutKeeps ==
    ASSUME Inv, NEW w \in Wrappers, NEW v \in Holdable, Put(w, v)
    PROVE  Kept
<1>1. /\ Accepts(w) /\ UNCHANGED <<kind, readable, writable, argument, object>>
      /\ WithinBounds(content') /\ Hand(v)
  BY DEF Put
<1>2. PICK p \in Positions(writable[w]) : content' = Write(writable[w], p, v)
  BY DEF Put
<1>3. writable[w] \in Used \ (Js \cup frozen)
  BY <1>1 DEF Accepts, Usable, Inv, Common, WritersOwn, ReadersUse
<1>4. frozen \subseteq frozen' /\ frozen' \subseteq Used
  BY <1>1, HandKeepsInUse
<1>5. Common' /\ Harmless
  BY <1>1, <1>2, <1>3, <1>4, StoreKeeps DEF Inv
<1> QED BY <1>1, <1>5, OthersKeep DEF Kept

-----------------------------------------------------------------------------
(* The steps *)

\* A new container is empty.
LEMMA CreateStep ==
    ASSUME Inv, NEW w \in Wrappers, NEW c \in Containers, NEW k \in {"array", "map"},
           Create(w, c, k)
    PROVE  Kept
BY CreateKeeps, EmptyHolds DEF Create

\* A copy holds what the other one does.
LEMMA CopyStep ==
    ASSUME Inv, NEW v \in Wrappers, NEW w \in Wrappers, NEW c \in Containers, Copy(w, c, v)
    PROVE  Kept
<1>1. readable[v] \in Used
  BY DEF Copy, Usable, InUse, Inv, Common, ReadersUse
<1>2. kind[readable[v]] \in {"array", "map"}
      /\ Holds(kind[readable[v]], Elements(v), Holdable)
  BY <1>1, UsedHolds DEF Inv, Elements
<1> QED BY <1>2, CreateKeeps DEF Copy

\* A new argument reads what JavaScript has.
LEMMA ReceiveStep ==
    ASSUME Inv, NEW w \in Wrappers, NEW c \in {JsArray, JsMap}, Receive(w, c)
    PROVE  Kept
<1>1. c \in Used /\ c \in Js
  BY DEF Inv, Common, KeptInUse, Js
<1>2. Wrap(w, c) /\ argument' = argument \cup {w} /\ UNCHANGED <<frozen, object, writes>>
  BY DEF Receive
<1>3. /\ Common' /\ Harmless /\ ArgumentsStay /\ w \notin argument
      /\ readable' = [readable EXCEPT ![w] = c]
  BY <1>1, <1>2, WrapKeeps
<1>4. ArgumentsRead'
  BY <1>1, <1>2, <1>3 DEF Inv, Common, Types, ArgumentsRead
<1>5. ObjectHasPayload'
  BY <1>2 DEF Inv, ObjectHasPayload
<1> QED BY <1>3, <1>4, <1>5 DEF Kept, Inv

\* An element of a container gets a wrapper.
LEMMA GetStep ==
    ASSUME Inv, NEW v \in Wrappers, NEW w \in Wrappers, NEW p, Get(w, v, p)
    PROVE  Kept
<1>1. Elements(v)[p] \in Used
  BY ElementsAreUsed, CollectionsAssumption DEF Get, Usable, Inv, Holdable
<1>2. Common' /\ Harmless /\ ArgumentsStay
  BY <1>1, WrapKeeps DEF Get
<1>3. ArgumentsRead' /\ ObjectHasPayload'
  BY <1>2 DEF Get, Inv, ArgumentsRead, ObjectHasPayload, ArgumentsStay
<1> QED BY <1>2, <1>3 DEF Kept, Inv

\* Steps that touch nothing but the object at hand.
LEMMA ObjectKeeps ==
    ASSUME Inv, ObjectHasPayload',
           UNCHANGED <<kind, content, readable, writable, frozen, argument, writes>>
    PROVE  Kept
<1>1. Common' /\ Harmless
  BY RestKeeps DEF Inv, Common, KeptInUse
<1> QED BY <1>1 DEF Inv, ArgumentsRead, ArgumentsStay, Kept

\* An object of a scalar has its type.
LEMMA FromScalarStep ==
    ASSUME Inv, NEW s \in Scalars, FromScalar(s)
    PROVE  Kept
BY ObjectKeeps, ScalarTypes DEF FromScalar, ObjectHasPayload

\* An object of a wrapper has that wrapper.
LEMMA FromWrapperStep ==
    ASSUME Inv, NEW w \in Wrappers, FromWrapper(w)
    PROVE  Kept
<1>1. readable[w] \in Containers
  BY DEF FromWrapper, Usable, InUse, Inv, Common, ReadersUse, Used
<1> QED BY <1>1, ObjectKeeps, ContainerTypes DEF FromWrapper, ObjectHasPayload

\* An object of an element has a wrapper of its own if that is an array or a map.
LEMMA GetObjectStep ==
    ASSUME Inv, NEW v \in Wrappers, NEW w \in Wrappers, NEW p, GetObject(w, v, p)
    PROVE  Kept
<1> DEFINE e == Elements(v)[p]
<1>1. e \in Holdable
  BY ElementsAreUsed DEF GetObject, Usable, Inv
<1>2. CASE e \in Scalars
  <2>1. e \notin Containers
    BY <1>2, CollectionsAssumption
  <2>2. /\ object' = [type |-> TypeOf(e), payload |-> None, from |-> e]
        /\ UNCHANGED <<kind, content, readable, writable, frozen, argument, writes>>
    BY <2>1 DEF GetObject, Wrap
  <2>3. TypeOf(e) \in {"NIL", "BOOLEAN", "NUMBER", "STRING"}
    BY <1>2, ScalarTypes
  <2>4. ObjectHasPayload'
    BY <2>2, <2>3 DEF ObjectHasPayload
  <2> QED BY <2>2, <2>4, ObjectKeeps
<1>3. CASE e \notin Scalars
  <2>1. e \in Used /\ e \in Containers
    BY <1>1, <1>3 DEF Holdable, Used
  <2>2. /\ Wrap(w, e) /\ UNCHANGED <<frozen, argument, writes>>
        /\ object' = [type |-> TypeOf(e), payload |-> w, from |-> e]
    BY <1>3, <2>1 DEF GetObject
  <2>3. Common' /\ Harmless /\ ArgumentsStay
    BY <2>1, <2>2, WrapKeeps
  <2>4. TypeOf(e) \in {"ARRAY", "MAP"}
    BY <2>1, ContainerTypes
  <2>5. ArgumentsRead' /\ ObjectHasPayload'
    BY <2>2, <2>3, <2>4 DEF Inv, ArgumentsRead, ObjectHasPayload, ArgumentsStay
  <2> QED BY <2>3, <2>5 DEF Kept, Inv
<1> QED BY <1>2, <1>3

\* append() and merge() write what is in use to what is the wrapper's own.
LEMMA AppendAllStep ==
    ASSUME Inv, NEW v \in Wrappers, NEW w \in Wrappers, AppendAll(w, v)
    PROVE  Kept
<1>1. writable[w] \in Used \ (Js \cup frozen) /\ readable[v] \in Used
  BY DEF AppendAll, Accepts, Usable, InUse, Inv, Common, WritersOwn, ReadersUse
<1>2. Common' /\ Harmless
  BY <1>1, AddKeeps DEF AppendAll, Inv
<1> QED BY <1>2, OthersKeep DEF AppendAll, Kept

\* What is sent is consumed, and nothing else changes.
LEMMA SendKeeps ==
    ASSUME Inv, NEW v \in Holdable, Hand(v),
           UNCHANGED <<kind, content, readable, writable, argument, object, writes>>
    PROVE  Kept
<1>1. Common' /\ Harmless
  BY HandKeepsInUse, RestKeeps DEF Inv
<1> QED BY <1>1, OthersKeep DEF Kept

\* Whatever C++ code does, the invariant holds after it, and it was harmless.
LEMMA StepKeeps ==
    ASSUME Inv, [Next]_vars
    PROVE  Kept
<1>1. ASSUME NEW w \in Wrappers, NEW s \in Scalars, PutScalar(w, s)
      PROVE  Kept
  BY <1>1, PutKeeps DEF PutScalar, Holdable
<1>2. ASSUME NEW v \in Wrappers, NEW w \in Wrappers, PutWrapper(w, v)
      PROVE  Kept
  BY <1>2, PutKeeps, UnwrapsToUsed DEF PutWrapper
<1>3. ASSUME NEW w \in Wrappers, PutObject(w)
      PROVE  Kept
  BY <1>3, PutKeeps, ObjectUnwrapsToUsed DEF PutObject
<1>4. ASSUME NEW w \in Wrappers, Send(w)
      PROVE  Kept
  BY <1>4, SendKeeps, UnwrapsToUsed DEF Send
<1>5. ASSUME SendObject
      PROVE  Kept
  BY <1>5, SendKeeps, ObjectUnwrapsToUsed DEF SendObject
<1>6. ASSUME UNCHANGED vars
      PROVE  Kept
  BY <1>6, ObjectKeeps DEF vars, collectionVars, Inv, ObjectHasPayload
<1> QED
  BY <1>1, <1>2, <1>3, <1>4, <1>5, <1>6, CreateStep, CopyStep, ReceiveStep, GetStep,
     GetObjectStep, AppendAllStep, FromWrapperStep, FromScalarStep DEF Next

-----------------------------------------------------------------------------
(* The theorems *)

\* JavaScript's two containers are all there is at first.
LEMMA InitEstablishes == Init => Inv
BY CommonAtFirst DEF Init, CollectionsInit, Inv, ArgumentsRead, ObjectHasPayload

\* The invariant holds in every state.
LEMMA Invariance == Spec => []Inv
<1>1. Inv /\ [Next]_vars => Inv'
  BY StepKeeps DEF Kept
<1> QED BY <1>1, InitEstablishes, PTL DEF Spec

\* Every variable has its type: in particular, nothing but scalars and containers is ever
\* inside a container, and the keys of an array are 1..n.
THEOREM TypeCorrect == Spec => []TypeOK
<1>1. Inv => TypeOK
  BY TypesAreOK DEF Inv, ObjectHasPayload, Type
<1> QED BY <1>1, Invariance, PTL

\* No two wrappers of createArray(), getMap() and the rest write to one container.
THEOREM WritersKeepApart == Spec => []WritersAreAlone
<1>1. Inv => WritersAreAlone
  BY DEF Inv, Common
<1> QED BY <1>1, Invariance, PTL

\* What JavaScript passed is never written to, nor is what React Native consumed.
THEOREM JavascriptIsSafe == Spec => JavascriptKeepsItsOwn
<1>1. Inv /\ [Next]_vars =>
        [\A c \in {JsArray, JsMap} \cup frozen : content'[c] = content[c]]_collectionVars
  BY StepKeeps DEF Kept, Harmless, Js
<1> QED BY <1>1, Invariance, PTL DEF Spec, JavascriptKeepsItsOwn

\* What an argument reads as never changes, in Java: no way leads from an argument, through
\* copies, elements and wrappers put into others, to a wrapper that writes to it.
THEOREM ArgumentsAreSafe == Spec => ArgumentsAreReadonly
<1>1. Inv /\ [Next]_vars =>
        [\A w \in argument : Elements(w)' = Elements(w)]_collectionVars
  <2> SUFFICES ASSUME Inv, [Next]_vars, NEW w \in argument
               PROVE  Elements(w)' = Elements(w)
    OBVIOUS
  <2>1. readable'[w] = readable[w] /\ readable[w] \in Js
    BY StepKeeps DEF Kept, ArgumentsStay, Inv, ArgumentsRead
  <2>2. content'[readable[w]] = content[readable[w]]
    BY <2>1, StepKeeps DEF Kept, Harmless
  <2> QED BY <2>1, <2>2 DEF Elements
<1> QED BY <1>1, Invariance, PTL DEF Spec, ArgumentsAreReadonly
=============================================================================
