-------------------------- MODULE ObjcCollections --------------------------
(***************************************************************************)
(* support-lib/objc/RVJavascriptArrayImpl.mm, RVJavascriptMapImpl.mm and   *)
(* RVReactDjinni.mm.  Every wrapper owns a mutable container of its own:   *)
(* wrapping what came from React Native copies its elements, but not what  *)
(* is inside them.  Both sides of a wrapper are that container.  Promises, *)
(* callbacks and events hand that container itself to React Native, which  *)
(* changes nothing here.                                                   *)
(***************************************************************************)
EXTENDS Collections

\* Faulty variant: the container that came from JavaScript is kept as it is.
Wrap_Shares(w, c, v) ==
    /\ c \in Unused
    /\ NewWrapper(w, v, v)
    /\ UNCHANGED <<kind, content>>

\* initWithArray: and initWithDictionary: add the elements of v to a new container c.
Wrap(w, c, v) ==
    /\ NewContainer(c, kind[v], content[v])
    /\ NewWrapper(w, c, c)

\* createArray and createMap.
Create(w, c, k) ==
    /\ NewContainer(c, k, <<>>)
    /\ NewWrapper(w, c, c)
    /\ UNCHANGED <<frozen, argument, object, writes>>

\* createArrayFrom: and createMapFrom:.
Copy(w, c, v) ==
    /\ InUse(v)
    /\ Wrap(w, c, readable[v])
    /\ UNCHANGED <<frozen, argument, object, writes>>

\* JavaScript calls a method of the module with an array or a map.
Receive(w, c, v) ==
    /\ Wrap(w, c, v)
    /\ argument' = argument \cup {w}
    /\ UNCHANGED <<frozen, object, writes>>

\* getArray: and getMap:.
Get(w, c, v, p) ==
    /\ InUse(v)
    /\ p \in DOMAIN Elements(v)
    /\ Elements(v)[p] \in Containers
    /\ Wrap(w, c, Elements(v)[p])
    /\ UNCHANGED <<frozen, argument, object, writes>>

-----------------------------------------------------------------------------
(* JavascriptObject *)

FromScalar(s) ==
    /\ object' = [type |-> TypeOf(s), payload |-> None, from |-> None]
    /\ UNCHANGED <<kind, content, readable, writable, frozen, argument, writes>>

FromWrapper(w) ==
    /\ InUse(w)
    /\ object' = [type |-> TypeOf(readable[w]), payload |-> w, from |-> None]
    /\ UNCHANGED <<kind, content, readable, writable, frozen, argument, writes>>

\* getType: finds that a boolean is an NSNumber.
GetType(v) == IF v = "boolean" THEN "NUMBER" ELSE TypeOf(v)

\* getObject: by way of wrapObject:, of a scalar ...
GetScalarObject(v, p) ==
    LET e == Elements(v)[p] IN
    /\ InUse(v)
    /\ p \in DOMAIN Elements(v)
    /\ e \in Scalars
    /\ object' = [type |-> GetType(e), payload |-> None, from |-> e]
    /\ UNCHANGED <<kind, content, readable, writable, frozen, argument, writes>>

\* ... and of an array or a map, which gets a wrapper.
GetObject(w, c, v, p) ==
    LET e == Elements(v)[p] IN
    /\ InUse(v)
    /\ p \in DOMAIN Elements(v)
    /\ e \in Containers
    /\ object' = [type |-> GetType(e), payload |-> w, from |-> e]
    /\ Wrap(w, c, e)
    /\ UNCHANGED <<frozen, argument, writes>>

-----------------------------------------------------------------------------
(* Setters *)

\* unwrapArray:, unwrapMap: and unwrapObject:.
Unwrap(w) == writable[w]

\* Faulty variant: no NSNull for a null object.
UnwrapObject_Nil(o) ==
    CASE o.type \in {"ARRAY", "MAP"} -> Unwrap(o.payload)
      [] o.type = "NIL" -> None
      [] OTHER -> ScalarOf(o.type)

UnwrapObject(o) ==
    IF o.type \in {"ARRAY", "MAP"} THEN Unwrap(o.payload) ELSE ScalarOf(o.type)

Put(w, v) ==
    LET x == writable[w] IN
    /\ InUse(w)
    /\ \E p \in Positions(x) : content' = Write(x, p, v)
    /\ WithinBounds(content')
    /\ UNCHANGED <<kind, readable, writable, frozen, argument, object>>

\* pushNull ... pushString:, putNull: ... putString:value:.
PutScalar(w, s) == Put(w, s)

\* pushObject: and putObject:value:, which keep the object's own container.
PutObject(w) == object # None /\ Put(w, UnwrapObject(object))

\* putArray:value: and putMap:value: do so as well ...
PutWrapper(w, v) == IsMap(w) /\ InUse(v) /\ Put(w, Unwrap(v))

\* Faulty variant: pushArray: without the copy, like putArray:value:.
PushWrapper_Shares(w, c, v) ==
    /\ IsArray(w) /\ InUse(v) /\ c \in Unused
    /\ frozen' = frozen \cup {Unwrap(v)}
    /\ content' = Write(writable[w], Len(Elements(w)) + 1, Unwrap(v))
    /\ WithinBounds(content')
    /\ UNCHANGED <<kind, readable, writable, argument, object>>

\* ... and pushArray: and pushMap: push an immutable copy c.
PushWrapper(w, c, v) ==
    LET x == writable[w] IN
    /\ IsArray(w) /\ InUse(v) /\ c \in Unused
    /\ kind' = [kind EXCEPT ![c] = kind[readable[v]]]
    /\ content' = [Write(x, Len(content[x]) + 1, c) EXCEPT ![c] = Elements(v)]
    /\ frozen' = frozen \cup {c}
    /\ WithinBounds(content')
    /\ UNCHANGED <<readable, writable, argument, object>>

\* append: and merge:.
AppendAll(w, v) ==
    /\ InUse(w) /\ InUse(v)
    /\ kind[readable[v]] = kind[writable[w]]
    /\ content' = Added(writable[w], readable[v])
    /\ WithinBounds(content')
    /\ UNCHANGED <<kind, readable, writable, frozen, argument, object>>

-----------------------------------------------------------------------------
Next ==
    \/ \E w \in Wrappers, c \in Containers :
          \/ \E k \in {"array", "map"} : Create(w, c, k)
          \/ \E v \in Wrappers : Copy(w, c, v) \/ PushWrapper(w, c, v)
          \/ \E v \in {JsArray, JsMap} : Receive(w, c, v)
          \/ \E v \in Wrappers, p \in 1..MaxLength \cup Keys :
                Get(w, c, v, p) \/ GetObject(w, c, v, p)
    \/ \E v \in Wrappers, p \in 1..MaxLength \cup Keys : GetScalarObject(v, p)
    \/ \E w \in Wrappers, s \in Scalars : PutScalar(w, s)
    \/ \E v, w \in Wrappers : PutWrapper(w, v) \/ AppendAll(w, v)
    \/ \E w \in Wrappers : PutObject(w) \/ FromWrapper(w)
    \/ \E s \in Scalars : FromScalar(s)

Spec == CollectionsInit /\ [][Next]_collectionVars
=============================================================================
