-------------------------- MODULE JavaCollections --------------------------
(***************************************************************************)
(* support-lib/java/.../JavascriptArrayImpl.java, JavascriptMapImpl.java   *)
(* and ReactDjinni.java.  A wrapper of a container that C++ code created   *)
(* has it on both sides; a wrapper of what came from React Native has no   *)
(* writable side, so its setters throw and it unwraps to null.             *)
(*                                                                         *)
(* React Native consumes a writable container when it is put into another  *)
(* one or sent: to use it once more throws.  Calls that throw change       *)
(* nothing and are left out.                                               *)
(***************************************************************************)
EXTENDS Collections

VARIABLE
    arrived     \* history: the last thing C++ sent to JavaScript, [sent, got], or None

vars == <<collectionVars, arrived>>

Init ==
    /\ CollectionsInit
    /\ arrived = None

\* React Native consumed the container of w: every call on it throws.
Usable(w) == InUse(w) /\ writable[w] \notin frozen

\* wrap(): the readable side only.
Wrap(w, c) ==
    /\ NewWrapper(w, c, None)
    /\ UNCHANGED <<kind, content>>

\* createArray() and createMap().
Create(w, c, k) ==
    /\ NewContainer(c, k, <<>>)
    /\ NewWrapper(w, c, c)
    /\ UNCHANGED <<frozen, argument, object, arrived, writes>>

\* Faulty variant: the copy is a second wrapper of the same container.
Copy_Shares(w, c, v) ==
    /\ Usable(v)
    /\ NewWrapper(w, readable[v], writable[v])
    /\ UNCHANGED <<kind, content, frozen, argument, object, arrived, writes>>

\* createArray(array) and createMap(map): an empty one that the other is added to.
Copy(w, c, v) ==
    /\ Usable(v)
    /\ NewContainer(c, kind[readable[v]], Elements(v))
    /\ NewWrapper(w, c, c)
    /\ UNCHANGED <<frozen, argument, object, arrived, writes>>

\* JavaScript calls a method of the module with an array or a map.
Receive(w, c) ==
    /\ Wrap(w, c)
    /\ argument' = argument \cup {w}
    /\ UNCHANGED <<frozen, object, arrived, writes>>

\* getArray() and getMap().
Get(w, v, p) ==
    /\ Usable(v)
    /\ p \in DOMAIN Elements(v)
    /\ Elements(v)[p] \in Containers
    /\ Wrap(w, Elements(v)[p])
    /\ UNCHANGED <<frozen, argument, object, arrived, writes>>

-----------------------------------------------------------------------------
(* JavascriptObject *)

\* fromBoolean() and the like, and fromArray() or fromMap() of a wrapper.
FromScalar(s) ==
    /\ object' = [type |-> TypeOf(s), payload |-> None, from |-> None]
    /\ UNCHANGED <<kind, content, readable, writable, frozen, argument, arrived, writes>>

FromWrapper(w) ==
    /\ Usable(w)
    /\ object' = [type |-> TypeOf(readable[w]), payload |-> w, from |-> None]
    /\ UNCHANGED <<kind, content, readable, writable, frozen, argument, arrived, writes>>

\* getObject() by way of wrap(Dynamic): the type is the element's, and an array or a map
\* gets a wrapper of its own.
GetObject(w, v, p) ==
    LET e == Elements(v)[p] IN
    /\ Usable(v)
    /\ p \in DOMAIN Elements(v)
    /\ object' = [type |-> TypeOf(e), payload |-> IF e \in Containers THEN w ELSE None,
                  from |-> e]
    /\ \/ e \in Containers /\ Wrap(w, e)
       \/ e \in Scalars /\ UNCHANGED <<kind, content, readable, writable>>
    /\ UNCHANGED <<frozen, argument, arrived, writes>>

-----------------------------------------------------------------------------
(* Setters.  The guard of each is that React Native takes the writable side. *)

\* Faulty variant: a Java null ends up in a container.
Unwrap_Raw(w) == writable[w]

\* unwrap(): the writable side, or null if there is none, which React Native takes for
\* JavaScript's null.
Unwrap(w) == IF writable[w] = None THEN "null" ELSE writable[w]

UnwrapObject(o) ==
    IF o.type \in {"ARRAY", "MAP"} THEN Unwrap(o.payload) ELSE ScalarOf(o.type)

Accepts(w) == Usable(w) /\ writable[w] # None

\* React Native takes v, and consumes it if it is a container.
Hand(v) ==
    /\ v \notin frozen
    /\ frozen' = frozen \cup ({v} \cap Containers)

Put(w, v) ==
    LET x == writable[w] IN
    /\ Accepts(w)
    /\ v # x
    /\ Hand(v)
    /\ \E p \in Positions(x) : content' = Write(x, p, v)
    /\ WithinBounds(content')
    /\ UNCHANGED <<kind, readable, writable, argument, object, arrived>>

\* pushNull() ... pushString(), putNull() ... putString().
PutScalar(w, s) == Put(w, s)

\* pushArray(), pushMap(), putArray() and putMap().
PutWrapper(w, v) == Usable(v) /\ Put(w, Unwrap(v))

\* pushObject() and putObject().
PutObject(w) == object # None /\ Put(w, UnwrapObject(object))

\* append(): copies the elements, or does nothing if there is no writable side; merge():
\* does the same or throws.  An array that is appended to itself grows as it is read
\* and the call never returns.  What is inside a container is consumed, so that it makes
\* no difference whether it is copied.
AppendAll(w, v) ==
    /\ Accepts(w)
    /\ Usable(v)
    /\ v # w
    /\ kind[readable[v]] = kind[writable[w]]
    /\ content' = Added(writable[w], readable[v])
    /\ WithinBounds(content')
    /\ UNCHANGED <<kind, readable, writable, frozen, argument, object, arrived>>

-----------------------------------------------------------------------------
(* Callbacks, promises and events *)

\* resolveArray(), resolveMap(), emitEventWithArray() and emitEventWithMap().
Send(w) ==
    /\ Usable(w)
    /\ Hand(Unwrap(w))
    /\ arrived' = [sent |-> readable[w], got |-> Unwrap(w)]
    /\ UNCHANGED <<kind, content, readable, writable, argument, object, writes>>

\* resolveObject() and invoke() unwrap the object at hand.
SendObject ==
    LET o == object IN
    /\ o # None
    /\ Hand(UnwrapObject(o))
    /\ arrived' = [sent |-> IF o.payload = None THEN ScalarOf(o.type)
                                               ELSE readable[o.payload],
                   got |-> UnwrapObject(o)]
    /\ UNCHANGED <<kind, content, readable, writable, argument, object, writes>>

Next ==
    \/ \E w \in Wrappers, c \in Containers, k \in {"array", "map"} : Create(w, c, k)
    \/ \E v, w \in Wrappers, c \in Containers : Copy(w, c, v)
    \/ \E w \in Wrappers, c \in {JsArray, JsMap} : Receive(w, c)
    \/ \E v, w \in Wrappers, p \in 1..MaxLength \cup Keys :
          Get(w, v, p) \/ GetObject(w, v, p)
    \/ \E w \in Wrappers, s \in Scalars : PutScalar(w, s)
    \/ \E v, w \in Wrappers : PutWrapper(w, v) \/ AppendAll(w, v)
    \/ \E w \in Wrappers : PutObject(w) \/ FromWrapper(w) \/ Send(w)
    \/ \E s \in Scalars : FromScalar(s)
    \/ SendObject

Spec == Init /\ [][Next]_vars

-----------------------------------------------------------------------------
\* Callbacks, promises and events "pass data from the module to Javascript layer"
\* (README.md:26): an array or map that was sent is what arrives.
ArrivesAsSent ==
    arrived # None => arrived.got = arrived.sent
=============================================================================
