------------------------------ MODULE Marshal ------------------------------
(***************************************************************************)
(* How a container crosses the border: support-lib/jni/Marshal.hpp and     *)
(* support-lib/objc/DJIMarshal+Private.h, and JniFlags of                  *)
(* djinni_support.cpp.  A conversion to C++ asks for the size, takes an    *)
(* iterator if there is one, and converts one element after the other; the *)
(* source belongs to the application, which may change it meanwhile.  A    *)
(* conversion from C++ builds a new container from one that stays as it    *)
(* is.                                                                     *)
(*                                                                         *)
(* A container is a sequence in the order of iteration, of elements that   *)
(* are pairs <<key, value>>; in a list, a set and a set of flags the key   *)
(* is "-".  Keys are strings, so are values unless the value type is       *)
(* "number".                                                               *)
(***************************************************************************)
EXTENDS Naturals, Sequences, FiniteSets

CONSTANTS
    Texts,        \* the strings
    BadTexts,     \* those that are no text of their encoding: unpaired surrogates, broken UTF-8
    Mended,       \* what the decoders of JNI make of those, with U+FFFD for what is none
    MaxSize,      \* bound: elements of a source at the start
    MaxChanges    \* bound: what the application does to it during the conversion

VARIABLES
    trip,         \* which conversion it is
    source,       \* what is converted
    changes,      \* how often it has been changed since its size was asked for
    size,         \* the answer of size(), once asked
    walk,         \* what the iterator goes through, and when it was made
    at,           \* elements done
    arrived,      \* the new container, in the order in which its elements were added
    refs,         \* local references that the conversion holds
    leaked,       \* local references that nobody deletes before the frame ends
    phase         \* where the conversion is

marshalVars == <<trip, source, changes, size, walk, at, arrived, refs, leaked, phase>>

Kinds == {"list", "set", "map", "flags"}
Phases == {"start", "sized", "loop", "returned", "threw", "raised", "aborted", "undefined"}
Ended == Phases \ {"start", "sized", "loop"}

Absent == "null"

ASSUME MarshalAssumption ==
    /\ "" \in Texts \ BadTexts /\ Absent \notin Texts
    /\ BadTexts \subseteq Texts
    /\ Mended \in [BadTexts -> Texts \ BadTexts]

Trips ==
    {t \in [side : {"jni", "objc"}, to : {"cpp", "platform"}, kind : Kinds,
            value : {"text", "number", "optional"}, asserts : BOOLEAN] :
        /\ t.kind = "flags" => t.side = "jni" /\ t.value = "number"
        /\ t.kind = "set" => t.value # "optional"}

-----------------------------------------------------------------------------
(* One value.  The outcome is what it becomes or how the conversion ends.  *)

Fine(v) == [ok |-> TRUE, value |-> v]
Fails(how) == [ok |-> FALSE, value |-> how]

\* String: jniUTF8FromString() checks for null itself, and what is no text becomes U+FFFD; in
\* Objective-C, nil and what has no UTF-8 have no bytes.
TextToCpp(t, v) ==
    IF t.side = "jni"
    THEN IF v = Absent THEN IF t.asserts THEN Fails("aborted") ELSE Fails("threw")
                       ELSE Fine(IF v \in BadTexts THEN Mended[v] ELSE v)
    ELSE IF v = Absent /\ t.asserts THEN Fails("aborted")
                       ELSE Fine(IF v \in BadTexts \cup {Absent} THEN "" ELSE v)

\* initWithBytes: answers nil for what is no UTF-8.
TextFromCpp(t, v) ==
    CASE v \notin BadTexts -> Fine(v)
      [] v \in BadTexts /\ t.side = "jni" -> Fine(Mended[v])
      [] v \in BadTexts /\ t.side = "objc" -> Fine(Absent)

\* Primitive::Boxed: calling a method of null through JNI is undefined; a message to nil is 0.
NumberToCpp(t, v) ==
    CASE v # Absent -> Fine(v)
      [] v = Absent /\ t.asserts -> Fails("aborted")
      [] v = Absent /\ ~ t.asserts /\ t.side = "jni" -> Fails("undefined")
      [] v = Absent /\ ~ t.asserts /\ t.side = "objc" -> Fine("0")

\* JniEnum::ordinal() asserts with DJINNI_ASSERT, which throws in every build.
OrdinalToCpp(v) == IF v = Absent THEN Fails("threw") ELSE Fine(v)

\* Faulty variant: Optional does not look for null.
OptionalToCpp_Unchecked(t, v) == TextToCpp(t, v)

OptionalToCpp(t, v) == IF v = Absent THEN Fine(Absent) ELSE TextToCpp(t, v)
OptionalFromCpp(t, v) == IF v = Absent THEN Fine(Absent) ELSE TextFromCpp(t, v)

ValueToCpp(t, v) ==
    CASE t.kind = "flags" -> OrdinalToCpp(v)
      [] t.kind # "flags" /\ t.value = "number" -> NumberToCpp(t, v)
      [] t.value = "text" -> TextToCpp(t, v)
      [] t.value = "optional" -> OptionalToCpp(t, v)

ValueFromCpp(t, v) ==
    CASE t.value = "number" -> Fine(v)
      [] t.value = "text" -> TextFromCpp(t, v)
      [] t.value = "optional" -> OptionalFromCpp(t, v)

KeyToCpp(t, k) == IF t.kind = "map" THEN TextToCpp(t, k) ELSE Fine(k)
KeyFromCpp(t, k) == IF t.kind = "map" THEN TextFromCpp(t, k) ELSE Fine(k)

-----------------------------------------------------------------------------
(* Sources *)

Values(t) ==
    LET given == IF t.value = "number" THEN {"1", "2"} ELSE Texts
        null == CASE t.to = "cpp" -> t.side = "jni" /\ t.kind # "flags"
                  [] OTHER -> t.value = "optional"
    IN  IF null THEN given \cup {Absent} ELSE given

Keys(t) ==
    CASE t.kind # "map" -> {"-"}
      [] t.kind = "map" /\ t.to = "cpp" /\ t.side = "jni" -> Texts \cup {Absent}
      [] OTHER -> Texts

Elements(t) == Keys(t) \X Values(t)

\* What holds an element at most once, and a key.
Unique(t, s) ==
    \A i, j \in DOMAIN s :
        i # j => CASE t.kind = "list" -> TRUE
                   [] t.kind = "map" -> s[i][1] # s[j][1]
                   [] OTHER -> s[i] # s[j]

Containers(t) ==
    {s \in UNION {[1..n -> Elements(t)] : n \in 0..MaxSize} : Unique(t, s)}

NoWalk == [whole |-> <<>>, made |-> 0]

MarshalInit ==
    /\ trip \in Trips
    /\ source \in Containers(trip)
    /\ changes = 0 /\ size = 0 /\ walk = NoWalk /\ at = 0
    /\ arrived = <<>> /\ refs = 0 /\ leaked = 0
    /\ phase = "start"

\* The application, on another thread: what the iterators of HashMap and HashSet call a
\* structural change, and Foundation a mutation.  One before the size is asked for makes no
\* difference.
Change ==
    /\ trip.to = "cpp" /\ phase \in {"sized", "loop"}
    /\ changes < MaxChanges
    /\ changes' = changes + 1
    /\ \/ \E e \in Elements(trip) : source' = Append(source, e) /\ Unique(trip, source')
       \/ \E i \in DOMAIN source :
            source' = SubSeq(source, 1, i - 1) \o SubSeq(source, i + 1, Len(source))
    /\ UNCHANGED <<trip, size, walk, at, arrived, refs, leaked, phase>>

-----------------------------------------------------------------------------
(* The new container *)

Replaced(c, key, value) ==
    [i \in DOMAIN c |-> IF c[i][1] = key THEN <<key, value>> ELSE c[i]]

\* push_back(), insert() and add(); emplace() keeps what the key has, put() and setObject
\* replace it.
Added(t, c, key, value) ==
    LET known == \E i \in DOMAIN c : c[i][1] = key
        there == \E i \in DOMAIN c : c[i] = <<key, value>>
    IN  CASE t.kind = "map" /\ known ->
                IF t.to = "cpp" THEN c ELSE Replaced(c, key, value)
          [] t.kind \in {"set", "flags"} /\ there -> c
          [] OTHER -> Append(c, <<key, value>>)

-----------------------------------------------------------------------------
(* To C++ *)

Iterated(t) == t.side = "objc" \/ t.kind # "list"

\* assert(j); size(); jniExceptionCheck().  Fast enumeration has no size to ask for.
AskSize ==
    /\ phase = "start" /\ trip.to = "cpp"
    /\ size' = Len(source)
    /\ phase' = "sized"
    /\ UNCHANGED <<trip, source, changes, walk, at, arrived, refs, leaked>>

\* iterator(), for a map the iterator of entrySet(): local references to the end.
MakeIterator ==
    /\ phase = "sized"
    /\ walk' = IF Iterated(trip) THEN [whole |-> source, made |-> changes] ELSE NoWalk
    /\ refs' = IF trip.side = "jni" /\ Iterated(trip)
               THEN refs + (IF trip.kind = "map" THEN 2 ELSE 1) ELSE refs
    /\ phase' = "loop"
    /\ UNCHANGED <<trip, source, changes, size, at, arrived, leaked>>

Exhausted == at = IF trip.side = "jni" THEN size ELSE Len(walk.whole)

\* What get(i), next() or the enumeration gives.
Element ==
    CASE ~ Iterated(trip) -> IF at < Len(source) THEN Fine(source[at + 1]) ELSE Fails("threw")
      [] trip.side = "jni" /\ trip.kind \in {"set", "map"} /\ walk.made # changes ->
            Fails("threw")
      [] trip.side = "objc" /\ walk.made # changes -> Fails("raised")
      [] OTHER -> IF at < Len(walk.whole) THEN Fine(walk.whole[at + 1]) ELSE Fails("threw")

\* Faulty variant: what an exception passes is not cleaned up.
Stop_Keeps(how) ==
    /\ phase' = how
    /\ refs' = IF how = "returned" THEN 0 ELSE refs
    /\ UNCHANGED <<trip, source, changes, size, walk, at, arrived, leaked>>

\* The end of a loop that does not go on: LocalRefs go out of scope.
Stop(how) ==
    /\ phase' = how
    /\ refs' = 0
    /\ UNCHANGED <<trip, source, changes, size, walk, at, arrived, leaked>>

Take ==
    /\ phase = "loop" /\ trip.to = "cpp" /\ ~ Exhausted
    /\ LET got == Element
           key == KeyToCpp(trip, got.value[1])
           value == ValueToCpp(trip, got.value[2])
       IN  \/ ~ got.ok /\ Stop(got.value)
           \/ got.ok /\ ~ key.ok /\ Stop(key.value)         \* emplace() takes both, in either order
           \/ got.ok /\ ~ value.ok /\ Stop(value.value)
           \/ /\ got.ok /\ key.ok /\ value.ok
              /\ arrived' = Added(trip, arrived, key.value, value.value)
              /\ at' = at + 1
              /\ UNCHANGED <<trip, source, changes, size, walk, refs, leaked, phase>>

ReturnCpp == phase = "loop" /\ trip.to = "cpp" /\ Exhausted /\ Stop("returned")

-----------------------------------------------------------------------------
(* From C++ *)

\* The constructor; flags start from noneOf().
Construct ==
    /\ phase = "start" /\ trip.to = "platform"
    /\ refs' = IF trip.side = "jni" THEN 1 ELSE 0
    /\ phase' = "loop"
    /\ UNCHANGED <<trip, source, changes, size, walk, at, arrived, leaked>>

\* put() answers the value that the key had, a local reference that the code does not look at.
Replaces(key) ==
    trip.side = "jni" /\ trip.kind = "map"
    /\ \E i \in DOMAIN arrived : arrived[i][1] = key /\ arrived[i][2] # Absent

\* The containers of Foundation do not take nil.
Refuses(key, value) == trip.side = "objc" /\ Absent \in {key, value}

\* Faulty variant: what cannot be added is left out.
Give_Skips ==
    /\ phase = "loop" /\ trip.to = "platform" /\ at < Len(source)
    /\ LET key == KeyFromCpp(trip, source[at + 1][1]).value
           value == ValueFromCpp(trip, source[at + 1][2]).value
       IN  /\ arrived' = IF Refuses(key, value) THEN arrived
                         ELSE Added(trip, arrived, key, value)
           /\ at' = at + 1
           /\ leaked' = IF Replaces(key) THEN leaked + 1 ELSE leaked
           /\ UNCHANGED <<trip, source, changes, size, walk, refs, phase>>

Give ==
    /\ phase = "loop" /\ trip.to = "platform" /\ at < Len(source)
    /\ LET key == KeyFromCpp(trip, source[at + 1][1]).value
           value == ValueFromCpp(trip, source[at + 1][2]).value
       IN  \/ Refuses(key, value) /\ Stop("raised")
           \/ /\ ~ Refuses(key, value)
              /\ arrived' = Added(trip, arrived, key, value)
              /\ at' = at + 1
              /\ leaked' = IF Replaces(key) THEN leaked + 1 ELSE leaked
              /\ UNCHANGED <<trip, source, changes, size, walk, refs, phase>>

\* The LocalRef of the result goes to the caller.
ReturnPlatform ==
    /\ phase = "loop" /\ trip.to = "platform" /\ at = Len(source)
    /\ phase' = "returned"
    /\ UNCHANGED <<trip, source, changes, size, walk, at, arrived, refs, leaked>>

MarshalNext ==
    \/ Change \/ AskSize \/ MakeIterator \/ Take \/ ReturnCpp
    \/ Construct \/ Give \/ ReturnPlatform

MarshalSpec == MarshalInit /\ [][MarshalNext]_marshalVars

-----------------------------------------------------------------------------

\* What the loop goes through: what the iterator was made of, or the source itself.
Walked == IF trip.to = "cpp" /\ Iterated(trip) THEN walk.whole ELSE source

\* It goes through one and the same container; in JNI, a list is asked again for each element.
Settled == changes = 0 \/ (trip.to = "cpp" /\ Iterated(trip))

Converted(e) ==
    IF trip.to = "cpp" THEN <<KeyToCpp(trip, e[1]), ValueToCpp(trip, e[2])>>
                       ELSE <<KeyFromCpp(trip, e[1]), ValueFromCpp(trip, e[2])>>

\* Two keys of a map, or two elements of a set, that became one.
Collide ==
    \E i, j \in 1..at :
        /\ i # j /\ trip.kind # "list"
        /\ IF trip.kind = "map" THEN Converted(Walked[i])[1] = Converted(Walked[j])[1]
                                ELSE Converted(Walked[i]) = Converted(Walked[j])

\* A conversion that returns has the whole container as it was at one moment: as many elements,
\* in the order of the source, each converted (the loops of Marshal.hpp:350-385, 412-449,
\* 486-533, and of DJIMarshal+Private.h:252-343), also if the application changes it meanwhile.
\* Two exceptions lose elements in silence: a Java set or map that grows between size() and
\* iterator(), of which only so many arrive; and texts that are none, which become equal to
\* another text, by their replacement in JNI and by becoming empty on the way from Objective-C
\* to C++ (DJIMarshal+Private.h:120, 301, 334).
QuietMeansWhole ==
    phase = "returned" /\ Settled =>
        /\ \/ at = Len(Walked)
           \/ at < Len(Walked) /\ at = size /\ trip.side = "jni" /\ walk.made > 0
        /\ IF Collide
           THEN /\ Len(arrived) < at /\ (trip.side = "jni" \/ trip.to = "cpp")
                /\ \E i \in 1..at, p \in 1..2 : Walked[i][p] \in BadTexts
           ELSE /\ Len(arrived) = at
                /\ \A i \in 1..at :
                    Converted(Walked[i]) = <<Fine(arrived[i][1]), Fine(arrived[i][2])>>

\* A conversion fails only because the application changes the container, which is then noticed
\* and no danger to the process, or for the element that it is at: a null whose type is not
\* optional, and in Objective-C what Foundation's containers cannot hold.  The process is in
\* danger only for a null number, or where asserts are compiled in (Marshal.hpp:42, 167;
\* DJIMarshal+Private.h:280).
FailsForAReason ==
    phase \in {"threw", "raised", "aborted", "undefined"} =>
        \/ /\ changes > 0 /\ trip.to = "cpp"
           /\ phase = IF trip.side = "jni" THEN "threw" ELSE "raised"
        \/ /\ at < Len(Walked)
           /\ \E p \in 1..2 :
                IF trip.to = "cpp"
                THEN /\ trip.side = "jni" /\ Walked[at + 1][p] = Absent
                     /\ p = 2 => trip.value # "optional"
                     /\ phase = "undefined" => p = 2 /\ trip.value = "number" /\ ~ trip.asserts
                     /\ phase = "aborted" => trip.asserts
                ELSE /\ trip.side = "objc" /\ Walked[at + 1][p] \in BadTexts \cup {Absent}
                     /\ phase = "raised"

\* However it ends, the conversion leaves no local reference behind but its result; a map is
\* the exception when two keys become one, which only texts that are none can do
\* (Marshal.hpp:529: what put() answers is dropped).
NothingLeftBehind ==
    /\ phase \in Ended =>
        refs = IF trip.to = "platform" /\ trip.side = "jni" /\ phase = "returned" THEN 1 ELSE 0
    /\ leaked > 0 => Collide
=============================================================================
