----------------------------- MODULE NativeGlue -----------------------------
(***************************************************************************)
(* The generated JNI glue at work: one call of a JavaProxy, of a native    *)
(* method, or of a record's toCpp(), one conversion after the other, and   *)
(* the local references that its frame holds.  The calls themselves are    *)
(* the tables of SupportGlue, TestGlue and TestRecords.                    *)
(***************************************************************************)
EXTENDS SupportGlue, TestGlue, TestRecords, FiniteSets, FiniteSetsExt

ProxyCalls == SupportCalls \cup TestCalls
NativeMethods == SupportNatives \cup TestNatives
Lookups == SupportLookups \cup TestLookups

\* A record's toCpp() reads its fields as another method reads its arguments.
RecordCalls ==
    UNION {Row(r.name, {"toCpp"}, r.fields, Of(r.name)) : r \in Records}
RecordNames == {r.name : r \in Records}
RecordOf(name) == CHOOSE r \in Records : r.name = name

\* The interfaces with a class CppProxy in Java, and those with a class JavaProxy in C++; some
\* have both, and some listeners neither.
CppImplemented == {m.interface : m \in NativeMethods}
JavaImplemented == {m.interface : m \in ProxyCalls} \cup EmptyProxies
NamedInterfaces == CppImplemented \cup JavaImplemented \cup
                   {"ObjcOnlyListener", "FirstListener", "SecondListener"}

-----------------------------------------------------------------------------
(* Local references that one conversion holds at most, with n elements in each container, from *)
(* those that the conversion of each part holds.                                              *)

\* LocalRef of fromCpp(); a primitive type has one only where it is Boxed.
Held(type) == IF type.name \in Primitives \cup {"Void"} THEN 0 ELSE 1
HeldOf(types, which) == Cardinality({i \in which : Held(types[i]) = 1})

Parts(type) ==
    IF type.name \in RecordNames THEN RecordOf(type.name).fields ELSE type.parts

\* The arguments of NewObject() stay until it has returned; C++ evaluates them in any order, so
\* any of them may be the last.
PeakOfFields(fields, peaks) ==
    LET all == HeldOf(fields, DOMAIN fields)
        references == {i \in DOMAIN fields : Held(fields[i]) = 1}
    IN  Max({1 + all} \cup {all - 1 + peaks[i] : i \in references})

\* Faulty variant: the elements of a list keep their references until the list is done.
PeakFromList_ElementsStay(peak, n) ==
    IF n = 0 THEN 1 ELSE 1 + n * peak

\* The list, and one element at a time: je goes at the end of each round.
PeakFromList(peak, n) == IF n = 0 THEN 1 ELSE 1 + peak

\* JniEnum::create() takes the value out of values(); JniFlags::create() does so with the set at
\* hand; the lookup of a CppProxy holds the proxy and its weak reference.
PeakFromParts(type, peaks, n) ==
    CASE type.name = "Optional" -> peaks[1]
      [] type.name \in {"ListOf", "SetOf"} -> PeakFromList(peaks[1], n)
      [] type.name = "MapOf" -> IF n = 0 THEN 1 ELSE 1 + Max({peaks[1], 1 + peaks[2]})
      [] type.name \in Enums -> 2
      [] type.name \in FlagSets -> IF n = 0 THEN 1 ELSE 3
      [] type.name \in RecordNames -> PeakOfFields(Parts(type), peaks)
      [] type.name \in CppImplemented -> 2
      [] OTHER -> 1

\* What _fromJava() leaves, which asks an object for its class and never deletes the answer, and
\* the most.  The elements come from an iterator, in a map from that of its entry set, and with
\* an entry come its key and value.
TakenFromParts(type, part, n) ==
    LET takes(left, peak) == [left |-> left, peak |-> peak]
        over(own, each) ==
            takes(n * part.left,
                  IF n = 0 THEN own ELSE own + (n - 1) * part.left + each + part.peak)
    IN  CASE type.name = "Optional" -> part
          [] type.name = "ListOf" -> over(0, 1)
          [] type.name = "SetOf" -> over(1, 1)
          [] type.name = "MapOf" -> over(2, 3)
          [] type.name \in FlagSets -> takes(0, IF n = 0 THEN 1 ELSE 2)
          [] type.name \in CppImplemented -> takes(1, 1)
          [] OTHER -> takes(0, 0)

\* A record of a list of maps is as deep as the interfaces go.  A record that is taken has a
\* frame of its own.
Deeper == CHOOSE x : x \notin Nat

PeakFrom1(type, n) == PeakFromParts(type, Deeper, n)
PeakFrom2(type, n) ==
    PeakFromParts(type, [i \in DOMAIN Parts(type) |-> PeakFrom1(Parts(type)[i], n)], n)
PeakFrom3(type, n) ==
    PeakFromParts(type, [i \in DOMAIN Parts(type) |-> PeakFrom2(Parts(type)[i], n)], n)
PeakFrom(type, n) ==
    PeakFromParts(type, [i \in DOMAIN Parts(type) |-> PeakFrom3(Parts(type)[i], n)], n)

Content(type) == type.parts[Len(type.parts)]
Taken1(type, n) == TakenFromParts(type, Deeper, n)
Taken2(type, n) == TakenFromParts(type, Taken1(Content(type), n), n)
Taken(type, n) == TakenFromParts(type, Taken2(Content(type), n), n)

-----------------------------------------------------------------------------

CONSTANT
    Sizes         \* bound: how many elements the containers may have

ASSUME SizesAssumption == Sizes \subseteq Nat

VARIABLES
    frame,        \* whose it is: a JavaProxy's, a native method's, or of a record's toCpp()
    call,         \* the method
    elements,     \* in each container that it passes
    done,         \* the arguments that have been converted
    returned,     \* whether the result has been
    localRefs,    \* local references in the frame
    most          \* the most there were

glueVars == <<frame, call, elements, done, returned, localRefs, most>>

\* JniLocalScope jscope(jniEnv, 10) in a JavaProxy, and one for each field and the record in a
\* toCpp(); a native method has the frame that the VM gives it.
Capacity ==
    CASE frame = "JavaProxy" -> 10
      [] frame = "native" -> 16
      [] frame = "toCpp" -> RecordOf(call.interface).scope

Arguments == DOMAIN call.args

\* The frame of a native method starts with `this', or the class, and its arguments.
GlueInit ==
    /\ \/ frame = "JavaProxy" /\ call \in ProxyCalls
       \/ frame = "native" /\ call \in NativeMethods
       \/ frame = "toCpp" /\ call \in RecordCalls
    /\ elements \in Sizes
    /\ done = {} /\ returned = FALSE
    /\ localRefs = IF frame = "native" THEN 1 + HeldOf(call.args, Arguments) ELSE 0
    /\ most = localRefs

Refer(after, peak) ==
    /\ localRefs' = after
    /\ most' = Max({most, peak})

\* With a reference to what it gives, unless that is primitive.
Given(type) == IF Held(type) = 0 THEN 0 ELSE PeakFrom(type, elements)

\* get(T::fromCpp(jniEnv, c_x)); C++ evaluates arguments in any order.
PassArgument ==
    /\ frame = "JavaProxy"
    /\ \E i \in Arguments \ done :
        /\ done' = done \cup {i}
        /\ Refer(localRefs + Held(call.args[i]), localRefs + Given(call.args[i]))
    /\ UNCHANGED <<frame, call, elements, returned>>

\* T::toCpp(jniEnv, j_x)
TakeArgument ==
    /\ frame = "native"
    /\ \E i \in Arguments \ done :
        /\ done' = done \cup {i}
        /\ LET taken == Taken(call.args[i], elements) IN
           Refer(localRefs + taken.left, localRefs + taken.peak)
    /\ UNCHANGED <<frame, call, elements, returned>>

\* T::toCpp(jniEnv, jniEnv->GetObjectField(j, ...)), in the order of the braces.
TakeField ==
    /\ frame = "toCpp"
    /\ \E i \in Arguments \ done :
        /\ \A k \in 1..(i - 1) : k \in done
        /\ done' = done \cup {i}
        /\ LET taken == Taken(call.args[i], elements)
               field == localRefs + Held(call.args[i])
           IN  Refer(field + taken.left, field + taken.peak)
    /\ UNCHANGED <<frame, call, elements, returned>>

\* The references of the arguments go when the call of Java has returned; its result stays.
TakeResult ==
    /\ frame = "JavaProxy" /\ done = Arguments /\ ~ returned
    /\ returned' = TRUE
    /\ LET taken == Taken(call.ret, elements)
           result == Held(call.ret)
       IN  Refer(result + taken.left, Max({localRefs + result, result + taken.peak}))
    /\ UNCHANGED <<frame, call, elements, done>>

\* return release(T::fromCpp(jniEnv, r)): the VM takes the reference over.
GiveResult ==
    /\ frame = "native" /\ done = Arguments /\ ~ returned
    /\ returned' = TRUE
    /\ Refer(localRefs + Held(call.ret), localRefs + Given(call.ret))
    /\ UNCHANGED <<frame, call, elements, done>>

\* ~JniLocalScope(): PopLocalFrame.
PopFrame ==
    /\ frame = "toCpp" /\ done = Arguments /\ ~ returned
    /\ returned' = TRUE
    /\ Refer(0, localRefs)
    /\ UNCHANGED <<frame, call, elements, done>>

GlueNext ==
    PassArgument \/ TakeArgument \/ TakeField \/ TakeResult \/ GiveResult \/ PopFrame

GlueSpec == GlueInit /\ [][GlueNext]_glueVars

-----------------------------------------------------------------------------

\* A JavaProxy passes through a method id exactly what the signature under which its class has
\* looked it up says, and a record to its constructor and fields; variadic calls of JNI check
\* nothing.
SignaturesAgree ==
    LET codes == [i \in Arguments |-> CodeOf(call.args[i])] IN
    /\ frame = "JavaProxy" =>
        [call EXCEPT !.args = codes, !.ret = CodeOf(call.ret)] \in Lookups
    /\ frame = "toCpp" => Lookup(call.interface, codes) \in RecordLookups

Containing(type) ==
    LET is(t) == t.name \in {"ListOf", "SetOf", "MapOf"} \cup FlagSets IN
    is(type) \/ (type.name = "Optional" /\ is(type.parts[1]))

\* A container of objects that C++ may have implemented, on its way to C++.
LeavesOneEach ==
    LET taken == IF frame = "JavaProxy" THEN {call.ret}
                 ELSE {call.args[i] : i \in Arguments}
    IN  \E t \in taken : Containing(t) /\ Taken(t, 1).left > 0

\* No call needs more local references than its frame has been given room for, however large
\* the containers are that it passes.  Two exceptions are in the code: a container of objects
\* that C++ may have implemented leaves one in the frame for each of its elements
\* (djinni_support.hpp:404), and JniLocalScope counts the fields of a record but not what it
\* takes to walk through a container in one (Marshal.hpp:500-513).
FrameFits ==
    \/ most <= Capacity
    \/ LeavesOneEach /\ most <= Capacity + elements
    \/ /\ frame = "toCpp" /\ most <= Capacity + 5
       /\ \E i \in Arguments : Containing(call.args[i])
=============================================================================
