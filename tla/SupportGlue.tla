---------------------------- MODULE SupportGlue ----------------------------
(***************************************************************************)
(* The generated JNI glue of the support library, support-lib/jni/Native*, *)
(* as tables.  A method of an interface that Java implements is called by  *)
(* a JavaProxy: its class looks the method up once, by name and signature, *)
(* and every call marshals the arguments, calls through the id and         *)
(* marshals the result.  A method of an interface that C++ implements is a *)
(* native method of the Java class CppProxy.                               *)
(*                                                                         *)
(* A row names the marshalling class of each argument and of the result;   *)
(* an interface is named without its prefix Javascript.                    *)
(***************************************************************************)
EXTENDS GlueTypes

\* Rows whose types are plain names.
Calls(interface, names, args, ret) ==
    Row(interface, names, [i \in DOMAIN args |-> Of(args[i])], Of(ret))

-----------------------------------------------------------------------------
(* The calls of a JavaProxy: T::fromCpp of each argument, T::toCpp.        *)

ArrayGetters ==
    LET R(names, ret) == Calls("Array", names, <<"I32">>, ret) IN
    UNION {Calls("Array", {"size"}, <<>>, "I32"), R({"isNull", "getBoolean"}, "Bool"),
           R({"getDouble"}, "F64"), R({"getInt"}, "I32"), R({"getString"}, "String"),
           R({"getArray"}, "Array"), R({"getMap"}, "Map"), R({"getObject"}, "Object"),
           R({"getType"}, "Type")}

ArrayPushers ==
    LET R(name, arg) == Calls("Array", {name}, <<arg>>, "Void") IN
    UNION {Calls("Array", {"pushNull"}, <<>>, "Void"), R("pushBoolean", "Bool"),
           R("pushDouble", "F64"), R("pushInt", "I32"), R("pushString", "String"),
           R("pushArray", "Array"), R("pushMap", "Map"), R("pushObject", "Object"),
           R("append", "Array")}

MapGetters ==
    LET R(names, ret) == Calls("Map", names, <<"String">>, ret) IN
    UNION {R({"hasKey", "isNull", "getBoolean"}, "Bool"), R({"getDouble"}, "F64"),
           R({"getInt"}, "I32"), R({"getString"}, "String"), R({"getArray"}, "Array"),
           R({"getMap"}, "Map"), R({"getObject"}, "Object"), R({"getType"}, "Type"),
           Calls("Map", {"keySetIterator"}, <<>>, "KeyIterator")}

\* Faulty variant: a number goes where its neighbour's belongs.
MapPutters_Swapped ==
    LET R(name, arg) == Calls("Map", {name}, <<"String", arg>>, "Void") IN
    UNION {Calls("Map", {"putNull"}, <<"String">>, "Void"), R("putBoolean", "Bool"),
           R("putDouble", "F64"), R("putInt", "F64"), R("putString", "String"),
           R("putArray", "Array"), R("putMap", "Map"), R("putObject", "Object"),
           Calls("Map", {"merge"}, <<"Map">>, "Void")}

MapPutters ==
    LET R(name, arg) == Calls("Map", {name}, <<"String", arg>>, "Void") IN
    UNION {Calls("Map", {"putNull"}, <<"String">>, "Void"), R("putBoolean", "Bool"),
           R("putDouble", "F64"), R("putInt", "I32"), R("putString", "String"),
           R("putArray", "Array"), R("putMap", "Map"), R("putObject", "Object"),
           Calls("Map", {"merge"}, <<"Map">>, "Void")}

KeyIteratorCalls ==
    Calls("KeyIterator", {"hasNextKey"}, <<>>, "Bool")
    \cup Calls("KeyIterator", {"nextKey"}, <<>>, "String")

\* invoke() takes a list of objects.
CallbackCalls ==
    Row("Callback", {"invoke"}, <<ListOf(Of("Object"))>>, Void)
    \cup Calls("Callback", {"invokeSingleArg"}, <<"Object">>, "Void")

PromiseCalls ==
    LET R(name, args) == Calls("Promise", {name}, args, "Void") IN
    UNION {R("resolveNull", <<>>), R("resolveBoolean", <<"Bool">>),
           R("resolveDouble", <<"F64">>), R("resolveInt", <<"I32">>),
           R("resolveString", <<"String">>), R("resolveArray", <<"Array">>),
           R("resolveMap", <<"Map">>), R("resolveObject", <<"Object">>),
           R("reject", <<"String", "String">>)}

DispatcherCalls == Calls("JobDispatcher", {"start", "quit"}, <<>>, "Void")

BridgeCalls ==
    LET R(name, args, ret) == Calls("Bridge", {name}, args, ret) IN
    UNION {R("createMap", <<>>, "Map"), R("createArray", <<>>, "Array"),
           R("copyMap", <<"Map">>, "Map"), R("copyArray", <<"Array">>, "Array"),
           R("emitEventWithMap", <<"String", "Map">>, "Void"),
           R("emitEventWithArray", <<"String", "Array">>, "Void"),
           R("createJobDispatcher", <<"JobQueue">>, "JobDispatcher")}

SupportCalls ==
    UNION {ArrayGetters, ArrayPushers, MapGetters, MapPutters, KeyIteratorCalls,
           CallbackCalls, PromiseCalls, DispatcherCalls, BridgeCalls}

-----------------------------------------------------------------------------
(* The native methods of a CppProxy: T::toCpp of each argument, T::fromCpp *)

ObjectNatives ==
    LET As(name, ret) == Calls("Object", {name}, <<>>, ret)
        From(name, arg) == Calls("Object", {name}, <<arg>>, "Object")
    IN  UNION {As("nativeDestroy", "Void"), As("getType", "Type"), As("isNull", "Bool"),
               As("asBoolean", "Bool"), As("asDouble", "F64"), As("asInt", "I32"), As("asString", "String"),
               As("asArray", "Array"), As("asMap", "Map"), As("fromNull", "Object"),
               From("fromBoolean", "Bool"), From("fromDouble", "F64"),
               From("fromInt", "I32"), From("fromString", "String"),
               From("fromArray", "Array"), From("fromMap", "Map")}

JobNatives == Calls("Job", {"run", "nativeDestroy"}, <<>>, "Void")

QueueNatives ==
    Calls("JobQueue", {"poll"}, <<>>, "Job")
    \cup Calls("JobQueue", {"interruptPoll", "nativeDestroy"}, <<>>, "Void")

SupportNatives == UNION {ObjectNatives, JobNatives, QueueNatives}

-----------------------------------------------------------------------------
(* The signatures that the classes look their methods up by.  A letter is  *)
(* a primitive type of Java, and a name one of its classes.                *)

ArrayLookups ==
    LET Get(names, ret) == Row("Array", names, <<"I">>, ret)
        Push(name, args) == Row("Array", {name}, args, "V")
    IN  UNION {Row("Array", {"size"}, <<>>, "I"), Get({"isNull", "getBoolean"}, "Z"),
               Get({"getDouble"}, "D"), Get({"getInt"}, "I"), Get({"getString"}, "String"),
               Get({"getArray"}, "Array"), Get({"getMap"}, "Map"),
               Get({"getObject"}, "Object"), Get({"getType"}, "Type"),
               Push("pushNull", <<>>), Push("pushBoolean", <<"Z">>),
               Push("pushDouble", <<"D">>), Push("pushInt", <<"I">>),
               Push("pushString", <<"String">>), Push("pushArray", <<"Array">>),
               Push("pushMap", <<"Map">>), Push("pushObject", <<"Object">>),
               Push("append", <<"Array">>)}

MapLookups ==
    LET Get(names, ret) == Row("Map", names, <<"String">>, ret)
        PutAs(name, code) == Row("Map", {name}, <<"String", code>>, "V")
    IN  UNION {Get({"hasKey", "isNull", "getBoolean"}, "Z"), Get({"getDouble"}, "D"),
               Get({"getInt"}, "I"), Get({"getString"}, "String"),
               Get({"getArray"}, "Array"), Get({"getMap"}, "Map"),
               Get({"getObject"}, "Object"), Get({"getType"}, "Type"),
               Row("Map", {"keySetIterator"}, <<>>, "KeyIterator"),
               Get({"putNull"}, "V"), PutAs("putBoolean", "Z"), PutAs("putDouble", "D"),
               PutAs("putInt", "I"), PutAs("putString", "String"),
               PutAs("putArray", "Array"), PutAs("putMap", "Map"),
               PutAs("putObject", "Object"), Row("Map", {"merge"}, <<"Map">>, "V")}

KeyIteratorLookups ==
    Row("KeyIterator", {"hasNextKey"}, <<>>, "Z")
    \cup Row("KeyIterator", {"nextKey"}, <<>>, "String")

CallbackLookups ==
    Row("Callback", {"invoke"}, <<"ArrayList">>, "V")
    \cup Row("Callback", {"invokeSingleArg"}, <<"Object">>, "V")

PromiseLookups ==
    LET R(name, args) == Row("Promise", {name}, args, "V") IN
    UNION {R("resolveNull", <<>>), R("resolveBoolean", <<"Z">>),
           R("resolveDouble", <<"D">>), R("resolveInt", <<"I">>),
           R("resolveString", <<"String">>), R("resolveArray", <<"Array">>),
           R("resolveMap", <<"Map">>), R("resolveObject", <<"Object">>),
           R("reject", <<"String", "String">>)}

DispatcherLookups == Row("JobDispatcher", {"start", "quit"}, <<>>, "V")

BridgeLookups ==
    LET R(name, args, ret) == Row("Bridge", {name}, args, ret) IN
    UNION {R("createMap", <<>>, "Map"), R("createArray", <<>>, "Array"),
           R("copyMap", <<"Map">>, "Map"), R("copyArray", <<"Array">>, "Array"),
           R("emitEventWithMap", <<"String", "Map">>, "V"),
           R("emitEventWithArray", <<"String", "Array">>, "V"),
           R("createJobDispatcher", <<"JobQueue">>, "JobDispatcher")}

SupportLookups ==
    UNION {ArrayLookups, MapLookups, KeyIteratorLookups, CallbackLookups,
           PromiseLookups, DispatcherLookups, BridgeLookups}
=============================================================================
