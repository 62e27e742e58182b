------------------------------ MODULE TestGlue ------------------------------
(* The generated JNI glue of the test suite's interfaces, test-suite/generated-src/jni, in  *)
(* the tables of SupportGlue.tla.  The names of methods are those that Java uses.           *)
EXTENDS GlueTypes

-----------------------------------------------------------------------------
(* Native methods *)

HelpersNatives ==
    LET R(name, args, ret) == Row("TestHelpers", {name}, args, ret) IN
    UNION {R("nativeDestroy", <<>>, Void),
           R("getSetRecord", <<>>, Of("SetRecord")),
           R("checkSetRecord", <<Of("SetRecord")>>, Bool),
           R("getPrimitiveList", <<>>, Of("PrimitiveList")),
           R("checkPrimitiveList", <<Of("PrimitiveList")>>, Bool),
           R("getNestedCollection", <<>>, Of("NestedCollection")),
           R("checkNestedCollection", <<Of("NestedCollection")>>, Bool),
           R("getMap", <<>>, MapOf(String, I64)),
           R("checkMap", <<MapOf(String, I64)>>, Bool),
           R("getEmptyMap", <<>>, MapOf(String, I64)),
           R("checkEmptyMap", <<MapOf(String, I64)>>, Bool),
           R("getMapListRecord", <<>>, Of("MapListRecord")),
           R("checkMapListRecord", <<Of("MapListRecord")>>, Bool)}

HelpersNatives2 ==
    LET R(name, args, ret) == Row("TestHelpers", {name}, args, ret) IN
    UNION {R("checkClientInterfaceAscii", <<Of("ClientInterface")>>, Void),
           R("checkClientInterfaceNonascii", <<Of("ClientInterface")>>, Void),
           R("checkClientInterfaceArgs", <<Of("ClientInterface")>>, Void),
           R("checkEnumMap", <<MapOf(Of("Color"), String)>>, Void),
           R("checkEnum", <<Of("Color")>>, Void),
           R("tokenId", <<Of("UserToken")>>, Of("UserToken")),
           R("createCppToken", <<>>, Of("UserToken")),
           R("checkCppToken", <<Of("UserToken")>>, Void),
           R("cppTokenId", <<Of("UserToken")>>, I64),
           R("checkTokenType", <<Of("UserToken"), String>>, Void),
           R("returnNone", <<>>, Opt(I32)),
           R("assortedPrimitivesId", <<Of("AssortedPrimitives")>>, Of("AssortedPrimitives")),
           R("idBinary", <<Binary>>, Binary)}

\* One class for each unit of time; their periods do not show here.
DurationTexts ==
    Row("TestDuration", {"hoursString", "minutesString", "secondsString", "millisString",
                         "microsString", "nanosString"}, <<Duration(I32)>>, String)
    \cup Row("TestDuration", {"nativeDestroy"}, <<>>, Void)

DurationNatives ==
    UNION {Row("TestDuration", {"hours", "minutes", "seconds", "millis", "micros", "nanos"},
               <<I32>>, Duration(I32)),
           Row("TestDuration", {"hoursf", "minutesf", "secondsf", "millisf", "microsf", "nanosf"},
               <<F64>>, Duration(F64)),
           Row("TestDuration", {"box"}, <<I64>>, Opt(Duration(I64))),
           Row("TestDuration", {"unbox"}, <<Opt(Duration(I64))>>, I64)}

\* The same methods go both ways.
ColorMethods ==
    LET Same(name, type) == Row("EnumUsageInterface", {name}, <<type>>, type) IN
    UNION {Same("e", Of("Color")), Same("o", Opt(Of("Color"))), Same("l", ListOf(Of("Color"))),
           Same("s", SetOf(Of("Color"))), Same("m", MapOf(Of("Color"), Of("Color")))}

ColorNatives == ColorMethods \cup Row("EnumUsageInterface", {"nativeDestroy"}, <<>>, Void)

ListenerMethods ==
    LET R(name, args, ret) == Row("UsesSingleLanguageListeners", {name}, args, ret) IN
    UNION {R("callForObjC", <<Of("ObjcOnlyListener")>>, Void),
           R("returnForObjC", <<>>, Of("ObjcOnlyListener")),
           R("callForJava", <<Of("JavaOnlyListener")>>, Void),
           R("returnForJava", <<>>, Of("JavaOnlyListener"))}

ListenerNatives ==
    ListenerMethods \cup Row("UsesSingleLanguageListeners", {"nativeDestroy"}, <<>>, Void)

ListenerCallerNatives ==
    Row("ListenerCaller", {"init"}, <<Of("FirstListener"), Of("SecondListener")>>,
        Of("ListenerCaller"))
    \cup Row("ListenerCaller", {"callFirst", "callSecond", "nativeDestroy"}, <<>>, Void)

FlagNatives ==
    LET Same(name, type) == Row("FlagRoundtrip", {name}, <<type>>, type) IN
    UNION {Same("roundtripAccess", Of("AccessFlags")), Same("roundtripEmpty", Of("EmptyFlags")),
           Same("roundtripAccessBoxed", Opt(Of("AccessFlags"))),
           Same("roundtripEmptyBoxed", Opt(Of("EmptyFlags"))),
           Row("FlagRoundtrip", {"nativeDestroy"}, <<>>, Void)}

ReverseNatives ==
    LET R(name, args, ret) == Row("ReverseClientInterface", {name}, args, ret) IN
    UNION {R("nativeDestroy", <<>>, Void), R("returnStr", <<>>, String),
           R("methTakingInterface", <<Of("ReverseClientInterface")>>, String),
           R("methTakingOptionalInterface", <<Opt(Of("ReverseClientInterface"))>>, String),
           R("create", <<>>, Of("ReverseClientInterface"))}

WcharNatives ==
    LET R(name, args, ret) == Row("WcharTestHelpers", {name}, args, ret) IN
    UNION {R("nativeDestroy", <<>>, Void), R("getRecord", <<>>, Of("WcharTestRec")),
           R("getString", <<>>, WString), R("checkString", <<WString>>, Bool),
           R("checkRecord", <<Of("WcharTestRec")>>, Bool)}

TokenMethods == Row("UserToken", {"whoami"}, <<>>, String)
TokenNatives == TokenMethods \cup Row("UserToken", {"nativeDestroy"}, <<>>, Void)

ConflictNatives == Row("Conflict", {"nativeDestroy"}, <<>>, Void)

ConflictUserNatives ==
    UNION {Row("ConflictUser", {"nativeDestroy"}, <<>>, Void),
           Row("ConflictUser", {"Conflict"}, <<>>, Of("Conflict")),
           Row("ConflictUser", {"conflictArg"}, <<SetOf(Of("Conflict"))>>, Bool)}

ExceptionNatives ==
    UNION {Row("CppException", {"nativeDestroy"}, <<>>, Void),
           Row("CppException", {"throwAnException"}, <<>>, I32),
           Row("CppException", {"get"}, <<>>, Of("CppException"))}

ReturnNatives(interface, method) ==
    UNION {Row(interface, {"nativeDestroy"}, <<>>, Void),
           Row(interface, {"getInstance"}, <<>>, Of(interface)), Row(interface, {method}, <<>>, I8)}

ReturnOneNatives == ReturnNatives("ReturnOne", "returnOne")
ReturnTwoNatives == ReturnNatives("ReturnTwo", "returnTwo")

VarnameNatives ==
    UNION {Row("VarnameInterface", {"nativeDestroy"}, <<>>, Void),
           Row("VarnameInterface", {"Rmethod"}, <<Of("VarnameRecord")>>, Of("VarnameRecord")),
           Row("VarnameInterface", {"Imethod"}, <<Of("VarnameInterface")>>, Of("VarnameInterface"))}

ExternNatives ==
    Row("ExternInterface1", {"nativeDestroy"}, <<>>, Void)
    \cup Row("ExternInterface1", {"foo"}, <<Of("ClientInterface")>>, Of("ClientReturnedRecord"))

ExtendedNatives ==
    Row("InterfaceUsingExtendedRecord", {"nativeDestroy"}, <<>>, Void)
    \cup Row("InterfaceUsingExtendedRecord", {"meth"}, <<Of("ExtendedRecord")>>,
             Of("ExtendedRecord"))

ConstantsNatives == Row("ConstantsInterface", {"nativeDestroy", "dummy"}, <<>>, Void)

TestNatives ==
    UNION {HelpersNatives, HelpersNatives2, DurationTexts, DurationNatives, ColorNatives,
           ListenerNatives, ListenerCallerNatives, FlagNatives, ReverseNatives, WcharNatives,
           TokenNatives, ConflictNatives, ConflictUserNatives, ExceptionNatives,
           ReturnOneNatives, ReturnTwoNatives, VarnameNatives, ExternNatives, ExtendedNatives,
           ConstantsNatives}

-----------------------------------------------------------------------------
(* Calls of a JavaProxy *)

ClientCalls ==
    LET R(name, args, ret) == Row("ClientInterface", {name}, args, ret) IN
    UNION {R("getRecord", <<I64, String, Opt(String)>>, Of("ClientReturnedRecord")),
           R("identifierCheck", <<Binary, I32, I64>>, F64), R("returnStr", <<>>, String),
           R("methTakingInterface", <<Of("ClientInterface")>>, String),
           R("methTakingOptionalInterface", <<Opt(Of("ClientInterface"))>>, String)}

ExternCalls ==
    Row("ExternInterface2", {"foo"}, <<Of("TestHelpers")>>, Of("ExternRecordWithDerivings"))

ColorCalls == ColorMethods
ListenerCalls == ListenerMethods
TokenCalls == TokenMethods

TestCalls == UNION {ClientCalls, ColorCalls, ExternCalls, TokenCalls, ListenerCalls}

\* A class JavaProxy without a method to look up.
EmptyProxies == {"JavaOnlyListener"}

-----------------------------------------------------------------------------
(* Signatures *)

ClientLookups ==
    LET R(name, args, ret) == Row("ClientInterface", {name}, args, ret) IN
    UNION {R("getRecord", <<"J", "String", "String">>, "ClientReturnedRecord"),
           R("identifierCheck", <<"[B", "I", "J">>, "D"), R("returnStr", <<>>, "String"),
           R("methTakingInterface", <<"ClientInterface">>, "String"),
           R("methTakingOptionalInterface", <<"ClientInterface">>, "String")}

ColorLookups ==
    LET Same(names, code) == Row("EnumUsageInterface", names, <<code>>, code) IN
    UNION {Same({"e", "o"}, "Color"), Same({"l"}, "ArrayList"), Same({"s"}, "HashSet"),
           Same({"m"}, "HashMap")}

ExternLookups ==
    Row("ExternInterface2", {"foo"}, <<"TestHelpers">>, "ExternRecordWithDerivings")

TokenLookups == Row("UserToken", {"whoami"}, <<>>, "String")

ListenerLookups ==
    LET R(name, args, ret) == Row("UsesSingleLanguageListeners", {name}, args, ret) IN
    UNION {R("callForObjC", <<"ObjcOnlyListener">>, "V"),
           R("returnForObjC", <<>>, "ObjcOnlyListener"),
           R("callForJava", <<"JavaOnlyListener">>, "V"),
           R("returnForJava", <<>>, "JavaOnlyListener")}

TestLookups ==
    UNION {ClientLookups, ColorLookups, ExternLookups, TokenLookups, ListenerLookups}
=============================================================================
