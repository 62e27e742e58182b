---------------------------- MODULE TestRecords ----------------------------
(* The generated JNI glue of the test suite's records, test-suite/generated-src/jni: the      *)
(* marshalling class of each field, in the order in which fromCpp() passes them to the        *)
(* constructor and toCpp() to the braces, the capacity of toCpp()'s JniLocalScope, and the    *)
(* codes under which the class looks up the constructor and the fields.                       *)
EXTENDS GlueTypes

Record(name, fields, scope) == [name |-> name, fields |-> fields, scope |-> scope]
Lookup(name, codes) == [name |-> name, codes |-> codes]

AssortedPrimitivesFields ==
    Record("AssortedPrimitives", <<Bool, I8, I16, I32, I64, F32, F64, Opt(Bool), Opt(I8),
      Opt(I16), Opt(I32), Opt(I64), Opt(F32), Opt(F64)>>, 15)
ClientReturnedRecordFields == Record("ClientReturnedRecord", <<I64, String, Opt(String)>>, 4)
ConstantRecordFields == Record("ConstantRecord", <<I32, String>>, 3)
ConstantsFields == Record("Constants", <<>>, 1)
DateRecordFields == Record("DateRecord", <<Date>>, 2)
EmptyRecordFields == Record("EmptyRecord", <<>>, 1)
EnumUsageRecordFields ==
    Record("EnumUsageRecord", <<Of("Color"), Opt(Of("Color")), ListOf(Of("Color")),
      SetOf(Of("Color")), MapOf(Of("Color"), Of("Color"))>>, 6)
ExtendedRecordFields == Record("ExtendedRecord", <<Bool>>, 2)
ExternRecordWithDerivingsFields ==
    Record("ExternRecordWithDerivings", <<Of("RecordWithDerivings"), Of("Color")>>, 3)
MapDateRecordFields == Record("MapDateRecord", <<MapOf(String, Date)>>, 2)
MapListRecordFields == Record("MapListRecord", <<ListOf(MapOf(String, I64))>>, 2)
MapRecordFields == Record("MapRecord", <<MapOf(String, I64), MapOf(I32, I32)>>, 3)
NestedCollectionFields == Record("NestedCollection", <<ListOf(SetOf(String))>>, 2)
PrimitiveListFields == Record("PrimitiveList", <<ListOf(I64)>>, 2)
RecordUsingExtendedRecordFields ==
    Record("RecordUsingExtendedRecord", <<Of("ExtendedRecord")>>, 2)
RecordWithDerivingsFields ==
    Record("RecordWithDerivings", <<I8, I16, I32, I64, F32, F64, Date, String>>, 9)
RecordWithDurationAndDerivingsFields ==
    Record("RecordWithDurationAndDerivings", <<Duration(F64)>>, 2)
RecordWithFlagsFields == Record("RecordWithFlags", <<Of("AccessFlags")>>, 2)
RecordWithNestedDerivingsFields ==
    Record("RecordWithNestedDerivings", <<I32, Of("RecordWithDerivings")>>, 3)
SetRecordFields == Record("SetRecord", <<SetOf(String), SetOf(I32)>>, 3)
VarnameRecordFields == Record("VarnameRecord", <<I8>>, 2)
WcharTestRecFields == Record("WcharTestRec", <<WString>>, 2)

Records ==
    {AssortedPrimitivesFields, ClientReturnedRecordFields, ConstantRecordFields,
     ConstantsFields, DateRecordFields, EmptyRecordFields, EnumUsageRecordFields,
     ExtendedRecordFields, ExternRecordWithDerivingsFields, MapDateRecordFields,
     MapListRecordFields, MapRecordFields, NestedCollectionFields, PrimitiveListFields,
     RecordUsingExtendedRecordFields, RecordWithDerivingsFields,
     RecordWithDurationAndDerivingsFields, RecordWithFlagsFields,
     RecordWithNestedDerivingsFields, SetRecordFields, VarnameRecordFields,
     WcharTestRecFields}

-----------------------------------------------------------------------------

AssortedPrimitivesIds ==
    Lookup("AssortedPrimitives", <<"Z", "B", "S", "I", "J", "F", "D", "Boolean", "Byte",
      "Short", "Integer", "Long", "Float", "Double">>)
ClientReturnedRecordIds == Lookup("ClientReturnedRecord", <<"J", "String", "String">>)
ConstantRecordIds == Lookup("ConstantRecord", <<"I", "String">>)
ConstantsIds == Lookup("Constants", <<>>)
DateRecordIds == Lookup("DateRecord", <<"Date">>)
EmptyRecordIds == Lookup("EmptyRecord", <<>>)
EnumUsageRecordIds ==
    Lookup("EnumUsageRecord", <<"Color", "Color", "ArrayList", "HashSet", "HashMap">>)
ExtendedRecordIds == Lookup("ExtendedRecord", <<"Z">>)
ExternRecordWithDerivingsIds ==
    Lookup("ExternRecordWithDerivings", <<"RecordWithDerivings", "Color">>)
MapDateRecordIds == Lookup("MapDateRecord", <<"HashMap">>)
MapListRecordIds == Lookup("MapListRecord", <<"ArrayList">>)
MapRecordIds == Lookup("MapRecord", <<"HashMap", "HashMap">>)
NestedCollectionIds == Lookup("NestedCollection", <<"ArrayList">>)
PrimitiveListIds == Lookup("PrimitiveList", <<"ArrayList">>)
RecordUsingExtendedRecordIds == Lookup("RecordUsingExtendedRecord", <<"ExtendedRecord">>)
RecordWithDerivingsIds ==
    Lookup("RecordWithDerivings", <<"B", "S", "I", "J", "F", "D", "Date", "String">>)
RecordWithDurationAndDerivingsIds == Lookup("RecordWithDurationAndDerivings", <<"Duration">>)
RecordWithFlagsIds == Lookup("RecordWithFlags", <<"EnumSet">>)
RecordWithNestedDerivingsIds ==
    Lookup("RecordWithNestedDerivings", <<"I", "RecordWithDerivings">>)
SetRecordIds == Lookup("SetRecord", <<"HashSet", "HashSet">>)
VarnameRecordIds == Lookup("VarnameRecord", <<"B">>)
WcharTestRecIds == Lookup("WcharTestRec", <<"String">>)

RecordLookups ==
    {AssortedPrimitivesIds, ClientReturnedRecordIds, ConstantRecordIds, ConstantsIds,
     DateRecordIds, EmptyRecordIds, EnumUsageRecordIds, ExtendedRecordIds,
     ExternRecordWithDerivingsIds, MapDateRecordIds, MapListRecordIds, MapRecordIds,
     NestedCollectionIds, PrimitiveListIds, RecordUsingExtendedRecordIds,
     RecordWithDerivingsIds, RecordWithDurationAndDerivingsIds, RecordWithFlagsIds,
     RecordWithNestedDerivingsIds, SetRecordIds, VarnameRecordIds, WcharTestRecIds}
=============================================================================
