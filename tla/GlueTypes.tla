----------------------------- MODULE GlueTypes -----------------------------
(* The marshalling classes that the generated glue names, Native... and those of Marshal.hpp: *)
(* each has a name, and those of containers have the classes of their parts.                  *)
EXTENDS Naturals, Sequences

Of(name) == [name |-> name, parts |-> <<>>]
OfParts(name, parts) == [name |-> name, parts |-> parts]

Bool == Of("Bool")
I8 == Of("I8")
I16 == Of("I16")
I32 == Of("I32")
I64 == Of("I64")
F32 == Of("F32")
F64 == Of("F64")
Void == Of("Void")
String == Of("String")
WString == Of("WString")
Binary == Of("Binary")
Date == Of("Date")

Opt(type) == OfParts("Optional", <<type>>)
ListOf(type) == OfParts("ListOf", <<type>>)
SetOf(type) == OfParts("SetOf", <<type>>)
MapOf(key, value) == OfParts("MapOf", <<key, value>>)
Duration(rep) == OfParts("Duration", <<rep>>)

Primitives == {"Bool", "I8", "I16", "I32", "I64", "F32", "F64"}
Enums == {"Type", "Color"}
FlagSets == {"AccessFlags", "EmptyFlags"}

\* The code of a type in a signature of JNI: a letter for a primitive type, for a class its
\* name without the package.
Codes ==
    [Bool |-> "Z", I8 |-> "B", I16 |-> "S", I32 |-> "I", I64 |-> "J", F32 |-> "F", F64 |-> "D",
     Void |-> "V", WString |-> "String", Binary |-> "[B", ListOf |-> "ArrayList",
     SetOf |-> "HashSet", MapOf |-> "HashMap", AccessFlags |-> "EnumSet",
     EmptyFlags |-> "EnumSet"]

\* Classes that are Boxed where Java needs an object.
BoxedCodes ==
    [Bool |-> "Boolean", I8 |-> "Byte", I16 |-> "Short", I32 |-> "Integer", I64 |-> "Long",
     F32 |-> "Float", F64 |-> "Double"]

Code(type) == IF type.name \in DOMAIN Codes THEN Codes[type.name] ELSE type.name
BoxedCode(type) ==
    IF type.name \in DOMAIN BoxedCodes THEN BoxedCodes[type.name] ELSE Code(type)

CodeOf(type) == IF type.name = "Optional" THEN BoxedCode(type.parts[1]) ELSE Code(type)

\* Methods of an interface that take and return the same.
Row(interface, names, args, ret) ==
    {[interface |-> interface, name |-> n, args |-> args, ret |-> ret] : n \in names}
=============================================================================
