------------------------------ MODULE MCValues ------------------------------
(* The parts of the support library that have no state in common, each on its own: subject   *)
(* says which one moves, and the others stay in one initial state.                           *)
EXTENDS JavascriptObject, Optional, Marshal, NativeGlue, Crossing, PlatformThreads,
        Utf, Times, Derivings, TLC

VARIABLE subject

vars == <<subject, objectVars, optionalVars, marshalVars, glueVars, traveller, threadVars,
          textVars, timesVars, derivingsVars>>

\* The bytes at the borders of Unicode's table of well-formed sequences, and the units.
MCBytes == {65, 127, 128, 143, 144, 159, 160, 191, 192, 193, 194, 223, 224, 237, 239, 240,
            244, 248}
MCUnits == {65, 2047, 2048, 55296, 56319, 56320, 57343, 65533}
\* Two texts that are none, which become one text with the replacement character.
MCMended == [t \in {"bad", "worse"} |-> "fffd"]
\* Around zero, around the ends of both widths, and what an hour makes of them.
MCAmounts == {-70, -65, -64, -33, -17, -9, -8, -7, -5, -4, -3, -2, -1, 0, 1, 2, 3, 4, 5, 7, 8, 9,
              15, 17, 31, 33, 63, 64, 70}
\* Times within a millisecond of each other on both sides of zero, towards which Java's are cut;
\* the strings U+D7FF, U+E000 and U+10000, of which the last comes second in UTF-16.
MCInstants == -1..2
MCKept == [t \in MCInstants |-> IF t = 2 THEN 1 ELSE 0]
MCUtf16Rank == 0 :> 0 @@ 1 :> 2 @@ 2 :> 1
MCHalves == {-6, -5, -1, 0, 3, 4}

Rests(s, P) == subject = s \/ P

Init ==
    /\ subject \in {"object", "optional", "marshal", "glue", "travel", "threads", "text",
                   "times", "derivings"}
    /\ ObjectInit
    /\ OptionalInit
    /\ MarshalInit
    /\ Rests("marshal", source = <<>> /\ trip = [side |-> "jni", to |-> "cpp", kind |-> "list",
                                               value |-> "text", asserts |-> FALSE])
    /\ GlueInit
    /\ Rests("glue", call.interface = "Job" /\ call.name = "run" /\ elements = 0)
    /\ TravelInit
    /\ Rests("travel", traveller.interface = "Job" /\ traveller.home = "java"
                       /\ traveller.asserts)
    /\ ThreadInit
    /\ Rests("threads", library = [by |-> "java", configures |-> TRUE]
                        /\ runs = [w \in Workers |-> CHOOSE f \in Funcs : TRUE])
    /\ TextInit
    /\ Rests("text", coding = "utf8")
    /\ Rests("times", travels = [kind |-> "date", rep |-> "int64", unit |-> 1, via |-> "jni",
                                 from |-> "cpp", start |-> 0])
    /\ TimesInit
    /\ Rests("derivings", unread = DateRecord)
    /\ DerivingsInit

valuesVars == <<objectVars, optionalVars, marshalVars>>
glueAndThreads == <<glueVars, traveller, threadVars>>
dataVars == <<textVars, timesVars, derivingsVars>>

Next ==
    \/ /\ subject = "object" /\ ObjectNext
       /\ UNCHANGED <<subject, optionalVars, marshalVars, glueAndThreads, dataVars>>
    \/ /\ subject = "optional" /\ OptionalNext
       /\ UNCHANGED <<subject, objectVars, marshalVars, glueAndThreads, dataVars>>
    \/ /\ subject = "marshal" /\ MarshalNext
       /\ UNCHANGED <<subject, objectVars, optionalVars, glueAndThreads, dataVars>>
    \/ /\ subject = "glue" /\ GlueNext
       /\ UNCHANGED <<subject, valuesVars, traveller, threadVars, dataVars>>
    \/ /\ subject = "travel" /\ TravelNext
       /\ UNCHANGED <<subject, valuesVars, glueVars, threadVars, dataVars>>
    \/ /\ subject = "threads" /\ ThreadNext
       /\ UNCHANGED <<subject, valuesVars, glueVars, traveller, dataVars>>
    \/ /\ subject = "text" /\ TextNext
       /\ UNCHANGED <<subject, valuesVars, glueAndThreads, timesVars, derivingsVars>>
    \/ /\ subject = "times" /\ TimesNext
       /\ UNCHANGED <<subject, valuesVars, glueAndThreads, textVars, derivingsVars>>
    \/ /\ subject = "derivings" /\ DerivingsNext
       /\ UNCHANGED <<subject, valuesVars, glueAndThreads, textVars, timesVars>>

Spec == Init /\ [][Next]_vars
=============================================================================
