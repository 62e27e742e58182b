----------------------------- MODULE Derivings -----------------------------
(***************************************************************************)
(* Records that derive eq and ord: the operators that the code generator   *)
(* writes in C++ (generated-src/cpp of the test suite) next to equals(),   *)
(* hashCode() and compareTo() in Java, here asked about the same records.  *)
(* Three records are read one field at a time, each field with any values; *)
(* what has been read counts only through the answers so far.              *)
(***************************************************************************)
EXTENDS Integers, Sequences

CONSTANTS
    Derived,         \* the records: of each the kinds of its fields
    Numbers,         \* integers, the places of enums, and the floats that are neither of
    NaN, MinusZero,  \*   these two
    Instants,        \* dates and durations, in the ticks of C++
    Kept,            \* of each the milliseconds or nanoseconds that Java has of it
    Phrases,         \* strings of valid UTF-8, numbered in the order of their bytes
    Utf16Rank        \* and the place of each in the order of its units in UTF-16

FieldKinds == {"integer", "float", "date", "duration", "string"}

\* What Java has of a time loses ticks but no order, and of a string nothing.
ASSUME DerivingsAssumption ==
    /\ \A record \in Derived : record \in Seq(FieldKinds)
    /\ Numbers \subseteq Int /\ NaN \notin Int /\ MinusZero \notin Int /\ NaN # MinusZero
    /\ Instants \subseteq Int /\ Kept \in [Instants -> Int]
    /\ \A a, b \in Instants : a <= b => Kept[a] <= Kept[b]
    /\ Phrases \subseteq Int /\ Utf16Rank \in [Phrases -> Int]
    /\ \A a, b \in Phrases : Utf16Rank[a] = Utf16Rank[b] => a = b

VARIABLES
    unread,       \* the kinds of the fields that are still to be compared
    order,        \* in each language, of each two records: -1, 1, or 0 while undecided
    equal,        \* in each language: the first two records are
    oneHash,      \* their hashCode() has been the same
    quirks        \* values seen that the languages, or the operators, see differently

derivingsVars == <<unread, order, equal, oneHash, quirks>>

Languages == {"cpp", "java"}
Three == 1..3
Pairs == {p \in Three \X Three : p[1] # p[2]}

-----------------------------------------------------------------------------
(* The records' fields. *)

RecordWithDerivings ==
    <<"integer", "integer", "integer", "integer", "float", "float", "date", "string">>

\* rec is compared with its own operators, which decide where its fields do.
RecordWithNestedDerivings == <<"integer">> \o RecordWithDerivings
ExternRecordWithDerivings == RecordWithDerivings \o <<"integer">>    \* an enum
DateRecord == <<"date">>
RecordWithDurationAndDerivings == <<"duration">>

GeneratedRecords ==
    {RecordWithDerivings, RecordWithNestedDerivings, ExternRecordWithDerivings, DateRecord,
     RecordWithDurationAndDerivings}

-----------------------------------------------------------------------------
(* Values of the fields, and how each language compares two of a kind.                        *)

FieldValues(kind) ==
    CASE kind = "integer" -> Numbers
      [] kind = "float" -> Numbers \cup {NaN, MinusZero}
      [] kind \in {"date", "duration"} -> Instants
      [] kind = "string" -> Phrases

Float(v) == IF v = MinusZero THEN 0 ELSE v
HasTicks(kind) == kind \in {"date", "duration"}

\* What the language compares.
Seen(language, kind, v) ==
    IF kind = "float" THEN Float(v)
    ELSE IF language = "java" /\ HasTicks(kind) THEN Kept[v]
    ELSE IF language = "java" /\ kind = "string" THEN Utf16Rank[v]
    ELSE v

IsNaN(kind, v) == kind = "float" /\ v = NaN
Compares(kind, a, b) == ~ IsNaN(kind, a) /\ ~ IsNaN(kind, b)

\* a < b, or compareTo() < 0.
Below(language, kind, a, b) ==
    Compares(kind, a, b) /\ Seen(language, kind, a) < Seen(language, kind, b)

\* Faulty variant: Java compares boxed floats.
Same_Boxed(language, kind, a, b) ==
    IF language = "java" /\ kind = "float" THEN a = b
    ELSE Compares(kind, a, b) /\ Seen(language, kind, a) = Seen(language, kind, b)

\* a == b, or equals().
Same(language, kind, a, b) ==
    Compares(kind, a, b) /\ Seen(language, kind, a) = Seen(language, kind, b)

\* The fields' part of hashCode(): floatToIntBits() tells the zeros apart.
SameHash(kind, a, b) ==
    IF kind = "float" THEN a = b ELSE Seen("java", kind, a) = Seen("java", kind, b)

\* What the languages, or the operators, see differently in two values.
QuirksOf(kind, a, b) ==
    {q \in {"NaN", "two zeros", "below a unit", "astral"} :
        \/ q = "NaN" /\ ~ Compares(kind, a, b)
        \/ q = "two zeros" /\ kind = "float" /\ {a, b} = {MinusZero, 0}
        \/ q = "below a unit" /\ HasTicks(kind) /\ a # b /\ Kept[a] = Kept[b]
        \/ /\ q = "astral" /\ kind = "string"
           /\ (a < b) # (Utf16Rank[a] < Utf16Rank[b])}

-----------------------------------------------------------------------------

\* Faulty variant: operator< without the test the other way round.
Decided_OneTest(language, kind, a, b) == IF Below(language, kind, a, b) THEN -1 ELSE 0

\* operator< and compareTo() at one field: less, the other way round, or go on.
Decided(language, kind, a, b) ==
    IF Below(language, kind, a, b) THEN -1 ELSE IF Below(language, kind, b, a) THEN 1 ELSE 0

DerivingsInit ==
    /\ unread \in Derived
    /\ order = [language \in Languages |-> [p \in Pairs |-> 0]]
    /\ equal = [language \in Languages |-> TRUE]
    /\ oneHash = TRUE
    /\ quirks = {}

CompareOrder(kind, v) ==
    order' = [language \in Languages |-> [p \in Pairs |->
                IF order[language][p] # 0 THEN order[language][p]
                ELSE Decided(language, kind, v[p[1]], v[p[2]])]]

\* && stops at the first difference.
CompareEqual(kind, v) ==
    equal' = [language \in Languages |->
                equal[language] /\ Same(language, kind, v[1], v[2])]

HashBoth(kind, v) == oneHash' = (oneHash /\ SameHash(kind, v[1], v[2]))

NextField ==
    /\ unread # <<>>
    /\ LET kind == Head(unread) IN
       \E v \in [Three -> FieldValues(kind)] :
        /\ CompareOrder(kind, v)
        /\ CompareEqual(kind, v)
        /\ HashBoth(kind, v)
        /\ quirks' = quirks \cup UNION {QuirksOf(kind, v[p[1]], v[p[2]]) : p \in Pairs}
    /\ unread' = Tail(unread)

DerivingsNext == NextField

DerivingsSpec == DerivingsInit /\ [][DerivingsNext]_derivingsVars

\* operator<, and the operators that the others are made of.
RecordLess(i, j) == order["cpp"][<<i, j>>] = -1
RecordGreater(i, j) == RecordLess(j, i)
RecordLessOrEqual(i, j) == ~ RecordLess(j, i)
RecordGreaterOrEqual(i, j) == ~ RecordLess(i, j)
NotEqual == ~ equal["cpp"]

CompareTo(i, j) == order["java"][<<i, j>>]

-----------------------------------------------------------------------------

Compared == unread = <<>>

\* In both languages records are ordered: exactly one of less, equal and greater holds of two,
\* what is not above one is not above what that is not above, and equal is what neither is
\* below; NaN, of which none of this is true, is the only exception
\* (record_with_derivings.cpp:49-60).  Two that Java finds equal have one hashCode(), unless
\* one has 0.0 where the other has -0.0 (RecordWithDerivings.java:92, 106).
OrdersStrictly ==
    Compared /\ "NaN" \notin quirks =>
        /\ \A p \in Pairs : RecordGreater(p[1], p[2]) =>
                            RecordLessOrEqual(p[2], p[1]) /\ ~ RecordLess(p[1], p[2])
        /\ NotEqual <=> RecordLess(1, 2) \/ RecordGreater(1, 2)
        /\ (RecordLessOrEqual(1, 2) /\ RecordGreaterOrEqual(3, 2)) => RecordLessOrEqual(1, 3)
        /\ CompareTo(1, 2) = -CompareTo(2, 1)
        /\ CompareTo(1, 2) = 0 <=> equal["java"]
        /\ CompareTo(1, 2) <= 0 /\ CompareTo(2, 3) <= 0 => CompareTo(1, 3) <= 0
        /\ equal["java"] => oneHash \/ "two zeros" \in quirks

\* C++ and Java answer alike, of NaN and of zeros too, unless two dates or durations differ by
\* less than Java keeps of them, or two strings differ where UTF-8 and UTF-16 order differently.
ComparesAlike ==
    Compared =>
        /\ quirks \subseteq {"NaN", "two zeros"} =>
            \A p \in Pairs : order["cpp"][p] = order["java"][p]
        /\ "below a unit" \notin quirks => equal["cpp"] = equal["java"]
        /\ equal["cpp"] => equal["java"]
=============================================================================
