-------------------------- MODULE JavascriptObject --------------------------
(***************************************************************************)
(* support-lib/cpp/JavascriptObjectImpl: a tag, mType, and a union, whose  *)
(* members the class constructs, copies and destroys by hand.  A string    *)
(* and a handle of an array or a map own something; C++ does not look at   *)
(* which member of a union is alive, so that the model does.               *)
(*                                                                         *)
(* A number is a double; here it counts halves, and an int32_t goes from   *)
(* -IntLimit to IntLimit - 1.                                              *)
(***************************************************************************)
EXTENDS Integers, FiniteSets

CONSTANTS
    Boxes,        \* places where a JavascriptObjectImpl can be
    Arrays, Maps, \* what the handles hold
    Halves,       \* doubles, as numbers of halves
    IntLimit,
    Undefined     \* what undefined behaviour answers

ASSUME IntLimitAssumption == IntLimit \in Nat \ {0} /\ Halves \subseteq Int
ASSUME BoxesAssumption == IsFiniteSet(Boxes)
ASSUME UndefinedAssumption == Undefined \notin Int

VARIABLES
    boxes,        \* what is in each of the boxes
    owners,       \* the count of each array and map: how many shared_ptr hold it
    app,          \* the arrays and maps that the application holds
    strings,      \* how many std::string of the boxes are alive
    madeOf,       \* the call that made what is in a box, kept to compare
    answer        \* the last accessor called and what it answered

objectVars == <<boxes, owners, app, strings, madeOf, answer>>

Empty == [mType |-> "empty", member |-> "none", value |-> "none"]
IsEmpty(box) == box.mType = "empty"
NoAnswer == [source |-> "none", asked |-> "none", value |-> "none"]
NullHandle == "nullptr"

MemberOf == [NIL |-> "none", BOOLEAN |-> "mBool", NUMBER |-> "mDouble", STRING |-> "mString",
             ARRAY |-> "mArray", MAP |-> "mMap"]
Tags == DOMAIN MemberOf
Owning == {"ARRAY", "MAP"}
Shared == Arrays \cup Maps

\* The values that C++ code can make an object of; a handle may be null.
Sources ==
    {<<"NIL", NullHandle>>} \cup {<<"STRING", "text">>} \cup ({"BOOLEAN"} \X BOOLEAN)
    \cup ({"NUMBER"} \X Halves) \cup ({"ARRAY"} \X (Arrays \cup {NullHandle}))
    \cup ({"MAP"} \X (Maps \cup {NullHandle}))

ObjectInit ==
    /\ boxes = [b \in Boxes |-> Empty]
    /\ owners = [c \in Shared |-> 1]
    /\ app = Shared
    /\ strings = 0
    /\ madeOf = [b \in Boxes |-> "none"]
    /\ answer = NoAnswer

\* shared_ptr: copied and destroyed; a null one has no count.
Copied(count, c) == IF c \in Shared THEN [count EXCEPT ![c] = @ + 1] ELSE count
Released(count, c) == IF c \in Shared THEN [count EXCEPT ![c] = @ - 1] ELSE count

-----------------------------------------------------------------------------
(* The constructors, by way of fromNull() .. fromMap() *)

MakeObject(b, tag, value) ==
    /\ IsEmpty(boxes[b])
    /\ tag \in Owning => value \in app \cup {NullHandle}
    /\ boxes' = [boxes EXCEPT ![b] = [mType |-> tag, member |-> MemberOf[tag], value |-> value]]
    /\ owners' = IF tag \in Owning THEN Copied(owners, value) ELSE owners
    /\ strings' = IF tag = "STRING" THEN strings + 1 ELSE strings
    /\ madeOf' = [madeOf EXCEPT ![b] = <<tag, value>>]
    /\ UNCHANGED <<app, answer>>

\* Faulty variant: a tag was forgotten.
CopiedTags_NoNumber == {"ARRAY", "MAP", "BOOLEAN", "STRING"}

\* The switch of the copy constructor: which cases construct a member.
CopiedTags == {"ARRAY", "MAP", "BOOLEAN", "NUMBER", "STRING"}

\* JavascriptObjectImpl(const JavascriptObjectImpl&)
CopyObject(b, from) ==
    LET other == boxes[from] IN
    /\ IsEmpty(boxes[b]) /\ ~ IsEmpty(other)
    /\ boxes' = [boxes EXCEPT ![b] =
            IF other.mType \in CopiedTags THEN other
            ELSE [mType |-> other.mType, member |-> "none", value |-> NullHandle]]
    /\ owners' = IF other.mType \in Owning \cap CopiedTags
                 THEN Copied(owners, other.value) ELSE owners
    /\ strings' = IF other.mType \in {"STRING"} \cap CopiedTags THEN strings + 1 ELSE strings
    /\ madeOf' = [madeOf EXCEPT ![b] = madeOf[from]]
    /\ UNCHANGED <<app, answer>>

\* Faulty variant: maps have been added everywhere but here.
DestroyedTags_NoMap == {"ARRAY", "STRING"}

\* The switch of the destructor: which cases destroy a member.
DestroyedTags == {"ARRAY", "MAP", "STRING"}

\* ~JavascriptObjectImpl(), when the last shared_ptr of the object goes.
DestroyObject(b) ==
    LET this == boxes[b] IN
    /\ ~ IsEmpty(this)
    /\ boxes' = [boxes EXCEPT ![b] = Empty]
    /\ owners' = IF this.mType \in Owning \cap DestroyedTags
                 THEN Released(owners, this.value) ELSE owners
    /\ strings' = IF this.mType \in {"STRING"} \cap DestroyedTags THEN strings - 1 ELSE strings
    /\ madeOf' = [madeOf EXCEPT ![b] = "none"]
    /\ UNCHANGED <<app, answer>>

-----------------------------------------------------------------------------
(* The accessors *)

\* Reading a member of the union that is not alive is undefined.
Member(box, member) == IF box.member = member THEN box.value ELSE Undefined

\* (int32_t) of a double: towards zero, and undefined where it does not fit.
Truncated(h) == IF h >= 0 THEN h \div 2 ELSE -((-h) \div 2)
AsInt32(h) == IF Truncated(h) \in -IntLimit..IntLimit - 1 THEN Truncated(h) ELSE Undefined

\* asString() ends in "return nullptr": a std::string made of a null pointer.
As(box, asked) ==
    CASE asked = "getType" -> box.mType
      [] asked = "isNull" -> box.mType = "NIL"
      [] asked = "asBoolean" ->
            IF box.mType = "BOOLEAN" THEN Member(box, "mBool") ELSE FALSE
      [] asked = "asDouble" -> IF box.mType = "NUMBER" THEN Member(box, "mDouble") ELSE 0
      [] asked = "asInt" ->
            IF box.mType # "NUMBER" THEN 0
            ELSE IF box.member = "mDouble" THEN AsInt32(box.value) ELSE Undefined
      [] asked = "asString" ->
            IF box.mType = "STRING" THEN Member(box, "mString") ELSE Undefined
      [] asked = "asArray" -> IF box.mType = "ARRAY" THEN Member(box, "mArray") ELSE NullHandle
      [] asked = "asMap" -> IF box.mType = "MAP" THEN Member(box, "mMap") ELSE NullHandle

Questions == {"getType", "isNull", "asBoolean", "asDouble", "asInt", "asString",
              "asArray", "asMap"}

Ask(b, asked) ==
    LET value == As(boxes[b], asked)
        gained == asked \in {"asArray", "asMap"} /\ value \in Shared \ app
    IN  /\ ~ IsEmpty(boxes[b])
        /\ answer' = [source |-> madeOf[b], asked |-> asked, value |-> value]
        /\ app' = IF gained THEN app \cup {value} ELSE app
        /\ owners' = IF gained THEN Copied(owners, value) ELSE owners
        /\ UNCHANGED <<boxes, strings, madeOf>>

\* The application lets go of an array or a map.
LetGo(c) ==
    /\ c \in app
    /\ app' = app \ {c}
    /\ owners' = Released(owners, c)
    /\ UNCHANGED <<boxes, strings, madeOf, answer>>

ObjectNext ==
    \/ \E b \in Boxes, s \in Sources : MakeObject(b, s[1], s[2])
    \/ \E b, from \in Boxes : CopyObject(b, from)
    \/ \E b \in Boxes : DestroyObject(b)
    \/ \E b \in Boxes, asked \in Questions : Ask(b, asked)
    \/ \E c \in Shared : LetGo(c)

ObjectSpec == ObjectInit /\ [][ObjectNext]_objectVars

-----------------------------------------------------------------------------

\* Arrays, maps and strings are counted exactly: none is destroyed while an object still holds
\* it, and none stays when the last object has gone (JavascriptObjectImpl.cpp:31-95).
Holders(c) == {b \in Boxes : boxes[b].mType \in Owning /\ boxes[b].value = c}
MembersAreCounted ==
    /\ \A c \in Shared :
        owners[c] = Cardinality(Holders(c)) + (IF c \in app THEN 1 ELSE 0)
    /\ strings = Cardinality({b \in Boxes : boxes[b].mType = "STRING"})

\* An accessor answers what the object was made of, and the zero of its type for an object of
\* another type; but asString() has no zero, and asInt() none for a number that is no int32_t
\* (JavascriptObjectImpl.cpp:97-145).
ZeroOf == [asBoolean |-> FALSE, asDouble |-> 0, asInt |-> 0, asString |-> Undefined,
           asArray |-> NullHandle, asMap |-> NullHandle]
TypeAsked == [asBoolean |-> "BOOLEAN", asDouble |-> "NUMBER", asInt |-> "NUMBER",
              asString |-> "STRING", asArray |-> "ARRAY", asMap |-> "MAP"]
AnswersWhatWasPut ==
    answer.asked \in DOMAIN TypeAsked =>
        LET tag == answer.source[1]
            put == answer.source[2]
        IN  IF tag # TypeAsked[answer.asked] THEN answer.value = ZeroOf[answer.asked]
            ELSE IF answer.asked # "asInt" THEN answer.value = put
            ELSE IF answer.value = Undefined
                 THEN put \notin -(2 * IntLimit) - 1..2 * IntLimit - 1
                 ELSE /\ answer.value \in -IntLimit..IntLimit - 1
                      /\ put - 2 * answer.value \in -1..1
=============================================================================
