------------------------------ MODULE Optional ------------------------------
(***************************************************************************)
(* test-suite/handwritten-src/cpp/optional.hpp, the optional<T> that       *)
(* records and calls carry: a flag, init_, and raw storage in which the    *)
(* class constructs and destroys a T by hand.  T has a destructor, and     *)
(* each of its other operations may throw.                                 *)
(***************************************************************************)
EXTENDS Integers, FiniteSets

CONSTANTS
    Slots,        \* optionals that code can declare
    MaxValue      \* T is a number, and 0 is what is left of one that was moved

ASSUME OptionalAssumption == IsFiniteSet(Slots) /\ MaxValue \in Nat

VARIABLES
    slots,        \* the optionals
    living,       \* objects of type T that have been constructed and not destroyed
    damage,       \* a T was destroyed or written where there is none: undefined from here on
    copyThrew     \* a T threw when an optional was made of another one

optionalVars == <<slots, living, damage, copyThrew>>

Ts == 0..MaxValue
Raw == -1
None == [alive |-> FALSE, init |-> FALSE, cell |-> Raw]
Engaged(v) == [alive |-> TRUE, init |-> TRUE, cell |-> v]
Disengaged == [alive |-> TRUE, init |-> FALSE, cell |-> Raw]

OptionalInit ==
    /\ slots = [x \in Slots |-> None]
    /\ living = 0 /\ damage = FALSE /\ copyThrew = FALSE

Alive(x) == slots[x].alive
Initialized(x) == slots[x].init

\* slots[x] becomes s: what that constructs or destroys.
Now(x, s) == slots' = [slots EXCEPT ![x] = s]
Both(x, s, y, t) == slots' = [slots EXCEPT ![x] = s, ![y] = t]

\* storage_.value_.T::~T(); on raw storage it destroys what nobody made.
DestroyCell(raw) ==
    /\ living' = living - 1
    /\ damage' = (damage \/ raw)

-----------------------------------------------------------------------------
(* Construction and destruction *)

Default(x) ==
    /\ ~ Alive(x) /\ Now(x, Disengaged)
    /\ UNCHANGED <<living, damage, copyThrew>>

\* optional(const T&), in_place: when T throws, the base has not been constructed.
FromValue(x, v) ==
    /\ ~ Alive(x) /\ Now(x, Engaged(v)) /\ living' = living + 1
    /\ UNCHANGED <<damage, copyThrew>>

\* optional(const optional&) and optional(optional&&): init_ is set before T is constructed, so
\* that when T throws, ~optional_base() destroys a T that is not there.
FromOptional(x, y, moves) ==
    /\ ~ Alive(x) /\ Alive(y)
    /\ \/ /\ ~ Initialized(y) /\ Now(x, Disengaged)
          /\ UNCHANGED <<living, damage, copyThrew>>
       \/ /\ Initialized(y)
          /\ Both(x, Engaged(slots[y].cell), y, IF moves THEN Engaged(0) ELSE slots[y])
          /\ living' = living + 1
          /\ UNCHANGED <<damage, copyThrew>>
       \/ /\ Initialized(y)
          /\ copyThrew' = TRUE
          /\ DestroyCell(TRUE)
          /\ UNCHANGED slots

\* ~optional_base()
DestroyOptional(x) ==
    /\ Alive(x) /\ Now(x, None)
    /\ IF Initialized(x) THEN DestroyCell(slots[x].cell = Raw) ELSE UNCHANGED <<living, damage>>
    /\ UNCHANGED copyThrew

-----------------------------------------------------------------------------
(* Assignment *)

\* Faulty variant: the flag stays.
Clear_KeepsFlag(x) ==
    /\ Now(x, [slots[x] EXCEPT !.cell = Raw])
    /\ IF Initialized(x) THEN DestroyCell(slots[x].cell = Raw) ELSE UNCHANGED <<living, damage>>

Clear(x) ==
    /\ Now(x, Disengaged)
    /\ IF Initialized(x) THEN DestroyCell(slots[x].cell = Raw) ELSE UNCHANGED <<living, damage>>

\* operator=(nullopt_t)
AssignNothing(x) == Alive(x) /\ Clear(x) /\ UNCHANGED copyThrew

\* initialize(): the flag is set when T has been constructed.
Initialize(x, s) ==
    /\ Now(x, s)
    /\ living' = living + 1
    /\ damage' = (damage \/ slots[x].cell # Raw)

\* operator=(T): when T throws, the old value or the new one is there, or still none.
AssignValue(x, v) ==
    /\ Alive(x)
    /\ IF Initialized(x)
       THEN /\ Now(x, Engaged(v)) /\ damage' = (damage \/ slots[x].cell = Raw)
            /\ UNCHANGED living
       ELSE Initialize(x, Engaged(v))
    /\ UNCHANGED copyThrew

\* operator=(const optional&) and operator=(optional&&), also of an optional to itself.
Assign(x, y, moves) ==
    /\ Alive(x) /\ Alive(y)
    /\ LET source == IF moves /\ Initialized(y) THEN Engaged(0) ELSE slots[y]
           target == IF x = y THEN source ELSE Engaged(slots[y].cell)
       IN  \/ /\ Initialized(x) /\ ~ Initialized(y) /\ Clear(x)
           \/ /\ ~ Initialized(x) /\ Initialized(y)
              /\ Both(y, source, x, target)
              /\ living' = living + 1
              /\ damage' = (damage \/ slots[x].cell # Raw)
           \/ /\ Initialized(x) /\ Initialized(y)
              /\ Both(y, source, x, target)
              /\ damage' = (damage \/ Raw \in {slots[x].cell, slots[y].cell})
              /\ UNCHANGED living
           \/ /\ ~ Initialized(x) /\ ~ Initialized(y)
              /\ UNCHANGED <<slots, living, damage>>
    /\ UNCHANGED copyThrew

\* emplace(): clear(), then initialize(), and between them T may throw.
Emplace(x, v) ==
    /\ Alive(x)
    /\ \/ /\ Now(x, Engaged(v))
          /\ living' = IF Initialized(x) THEN living ELSE living + 1
          /\ damage' = (damage \/ (Initialized(x) # (slots[x].cell # Raw)))
       \/ Clear(x)
    /\ UNCHANGED copyThrew

\* swap(): one of them engaged, its value moves over and it is cleared; T may throw before.
Swap(x, y) ==
    /\ Alive(x) /\ Alive(y) /\ (Initialized(x) \/ Initialized(y))
    /\ Both(x, slots[y], y, slots[x])
    /\ damage' = (damage \/ \E z \in {x, y} : Initialized(z) # (slots[z].cell # Raw))
    /\ UNCHANGED <<living, copyThrew>>

OptionalNext ==
    /\ ~ damage
    /\ \/ \E x \in Slots : Default(x) \/ DestroyOptional(x) \/ AssignNothing(x)
       \/ \E x \in Slots, v \in Ts : FromValue(x, v) \/ AssignValue(x, v) \/ Emplace(x, v)
       \/ \E x, y \in Slots, moves \in BOOLEAN : FromOptional(x, y, moves) \/ Assign(x, y, moves)
       \/ \E x, y \in Slots : Swap(x, y)

OptionalSpec == OptionalInit /\ [][OptionalNext]_optionalVars

-----------------------------------------------------------------------------
(* Comparison: a disengaged optional comes before every value.             *)

Equal(x, y) == IF x.init # y.init THEN FALSE ELSE ~ x.init \/ x.cell = y.cell

\* Faulty variant: the test for the left side comes first.
Less_LeftFirst(x, y) == IF ~ x.init THEN TRUE ELSE IF ~ y.init THEN FALSE ELSE x.cell < y.cell

Less(x, y) == IF ~ y.init THEN FALSE ELSE IF ~ x.init THEN TRUE ELSE x.cell < y.cell
Greater(x, y) == Less(y, x)
LessOrEqual(x, y) == ~ Less(y, x)
GreaterOrEqual(x, y) == ~ Less(x, y)

\* With nullopt: none of these looks at a value.
LessThanNothing(x) == FALSE
NothingLess(x) == x.init
EqualsNothing(x) == ~ x.init
LessOrEqualNothing(x) == ~ x.init

\* With a T.
EqualsValue(x, v) == IF x.init THEN x.cell = v ELSE FALSE
LessThanValue(x, v) == IF x.init THEN x.cell < v ELSE TRUE
GreaterThanValue(x, v) == IF x.init THEN x.cell > v ELSE FALSE
LessOrEqualValue(x, v) == IF x.init THEN x.cell <= v ELSE TRUE
GreaterOrEqualValue(x, v) == IF x.init THEN x.cell >= v ELSE FALSE

-----------------------------------------------------------------------------

\* The flag says whether there is a T, after every operation and every exception, and every T
\* that is alive is in an optional that will destroy it: nothing undefined happens and nothing
\* leaks, as long as no T throws while an optional is made of another one (optional.hpp:307-317
\* set the flag first, so that :218 then destroys a T that is not there).
FlagsTellTheTruth ==
    ~ copyThrew =>
        /\ ~ damage
        /\ \A x \in Slots :
            /\ Initialized(x) = (slots[x].cell # Raw)
            /\ Initialized(x) => Alive(x)
        /\ living = Cardinality({x \in Slots : Initialized(x)})

\* The operators agree: exactly one of <, == and > holds, <= and >= are the rest, and comparing
\* with nullopt or with a T gives what comparing with an optional of it gives
\* (optional.hpp:561-714).
ComparesConsistently ==
    \A x \in Slots :
        LET o == slots[x] IN
        /\ \A y \in Slots :
            LET p == slots[y] IN
            /\ Cardinality({r \in {"<", "=", ">"} :
                CASE r = "<" -> Less(o, p) [] r = "=" -> Equal(o, p)
                  [] r = ">" -> Greater(o, p)}) = 1
            /\ LessOrEqual(o, p) = (Less(o, p) \/ Equal(o, p))
            /\ GreaterOrEqual(o, p) = (Greater(o, p) \/ Equal(o, p))
        /\ LessThanNothing(o) = Less(o, Disengaged) /\ NothingLess(o) = Less(Disengaged, o)
        /\ EqualsNothing(o) = Equal(o, Disengaged)
        /\ LessOrEqualNothing(o) = LessOrEqual(o, Disengaged)
        /\ \A v \in Ts :
            /\ EqualsValue(o, v) = Equal(o, Engaged(v))
            /\ LessThanValue(o, v) = Less(o, Engaged(v))
            /\ GreaterThanValue(o, v) = Greater(o, Engaged(v))
            /\ LessOrEqualValue(o, v) = LessOrEqual(o, Engaged(v))
            /\ GreaterOrEqualValue(o, v) = GreaterOrEqual(o, Engaged(v))
=============================================================================
