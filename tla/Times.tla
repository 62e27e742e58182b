------------------------------- MODULE Times -------------------------------
(***************************************************************************)
(* Durations and dates on their way from C++ to Java or Objective-C and    *)
(* back, or from there to C++: Duration-jni.hpp, Duration-objc.hpp and the *)
(* two marshalling classes Date.  In C++ a duration counts a unit with a   *)
(* number of some width; Java has nanoseconds in a long, Objective-C       *)
(* seconds in a double.  In C++ a date counts ticks of system_clock; Java  *)
(* has milliseconds, Objective-C seconds.                                  *)
(* A time is an integer: half nanoseconds for a duration, so that a double *)
(* can have a fraction that Java has not; ticks for a date.                *)
(***************************************************************************)
EXTENDS Integers

CONSTANTS
    LongLimit,    \* bound: 2^63, scaled down
    IntLimit32,   \* bound: 2^31, scaled down
    Periods,        \* the units of durations, in nanoseconds, scaled down
    Second,       \* the one of them that Objective-C counts
    TicksInMilli, \* how many ticks of the clock a millisecond has
    Amounts,      \* bound: the numbers to start from
    NoDuration    \* no duration: nullopt, null, nil

ASSUME TimesAssumption ==
    /\ LongLimit \in Nat \ {0} /\ IntLimit32 \in Nat \ {0}
    /\ Periods \subseteq Nat \ {0} /\ Second \in Nat \ {0} /\ TicksInMilli \in Nat \ {0}
    /\ Amounts \subseteq Int /\ NoDuration \notin Int

VARIABLES
    travels,      \* what travels: [kind, rep, unit, via, from, start]
    place,        \* "cpp", "platform"; "back" or "thrown"
    held          \* the time as the side that has it knows it

timesVars == <<travels, place, held>>

TimeKinds == {"duration", "optional duration", "date"}
Reps == {"int32", "int64", "double"}

Longs == -LongLimit .. LongLimit - 1
Ints == -IntLimit32 .. IntLimit32 - 1

\* Division of integers in C++, and duration_cast: towards zero.
TowardsZero(a, b) == IF a < 0 THEN -((-a) \div b) ELSE a \div b

Narrowed(n) == ((n + IntLimit32) % (2 * IntLimit32)) - IntLimit32

\* A count of a representation, as a time.
HalfNanos(unit, count) == 2 * unit * count

CountsThatFit(rep) ==
    CASE rep = "int32" -> Ints [] rep = "int64" -> Longs [] OTHER -> Int

\* hours(), minutes() .. nanosf(): a duration of so many of the unit.
Made(rep, unit, n) ==
    IF rep = "double" THEN n
    ELSE HalfNanos(unit, n)

\* box(): a negative count is no duration.
BoxOf(duration) == IF duration < 0 THEN NoDuration ELSE duration

\* unbox(): none is -1.
Unboxed(unit, v) == IF v = NoDuration THEN HalfNanos(unit, -1) ELSE v

TimesInit ==
    /\ travels \in [kind : TimeKinds, rep : Reps, unit : Periods, via : {"jni", "objc"},
                 from : {"cpp", "platform"}, start : Amounts]
    /\ travels.kind = "optional duration" => travels.rep = "int64" /\ travels.unit = Second
                                          /\ travels.from = "cpp"
    /\ travels.kind = "date" => travels.rep = "int64" /\ travels.unit = 1
    /\ travels.from = "cpp" => travels.start \in CountsThatFit(travels.rep)
    /\ place = travels.from
    /\ LET made == Made(travels.rep, travels.unit, travels.start) IN
       held = IF travels.from = "platform" \/ travels.kind = "date" THEN travels.start
              ELSE IF travels.kind = "duration" THEN made ELSE BoxOf(made)

Leaves(kinds, via) == place = "cpp" /\ travels.kind \in kinds /\ travels.via = via
Comes(kinds, via) == place = "platform" /\ travels.kind \in kinds /\ travels.via = via
Durations == {"duration", "optional duration"}

-----------------------------------------------------------------------------
(* Java *)

\* duration_cast to nanoseconds in a long: a product that does not fit is undefined.
DurationFromCpp ==
    /\ Leaves(Durations, "jni")
    /\ place' = "platform"
    /\ LET nanos == TowardsZero(held, 2) IN
       IF held = NoDuration THEN held' = NoDuration
       ELSE IF nanos \in Longs THEN held' = nanos ELSE held' \in Longs
    /\ UNCHANGED travels

\* Faulty variant: the nanoseconds are narrowed before they are divided.
CountOf_NarrowFirst(rep, unit, nanos) ==
    TowardsZero(IF rep = "int32" THEN Narrowed(nanos) ELSE nanos, unit)

\* duration_cast to the unit, and then to the width of the representation.
CountOf(rep, unit, nanos) ==
    LET count == TowardsZero(nanos, unit) IN IF rep = "int32" THEN Narrowed(count) ELSE count

DurationToCpp ==
    /\ Comes(Durations, "jni")
    /\ held = NoDuration \/ held \in Longs
    /\ place' = "back"
    /\ held' = IF held = NoDuration THEN NoDuration
                ELSE IF travels.rep = "double" THEN 2 * held
                ELSE HalfNanos(travels.unit, CountOf(travels.rep, travels.unit, held))
    /\ UNCHANGED travels

\* toNanos() throws an ArithmeticException, which jniExceptionCheck() passes on.
ToNanosThrows ==
    /\ Comes(Durations, "jni")
    /\ held /= NoDuration /\ held \notin Longs
    /\ place' = "thrown"
    /\ UNCHANGED <<travels, held>>

DateFromCpp ==
    /\ Leaves({"date"}, "jni")
    /\ place' = "platform"
    /\ held' = TowardsZero(held, TicksInMilli)
    /\ UNCHANGED travels

\* POSIX_EPOCH + milliseconds{}: ticks that do not fit a long are undefined.
DateToCpp ==
    /\ Comes({"date"}, "jni")
    /\ place' = "back"
    /\ LET ticks == held * TicksInMilli IN
       IF ticks \in Longs THEN held' = ticks ELSE held' \in Longs
    /\ UNCHANGED travels

-----------------------------------------------------------------------------
(* Objective-C.  A double holds whole seconds exactly; of a smaller unit it holds a quotient  *)
(* that multiplied again may be a little less, which the cast to an integer makes one less:   *)
(* 1001 milliseconds come back as 1000.                                                       *)

DurationFromCppObjc ==
    /\ Leaves(Durations, "objc")
    /\ place' = "platform"
    /\ UNCHANGED <<travels, held>>

\* What a cast of a double to an integer may yield; out of range it is undefined.
CountsOf(rep, unit, halves) ==
    LET count == TowardsZero(halves, 2 * unit)
        width == IF rep = "int32" THEN Ints ELSE Longs
    IN  IF count \notin width THEN width
        ELSE IF unit >= Second \/ count = 0 THEN {count}
        ELSE {count, IF count > 0 THEN count - 1 ELSE count + 1}

DurationToCppObjc ==
    /\ Comes(Durations, "objc")
    /\ place' = "back"
    /\ IF held = NoDuration \/ travels.rep = "double" THEN held' = held
       ELSE \E count \in CountsOf(travels.rep, travels.unit, held) :
                held' = HalfNanos(travels.unit, count)
    /\ UNCHANGED travels

\* Seconds since the epoch: of today's ticks the double drops the last bits.
DateFromCppObjc ==
    /\ Leaves({"date"}, "objc")
    /\ place' = "platform"
    /\ \E slip \in -1..1 : held' = held + slip
    /\ UNCHANGED travels

DateToCppObjc ==
    /\ Comes({"date"}, "objc")
    /\ place' = "back"
    /\ IF held \in Longs THEN held' = held ELSE held' \in Longs
    /\ UNCHANGED travels

TimesNext ==
    \/ DurationFromCpp \/ DurationToCpp \/ ToNanosThrows \/ DateFromCpp \/ DateToCpp
    \/ DurationFromCppObjc \/ DurationToCppObjc \/ DateFromCppObjc \/ DateToCppObjc

TimesSpec == TimesInit /\ [][TimesNext]_timesVars

-----------------------------------------------------------------------------

\* held is start, or nearer to zero by less than one step.
Shortened(start, step) ==
    IF start < 0 THEN start <= held /\ held < start + step /\ held <= 0
    ELSE start - step < held /\ held <= start /\ held >= 0

\* A duration that C++ sends to Java comes back whole, one in a double but for the fraction of
\* a nanosecond, if its nanoseconds fit a long: int32 hours do not beyond 2562047, minutes not
\* beyond 153722867 (Duration-jni.hpp:49).  One of Java is cut to the unit or refused, and
\* silently wraps where an int32 counts too little (Duration-jni.hpp:45).  Through Objective-C a
\* count may lose one unless it counts seconds or more (Duration-objc.hpp:32), and no duration
\* stays none.  A date loses what is below a millisecond, or the last bits of a double, and is
\* never moved away from the epoch by Java (Marshal.hpp:270, 277).
TimesSurvive ==
    LET start == IF travels.from = "cpp" /\ travels.kind /= "date"
                 THEN Made(travels.rep, travels.unit, travels.start) ELSE travels.start
        unit == 2 * travels.unit
        whole == travels.rep /= "double"
        negative == travels.kind = "optional duration" /\ start < 0
    IN
    /\ place = "thrown" => travels.from = "platform" /\ start \notin Longs
    /\ place = "back" /\ negative => Unboxed(travels.unit, held) = -unit
    /\ place = "back" /\ travels.kind \in Durations /\ ~ negative =>
        CASE travels.via = "jni" /\ travels.from = "cpp" /\ TowardsZero(start, 2) \in Longs ->
                Shortened(start, IF whole THEN 1 ELSE 2)
          [] travels.via = "jni" /\ travels.from = "platform" ->
                \/ Shortened(2 * start, IF whole THEN unit ELSE 1)
                \/ travels.rep = "int32" /\ TowardsZero(start, travels.unit) \notin Ints
          [] travels.via = "objc" /\ travels.from = "cpp" ->
                Shortened(start, IF whole /\ travels.unit < Second THEN unit + 1 ELSE 1)
          [] OTHER -> TRUE
    /\ place = "back" /\ travels.kind = "date" =>
        CASE travels.via = "jni" /\ travels.from = "cpp" -> Shortened(start, TicksInMilli)
          [] travels.via = "jni" /\ travels.from = "platform" ->
                held = start * TicksInMilli \/ start * TicksInMilli \notin Longs
          [] OTHER -> held - start \in -1..1 \/ start + 1 \notin Longs \/ start - 1 \notin Longs
=============================================================================
