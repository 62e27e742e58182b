---------------------------- MODULE ValuesProofs ----------------------------
(***************************************************************************)
(* What holds of single values, whatever there is of them: optional<T> and *)
(* the tagged union JavascriptObject, which count by hand what they        *)
(* construct and destroy, so that the proofs count the places that hold    *)
(* something before and after a step; durations and dates; the threads     *)
(* that C++ creates, which find what they need; objects that cross the     *)
(* border and come back; the containers that are converted at the border:  *)
(* those that return are whole, the others fail for a reason, and none     *)
(* leaves a local reference behind; records, which                         *)
(* both languages compare field by field; and the calls of the generated   *)
(* glue, whose frames have room for what they pass and whose signatures    *)
(* are those that have been looked up.                                     *)
(***************************************************************************)
EXTENDS JavascriptObject, Optional, Times, PlatformThreads, Crossing, Marshal, Derivings,
        NativeGlue, FiniteSetTheorems, SequenceTheorems, WellFoundedInduction, TLAPS

(* optional<T> *)

EngagedSlots == {x \in Slots : Initialized(x)}

SlotStates == [alive : BOOLEAN, init : BOOLEAN, cell : Ts \cup {Raw}]

OptionalTypes ==
    /\ slots \in [Slots -> SlotStates]
    /\ living \in Int
    /\ damage \in BOOLEAN
    /\ copyThrew \in BOOLEAN

OptionalInv == OptionalTypes /\ FlagsTellTheTruth

\* Engaged slots are slots, so that they can be counted.
LEMMA EngagedIsFinite == IsFiniteSet(EngagedSlots) /\ IsFiniteSet(EngagedSlots')
BY OptionalAssumption, FS_Subset DEF EngagedSlots, Initialized

\* How many there are is a number.
LEMMA EngagedCount == Cardinality(EngagedSlots) \in Nat
BY EngagedIsFinite, FS_CardinalityType

\* A slot becomes engaged: one more.
LEMMA OneMore ==
    ASSUME NEW x \in Slots, x \notin EngagedSlots, EngagedSlots' = EngagedSlots \cup {x}
    PROVE  Cardinality(EngagedSlots') = Cardinality(EngagedSlots) + 1
BY EngagedIsFinite, FS_AddElement

\* A slot is cleared: one less.
LEMMA OneLess ==
    ASSUME NEW x \in Slots, x \in EngagedSlots, EngagedSlots' = EngagedSlots \ {x}
    PROVE  Cardinality(EngagedSlots') = Cardinality(EngagedSlots) - 1
BY EngagedIsFinite, FS_RemoveElement

\* A value moves from a slot to an empty one, as swap() does: as many as before.
LEMMA OneForAnother ==
    ASSUME NEW x \in Slots, NEW y \in Slots, x \in EngagedSlots, y \notin EngagedSlots,
           EngagedSlots' = (EngagedSlots \ {x}) \cup {y}
    PROVE  Cardinality(EngagedSlots') = Cardinality(EngagedSlots)
<1>1. /\ IsFiniteSet(EngagedSlots \ {x})
      /\ Cardinality(EngagedSlots \ {x}) = Cardinality(EngagedSlots) - 1
  BY EngagedIsFinite, FS_RemoveElement
<1>2. Cardinality((EngagedSlots \ {x}) \cup {y}) = Cardinality(EngagedSlots \ {x}) + 1
  BY <1>1, FS_AddElement
<1> QED
  BY <1>1, <1>2, EngagedCount

\* The states that operations put into a slot.
LEMMA SlotValues ==
    /\ \A v \in Ts \cup {Raw} : Engaged(v) \in SlotStates
    /\ \A v \in Ts : /\ Engaged(v).alive /\ Engaged(v).init /\ Engaged(v).cell = v
                     /\ v # Raw
    /\ Disengaged \in SlotStates
    /\ ~ Disengaged.init /\ Disengaged.cell = Raw /\ Disengaged.alive
    /\ None \in SlotStates
    /\ ~ None.init /\ None.cell = Raw
    /\ 0 \in Ts
BY OptionalAssumption DEF SlotStates, Engaged, Disengaged, None, Ts, Raw

\* Before anything is declared no flag is set and nothing lives.
LEMMA OptionalInitially == OptionalInit => OptionalInv
<1> SUFFICES ASSUME OptionalInit PROVE OptionalInv
  OBVIOUS
<1>1. OptionalTypes
  <2>1. slots \in [Slots -> SlotStates]
    BY SlotValues DEF OptionalInit
  <2>2. damage \in BOOLEAN /\ copyThrew \in BOOLEAN
    BY Zenon DEF OptionalInit
  <2>3. living \in Int
    BY DEF OptionalInit
  <2> QED
    BY <2>1, <2>2, <2>3 DEF OptionalTypes
<1>2. EngagedSlots = {}
  BY DEF OptionalInit, EngagedSlots, Initialized, None
<1>3. living = Cardinality(EngagedSlots)
  BY <1>2, FS_EmptySet DEF OptionalInit
<1> QED
  BY <1>1, <1>3 DEF OptionalInit, OptionalInv, FlagsTellTheTruth, EngagedSlots, Initialized,
     Alive, None, Raw

\* What a step has to show: types, flags and the count.
LEMMA FlagsKept ==
    ASSUME OptionalTypes',
           ~ copyThrew' =>
              /\ ~ damage'
              /\ \A x \in Slots : /\ slots'[x].init = (slots'[x].cell # Raw)
                                  /\ slots'[x].init => slots'[x].alive
              /\ living' = Cardinality(EngagedSlots')
    PROVE  OptionalInv'
BY DEF OptionalInv, FlagsTellTheTruth, EngagedSlots, Initialized, Alive

\* What a slot contributes to living.
Holds(s) == IF s.init THEN 1 ELSE 0

\* A slot in a state that its flag describes.
Told(s) == s.init = (s.cell # Raw) /\ (s.init => s.alive)

\* The states that operations put into a slot have the right flag.
LEMMA ToldStates ==
    /\ \A v \in Ts : Told(Engaged(v)) /\ Holds(Engaged(v)) = 1
    /\ Told(Disengaged) /\ Holds(Disengaged) = 0
    /\ Told(None) /\ Holds(None) = 0
<1>1. ASSUME NEW v \in Ts PROVE Told(Engaged(v)) /\ Holds(Engaged(v)) = 1
  <2>1. Engaged(v).alive /\ Engaged(v).init /\ Engaged(v).cell # Raw
    BY SlotValues
  <2> QED
    BY <2>1 DEF Told, Holds, Engaged
<1>2. Told(Disengaged) /\ Holds(Disengaged) = 0
  BY DEF Told, Holds, Disengaged
<1>3. Told(None) /\ Holds(None) = 0
  BY DEF Told, Holds, None
<1> QED
  BY <1>1, <1>2, <1>3

\* The invariant, slot by slot, while no T has thrown in that constructor.
LEMMA ToldNow ==
    ASSUME OptionalInv, ~ copyThrew
    PROVE  /\ ~ damage
           /\ \A x \in Slots : Told(slots[x])
           /\ living = Cardinality(EngagedSlots)
BY DEF OptionalInv, FlagsTellTheTruth, Told, EngagedSlots, Initialized, Alive

\* One slot changes, and living with it.
LEMMA OneSlotKeeps ==
    ASSUME OptionalInv, NEW x \in Slots, NEW s \in SlotStates, Now(x, s),
           living' \in Int, damage' \in BOOLEAN, copyThrew' = copyThrew,
           ~ copyThrew => /\ ~ damage' /\ Told(s)
                          /\ living' = living + Holds(s) - Holds(slots[x])
    PROVE  OptionalInv'
<1>1. OptionalTypes /\ slots \in [Slots -> SlotStates]
  BY DEF OptionalInv, OptionalTypes
<1>2. /\ slots' \in [Slots -> SlotStates]
      /\ slots'[x] = s
      /\ \A z \in Slots \ {x} : slots'[z] = slots[z]
  BY <1>1 DEF Now
<1>3. OptionalTypes'
  BY <1>1, <1>2 DEF OptionalTypes
<1>6. s.init \in BOOLEAN /\ slots[x].init \in BOOLEAN
  BY <1>1 DEF SlotStates
<1>4. CASE copyThrew
  BY <1>3, <1>4, FlagsKept
<1>5. CASE ~ copyThrew
  <2>1. /\ ~ damage /\ \A z \in Slots : Told(slots[z])
        /\ living = Cardinality(EngagedSlots)
    BY <1>5, ToldNow
  <2>2. \A z \in Slots : Told(slots'[z])
    BY <1>2, <1>5, <2>1
  <2>3. living' = Cardinality(EngagedSlots')
    <3>1. CASE s.init <=> slots[x].init
      <4>1. EngagedSlots' = EngagedSlots
        BY <1>2, <3>1 DEF EngagedSlots, Initialized
      <4> QED
        BY <1>5, <2>1, <3>1, <4>1, EngagedCount DEF Holds
    <3>2. CASE s.init /\ ~ slots[x].init
      <4>1. x \notin EngagedSlots /\ EngagedSlots' = EngagedSlots \cup {x}
        BY <1>2, <3>2 DEF EngagedSlots, Initialized
      <4>2. Cardinality(EngagedSlots') = Cardinality(EngagedSlots) + 1
        BY <4>1, OneMore
      <4>3. Holds(s) = 1 /\ Holds(slots[x]) = 0
        BY <3>2 DEF Holds
      <4> QED
        BY <1>5, <2>1, <4>2, <4>3, EngagedCount
    <3>3. CASE ~ s.init /\ slots[x].init
      <4>1. x \in EngagedSlots /\ EngagedSlots' = EngagedSlots \ {x}
        BY <1>2, <3>3 DEF EngagedSlots, Initialized
      <4>2. Cardinality(EngagedSlots') = Cardinality(EngagedSlots) - 1
        BY <4>1, OneLess
      <4>3. Holds(s) = 0 /\ Holds(slots[x]) = 1
        BY <3>3 DEF Holds
      <4> QED
        BY <1>5, <2>1, <4>2, <4>3, EngagedCount
    <3> QED
      BY <3>1, <3>2, <3>3
  <2> QED
    BY <1>3, <1>5, <2>2, <2>3, FlagsKept DEF Told
<1> QED
  BY <1>4, <1>5

\* Two slots change, and living with them.
LEMMA TwoSlotsKeep ==
    ASSUME OptionalInv, NEW x \in Slots, NEW y \in Slots, x # y,
           NEW s \in SlotStates, NEW t \in SlotStates, Both(x, s, y, t),
           living' \in Int, damage' \in BOOLEAN, copyThrew' = copyThrew,
           ~ copyThrew =>
              /\ ~ damage' /\ Told(s) /\ Told(t)
              /\ \/ (t.init <=> slots[y].init) /\ living' = living + Holds(s) - Holds(slots[x])
                 \/ s.init /\ ~ t.init /\ ~ slots[x].init /\ slots[y].init /\ living' = living
                 \/ ~ s.init /\ t.init /\ slots[x].init /\ ~ slots[y].init /\ living' = living
    PROVE  OptionalInv'
<1>1. OptionalTypes /\ slots \in [Slots -> SlotStates]
  BY DEF OptionalInv, OptionalTypes
<1>2. /\ slots' \in [Slots -> SlotStates]
      /\ slots'[x] = s /\ slots'[y] = t
      /\ \A z \in Slots \ {x, y} : slots'[z] = slots[z]
  BY <1>1 DEF Both
<1>3. OptionalTypes'
  BY <1>1, <1>2 DEF OptionalTypes
<1>6. s.init \in BOOLEAN /\ slots[x].init \in BOOLEAN
  BY <1>1 DEF SlotStates
<1>4. CASE copyThrew
  BY <1>3, <1>4, FlagsKept
<1>5. CASE ~ copyThrew
  <2>1. /\ ~ damage /\ \A z \in Slots : Told(slots[z])
        /\ living = Cardinality(EngagedSlots)
    BY <1>5, ToldNow
  <2>2. \A z \in Slots : Told(slots'[z])
    BY <1>2, <1>5, <2>1
  <2>3. living' = Cardinality(EngagedSlots')
    <3>1. CASE (t.init <=> slots[y].init) /\ living' = living + Holds(s) - Holds(slots[x])
      <4>1. CASE s.init <=> slots[x].init
        <5>1. EngagedSlots' = EngagedSlots
          BY <1>2, <3>1, <4>1 DEF EngagedSlots, Initialized
        <5> QED
          BY <2>1, <3>1, <4>1, <5>1, EngagedCount DEF Holds
      <4>2. CASE s.init /\ ~ slots[x].init
        <5>1. x \notin EngagedSlots /\ EngagedSlots' = EngagedSlots \cup {x}
          BY <1>2, <3>1, <4>2 DEF EngagedSlots, Initialized
        <5>2. Cardinality(EngagedSlots') = Cardinality(EngagedSlots) + 1
          BY <5>1, OneMore
        <5>3. Holds(s) = 1 /\ Holds(slots[x]) = 0
          BY <4>2 DEF Holds
        <5> QED
          BY <2>1, <3>1, <5>2, <5>3, EngagedCount
      <4>3. CASE ~ s.init /\ slots[x].init
        <5>1. x \in EngagedSlots /\ EngagedSlots' = EngagedSlots \ {x}
          BY <1>2, <3>1, <4>3 DEF EngagedSlots, Initialized
        <5>2. Cardinality(EngagedSlots') = Cardinality(EngagedSlots) - 1
          BY <5>1, OneLess
        <5>3. Holds(s) = 0 /\ Holds(slots[x]) = 1
          BY <4>3 DEF Holds
        <5> QED
          BY <2>1, <3>1, <5>2, <5>3, EngagedCount
      <4> QED
        BY <4>1, <4>2, <4>3
    <3>2. CASE s.init /\ ~ t.init /\ ~ slots[x].init /\ slots[y].init /\ living' = living
      <4>1. /\ y \in EngagedSlots /\ x \notin EngagedSlots
            /\ EngagedSlots' = (EngagedSlots \ {y}) \cup {x}
        BY <1>2, <3>2 DEF EngagedSlots, Initialized
      <4> QED
        BY <2>1, <3>2, <4>1, OneForAnother
    <3>3. CASE ~ s.init /\ t.init /\ slots[x].init /\ ~ slots[y].init /\ living' = living
      <4>1. /\ x \in EngagedSlots /\ y \notin EngagedSlots
            /\ EngagedSlots' = (EngagedSlots \ {x}) \cup {y}
        BY <1>2, <3>3 DEF EngagedSlots, Initialized
      <4> QED
        BY <2>1, <3>3, <4>1, OneForAnother
    <3> QED
      BY <1>5, <3>1, <3>2, <3>3
  <2> QED
    BY <1>3, <1>5, <2>2, <2>3, FlagsKept DEF Told
<1> QED
  BY <1>4, <1>5

\* The types of a slot's fields, for the provers.
LEMMA TypesNow ==
    ASSUME OptionalInv
    PROVE  /\ slots \in [Slots -> SlotStates]
           /\ living \in Int /\ damage \in BOOLEAN /\ copyThrew \in BOOLEAN
           /\ \A x \in Slots : slots[x].init \in BOOLEAN /\ slots[x].cell \in Ts \cup {Raw}
                             /\ slots[x].alive \in BOOLEAN
BY DEF OptionalInv, OptionalTypes, SlotStates

\* In a told slot, the flag is about the cell.
LEMMA ToldOfSlots ==
    ASSUME OptionalInv, ~ copyThrew, NEW x \in Slots
    PROVE  /\ slots[x].init <=> slots[x].cell # Raw
           /\ Holds(slots[x]) = IF slots[x].init THEN 1 ELSE 0
           /\ ~ damage
BY ToldNow, TypesNow DEF Told, Holds

\* optional() and optional(nullopt_t).
LEMMA DefaultKeeps == ASSUME OptionalInv, NEW x \in Slots, Default(x) PROVE OptionalInv'
<1>1. /\ Now(x, Disengaged) /\ ~ Alive(x)
      /\ living' = living /\ damage' = damage /\ copyThrew' = copyThrew
  BY DEF Default
<1>2. ASSUME ~ copyThrew PROVE ~ damage /\ Holds(slots[x]) = 0
  BY <1>1, <1>2, ToldNow, TypesNow DEF Told, Holds, Alive
<1> QED
  BY <1>1, <1>2, SlotValues, ToldStates, TypesNow, OneSlotKeeps

\* optional(const T&), optional(T&&) and optional(in_place_t).
LEMMA FromValueKeeps ==
    ASSUME OptionalInv, NEW x \in Slots, NEW v \in Ts, FromValue(x, v) PROVE OptionalInv'
<1>1. /\ Now(x, Engaged(v)) /\ ~ Alive(x)
      /\ living' = living + 1 /\ damage' = damage /\ copyThrew' = copyThrew
  BY DEF FromValue
<1>2. ASSUME ~ copyThrew PROVE ~ damage /\ Holds(slots[x]) = 0
  BY <1>1, <1>2, ToldNow, TypesNow DEF Told, Holds, Alive
<1> QED
  BY <1>1, <1>2, SlotValues, ToldStates, TypesNow, OneSlotKeeps

\* What the destructor and clear() do to the count.
LEMMA CellDestroyed ==
    ASSUME OptionalInv, NEW x \in Slots,
           IF Initialized(x) THEN DestroyCell(slots[x].cell = Raw)
                             ELSE UNCHANGED <<living, damage>>
    PROVE  /\ living' \in Int /\ damage' \in BOOLEAN
           /\ ~ copyThrew => ~ damage' /\ living' = living - Holds(slots[x])
<1>1. living' \in Int /\ damage' \in BOOLEAN
  BY TypesNow DEF DestroyCell, Initialized
<1>2. ASSUME ~ copyThrew PROVE ~ damage' /\ living' = living - Holds(slots[x])
  BY <1>2, TypesNow, ToldOfSlots DEF DestroyCell, Initialized
<1> QED
  BY <1>1, <1>2

\* clear(), which operator=(nullopt_t), assignment and emplace() call.
LEMMA ClearKeeps ==
    ASSUME OptionalInv, NEW x \in Slots, Clear(x), UNCHANGED copyThrew PROVE OptionalInv'
<1>1. /\ living' \in Int /\ damage' \in BOOLEAN
      /\ ~ copyThrew => ~ damage' /\ living' = living - Holds(slots[x])
  BY CellDestroyed DEF Clear
<1>2. Holds(slots[x]) \in Int
  BY DEF Holds
<1> QED
  BY <1>1, <1>2, SlotValues, ToldStates, TypesNow, OneSlotKeeps DEF Clear

\* ~optional_base().
LEMMA DestroyKeeps ==
    ASSUME OptionalInv, NEW x \in Slots, DestroyOptional(x) PROVE OptionalInv'
<1>1. /\ living' \in Int /\ damage' \in BOOLEAN
      /\ ~ copyThrew => ~ damage' /\ living' = living - Holds(slots[x])
  BY CellDestroyed DEF DestroyOptional
<1>2. Holds(slots[x]) \in Int
  BY DEF Holds
<1> QED
  BY <1>1, <1>2, SlotValues, ToldStates, TypesNow, OneSlotKeeps DEF DestroyOptional

\* operator=(T).
LEMMA AssignValueKeeps ==
    ASSUME OptionalInv, NEW x \in Slots, NEW v \in Ts, AssignValue(x, v) PROVE OptionalInv'
<1>1. Now(x, Engaged(v)) /\ copyThrew' = copyThrew
  BY DEF AssignValue, Initialize
<1>2. living' \in Int /\ damage' \in BOOLEAN
  <2>1. CASE Initialized(x)
    BY <2>1, TypesNow DEF AssignValue
  <2>2. CASE ~ Initialized(x)
    BY <2>2, TypesNow DEF AssignValue, Initialize
  <2> QED
    BY <2>1, <2>2
<1>3. ASSUME ~ copyThrew PROVE ~ damage' /\ living' = living + 1 - Holds(slots[x])
  BY <1>3, TypesNow, ToldOfSlots DEF AssignValue, Initialize, Initialized
<1> QED
  BY <1>1, <1>2, <1>3, SlotValues, ToldStates, OneSlotKeeps

\* emplace(), also when T throws half way.
LEMMA EmplaceKeeps ==
    ASSUME OptionalInv, NEW x \in Slots, NEW v \in Ts, Emplace(x, v) PROVE OptionalInv'
<1>1. CASE Clear(x)
  BY <1>1, ClearKeeps DEF Emplace
<1>2. CASE /\ Now(x, Engaged(v))
           /\ living' = IF Initialized(x) THEN living ELSE living + 1
           /\ damage' = (damage \/ (Initialized(x) # (slots[x].cell # Raw)))
  <2>1. living' \in Int /\ damage' \in BOOLEAN /\ copyThrew' = copyThrew
    BY <1>2, TypesNow DEF Emplace
  <2>2. ASSUME ~ copyThrew PROVE ~ damage' /\ living' = living + 1 - Holds(slots[x])
    BY <1>2, <2>2, TypesNow, ToldOfSlots DEF Initialized
  <2> QED
    BY <1>2, <2>1, <2>2, SlotValues, ToldStates, OneSlotKeeps
<1> QED
  BY <1>1, <1>2 DEF Emplace

\* optional(const optional&) and optional(optional&&).
LEMMA FromOptionalKeeps ==
    ASSUME OptionalInv, NEW x \in Slots, NEW y \in Slots, NEW moves \in BOOLEAN,
           FromOptional(x, y, moves)
    PROVE  OptionalInv'
<1>1. ~ Alive(x) /\ Alive(y) /\ x # y
  BY DEF FromOptional
<1>2. ASSUME ~ copyThrew PROVE ~ damage /\ Holds(slots[x]) = 0 /\ ~ slots[x].init
  BY <1>1, <1>2, ToldNow, TypesNow DEF Told, Holds, Alive
<1>3. CASE ~ Initialized(y) /\ Now(x, Disengaged) /\ UNCHANGED <<living, damage, copyThrew>>
  BY <1>2, <1>3, SlotValues, ToldStates, TypesNow, OneSlotKeeps
<1>4. CASE /\ Initialized(y)
           /\ Both(x, Engaged(slots[y].cell), y, IF moves THEN Engaged(0) ELSE slots[y])
           /\ living' = living + 1
           /\ UNCHANGED <<damage, copyThrew>>
  <2> DEFINE left == IF moves THEN Engaged(0) ELSE slots[y]
  <2>1. left \in SlotStates /\ Engaged(slots[y].cell) \in SlotStates
    BY SlotValues, TypesNow
  <2>2. ASSUME ~ copyThrew
        PROVE  /\ Told(Engaged(slots[y].cell)) /\ Holds(Engaged(slots[y].cell)) = 1
               /\ Told(left) /\ (left.init <=> slots[y].init)
    <3>1. slots[y].cell \in Ts /\ Told(slots[y])
      BY <1>4, <2>2, ToldNow, TypesNow, ToldOfSlots DEF Initialized
    <3> QED
      BY <1>4, <3>1, SlotValues, ToldStates, TypesNow DEF Initialized
  <2>3. living' \in Int /\ damage' \in BOOLEAN /\ copyThrew' = copyThrew
    BY <1>4, TypesNow
  <2> HIDE DEF left
  <2>4. Both(x, Engaged(slots[y].cell), y, left)
    BY <1>4 DEF left
  <2> QED
    BY <1>1, <1>2, <1>4, <2>1, <2>2, <2>3, <2>4, TypesNow, TwoSlotsKeep
<1>5. CASE copyThrew' /\ DestroyCell(TRUE) /\ UNCHANGED slots
  BY <1>5, TypesNow, FlagsKept DEF DestroyCell, OptionalTypes
<1> QED
  BY <1>3, <1>4, <1>5 DEF FromOptional

\* Two slots change at once: in no order.
LEMMA BothCommutes ==
    ASSUME OptionalInv, NEW x \in Slots, NEW y \in Slots, x # y, NEW s, NEW t, Both(x, s, y, t)
    PROVE  Both(y, t, x, s)
BY TypesNow DEF Both

\* Nothing happens.
LEMMA OptionalStutters == ASSUME OptionalInv, UNCHANGED optionalVars PROVE OptionalInv'
BY DEF OptionalInv, OptionalTypes, FlagsTellTheTruth, Initialized, Alive, optionalVars

\* operator=(const optional&) and operator=(optional&&), also of an optional to itself.
LEMMA AssignKeeps ==
    ASSUME OptionalInv, NEW x \in Slots, NEW y \in Slots, NEW moves \in BOOLEAN,
           Assign(x, y, moves)
    PROVE  OptionalInv'
<1> DEFINE origin == IF moves /\ Initialized(y) THEN Engaged(0) ELSE slots[y]
           target == IF x = y THEN origin ELSE Engaged(slots[y].cell)
<1>1. copyThrew' = copyThrew
  BY DEF Assign
<1>2. origin \in SlotStates /\ target \in SlotStates
  BY SlotValues, TypesNow
<1>3. ASSUME ~ copyThrew, Initialized(y)
      PROVE  /\ Told(origin) /\ (origin.init <=> slots[y].init)
             /\ Told(target) /\ Holds(target) = 1 /\ Holds(slots[y]) = 1
  <2>1. slots[y].cell \in Ts /\ Told(slots[y]) /\ Holds(slots[y]) = 1
    BY <1>3, ToldNow, TypesNow, ToldOfSlots DEF Initialized
  <2>2. Told(origin) /\ (origin.init <=> slots[y].init) /\ Holds(origin) = 1
    BY <1>3, <2>1, SlotValues, ToldStates, TypesNow DEF Initialized
  <2> QED
    BY <2>1, <2>2, ToldStates
<1>4. CASE Initialized(x) /\ ~ Initialized(y) /\ Clear(x)
  BY <1>1, <1>4, ClearKeeps
<1>5. CASE /\ ~ Initialized(x) /\ Initialized(y)
           /\ Both(y, origin, x, target)
           /\ living' = living + 1
           /\ damage' = (damage \/ slots[x].cell # Raw)
  <2>1. x # y
    BY <1>5
  <2>2. Both(x, target, y, origin)
    BY <1>5, <2>1, BothCommutes
  <2>3. living' \in Int /\ damage' \in BOOLEAN
    BY <1>5, TypesNow
  <2>4. ASSUME ~ copyThrew PROVE ~ damage' /\ Holds(slots[x]) = 0
    BY <1>5, <2>4, TypesNow, ToldOfSlots DEF Initialized
  <2> HIDE DEF origin, target
  <2> QED
    BY <1>1, <1>2, <1>3, <1>5, <2>1, <2>2, <2>3, <2>4, TypesNow, TwoSlotsKeep
<1>6. CASE /\ Initialized(x) /\ Initialized(y)
           /\ Both(y, origin, x, target)
           /\ damage' = (damage \/ Raw \in {slots[x].cell, slots[y].cell})
           /\ UNCHANGED living
  <2>1. living' \in Int /\ damage' \in BOOLEAN
    BY <1>6, TypesNow
  <2>2. ASSUME ~ copyThrew PROVE ~ damage' /\ Holds(slots[x]) = 1
    BY <1>6, <2>2, TypesNow, ToldOfSlots DEF Initialized
  <2>3. CASE x = y
    <3>1. Now(x, target)
      BY <1>6, <2>3, TypesNow DEF Both, Now
    <3> HIDE DEF origin, target
    <3> QED
      BY <1>1, <1>2, <1>3, <1>6, <2>1, <2>2, <3>1, TypesNow, OneSlotKeeps
  <2>4. CASE x # y
    <3>1. Both(x, target, y, origin)
      BY <1>6, <2>4, BothCommutes
    <3> HIDE DEF origin, target
    <3> QED
      BY <1>1, <1>2, <1>3, <1>6, <2>1, <2>2, <2>4, <3>1, TypesNow, TwoSlotsKeep
  <2> QED
    BY <2>3, <2>4
<1>7. CASE UNCHANGED <<slots, living, damage>>
  BY <1>1, <1>7, OptionalStutters DEF optionalVars
<1> QED
  BY <1>4, <1>5, <1>6, <1>7 DEF Assign

\* swap(), also of an optional with itself.
LEMMA SwapKeeps ==
    ASSUME OptionalInv, NEW x \in Slots, NEW y \in Slots, Swap(x, y)
    PROVE  OptionalInv'
<1>1. /\ Both(x, slots[y], y, slots[x])
      /\ living' = living /\ copyThrew' = copyThrew
      /\ Initialized(x) \/ Initialized(y)
  BY DEF Swap
<1>2. damage' \in BOOLEAN
  BY TypesNow DEF Swap
<1>3. ASSUME ~ copyThrew
      PROVE  ~ damage' /\ Told(slots[x]) /\ Told(slots[y])
  BY <1>3, ToldNow, TypesNow, ToldOfSlots DEF Swap, Initialized
<1>4. CASE x = y
  <2>1. Now(x, slots[x])
    BY <1>1, <1>4, TypesNow DEF Both, Now
  <2>2. living' = living + Holds(slots[x]) - Holds(slots[x])
    BY <1>1, TypesNow DEF Holds
  <2> QED
    BY <1>1, <1>2, <1>3, <2>1, <2>2, TypesNow, OneSlotKeeps
<1>5. CASE x # y
  <2>1. \/ /\ slots[x].init <=> slots[y].init
           /\ living' = living + Holds(slots[y]) - Holds(slots[x])
        \/ slots[y].init /\ ~ slots[x].init
        \/ ~ slots[y].init /\ slots[x].init
    BY <1>1, TypesNow DEF Holds
  <2> QED
    BY <1>1, <1>2, <1>3, <1>5, <2>1, TypesNow, TwoSlotsKeep
<1> QED
  BY <1>4, <1>5

\* Every operation keeps the invariant.
LEMMA OptionalStep == OptionalInv /\ [OptionalNext]_optionalVars => OptionalInv'
<1> SUFFICES ASSUME OptionalInv, [OptionalNext]_optionalVars PROVE OptionalInv'
  OBVIOUS
<1>1. CASE UNCHANGED optionalVars
  BY <1>1, OptionalStutters
<1>2. CASE \E x \in Slots : Default(x) \/ DestroyOptional(x) \/ AssignNothing(x)
  BY <1>2, DefaultKeeps, DestroyKeeps, ClearKeeps DEF AssignNothing
<1>3. CASE \E x \in Slots, v \in Ts : FromValue(x, v) \/ AssignValue(x, v) \/ Emplace(x, v)
  BY <1>3, FromValueKeeps, AssignValueKeeps, EmplaceKeeps
<1>4. CASE \E x, y \in Slots, moves \in BOOLEAN :
              FromOptional(x, y, moves) \/ Assign(x, y, moves)
  BY <1>4, FromOptionalKeeps, AssignKeeps
<1>5. CASE \E x, y \in Slots : Swap(x, y)
  BY <1>5, SwapKeeps
<1> QED
  BY <1>1, <1>2, <1>3, <1>4, <1>5 DEF OptionalNext

\* An optional's flag tells whether there is a T in it, and as many T's live as flags are set:
\* none is destroyed twice and none leaks, whatever optionals are made, assigned, swapped and
\* destroyed (optional.hpp:196-463), until T throws in the constructor from another optional.
THEOREM OptionalsTellTheTruth == OptionalSpec => []FlagsTellTheTruth
<1>1. OptionalInv => FlagsTellTheTruth
  BY DEF OptionalInv
<1> QED
  BY <1>1, OptionalInitially, OptionalStep, PTL DEF OptionalSpec
\* Exactly one of <, == and > holds between two states.
LEMMA Trichotomy ==
    ASSUME NEW o \in SlotStates, NEW p \in SlotStates
    PROVE  Cardinality({r \in {"<", "=", ">"} :
             CASE r = "<" -> Less(o, p) [] r = "=" -> Equal(o, p) [] r = ">" -> Greater(o, p)}) = 1
<1> DEFINE holds(r) == CASE r = "<" -> Less(o, p)
                         [] r = "=" -> Equal(o, p)
                         [] r = ">" -> Greater(o, p)
           K == {r \in {"<", "=", ">"} : holds(r)}
<1>1. /\ holds("<") = Less(o, p)
      /\ holds("=") = Equal(o, p)
      /\ holds(">") = Greater(o, p)
  BY Zenon
<1>2. o.cell \in Int /\ p.cell \in Int /\ o.init \in BOOLEAN /\ p.init \in BOOLEAN
  BY OptionalAssumption DEF SlotStates, Ts, Raw
<1> HIDE DEF holds
<1>3. \/ Less(o, p) /\ ~ Equal(o, p) /\ ~ Greater(o, p)
      \/ ~ Less(o, p) /\ Equal(o, p) /\ ~ Greater(o, p)
      \/ ~ Less(o, p) /\ ~ Equal(o, p) /\ Greater(o, p)
  BY <1>2 DEF Less, Equal, Greater
<1>4. K = {"<"} \/ K = {"="} \/ K = {">"}
  BY <1>1, <1>3
<1>5. Cardinality(K) = 1
  BY <1>4, FS_Singleton
<1> QED
  BY <1>5 DEF holds

\* <= is < or ==, and >= is > or ==.
LEMMA OperatorsAgree ==
    ASSUME NEW o \in SlotStates, NEW p \in SlotStates
    PROVE  /\ LessOrEqual(o, p) = (Less(o, p) \/ Equal(o, p))
           /\ GreaterOrEqual(o, p) = (Greater(o, p) \/ Equal(o, p))
<1>1. o.cell \in Int /\ p.cell \in Int /\ o.init \in BOOLEAN /\ p.init \in BOOLEAN
  BY OptionalAssumption DEF SlotStates, Ts, Raw
<1>2. LessOrEqual(o, p) <=> (Less(o, p) \/ Equal(o, p))
  BY <1>1 DEF Less, Equal, LessOrEqual
<1>3. GreaterOrEqual(o, p) <=> (Greater(o, p) \/ Equal(o, p))
  BY <1>1 DEF Less, Equal, Greater, GreaterOrEqual
<1>4. LessOrEqual(o, p) \in BOOLEAN /\ GreaterOrEqual(o, p) \in BOOLEAN
  BY DEF LessOrEqual, GreaterOrEqual
<1> QED
  BY <1>2, <1>3, <1>4

\* Comparing with nullopt is comparing with a disengaged optional.
LEMMA NothingAgrees ==
    ASSUME NEW o \in SlotStates
    PROVE  /\ LessThanNothing(o) = Less(o, Disengaged) /\ NothingLess(o) = Less(Disengaged, o)
           /\ EqualsNothing(o) = Equal(o, Disengaged)
           /\ LessOrEqualNothing(o) = LessOrEqual(o, Disengaged)
<1>1. o.init \in BOOLEAN
  BY DEF SlotStates
<1>2. LessThanNothing(o) = Less(o, Disengaged)
  BY DEF LessThanNothing, Less, Disengaged
<1>3. NothingLess(o) = Less(Disengaged, o)
  BY <1>1 DEF NothingLess, Less, Disengaged
<1>4. EqualsNothing(o) = Equal(o, Disengaged)
  BY <1>1 DEF EqualsNothing, Equal, Disengaged
<1>5. LessOrEqualNothing(o) = LessOrEqual(o, Disengaged)
  BY <1>1 DEF LessOrEqualNothing, LessOrEqual, Less, Disengaged
<1> QED
  BY <1>2, <1>3, <1>4, <1>5

\* Comparing with a T is comparing with an optional of it.
LEMMA ValuesAgree ==
    ASSUME NEW o \in SlotStates, NEW v \in Ts
    PROVE  /\ EqualsValue(o, v) = Equal(o, Engaged(v))
           /\ LessThanValue(o, v) = Less(o, Engaged(v))
           /\ GreaterThanValue(o, v) = Greater(o, Engaged(v))
           /\ LessOrEqualValue(o, v) = LessOrEqual(o, Engaged(v))
           /\ GreaterOrEqualValue(o, v) = GreaterOrEqual(o, Engaged(v))
<1>1. o.cell \in Int /\ v \in Int /\ o.init \in BOOLEAN
  BY OptionalAssumption DEF SlotStates, Ts, Raw
<1>2. EqualsValue(o, v) = Equal(o, Engaged(v))
  BY <1>1 DEF EqualsValue, Equal, Engaged
<1>3. LessThanValue(o, v) = Less(o, Engaged(v))
  BY <1>1 DEF LessThanValue, Less, Engaged
<1>4. GreaterThanValue(o, v) = Greater(o, Engaged(v))
  BY <1>1 DEF GreaterThanValue, Greater, Less, Engaged
<1>5. LessOrEqualValue(o, v) = LessOrEqual(o, Engaged(v))
  <2>1. CASE o.init
    <3>1. LessOrEqualValue(o, v) = (o.cell <= v)
      BY <2>1 DEF LessOrEqualValue
    <3>2. LessOrEqual(o, Engaged(v)) = (o.cell <= v)
      BY <1>1, <2>1 DEF LessOrEqual, Less, Engaged
    <3> QED
      BY <3>1, <3>2
  <2>2. CASE ~ o.init
    BY <1>1, <2>2 DEF LessOrEqualValue, LessOrEqual, Less, Engaged
  <2> QED
    BY <2>1, <2>2
<1>6. GreaterOrEqualValue(o, v) = GreaterOrEqual(o, Engaged(v))
  <2>1. CASE o.init
    <3>1. GreaterOrEqualValue(o, v) = (o.cell >= v)
      BY <2>1 DEF GreaterOrEqualValue
    <3>2. GreaterOrEqual(o, Engaged(v)) = (o.cell >= v)
      BY <1>1, <2>1 DEF GreaterOrEqual, Less, Engaged
    <3> QED
      BY <3>1, <3>2
  <2>2. CASE ~ o.init
    BY <1>1, <2>2 DEF GreaterOrEqualValue, GreaterOrEqual, Less, Engaged
  <2> QED
    BY <2>1, <2>2
<1> QED
  BY <1>2, <1>3, <1>4, <1>5, <1>6

\* The comparison operators form one order, whatever the optionals have been through: exactly
\* one of <, == and > holds, and the operators with nullopt and with a T agree with those of two
\* optionals (optional.hpp:561-714).
THEOREM OptionalsCompare == OptionalSpec => []ComparesConsistently
<1>1. ASSUME OptionalInv PROVE ComparesConsistently
  <2>1. ASSUME NEW x \in Slots PROVE slots[x] \in SlotStates
    BY <1>1, TypesNow
  <2>2. ASSUME NEW x \in Slots, NEW y \in Slots
        PROVE  Cardinality({r \in {"<", "=", ">"} :
                 CASE r = "<" -> Less(slots[x], slots[y]) [] r = "=" -> Equal(slots[x], slots[y])
                   [] r = ">" -> Greater(slots[x], slots[y])}) = 1
    BY <2>1, Trichotomy, Zenon
  <2> QED
    BY <2>1, <2>2, OperatorsAgree, NothingAgrees, ValuesAgree, Zenon DEF ComparesConsistently
<1> QED
  BY <1>1, OptionalInitially, OptionalStep, PTL DEF OptionalSpec

-----------------------------------------------------------------------------
(* JavascriptObject *)

\* What is in a box is what a call has put there.
BoxInv(b) ==
    ~ IsEmpty(boxes[b]) =>
        /\ madeOf[b] \in Sources
        /\ boxes[b].mType = madeOf[b][1]
        /\ boxes[b].member = MemberOf[madeOf[b][1]]
        /\ boxes[b].value = madeOf[b][2]

ObjectTypes ==
    /\ boxes = [b \in Boxes |-> boxes[b]]
    /\ madeOf = [b \in Boxes |-> madeOf[b]]
    /\ owners \in [Shared -> Int]
    /\ strings \in Int

ObjectInv ==
    /\ ObjectTypes
    /\ \A b \in Boxes : BoxInv(b)
    /\ MembersAreCounted

StringBoxes == {b \in Boxes : boxes[b].mType = "STRING"}

\* What an object is made of: a tag and a value of its type.
LEMMA SourceIsPair ==
    ASSUME NEW s \in Sources
    PROVE  /\ s = <<s[1], s[2]>>
           /\ s[1] \in {"NIL", "STRING", "BOOLEAN", "NUMBER", "ARRAY", "MAP"}
           /\ s[1] = "NIL" => s[2] = NullHandle
           /\ s[1] = "NUMBER" => s[2] \in Int
<1>1. CASE s = <<"NIL", NullHandle>>
  BY <1>1
<1>2. CASE s = <<"STRING", "text">>
  BY <1>2
<1>3. CASE s \in {"BOOLEAN"} \X BOOLEAN
  BY <1>3
<1>4. CASE s \in {"NUMBER"} \X Halves
  <2>1. PICK h \in Halves : s = <<"NUMBER", h>>
    BY <1>4
  <2>2. h \in Int
    BY IntLimitAssumption
  <2> QED
    BY <2>1, <2>2
<1>5. CASE s \in {"ARRAY"} \X (Arrays \cup {NullHandle})
  BY <1>5
<1>6. CASE s \in {"MAP"} \X (Maps \cup {NullHandle})
  BY <1>6
<1> QED
  BY <1>1, <1>2, <1>3, <1>4, <1>5, <1>6 DEF Sources

\* The boxes that hold an array or a map can be counted.
LEMMA HoldersAreFinite ==
    ASSUME NEW c
    PROVE  /\ IsFiniteSet(Holders(c)) /\ IsFiniteSet(Holders(c)')
           /\ Cardinality(Holders(c)) \in Nat
<1>1. Holders(c) \subseteq Boxes /\ Holders(c)' \subseteq Boxes
  BY DEF Holders
<1> QED
  BY <1>1, BoxesAssumption, FS_Subset, FS_CardinalityType

\* The boxes that hold a string can be counted.
LEMMA TextsAreFinite ==
    IsFiniteSet(StringBoxes) /\ IsFiniteSet(StringBoxes') /\ Cardinality(StringBoxes) \in Nat
<1>1. StringBoxes \subseteq Boxes /\ StringBoxes' \subseteq Boxes
  BY DEF StringBoxes
<1> QED
  BY <1>1, BoxesAssumption, FS_Subset, FS_CardinalityType

\* The counts that a box is about.
OwnsOf(box, c) == IF box.mType \in Owning /\ box.value = c THEN 1 ELSE 0
TextOf(box) == IF box.mType = "STRING" THEN 1 ELSE 0

\* One box changes and the others do not.
LEMMA BoxChanges ==
    ASSUME ObjectTypes, NEW b \in Boxes, NEW box, boxes' = [boxes EXCEPT ![b] = box]
    PROVE  /\ boxes' = [d \in Boxes |-> boxes'[d]]
           /\ boxes'[b] = box
           /\ \A d \in Boxes \ {b} : boxes'[d] = boxes[d]
BY DEF ObjectTypes

\* How many boxes hold c, before and after one of them changes.
LEMMA HoldersChange ==
    ASSUME ObjectTypes, NEW b \in Boxes, NEW box, boxes' = [boxes EXCEPT ![b] = box],
           NEW c \in Shared
    PROVE  Cardinality(Holders(c)') =
               Cardinality(Holders(c)) + OwnsOf(box, c) - OwnsOf(boxes[b], c)
<1> DEFINE now == box.mType \in Owning /\ box.value = c
           before == boxes[b].mType \in Owning /\ boxes[b].value = c
<1>1. /\ boxes'[b] = box
      /\ \A d \in Boxes \ {b} : boxes'[d] = boxes[d]
  BY BoxChanges
<1>2. CASE now <=> before
  <2>1. Holders(c)' = Holders(c)
    BY <1>1, <1>2 DEF Holders
  <2>2. OwnsOf(box, c) = OwnsOf(boxes[b], c) /\ OwnsOf(box, c) \in Int
    BY <1>2 DEF OwnsOf
  <2> QED
    BY <2>1, <2>2, HoldersAreFinite
<1>3. CASE now /\ ~ before
  <2>1. b \notin Holders(c) /\ Holders(c)' = Holders(c) \cup {b}
    BY <1>1, <1>3 DEF Holders
  <2>2. Cardinality(Holders(c)') = Cardinality(Holders(c)) + 1
    BY <2>1, HoldersAreFinite, FS_AddElement
  <2>3. OwnsOf(box, c) = 1 /\ OwnsOf(boxes[b], c) = 0
    BY <1>3 DEF OwnsOf
  <2> QED
    BY <2>2, <2>3, HoldersAreFinite
<1>4. CASE ~ now /\ before
  <2>1. b \in Holders(c) /\ Holders(c)' = Holders(c) \ {b}
    BY <1>1, <1>4 DEF Holders
  <2>2. Cardinality(Holders(c)') = Cardinality(Holders(c)) - 1
    BY <2>1, HoldersAreFinite, FS_RemoveElement
  <2>3. OwnsOf(box, c) = 0 /\ OwnsOf(boxes[b], c) = 1
    BY <1>4 DEF OwnsOf
  <2> QED
    BY <2>2, <2>3, HoldersAreFinite
<1> QED
  BY <1>2, <1>3, <1>4

\* How many boxes hold a string, before and after one of them changes.
LEMMA TextsChange ==
    ASSUME ObjectTypes, NEW b \in Boxes, NEW box, boxes' = [boxes EXCEPT ![b] = box]
    PROVE  Cardinality(StringBoxes') = Cardinality(StringBoxes) + TextOf(box) - TextOf(boxes[b])
<1> DEFINE now == box.mType = "STRING"
           before == boxes[b].mType = "STRING"
<1>1. /\ boxes'[b] = box
      /\ \A d \in Boxes \ {b} : boxes'[d] = boxes[d]
  BY BoxChanges
<1>2. CASE now <=> before
  <2>1. StringBoxes' = StringBoxes
    BY <1>1, <1>2 DEF StringBoxes
  <2>2. TextOf(box) = TextOf(boxes[b]) /\ TextOf(box) \in Int
    BY <1>2 DEF TextOf
  <2> QED
    BY <2>1, <2>2, TextsAreFinite
<1>3. CASE now /\ ~ before
  <2>1. b \notin StringBoxes /\ StringBoxes' = StringBoxes \cup {b}
    BY <1>1, <1>3 DEF StringBoxes
  <2>2. Cardinality(StringBoxes') = Cardinality(StringBoxes) + 1
    BY <2>1, TextsAreFinite, FS_AddElement
  <2>3. TextOf(box) = 1 /\ TextOf(boxes[b]) = 0
    BY <1>3 DEF TextOf
  <2> QED
    BY <2>2, <2>3, TextsAreFinite
<1>4. CASE ~ now /\ before
  <2>1. b \in StringBoxes /\ StringBoxes' = StringBoxes \ {b}
    BY <1>1, <1>4 DEF StringBoxes
  <2>2. Cardinality(StringBoxes') = Cardinality(StringBoxes) - 1
    BY <2>1, TextsAreFinite, FS_RemoveElement
  <2>3. TextOf(box) = 0 /\ TextOf(boxes[b]) = 1
    BY <1>4 DEF TextOf
  <2> QED
    BY <2>2, <2>3, TextsAreFinite
<1> QED
  BY <1>2, <1>3, <1>4

\* One box changes, and the counts with it.
LEMMA OneBoxKeeps ==
    ASSUME ObjectInv, NEW b \in Boxes, NEW box, boxes' = [boxes EXCEPT ![b] = box],
           NEW made, madeOf' = [madeOf EXCEPT ![b] = made], app' = app,
           ~ IsEmpty(box) => /\ made \in Sources
                             /\ box.mType = made[1]
                             /\ box.member = MemberOf[made[1]]
                             /\ box.value = made[2],
           owners' \in [Shared -> Int], strings' \in Int,
           \A c \in Shared : owners'[c] = owners[c] + OwnsOf(box, c) - OwnsOf(boxes[b], c),
           strings' = strings + TextOf(box) - TextOf(boxes[b])
    PROVE  ObjectInv'
<1>1. /\ boxes' = [d \in Boxes |-> boxes'[d]]
      /\ boxes'[b] = box
      /\ \A d \in Boxes \ {b} : boxes'[d] = boxes[d]
  BY BoxChanges DEF ObjectInv
<1>2. /\ madeOf' = [d \in Boxes |-> madeOf'[d]]
      /\ madeOf'[b] = made
      /\ \A d \in Boxes \ {b} : madeOf'[d] = madeOf[d]
  BY DEF ObjectInv, ObjectTypes
<1>3. ObjectTypes'
  BY <1>1, <1>2 DEF ObjectTypes
<1>4. ASSUME NEW d \in Boxes PROVE BoxInv(d)'
  BY <1>1, <1>2 DEF ObjectInv, BoxInv
<1>5. ASSUME NEW c \in Shared
      PROVE  owners'[c] = Cardinality(Holders(c)') + (IF c \in app THEN 1 ELSE 0)
  <2>1. owners[c] = Cardinality(Holders(c)) + (IF c \in app THEN 1 ELSE 0)
    BY DEF ObjectInv, MembersAreCounted
  <2>2. OwnsOf(box, c) \in Int /\ OwnsOf(boxes[b], c) \in Int
    BY DEF OwnsOf
  <2>3. Cardinality(Holders(c)') =
            Cardinality(Holders(c)) + OwnsOf(box, c) - OwnsOf(boxes[b], c)
    BY HoldersChange DEF ObjectInv
  <2> QED
    BY <2>1, <2>2, <2>3, HoldersAreFinite
<1>6. strings' = Cardinality(StringBoxes')
  <2>1. strings = Cardinality(StringBoxes)
    BY DEF ObjectInv, MembersAreCounted, StringBoxes
  <2> QED
    BY <2>1, TextsChange DEF ObjectInv
<1> QED
  BY <1>3, <1>4, <1>5, <1>6 DEF ObjectInv, MembersAreCounted, StringBoxes

\* A shared_ptr that is copied or destroyed moves one count by one.
LEMMA CountsChange ==
    ASSUME owners \in [Shared -> Int], NEW v
    PROVE  /\ Copied(owners, v) \in [Shared -> Int]
           /\ Released(owners, v) \in [Shared -> Int]
           /\ \A c \in Shared :
                /\ Copied(owners, v)[c] = IF v = c THEN owners[c] + 1 ELSE owners[c]
                /\ Released(owners, v)[c] = IF v = c THEN owners[c] - 1 ELSE owners[c]
BY DEF Copied, Released

\* An empty box holds nothing that is counted.
LEMMA EmptyCounts ==
    /\ IsEmpty(Empty)
    /\ \A box : IsEmpty(box) => TextOf(box) = 0 /\ \A c \in Shared : OwnsOf(box, c) = 0
BY DEF IsEmpty, Empty, TextOf, OwnsOf, Owning

\* fromNull() .. fromMap().
LEMMA MakeObjectKeeps ==
    ASSUME ObjectInv, NEW b \in Boxes, NEW s \in Sources, MakeObject(b, s[1], s[2])
    PROVE  ObjectInv'
<1> DEFINE box == [mType |-> s[1], member |-> MemberOf[s[1]], value |-> s[2]]
<1>1. /\ IsEmpty(boxes[b])
      /\ boxes' = [boxes EXCEPT ![b] = box]
      /\ owners' = IF s[1] \in Owning THEN Copied(owners, s[2]) ELSE owners
      /\ strings' = IF s[1] = "STRING" THEN strings + 1 ELSE strings
      /\ madeOf' = [madeOf EXCEPT ![b] = s]
      /\ app' = app
  BY SourceIsPair DEF MakeObject
<1>2. box.mType = s[1] /\ box.member = MemberOf[s[1]] /\ box.value = s[2]
  OBVIOUS
<1>3. TextOf(boxes[b]) = 0 /\ \A c \in Shared : OwnsOf(boxes[b], c) = 0
  BY <1>1, EmptyCounts
<1>4. owners \in [Shared -> Int] /\ strings \in Int
  BY DEF ObjectInv, ObjectTypes
<1> HIDE DEF box
<1>5. /\ owners' \in [Shared -> Int]
      /\ \A c \in Shared : owners'[c] = owners[c] + OwnsOf(box, c) - OwnsOf(boxes[b], c)
  BY <1>1, <1>2, <1>3, <1>4, CountsChange DEF OwnsOf
<1>6. strings' \in Int /\ strings' = strings + TextOf(box) - TextOf(boxes[b])
  BY <1>1, <1>2, <1>3, <1>4 DEF TextOf
<1> QED
  BY <1>1, <1>2, <1>5, <1>6, OneBoxKeeps

\* The copy constructor: what it leaves out, NIL, has no member to copy.
LEMMA CopyObjectKeeps ==
    ASSUME ObjectInv, NEW b \in Boxes, NEW from \in Boxes, CopyObject(b, from)
    PROVE  ObjectInv'
<1> DEFINE other == boxes[from]
           bare == [mType |-> other.mType, member |-> "none", value |-> NullHandle]
           box == IF other.mType \in CopiedTags THEN other ELSE bare
           s == madeOf[from]
<1>1. /\ IsEmpty(boxes[b]) /\ ~ IsEmpty(other)
      /\ boxes' = [boxes EXCEPT ![b] = box]
      /\ owners' = IF other.mType \in Owning \cap CopiedTags
                   THEN Copied(owners, other.value) ELSE owners
      /\ strings' = IF other.mType \in {"STRING"} \cap CopiedTags THEN strings + 1 ELSE strings
      /\ madeOf' = [madeOf EXCEPT ![b] = s]
      /\ app' = app
  BY DEF CopyObject
<1>2. /\ s \in Sources /\ other.mType = s[1] /\ other.member = MemberOf[s[1]]
      /\ other.value = s[2]
  BY <1>1 DEF ObjectInv, BoxInv
<1>3. box.mType = s[1] /\ box.member = MemberOf[s[1]] /\ box.value = s[2]
  <2>1. CASE other.mType \in CopiedTags
    BY <1>2, <2>1
  <2>2. CASE other.mType \notin CopiedTags
    <3>1. s[1] = "NIL" /\ s[2] = NullHandle
      BY <1>2, <2>2, SourceIsPair DEF CopiedTags
    <3> QED
      BY <1>2, <2>2, <3>1 DEF MemberOf
  <2> QED
    BY <2>1, <2>2
<1>4. TextOf(boxes[b]) = 0 /\ \A c \in Shared : OwnsOf(boxes[b], c) = 0
  BY <1>1, EmptyCounts
<1>5. owners \in [Shared -> Int] /\ strings \in Int
  BY DEF ObjectInv, ObjectTypes
<1> HIDE DEF box, other, s
<1>6. /\ owners' \in [Shared -> Int]
      /\ \A c \in Shared : owners'[c] = owners[c] + OwnsOf(box, c) - OwnsOf(boxes[b], c)
  BY <1>1, <1>2, <1>3, <1>4, <1>5, CountsChange DEF OwnsOf, Owning, CopiedTags
<1>7. strings' \in Int /\ strings' = strings + TextOf(box) - TextOf(boxes[b])
  BY <1>1, <1>2, <1>3, <1>4, <1>5 DEF TextOf, CopiedTags
<1> QED
  BY <1>1, <1>2, <1>3, <1>6, <1>7, OneBoxKeeps

\* The destructor: what it leaves out owns nothing.
LEMMA DestroyObjectKeeps ==
    ASSUME ObjectInv, NEW b \in Boxes, DestroyObject(b) PROVE ObjectInv'
<1> DEFINE this == boxes[b]
<1>1. /\ boxes' = [boxes EXCEPT ![b] = Empty]
      /\ owners' = IF this.mType \in Owning \cap DestroyedTags
                   THEN Released(owners, this.value) ELSE owners
      /\ strings' = IF this.mType \in {"STRING"} \cap DestroyedTags THEN strings - 1 ELSE strings
      /\ madeOf' = [madeOf EXCEPT ![b] = "none"]
      /\ app' = app
  BY DEF DestroyObject
<1>2. owners \in [Shared -> Int] /\ strings \in Int
  BY DEF ObjectInv, ObjectTypes
<1>3. IsEmpty(Empty) /\ TextOf(Empty) = 0 /\ \A c \in Shared : OwnsOf(Empty, c) = 0
  BY EmptyCounts
<1>4. /\ owners' \in [Shared -> Int]
      /\ \A c \in Shared : owners'[c] = owners[c] + OwnsOf(Empty, c) - OwnsOf(this, c)
  BY <1>1, <1>2, <1>3, CountsChange DEF OwnsOf, Owning, DestroyedTags
<1>5. strings' \in Int /\ strings' = strings + TextOf(Empty) - TextOf(this)
  BY <1>1, <1>2, <1>3 DEF TextOf, DestroyedTags
<1> QED
  BY <1>1, <1>3, <1>4, <1>5, OneBoxKeeps

\* The boxes stay, and the application takes or lets go of arrays and maps.
LEMMA AppKeeps ==
    ASSUME ObjectInv, UNCHANGED <<boxes, strings, madeOf>>, owners' \in [Shared -> Int],
           \A c \in Shared : owners'[c] = owners[c] + (IF c \in app' THEN 1 ELSE 0)
                                                    - (IF c \in app THEN 1 ELSE 0)
    PROVE  ObjectInv'
<1>1. ObjectTypes' /\ \A d \in Boxes : BoxInv(d)'
  BY DEF ObjectInv, ObjectTypes, BoxInv
<1>2. ASSUME NEW c \in Shared
      PROVE  owners'[c] = Cardinality(Holders(c)') + (IF c \in app' THEN 1 ELSE 0)
  <2>1. owners[c] = Cardinality(Holders(c)) + (IF c \in app THEN 1 ELSE 0)
    BY DEF ObjectInv, MembersAreCounted
  <2>2. Holders(c)' = Holders(c)
    BY DEF Holders
  <2> QED
    BY <2>1, <2>2, HoldersAreFinite
<1>3. strings' = Cardinality({d \in Boxes : boxes[d].mType = "STRING"}')
  BY DEF ObjectInv, MembersAreCounted
<1> QED
  BY <1>1, <1>2, <1>3 DEF ObjectInv, MembersAreCounted

\* The accessors: asArray() and asMap() hand out another shared_ptr.
LEMMA AskKeeps ==
    ASSUME ObjectInv, NEW b \in Boxes, NEW asked \in Questions, Ask(b, asked) PROVE ObjectInv'
<1> DEFINE value == As(boxes[b], asked)
<1>1. owners \in [Shared -> Int]
  BY DEF ObjectInv, ObjectTypes
<1>2. CASE asked \in {"asArray", "asMap"} /\ value \in Shared \ app
  <2>1. app' = app \cup {value} /\ owners' = Copied(owners, value)
    BY <1>2 DEF Ask
  <2>2. \A c \in Shared : owners'[c] = owners[c] + (IF c \in app' THEN 1 ELSE 0)
                                                 - (IF c \in app THEN 1 ELSE 0)
    BY <1>1, <1>2, <2>1, CountsChange
  <2> QED
    BY <1>1, <2>1, <2>2, CountsChange, AppKeeps DEF Ask
<1>3. CASE ~ (asked \in {"asArray", "asMap"} /\ value \in Shared \ app)
  <2>1. app' = app /\ owners' = owners
    BY <1>3 DEF Ask
  <2>2. \A c \in Shared : owners'[c] = owners[c] + (IF c \in app' THEN 1 ELSE 0)
                                                 - (IF c \in app THEN 1 ELSE 0)
    BY <1>1, <2>1
  <2> QED
    BY <1>1, <2>1, <2>2, AppKeeps DEF Ask
<1> QED
  BY <1>2, <1>3

\* The application lets go of one.
LEMMA LetGoKeeps == ASSUME ObjectInv, NEW c \in Shared, LetGo(c) PROVE ObjectInv'
<1>1. owners \in [Shared -> Int]
  BY DEF ObjectInv, ObjectTypes
<1>2. \A d \in Shared : owners'[d] = owners[d] + (IF d \in app' THEN 1 ELSE 0)
                                               - (IF d \in app THEN 1 ELSE 0)
  BY <1>1, CountsChange DEF LetGo
<1> QED
  BY <1>1, <1>2, CountsChange, AppKeeps DEF LetGo

\* In the beginning the boxes are empty and each array and map is held once.
LEMMA ObjectInitially == ObjectInit => ObjectInv
<1> SUFFICES ASSUME ObjectInit PROVE ObjectInv
  OBVIOUS
<1>1. ObjectTypes
  BY DEF ObjectInit, ObjectTypes
<1>2. \A b \in Boxes : BoxInv(b)
  BY EmptyCounts DEF ObjectInit, BoxInv
<1>3. ASSUME NEW c \in Shared PROVE Holders(c) = {}
  BY DEF ObjectInit, Holders, Empty, Owning
<1>4. StringBoxes = {}
  BY DEF ObjectInit, StringBoxes, Empty
<1>5. ASSUME NEW c \in Shared
      PROVE  owners[c] = Cardinality(Holders(c)) + (IF c \in app THEN 1 ELSE 0)
  BY <1>3, FS_EmptySet DEF ObjectInit
<1>6. strings = Cardinality({b \in Boxes : boxes[b].mType = "STRING"})
  BY <1>4, FS_EmptySet DEF ObjectInit, StringBoxes
<1> QED
  BY <1>1, <1>2, <1>5, <1>6 DEF ObjectInv, MembersAreCounted

\* Every operation keeps the invariant.
LEMMA ObjectStep == ObjectInv /\ [ObjectNext]_objectVars => ObjectInv'
<1> SUFFICES ASSUME ObjectInv, [ObjectNext]_objectVars PROVE ObjectInv'
  OBVIOUS
<1>1. CASE UNCHANGED objectVars
  BY <1>1 DEF objectVars, ObjectInv, ObjectTypes, BoxInv, MembersAreCounted, Holders
<1>2. CASE \E b \in Boxes, s \in Sources : MakeObject(b, s[1], s[2])
  BY <1>2, MakeObjectKeeps
<1>3. CASE \E b, from \in Boxes : CopyObject(b, from)
  BY <1>3, CopyObjectKeeps
<1>4. CASE \E b \in Boxes : DestroyObject(b)
  BY <1>4, DestroyObjectKeeps
<1>5. CASE \E b \in Boxes, asked \in Questions : Ask(b, asked)
  BY <1>5, AskKeeps
<1>6. CASE \E c \in Shared : LetGo(c)
  BY <1>6, LetGoKeeps
<1> QED
  BY <1>1, <1>2, <1>3, <1>4, <1>5, <1>6 DEF ObjectNext

\* As many shared_ptr hold an array or a map as there are objects of it and hands that hold it,
\* and as many strings are alive as there are objects of one, whatever objects are made, copied,
\* asked and destroyed by hand in the union (JavascriptObjectImpl.cpp:31-95).
THEOREM ObjectsCountTheirMembers == ObjectSpec => []MembersAreCounted
<1>1. ObjectInv => MembersAreCounted
  BY DEF ObjectInv
<1> QED
  BY <1>1, ObjectInitially, ObjectStep, PTL DEF ObjectSpec

\* The accessors one by one.
LEMMA Accessors ==
    ASSUME NEW box
    PROVE  /\ As(box, "asBoolean") = IF box.mType = "BOOLEAN" THEN Member(box, "mBool") ELSE FALSE
           /\ As(box, "asDouble") = IF box.mType = "NUMBER" THEN Member(box, "mDouble") ELSE 0
           /\ As(box, "asInt") = IF box.mType # "NUMBER" THEN 0
                                 ELSE IF box.member = "mDouble" THEN AsInt32(box.value)
                                 ELSE Undefined
           /\ As(box, "asString") =
                 IF box.mType = "STRING" THEN Member(box, "mString") ELSE Undefined
           /\ As(box, "asArray") =
                 IF box.mType = "ARRAY" THEN Member(box, "mArray") ELSE NullHandle
           /\ As(box, "asMap") = IF box.mType = "MAP" THEN Member(box, "mMap") ELSE NullHandle
BY Zenon DEF As

\* asInt() answers the number rounded towards zero when that is an int32_t.
LEMMA Rounds ==
    ASSUME NEW h \in Int
    PROVE  \/ /\ AsInt32(h) = Undefined
              /\ h \notin -(2 * IntLimit) - 1..2 * IntLimit - 1
           \/ /\ AsInt32(h) # Undefined
              /\ AsInt32(h) \in -IntLimit..IntLimit - 1
              /\ h - 2 * AsInt32(h) \in -1..1
<1>1. Truncated(h) \in Int /\ h - 2 * Truncated(h) \in -1..1
  BY DEF Truncated
<1>2. CASE Truncated(h) \in -IntLimit..IntLimit - 1
  BY <1>1, <1>2, IntLimitAssumption, UndefinedAssumption DEF AsInt32
<1>3. CASE Truncated(h) \notin -IntLimit..IntLimit - 1
  <2>1. h \notin -(2 * IntLimit) - 1..2 * IntLimit - 1
    BY <1>3, IntLimitAssumption DEF Truncated
  <2> QED
    BY <1>3, <2>1 DEF AsInt32
<1> QED
  BY <1>2, <1>3

\* Which member of the union is alive under which tag.
LEMMA TagMembers ==
    /\ MemberOf["BOOLEAN"] = "mBool" /\ MemberOf["NUMBER"] = "mDouble"
    /\ MemberOf["STRING"] = "mString" /\ MemberOf["ARRAY"] = "mArray" /\ MemberOf["MAP"] = "mMap"
BY DEF MemberOf

\* An accessor that is called answers what was put there.
LEMMA AskAnswers ==
    ASSUME ObjectInv, NEW b \in Boxes, NEW asked \in Questions, Ask(b, asked)
    PROVE  AnswersWhatWasPut'
<1> DEFINE box == boxes[b]
           s == madeOf[b]
<1>1. /\ answer'.source = s /\ answer'.asked = asked
      /\ answer'.value = As(box, asked)
  BY DEF Ask
<1>2. /\ s \in Sources /\ box.mType = s[1] /\ box.member = MemberOf[s[1]] /\ box.value = s[2]
  BY DEF Ask, ObjectInv, BoxInv
<1> HIDE DEF box, s
<1>3. CASE asked = "asBoolean"
  <2>1. answer'.value = IF s[1] = "BOOLEAN" THEN s[2] ELSE FALSE
    BY <1>1, <1>2, <1>3, Accessors, TagMembers DEF Member
  <2>2. TypeAsked[asked] = "BOOLEAN" /\ ZeroOf[asked] = FALSE /\ asked # "asInt"
    BY <1>3 DEF TypeAsked, ZeroOf
  <2> QED
    BY <1>1, <2>1, <2>2 DEF AnswersWhatWasPut
<1>4. CASE asked = "asDouble"
  <2>1. answer'.value = IF s[1] = "NUMBER" THEN s[2] ELSE 0
    BY <1>1, <1>2, <1>4, Accessors, TagMembers DEF Member
  <2>2. TypeAsked[asked] = "NUMBER" /\ ZeroOf[asked] = 0 /\ asked # "asInt"
    BY <1>4 DEF TypeAsked, ZeroOf
  <2> QED
    BY <1>1, <2>1, <2>2 DEF AnswersWhatWasPut
<1>5. CASE asked = "asInt"
  <2>1. TypeAsked[asked] = "NUMBER" /\ ZeroOf[asked] = 0
    BY <1>5 DEF TypeAsked, ZeroOf
  <2>2. CASE s[1] # "NUMBER"
    BY <1>1, <1>2, <1>5, <2>1, <2>2, Accessors DEF AnswersWhatWasPut
  <2>3. CASE s[1] = "NUMBER"
    <3>1. s[2] \in Int
      BY <1>2, <2>3, SourceIsPair
    <3>2. answer'.value = AsInt32(s[2])
      BY <1>1, <1>2, <1>5, <2>3, Accessors, TagMembers
    <3> QED
      BY <1>1, <1>5, <2>1, <2>3, <3>1, <3>2, Rounds DEF AnswersWhatWasPut
  <2> QED
    BY <2>2, <2>3
<1>6. CASE asked = "asString"
  <2>1. answer'.value = IF s[1] = "STRING" THEN s[2] ELSE Undefined
    BY <1>1, <1>2, <1>6, Accessors, TagMembers DEF Member
  <2>2. TypeAsked[asked] = "STRING" /\ ZeroOf[asked] = Undefined /\ asked # "asInt"
    BY <1>6 DEF TypeAsked, ZeroOf
  <2> QED
    BY <1>1, <2>1, <2>2 DEF AnswersWhatWasPut
<1>7. CASE asked = "asArray"
  <2>1. answer'.value = IF s[1] = "ARRAY" THEN s[2] ELSE NullHandle
    BY <1>1, <1>2, <1>7, Accessors, TagMembers DEF Member
  <2>2. TypeAsked[asked] = "ARRAY" /\ ZeroOf[asked] = NullHandle /\ asked # "asInt"
    BY <1>7 DEF TypeAsked, ZeroOf
  <2> QED
    BY <1>1, <2>1, <2>2 DEF AnswersWhatWasPut
<1>8. CASE asked = "asMap"
  <2>1. answer'.value = IF s[1] = "MAP" THEN s[2] ELSE NullHandle
    BY <1>1, <1>2, <1>8, Accessors, TagMembers DEF Member
  <2>2. TypeAsked[asked] = "MAP" /\ ZeroOf[asked] = NullHandle /\ asked # "asInt"
    BY <1>8 DEF TypeAsked, ZeroOf
  <2> QED
    BY <1>1, <2>1, <2>2 DEF AnswersWhatWasPut
<1>9. CASE asked \in {"getType", "isNull"}
  BY <1>1, <1>9 DEF AnswersWhatWasPut, TypeAsked
<1> QED
  BY <1>3, <1>4, <1>5, <1>6, <1>7, <1>8, <1>9 DEF Questions

\* Nothing else touches the last answer.
LEMMA AnswerStep ==
    ObjectInv /\ AnswersWhatWasPut /\ [ObjectNext]_objectVars => AnswersWhatWasPut'
<1> SUFFICES ASSUME ObjectInv, AnswersWhatWasPut, [ObjectNext]_objectVars
             PROVE  AnswersWhatWasPut'
  OBVIOUS
<1>1. CASE answer' = answer
  BY <1>1 DEF AnswersWhatWasPut
<1>2. CASE \E b \in Boxes, asked \in Questions : Ask(b, asked)
  BY <1>2, AskAnswers
<1> QED
  BY <1>1, <1>2 DEF ObjectNext, objectVars, MakeObject, CopyObject, DestroyObject, LetGo

\* An accessor of an object of its type answers what the object was made of, however often that
\* has been copied since, and an accessor of another type answers its zero; where asString() and
\* asInt() have no answer, it is left undefined (JavascriptObjectImpl.cpp:97-145).
THEOREM ObjectsAnswerWhatWasPut == ObjectSpec => []AnswersWhatWasPut
<1>1. ObjectInit => AnswersWhatWasPut
  BY DEF ObjectInit, AnswersWhatWasPut, NoAnswer, TypeAsked
<1> QED
  BY <1>1, ObjectInitially, ObjectStep, AnswerStep, PTL DEF ObjectSpec

-----------------------------------------------------------------------------
(* Durations and dates *)

\* Division of naturals rounds down.
LEMMA Dividing ==
    ASSUME NEW a \in Nat, NEW b \in Nat \ {0}
    PROVE  a \div b \in Nat /\ b * (a \div b) <= a /\ a < b * (a \div b) + b
BY SMT

\* Division undoes multiplication.
LEMMA DividingMultiples ==
    ASSUME NEW q \in Nat, NEW b \in Nat \ {0}
    PROVE  (b * q) \div b = q
BY SMT

\* So does the division of C++, of negative numbers too.
LEMMA CuttingMultiples ==
    ASSUME NEW q \in Int, NEW b \in Nat \ {0}
    PROVE  TowardsZero(b * q, b) = q
<1>1. CASE q >= 0
  <2>1. ~ (b * q < 0)
    BY <1>1
  <2> QED
    BY <1>1, <2>1, DividingMultiples DEF TowardsZero
<1>2. CASE q < 0
  <2>1. - q \in Nat /\ - q > 0 /\ b * (- q) = - (b * q)
    BY <1>2
  <2>2. b * q < 0
    BY <1>2
  <2>3. (- (b * q)) \div b = - q
    BY <2>1, DividingMultiples
  <2> QED
    BY <2>2, <2>3 DEF TowardsZero
<1> QED
  BY <1>1, <1>2

\* What a cut leaves is nearer to zero by less than what is cut to.
LEMMA Cutting ==
    ASSUME NEW a \in Int, NEW b \in Nat \ {0}
    PROVE  /\ TowardsZero(a, b) \in Int
           /\ a < 0 => /\ a <= b * TowardsZero(a, b) /\ b * TowardsZero(a, b) < a + b
                       /\ b * TowardsZero(a, b) <= 0
           /\ a >= 0 => /\ a - b < b * TowardsZero(a, b) /\ b * TowardsZero(a, b) <= a
                        /\ b * TowardsZero(a, b) >= 0
<1>1. CASE a >= 0
  <2> DEFINE q == a \div b
  <2>1. TowardsZero(a, b) = q
    BY <1>1 DEF TowardsZero
  <2>2. q \in Nat /\ b * q <= a /\ a < b * q + b
    BY <1>1, Dividing
  <2>3. b * q \in Nat
    BY <2>2
  <2> QED
    BY <1>1, <2>1, <2>2, <2>3
<1>2. CASE a < 0
  <2> DEFINE q == (- a) \div b
  <2>1. TowardsZero(a, b) = - q
    BY <1>2 DEF TowardsZero
  <2>2. - a \in Nat
    BY <1>2
  <2>3. q \in Nat /\ b * q <= - a /\ - a < b * q + b
    BY <2>2, Dividing
  <2> HIDE DEF q
  <2>4. b * q \in Nat /\ b * (- q) = - (b * q)
    BY <2>3
  <2> QED
    BY <1>2, <2>1, <2>3, <2>4
<1> QED
  BY <1>1, <1>2

\* A number that the width holds is not changed by it.
LEMMA Narrowing == ASSUME NEW n \in Ints PROVE Narrowed(n) = n
<1>1. IntLimit32 \in Nat \ {0}
  BY TimesAssumption
<1>2. n + IntLimit32 \in Nat /\ n + IntLimit32 < 2 * IntLimit32 /\ n \in Int
  BY <1>1 DEF Ints
<1>3. (n + IntLimit32) % (2 * IntLimit32) = n + IntLimit32
  <2> DEFINE a == n + IntLimit32
             b == 2 * IntLimit32
  <2>1. a \in Nat /\ b \in Nat \ {0} /\ a < b
    BY <1>1, <1>2
  <2> HIDE DEF a, b
  <2>2. a % b = a
    BY <2>1
  <2> QED
    BY <2>2 DEF a, b
<1> QED
  BY <1>1, <1>2, <1>3 DEF Narrowed

\* What fits a representation, case by case.
LEMMA Fitting ==
    /\ CountsThatFit("int32") = Ints
    /\ CountsThatFit("int64") = Longs
    /\ CountsThatFit("double") = Int
<1>1. "int32" # "int64" /\ "double" # "int32" /\ "double" # "int64"
  OBVIOUS
<1> QED
  BY <1>1, Zenon DEF CountsThatFit

-----------------------------------------------------------------------------

Start == IF travels.from = "cpp" /\ travels.kind /= "date"
         THEN Made(travels.rep, travels.unit, travels.start) ELSE travels.start

Negative == travels.kind = "optional duration" /\ Start < 0

\* What travels and where it is.
TravelsType ==
    /\ travels \in [kind : TimeKinds, rep : Reps, unit : Periods, via : {"jni", "objc"},
                    from : {"cpp", "platform"}, start : Amounts]
    /\ travels.kind = "optional duration" => travels.rep = "int64" /\ travels.from = "cpp"
    /\ travels.kind = "date" => travels.rep = "int64"
    /\ travels.from = "cpp" => travels.start \in CountsThatFit(travels.rep)
    /\ place \in {"cpp", "platform", "back", "thrown"}

\* What C++ starts with.
AtTheStart ==
    place = "cpp" => travels.from = "cpp" /\ held = IF Negative THEN NoDuration ELSE Start

\* What the other side has.
OnTheWay ==
    place = "platform" =>
        /\ travels.from = "platform" => held = Start
        /\ travels.from = "cpp" /\ travels.kind = "date" =>
            IF travels.via = "jni" THEN held = TowardsZero(Start, TicksInMilli)
                                   ELSE held \in {Start - 1, Start, Start + 1}
        /\ travels.from = "cpp" /\ travels.kind # "date" =>
            IF Negative THEN held = NoDuration
            ELSE IF travels.via = "jni"
                 THEN /\ held \in Longs
                      /\ TowardsZero(Start, 2) \in Longs => held = TowardsZero(Start, 2)
                 ELSE held = Start

\* TimesSurvive, one way after the other.
DurationsSurvive ==
    LET whole == travels.rep # "double"
        unit == 2 * travels.unit
    IN  IF Negative THEN held = NoDuration
        ELSE /\ travels.via = "jni" /\ travels.from = "cpp" /\ TowardsZero(Start, 2) \in Longs =>
                    Shortened(Start, IF whole THEN 1 ELSE 2)
             /\ travels.via = "jni" /\ travels.from = "platform" =>
                    \/ Shortened(2 * Start, IF whole THEN unit ELSE 1)
                    \/ travels.rep = "int32" /\ TowardsZero(Start, travels.unit) \notin Ints
             /\ travels.via = "objc" /\ travels.from = "cpp" =>
                    Shortened(Start, IF whole /\ travels.unit < Second THEN unit + 1 ELSE 1)

DatesSurvive ==
    IF travels.via = "jni"
    THEN IF travels.from = "cpp" THEN Shortened(Start, TicksInMilli)
         ELSE held = Start * TicksInMilli \/ Start * TicksInMilli \notin Longs
    ELSE held - Start \in -1..1 \/ Start + 1 \notin Longs \/ Start - 1 \notin Longs

AtTheEnd ==
    /\ place = "thrown" => travels.from = "platform" /\ Start \notin Longs
    /\ place = "back" => IF travels.kind = "date" THEN DatesSurvive ELSE DurationsSurvive

TimesInv == TravelsType /\ AtTheStart /\ OnTheWay /\ AtTheEnd

\* The invariant says that times survive.
LEMMA TimesSurviveAtTheEnd == TimesInv => TimesSurvive
<1> SUFFICES ASSUME TimesInv PROVE TimesSurvive
  OBVIOUS
<1> DEFINE unit == 2 * travels.unit
           whole == travels.rep # "double"
<1>1. /\ travels.unit \in Nat /\ travels.kind \in {"duration", "optional duration", "date"}
      /\ travels.via \in {"jni", "objc"} /\ travels.from \in {"cpp", "platform"}
      /\ place \in {"cpp", "platform", "back", "thrown"}
  BY TimesAssumption DEF TimesInv, TravelsType, TimeKinds
<1>2. place = "thrown" => travels.from = "platform" /\ Start \notin Longs
  BY DEF TimesInv, AtTheEnd
<1>3. ASSUME place = "back", Negative PROVE Unboxed(travels.unit, held) = - unit
  <2>1. held = NoDuration
    BY <1>3 DEF TimesInv, AtTheEnd, DurationsSurvive, Negative
  <2> QED
    <3>1. \A u \in Nat : 2 * u * (-1) = - (2 * u)
      OBVIOUS
    <3> QED
      BY <1>1, <2>1, <3>1 DEF Unboxed, HalfNanos
<1>4. ASSUME place = "back", travels.kind \in Durations, ~ Negative
      PROVE  CASE travels.via = "jni" /\ travels.from = "cpp" /\ TowardsZero(Start, 2) \in Longs ->
                    Shortened(Start, IF whole THEN 1 ELSE 2)
               [] travels.via = "jni" /\ travels.from = "platform" ->
                    \/ Shortened(2 * Start, IF whole THEN unit ELSE 1)
                    \/ travels.rep = "int32" /\ TowardsZero(Start, travels.unit) \notin Ints
               [] travels.via = "objc" /\ travels.from = "cpp" ->
                    Shortened(Start, IF whole /\ travels.unit < Second THEN unit + 1 ELSE 1)
               [] OTHER -> TRUE
  <2> DEFINE java == travels.via = "jni" /\ travels.from = "cpp" /\ TowardsZero(Start, 2) \in Longs
             fromJava == travels.via = "jni" /\ travels.from = "platform"
             objc == travels.via = "objc" /\ travels.from = "cpp"
             a == Shortened(Start, IF whole THEN 1 ELSE 2)
             b == \/ Shortened(2 * Start, IF whole THEN unit ELSE 1)
                  \/ travels.rep = "int32" /\ TowardsZero(Start, travels.unit) \notin Ints
             c == Shortened(Start, IF whole /\ travels.unit < Second THEN unit + 1 ELSE 1)
  <2>1. (java => a) /\ (fromJava => b) /\ (objc => c)
    BY <1>4 DEF TimesInv, AtTheEnd, DurationsSurvive, Durations
  <2>2. ~ (java /\ fromJava) /\ ~ (java /\ objc) /\ ~ (fromJava /\ objc)
    OBVIOUS
  <2> HIDE DEF java, fromJava, objc, a, b, c
  <2>3. (CASE java -> a [] fromJava -> b [] objc -> c [] OTHER -> TRUE)
    <3>1. CASE java
      BY <2>1, <2>2, <3>1, Zenon
    <3>2. CASE fromJava
      BY <2>1, <2>2, <3>2, Zenon
    <3>3. CASE objc
      BY <2>1, <2>2, <3>3, Zenon
    <3>4. CASE ~ java /\ ~ fromJava /\ ~ objc
      BY <3>4, Zenon
    <3> QED
      BY <3>1, <3>2, <3>3, <3>4
  <2> QED
    BY <2>3 DEF java, fromJava, objc, a, b, c
<1>5. ASSUME place = "back", travels.kind = "date"
      PROVE  CASE travels.via = "jni" /\ travels.from = "cpp" -> Shortened(Start, TicksInMilli)
               [] travels.via = "jni" /\ travels.from = "platform" ->
                    held = Start * TicksInMilli \/ Start * TicksInMilli \notin Longs
               [] OTHER ->
                    held - Start \in -1..1 \/ Start + 1 \notin Longs \/ Start - 1 \notin Longs
  <2>1. DatesSurvive
    BY <1>5 DEF TimesInv, AtTheEnd
  <2>2. travels.from = "cpp" \/ travels.from = "platform"
    BY <1>1
  <2>0. "cpp" # "platform"
    OBVIOUS
  <2>3. CASE travels.via = "jni" /\ travels.from = "cpp"
    BY <2>0, <2>1, <2>3, Zenon DEF DatesSurvive
  <2>4. CASE travels.via = "jni" /\ travels.from = "platform"
    BY <2>0, <2>1, <2>4, Zenon DEF DatesSurvive
  <2>5. CASE travels.via # "jni"
    BY <2>1, <2>5, Zenon DEF DatesSurvive
  <2> QED
    BY <2>2, <2>3, <2>4, <2>5
<1> HIDE DEF unit, whole
<1> QED
  BY <1>2, <1>3, <1>4, <1>5, Zenon DEF TimesSurvive, Start, Negative, unit, whole

\* What is known of the travel, whatever step is taken.
LEMMA TravelIs ==
    ASSUME TravelsType
    PROVE  /\ Start \in Int /\ travels.unit \in Nat \ {0} /\ travels.start \in Int
           /\ travels.kind \in {"duration", "optional duration", "date"}
           /\ travels.rep \in {"int32", "int64", "double"}
           /\ travels.via \in {"jni", "objc"} /\ travels.from \in {"cpp", "platform"}
           /\ travels.from = "platform" => Start = travels.start /\ ~ Negative
           /\ travels.kind = "date" => Start = travels.start /\ ~ Negative
           /\ travels.from = "cpp" /\ travels.kind = "date" => Start \in Longs
           /\ travels.from = "cpp" /\ travels.kind # "date" =>
                IF travels.rep = "double" THEN Start = travels.start
                ELSE /\ Start = 2 * travels.unit * travels.start
                     /\ travels.start \in IF travels.rep = "int32" THEN Ints ELSE Longs
<1>0. travels.unit \in Nat \ {0} /\ travels.start \in Int
  BY TimesAssumption DEF TravelsType
<1>1. /\ travels.kind \in {"duration", "optional duration", "date"}
      /\ travels.rep \in {"int32", "int64", "double"}
      /\ travels.via \in {"jni", "objc"} /\ travels.from \in {"cpp", "platform"}
      /\ travels.kind = "optional duration" => travels.from = "cpp"
      /\ travels.kind = "date" => travels.rep = "int64"
      /\ travels.from = "cpp" => travels.start \in CountsThatFit(travels.rep)
  BY TimesAssumption DEF TravelsType, TimeKinds, Reps
<1>2. Made(travels.rep, travels.unit, travels.start) =
        IF travels.rep = "double" THEN travels.start ELSE 2 * travels.unit * travels.start
  BY DEF Made, HalfNanos
<1>3. 2 * travels.unit * travels.start \in Int
  <2> DEFINE x == travels.unit
             y == travels.start
  <2>1. x \in Int /\ y \in Int
    BY <1>0
  <2> HIDE DEF x, y
  <2>2. 2 * x * y \in Int
    BY <2>1
  <2> QED
    BY <2>2 DEF x, y
<1> QED
  BY <1>0, <1>1, <1>2, <1>3, Fitting DEF Start, Negative

\* What travels stays what it is.
LEMMA TravelStays ==
    ASSUME TravelsType, travels' = travels, place' \in {"cpp", "platform", "back", "thrown"}
    PROVE  TravelsType' /\ Start' = Start /\ (Negative' <=> Negative)
BY DEF TravelsType, Start, Negative, Made, HalfNanos

\* A duration goes to Java (Duration-jni.hpp:48-55).
LEMMA DurationFromCppKeeps == ASSUME TimesInv, DurationFromCpp PROVE TimesInv'
<1>1. /\ TravelsType /\ travels.kind # "date" /\ travels.via = "jni" /\ travels.from = "cpp"
      /\ travels' = travels /\ place' = "platform"
      /\ held = IF Negative THEN NoDuration ELSE Start
  BY DEF TimesInv, DurationFromCpp, Leaves, Durations, AtTheStart
<1>2. Start \in Int /\ Start # NoDuration
  BY <1>1, TravelIs, TimesAssumption
<1>3. IF Negative THEN held' = NoDuration
      ELSE /\ held' \in Longs
           /\ TowardsZero(Start, 2) \in Longs => held' = TowardsZero(Start, 2)
  BY <1>1, <1>2 DEF DurationFromCpp
<1> QED
  BY <1>1, <1>3, TravelStays DEF TimesInv, AtTheStart, OnTheWay, AtTheEnd

\* A duration goes to Objective-C.
LEMMA DurationFromCppObjcKeeps == ASSUME TimesInv, DurationFromCppObjc PROVE TimesInv'
<1>1. /\ TravelsType /\ travels.kind # "date" /\ travels.via = "objc" /\ travels.from = "cpp"
      /\ travels' = travels /\ place' = "platform"
      /\ held' = IF Negative THEN NoDuration ELSE Start
  BY DEF TimesInv, DurationFromCppObjc, Leaves, Durations, AtTheStart
<1> QED
  BY <1>1, TravelStays DEF TimesInv, AtTheStart, OnTheWay, AtTheEnd

\* A date goes to Java (Marshal.hpp:276-285).
LEMMA DateFromCppKeeps == ASSUME TimesInv, DateFromCpp PROVE TimesInv'
<1>1. /\ TravelsType /\ travels.kind = "date" /\ travels.via = "jni" /\ travels.from = "cpp"
      /\ travels' = travels /\ place' = "platform"
      /\ held' = TowardsZero(held, TicksInMilli)
      /\ held = IF Negative THEN NoDuration ELSE Start
  BY DEF TimesInv, DateFromCpp, Leaves, AtTheStart
<1>2. ~ Negative
  BY <1>1, TravelIs
<1> QED
  BY <1>1, <1>2, TravelStays DEF TimesInv, AtTheStart, OnTheWay, AtTheEnd

\* A date goes to Objective-C.
LEMMA DateFromCppObjcKeeps == ASSUME TimesInv, DateFromCppObjc PROVE TimesInv'
<1>1. /\ TravelsType /\ travels.kind = "date" /\ travels.via = "objc" /\ travels.from = "cpp"
      /\ travels' = travels /\ place' = "platform"
      /\ \E slip \in -1..1 : held' = held + slip
      /\ held = IF Negative THEN NoDuration ELSE Start
  BY DEF TimesInv, DateFromCppObjc, Leaves, AtTheStart
<1>2. ~ Negative /\ Start \in Int
  BY <1>1, TravelIs
<1>3. held' \in {Start - 1, Start, Start + 1}
  BY <1>1, <1>2
<1> QED
  BY <1>1, <1>3, TravelStays DEF TimesInv, AtTheStart, OnTheWay, AtTheEnd

\* A duration of Java has more nanoseconds than a long.
LEMMA ToNanosThrowsKeeps == ASSUME TimesInv, ToNanosThrows PROVE TimesInv'
<1>1. /\ TravelsType /\ travels.kind # "date" /\ travels.via = "jni" /\ place = "platform"
      /\ travels' = travels /\ place' = "thrown" /\ held # NoDuration /\ held \notin Longs
  BY DEF TimesInv, ToNanosThrows, Comes, Durations
<1>2. travels.from = "platform" /\ held = Start
  BY <1>1, TravelIs DEF TimesInv, OnTheWay
<1> QED
  BY <1>1, <1>2, TravelStays DEF TimesInv, AtTheStart, OnTheWay, AtTheEnd

\* A date comes from Java (Marshal.hpp:265-274).
LEMMA DateToCppKeeps == ASSUME TimesInv, DateToCpp PROVE TimesInv'
<1>1. /\ TravelsType /\ travels.kind = "date" /\ travels.via = "jni" /\ place = "platform"
      /\ travels' = travels /\ place' = "back"
      /\ IF held * TicksInMilli \in Longs THEN held' = held * TicksInMilli ELSE held' \in Longs
  BY DEF TimesInv, DateToCpp, Comes
<1>2. /\ Start \in Int /\ TicksInMilli \in Nat \ {0} /\ LongLimit \in Nat
      /\ travels.from \in {"cpp", "platform"}
  BY <1>1, TravelIs, TimesAssumption
<1>3. CASE travels.from = "platform"
  BY <1>1, <1>3, TravelStays DEF TimesInv, AtTheStart, OnTheWay, AtTheEnd, DatesSurvive
<1>4. CASE travels.from = "cpp"
  <2>1. held = TowardsZero(Start, TicksInMilli) /\ Start \in Longs
    BY <1>1, <1>4, TravelIs DEF TimesInv, OnTheWay
  <2>2. /\ held \in Int
        /\ Start < 0 => /\ Start <= TicksInMilli * held
                        /\ TicksInMilli * held < Start + TicksInMilli
                        /\ TicksInMilli * held <= 0
        /\ Start >= 0 => /\ Start - TicksInMilli < TicksInMilli * held
                         /\ TicksInMilli * held <= Start /\ TicksInMilli * held >= 0
    BY <1>2, <2>1, Cutting
  <2>3. TicksInMilli * held = held * TicksInMilli /\ held * TicksInMilli \in Int
    BY <1>2, <2>2
  <2>4. held * TicksInMilli \in Longs
    BY <1>2, <2>1, <2>2, <2>3 DEF Longs
  <2>5. held' = held * TicksInMilli
    BY <1>1, <2>4
  <2>6. Shortened(Start, TicksInMilli)'
    BY <1>1, <1>2, <2>2, <2>3, <2>5, TravelStays DEF Shortened
  <2> QED
    BY <1>1, <1>4, <2>6, TravelStays DEF TimesInv, AtTheStart, OnTheWay, AtTheEnd, DatesSurvive
<1> QED
  BY <1>2, <1>3, <1>4

\* A date comes from Objective-C.
LEMMA DateToCppObjcKeeps == ASSUME TimesInv, DateToCppObjc PROVE TimesInv'
<1>1. /\ TravelsType /\ travels.kind = "date" /\ travels.via = "objc" /\ place = "platform"
      /\ travels' = travels /\ place' = "back"
      /\ IF held \in Longs THEN held' = held ELSE held' \in Longs
  BY DEF TimesInv, DateToCppObjc, Comes
<1>2. Start \in Int /\ LongLimit \in Nat /\ travels.from \in {"cpp", "platform"}
  BY <1>1, TravelIs, TimesAssumption
<1>3. held \in {Start - 1, Start, Start + 1} /\ (travels.from = "platform" => held = Start)
  BY <1>1, <1>2 DEF TimesInv, OnTheWay
<1>4. travels.from = "cpp" => Start \in Longs
  BY <1>1, TravelIs
<1>5. held' - Start \in -1..1 \/ Start + 1 \notin Longs \/ Start - 1 \notin Longs
  BY <1>1, <1>2, <1>3, <1>4 DEF Longs
<1> QED
  BY <1>1, <1>5, TravelStays DEF TimesInv, AtTheStart, OnTheWay, AtTheEnd, DatesSurvive

\* A duration comes from Java (Duration-jni.hpp:39-47).
LEMMA DurationToCppKeeps == ASSUME TimesInv, DurationToCpp PROVE TimesInv'
<1> DEFINE u == travels.unit
           n == travels.start
           nanos == TowardsZero(Start, 2)
           count == CountOf(travels.rep, u, held)
<1>1. /\ TravelsType /\ travels.kind # "date" /\ travels.via = "jni" /\ place = "platform"
      /\ travels' = travels /\ place' = "back"
      /\ held = NoDuration \/ held \in Longs
      /\ held' = IF held = NoDuration THEN NoDuration
                 ELSE IF travels.rep = "double" THEN 2 * held ELSE 2 * u * count
  BY DEF TimesInv, DurationToCpp, Comes, Durations, HalfNanos
<1>2. /\ Start \in Int /\ u \in Nat \ {0} /\ LongLimit \in Nat
      /\ travels.from \in {"cpp", "platform"} /\ \A x \in Longs : x \in Int /\ x # NoDuration
      /\ travels.rep \in {"int32", "int64", "double"}
  <2>1. \A x \in Longs : x \in Int
    BY TimesAssumption DEF Longs
  <2> QED
    BY <1>1, <2>1, TravelIs, TimesAssumption
<1>3. CASE Negative
  <2>1. held = NoDuration
    BY <1>1, <1>2, <1>3, TravelIs DEF TimesInv, OnTheWay
  <2> QED
    BY <1>1, <1>3, <2>1, TravelStays
       DEF TimesInv, AtTheStart, OnTheWay, AtTheEnd, DurationsSurvive
<1>4. CASE ~ Negative /\ travels.from = "cpp"
  <2> SUFFICES ASSUME nanos \in Longs
               PROVE  Shortened(Start, IF travels.rep # "double" THEN 1 ELSE 2)'
    BY <1>1, <1>4, TravelStays DEF TimesInv, AtTheStart, OnTheWay, AtTheEnd, DurationsSurvive
  <2>1. held = nanos /\ held \in Int /\ held # NoDuration
    BY <1>1, <1>2, <1>4 DEF TimesInv, OnTheWay
  <2>2. CASE travels.rep = "double"
    <3>1. held' = 2 * held
      BY <1>1, <2>1, <2>2
    <3>2. /\ Start < 0 => Start <= 2 * nanos /\ 2 * nanos < Start + 2 /\ 2 * nanos <= 0
          /\ Start >= 0 => Start - 2 < 2 * nanos /\ 2 * nanos <= Start /\ 2 * nanos >= 0
      <4>1. 2 \in Nat \ {0}
        OBVIOUS
      <4> QED
        BY <1>2, <4>1, Cutting
    <3> QED
      BY <1>1, <1>2, <2>1, <2>2, <3>1, <3>2, TravelStays DEF Shortened
  <2>3. CASE travels.rep # "double"
    <3>1. n \in Int /\ Start = 2 * u * n /\ (travels.rep = "int32" => n \in Ints)
      BY <1>1, <1>4, <2>3, TravelIs
    <3>2. nanos = u * n
      <4>1. u * n \in Int /\ Start = 2 * (u * n)
        BY <1>2, <3>1
      <4> QED
        BY <4>1, CuttingMultiples
    <3>3. TowardsZero(held, u) = n
      BY <1>2, <2>1, <3>1, <3>2, CuttingMultiples
    <3>4. count = n
      BY <3>1, <3>3, Narrowing DEF CountOf
    <3>5. held' = Start
      BY <1>1, <2>1, <2>3, <3>1, <3>4
    <3> QED
      BY <1>1, <1>2, <2>3, <3>5, TravelStays DEF Shortened
  <2> QED
    BY <2>2, <2>3
<1>5. CASE ~ Negative /\ travels.from = "platform"
  <2>1. held = Start /\ held \in Int /\ held # NoDuration
    BY <1>1, <1>2, <1>5, TimesAssumption DEF TimesInv, OnTheWay
  <2>2. \/ Shortened(2 * Start, IF travels.rep # "double" THEN 2 * u ELSE 1)'
        \/ travels.rep = "int32" /\ TowardsZero(Start, u) \notin Ints
    <3>1. CASE travels.rep = "double"
      <4>1. held' = 2 * Start
        BY <1>1, <2>1, <3>1
      <4> QED
        BY <1>1, <1>2, <3>1, <4>1, TravelStays DEF Shortened
    <3>2. CASE travels.rep # "double" /\ (travels.rep = "int32" => TowardsZero(Start, u) \in Ints)
      <4> DEFINE q == TowardsZero(Start, u)
      <4>1. count = q
        BY <2>1, <3>2, Narrowing DEF CountOf
      <4>2. /\ q \in Int
            /\ Start < 0 => Start <= u * q /\ u * q < Start + u /\ u * q <= 0
            /\ Start >= 0 => Start - u < u * q /\ u * q <= Start /\ u * q >= 0
        BY <1>2, Cutting
      <4>3. held' = 2 * (u * q) /\ u * q \in Int
        BY <1>1, <1>2, <2>1, <3>2, <4>1, <4>2
      <4> HIDE DEF q
      <4>4. Shortened(2 * Start, 2 * u)'
        <5>1. /\ 2 * Start < 0 => /\ 2 * Start <= held' /\ held' < 2 * Start + 2 * u
                                  /\ held' <= 0
              /\ ~ (2 * Start < 0) => /\ 2 * Start - 2 * u < held' /\ held' <= 2 * Start
                                      /\ held' >= 0
          BY <1>2, <4>2, <4>3
        <5>2. Start' = Start /\ travels' = travels
          BY <1>1, TravelStays
        <5> QED
          BY <5>1, <5>2 DEF Shortened
      <4> QED
        BY <1>1, <3>2, <4>4
    <3> QED
      BY <3>1, <3>2
  <2> QED
    BY <1>1, <1>5, <2>2, TravelStays
       DEF TimesInv, AtTheStart, OnTheWay, AtTheEnd, DurationsSurvive
<1> QED
  BY <1>2, <1>3, <1>4, <1>5

\* A duration comes from Objective-C (Duration-objc.hpp:28-31).
LEMMA DurationToCppObjcKeeps == ASSUME TimesInv, DurationToCppObjc PROVE TimesInv'
<1> DEFINE u == travels.unit
           n == travels.start
<1>1. /\ TravelsType /\ travels.kind # "date" /\ travels.via = "objc" /\ place = "platform"
      /\ travels' = travels /\ place' = "back"
      /\ IF held = NoDuration \/ travels.rep = "double" THEN held' = held
         ELSE \E count \in CountsOf(travels.rep, u, held) : held' = 2 * u * count
  BY DEF TimesInv, DurationToCppObjc, Comes, Durations, HalfNanos
<1>2. /\ Start \in Int /\ u \in Nat \ {0} /\ Second \in Nat /\ Start # NoDuration
      /\ travels.from \in {"cpp", "platform"}
  BY <1>1, TravelIs, TimesAssumption
<1>3. CASE Negative
  <2>1. held = NoDuration
    BY <1>1, <1>2, <1>3, TravelIs DEF TimesInv, OnTheWay
  <2> QED
    BY <1>1, <1>3, <2>1, TravelStays
       DEF TimesInv, AtTheStart, OnTheWay, AtTheEnd, DurationsSurvive
<1>4. CASE ~ Negative /\ travels.from = "platform"
  BY <1>1, <1>4, TravelStays DEF TimesInv, AtTheStart, OnTheWay, AtTheEnd, DurationsSurvive
<1>5. CASE ~ Negative /\ travels.from = "cpp"
  <2>1. held = Start
    BY <1>1, <1>5 DEF TimesInv, OnTheWay
  <2>2. Shortened(Start, IF travels.rep # "double" /\ u < Second THEN 2 * u + 1 ELSE 1)'
    <3>1. CASE travels.rep = "double"
      <4>1. held' = Start
        BY <1>1, <2>1, <3>1
      <4> QED
        BY <1>1, <1>2, <3>1, <4>1, TravelStays DEF Shortened
    <3>2. CASE travels.rep # "double"
      <4>1. /\ n \in Int /\ Start = 2 * u * n
            /\ n \in IF travels.rep = "int32" THEN Ints ELSE Longs
        BY <1>1, <1>5, <3>2, TravelIs
      <4>2. TowardsZero(Start, 2 * u) = n
        <5>1. 2 * u \in Nat \ {0}
          BY <1>2
        <5> QED
          BY <4>1, <5>1, CuttingMultiples
      <4>3. PICK count \in CountsOf(travels.rep, u, Start) : held' = 2 * u * count
        BY <1>1, <1>2, <2>1, <3>2
      <4>4. /\ count = n \/ (n > 0 /\ count = n - 1) \/ (n < 0 /\ count = n + 1)
            /\ u >= Second => count = n
        BY <1>2, <4>1, <4>2 DEF CountsOf
      <4>5. CASE count = n
        <5>1. held' = Start
          BY <4>1, <4>3, <4>5
        <5> QED
          BY <1>1, <1>2, <5>1, TravelStays DEF Shortened
      <4>6. CASE n > 0 /\ count = n - 1
        <5>1. held' = Start - 2 * u /\ held' >= 0 /\ Start >= 0 /\ u < Second
          BY <1>2, <4>1, <4>3, <4>4, <4>6
        <5> QED
          BY <1>1, <1>2, <3>2, <5>1, TravelStays DEF Shortened
      <4>7. CASE n < 0 /\ count = n + 1
        <5>1. held' = Start + 2 * u /\ held' <= 0 /\ Start < 0 /\ u < Second
          BY <1>2, <4>1, <4>3, <4>4, <4>7
        <5> QED
          BY <1>1, <1>2, <3>2, <5>1, TravelStays DEF Shortened
      <4> QED
        BY <4>4, <4>5, <4>6, <4>7
    <3> QED
      BY <3>1, <3>2
  <2> QED
    BY <1>1, <1>5, <2>2, TravelStays
       DEF TimesInv, AtTheStart, OnTheWay, AtTheEnd, DurationsSurvive
<1> QED
  BY <1>2, <1>3, <1>4, <1>5

\* The invariant holds before the travel.
LEMMA TimesInitially == TimesInit => TimesInv
<1> SUFFICES ASSUME TimesInit PROVE TimesInv
  OBVIOUS
<1>1. TravelsType /\ place = travels.from
  BY DEF TimesInit, TravelsType
<1>2. held = IF Negative THEN NoDuration ELSE Start
  <2>1. /\ travels.kind \in {"duration", "optional duration", "date"}
        /\ travels.kind = "optional duration" => travels.from = "cpp"
        /\ travels.from \in {"cpp", "platform"}
    BY <1>1, TravelIs DEF TravelsType
  <2>2. held = IF travels.from = "platform" \/ travels.kind = "date" THEN travels.start
               ELSE IF travels.kind = "duration" THEN Start ELSE BoxOf(Start)
    BY DEF TimesInit, Start
  <2> QED
    BY <1>1, <2>1, <2>2, TravelIs DEF BoxOf, Negative
<1> QED
  BY <1>1, <1>2, TravelIs DEF TimesInv, AtTheStart, OnTheWay, AtTheEnd

\* Every step keeps the invariant.
LEMMA TimesStep == TimesInv /\ [TimesNext]_timesVars => TimesInv'
<1> SUFFICES ASSUME TimesInv, [TimesNext]_timesVars PROVE TimesInv'
  OBVIOUS
<1>1. CASE UNCHANGED timesVars
  BY <1>1, TravelStays
     DEF timesVars, TimesInv, TravelsType, AtTheStart, OnTheWay, AtTheEnd, DatesSurvive,
         DurationsSurvive, Shortened
<1> QED
  BY <1>1, DurationFromCppKeeps, DurationToCppKeeps, ToNanosThrowsKeeps, DateFromCppKeeps,
     DateToCppKeeps, DurationFromCppObjcKeeps, DurationToCppObjcKeeps, DateFromCppObjcKeeps,
     DateToCppObjcKeeps DEF TimesNext

\* What durations and dates lose on their way is what TimesSurvive allows, for every width of the
\* integers, every unit and every amount.
THEOREM TimesSurviveTheBorder == TimesSpec => []TimesSurvive
BY TimesInitially, TimesStep, TimesSurviveAtTheEnd, PTL DEF TimesSpec

-----------------------------------------------------------------------------
(* Threads *)

\* What thread w holds on its way, whatever the application has dropped meanwhile.
Carries(w) == IF worker[w] \in {"none", "ended", "died"} THEN {} ELSE Captured(w)

ThreadTypes ==
    /\ library \in Libraries
    /\ worker \in [Workers -> WorkerStates]
    /\ runs \in [Workers -> Funcs]
    /\ holders \in [Funcs \cup {Hook} -> SUBSET (Workers \cup {App})]

\* Which places each implementation has; createThread() of Java and Objective-C is a call on an
\* object that the caller has.
PlacesFit ==
    \A w \in Workers :
        /\ library.by = "cpp" => worker[w] \notin {"created", "configured"}
        /\ library.by # "cpp" => worker[w] # "started"
        /\ worker[w] \in {"created", "configured"} => App \in holders[Hook]

\* A thread has references to what it holds, and to nothing else.
HoldersFit ==
    \A w \in Workers : \A f \in Funcs \cup {Hook} : w \in holders[f] <=> f \in Carries(w)

ThreadInv == ThreadTypes /\ (process = "runs" => PlacesFit /\ HoldersFit)

\* What one thread does changes what it holds, and not what the others do.
LEMMA OneThreadMoves ==
    ASSUME ThreadTypes, PlacesFit, HoldersFit, NEW w \in Workers, NEW s \in WorkerStates,
           worker' = [worker EXCEPT ![w] = s], UNCHANGED <<library, runs>>,
           holders' \in [Funcs \cup {Hook} -> SUBSET (Workers \cup {App})],
           \A f \in Funcs \cup {Hook} :
               /\ w \in holders'[f] <=> f \in Carries(w)'
               /\ holders'[f] \ {w} = holders[f] \ {w},
           library.by = "cpp" => s \notin {"created", "configured"},
           library.by # "cpp" => s # "started",
           s \in {"created", "configured"} => App \in holders[Hook]
    PROVE  ThreadTypes' /\ PlacesFit' /\ HoldersFit'
<1>1. ThreadTypes'
  BY DEF ThreadTypes
<1>2. w # App /\ App \in holders'[Hook] <=> App \in holders[Hook]
  BY ThreadsAssumption
<1>3. PlacesFit'
  BY <1>2, ThreadsAssumption DEF PlacesFit, ThreadTypes
<1>4. ASSUME NEW v \in Workers, NEW f \in Funcs \cup {Hook}
      PROVE  v \in holders'[f] <=> f \in Carries(v)'
  <2>1. CASE v = w
    BY <2>1
  <2>2. CASE v # w
    <3>1. Carries(v)' = Carries(v)
      BY <2>2 DEF Carries, Captured, ThreadTypes
    <3>2. v \in holders'[f] <=> v \in holders[f]
      BY <2>2
    <3> QED
      BY <3>1, <3>2 DEF HoldersFit
  <2> QED
    BY <2>1, <2>2
<1> QED
  BY <1>1, <1>3, <1>4 DEF HoldersFit

\* No step takes from a thread what it has still to use.
LEMMA ThreadStep == ThreadInv /\ [ThreadNext]_threadVars => ThreadInv'
<1> SUFFICES ASSUME ThreadInv, [ThreadNext]_threadVars PROVE ThreadInv'
  OBVIOUS
<1> USE DEF ThreadInv
<1>1. CASE UNCHANGED threadVars
  BY <1>1 DEF threadVars, ThreadTypes, PlacesFit, HoldersFit, Carries, Captured
<1>2. ASSUME NEW w \in Workers, CreateThread(w) PROVE ThreadInv'
  <2>1. Carries(w)' = Captured(w) /\ Carries(w) = {}
    BY <1>2 DEF CreateThread, Goes, Carries, Captured, ThreadTypes
  <2>2. holders' \in [Funcs \cup {Hook} -> SUBSET (Workers \cup {App})]
    BY <1>2 DEF CreateThread, Takes, ThreadTypes
  <2>3. App \in holders[Hook]
    BY <1>2 DEF CreateThread
  <2>4. \A f \in Funcs \cup {Hook} :
            /\ w \in holders'[f] <=> f \in Captured(w)
            /\ holders'[f] \ {w} = holders[f] \ {w}
    BY <1>2, <2>1 DEF CreateThread, Takes, ThreadTypes, HoldersFit, Goes
  <2>5. PICK s \in {"created", "started"} :
            /\ worker' = [worker EXCEPT ![w] = s]
            /\ library.by = "cpp" <=> s = "started"
    BY <1>2 DEF CreateThread, Goes
  <2>6. UNCHANGED <<library, runs>> /\ ThreadTypes /\ PlacesFit /\ HoldersFit
    BY <1>2 DEF CreateThread, Goes
  <2>7. \A f \in Funcs \cup {Hook} :
            /\ w \in holders'[f] <=> f \in Carries(w)'
            /\ holders'[f] \ {w} = holders[f] \ {w}
    BY <2>1, <2>4
  <2>8. s \in WorkerStates
    BY DEF WorkerStates
  <2> HIDE DEF ThreadInv
  <2>9. ThreadTypes' /\ PlacesFit' /\ HoldersFit'
    BY <2>2, <2>3, <2>5, <2>6, <2>7, <2>8, OneThreadMoves
  <2> QED
    BY <2>9 DEF ThreadInv
<1>3. ASSUME NEW w \in Workers, NEW from \in WorkerStates, NEW to \in WorkerStates,
             Goes(w, from, to), process' = process, from \notin {"none", "ended", "died"},
             to \notin {"none", "ended", "died"}, UNCHANGED holders,
             library.by = "cpp" => to \notin {"created", "configured"},
             library.by # "cpp" => to # "started",
             to \in {"created", "configured"} => App \in holders[Hook]
      PROVE  ThreadInv'
  <2>1. Carries(w)' = Carries(w)
    BY <1>3 DEF Goes, Carries, Captured, ThreadTypes
  <2>2. \A f \in Funcs \cup {Hook} :
            /\ w \in holders'[f] <=> f \in Carries(w)'
            /\ holders'[f] \ {w} = holders[f] \ {w}
    BY <1>3, <2>1 DEF HoldersFit, Goes
  <2>3. /\ ThreadTypes /\ PlacesFit /\ HoldersFit /\ UNCHANGED <<library, runs>>
        /\ worker' = [worker EXCEPT ![w] = to]
        /\ holders' \in [Funcs \cup {Hook} -> SUBSET (Workers \cup {App})]
    BY <1>3 DEF Goes, ThreadTypes
  <2> HIDE DEF ThreadInv
  <2>4. ThreadTypes' /\ PlacesFit' /\ HoldersFit'
    BY <1>3, <2>2, <2>3, OneThreadMoves
  <2> QED
    BY <2>4 DEF ThreadInv
<1>4. ASSUME NEW w \in Workers, NEW from \in WorkerStates, Goes(w, from, "ended") \/ Goes(w, from, "died"),
             Drops(w)
      PROVE  ThreadInv'
  <2>1. Carries(w)' = {}
    BY <1>4 DEF Goes, Carries, ThreadTypes
  <2>2. holders' \in [Funcs \cup {Hook} -> SUBSET (Workers \cup {App})]
    BY <1>4 DEF Drops, ThreadTypes
  <2>3. \A f \in Funcs \cup {Hook} : w \notin holders'[f] /\ holders'[f] \ {w} = holders[f] \ {w}
    BY <1>4 DEF Drops, ThreadTypes
  <2>4. CASE Goes(w, from, "ended")
    BY <2>1, <2>2, <2>3, <2>4, OneThreadMoves DEF Goes, WorkerStates
  <2>5. CASE Goes(w, from, "died")
    BY <2>1, <2>2, <2>3, <2>5, OneThreadMoves DEF Goes, WorkerStates
  <2> QED
    BY <1>4, <2>4, <2>5
\* Nothing is said of what is left when the process ends, but for the types.
<1>5. ASSUME NEW w \in Workers, NEW from \in WorkerStates, NEW to \in WorkerStates,
             Goes(w, from, to), process' # "runs", UNCHANGED holders
      PROVE  ThreadInv'
  BY <1>5 DEF Goes, ThreadTypes
<1>6. ASSUME NEW w \in Workers, ConfigureFromOutside(w) PROVE ThreadInv'
  <2>1. CASE Goes(w, "created", "configured") /\ UNCHANGED holders
    <3>1. App \in holders[Hook] /\ library.by # "cpp"
      BY <1>6, <2>1 DEF ConfigureFromOutside, Goes, PlacesFit
    <3> QED
      BY <1>6, <2>1, <3>1, <1>3 DEF ConfigureFromOutside, WorkerStates
  <2>2. CASE Goes(w, "created", "died") /\ Drops(w)
    BY <2>2, <1>4 DEF WorkerStates
  <2> QED
    BY <1>6, <2>1, <2>2 DEF ConfigureFromOutside
<1>7. ASSUME NEW w \in Workers, StartThread(w) PROVE ThreadInv'
  BY <1>7, <1>3 DEF StartThread, WorkerStates
<1>8. ASSUME NEW w \in Workers, ConfigureFromInside(w) PROVE ThreadInv'
  <2>1. CASE Goes(w, "started", "running") /\ UNCHANGED process
    BY <1>8, <2>1, <1>3 DEF ConfigureFromInside, WorkerStates
  <2>2. CASE Goes(w, "started", "died") /\ process' = "terminated"
    BY <1>8, <2>2, <1>5 DEF ConfigureFromInside, WorkerStates
  <2> QED
    BY <1>8, <2>1, <2>2 DEF ConfigureFromInside
<1>9. ASSUME NEW w \in Workers, Escapes(w) PROVE ThreadInv'
  <2>1. CASE library.by = "java"
    BY <1>9, <2>1, <1>4 DEF Escapes, WorkerStates
  <2>2. CASE library.by # "java"
    BY <1>9, <2>2, <1>5 DEF Escapes, WorkerStates
  <2> QED
    BY <2>1, <2>2
<1>10. ASSUME NEW w \in Workers, Runs(w) PROVE ThreadInv'
  <2>1. CASE process' = "aborted" /\ UNCHANGED holders /\ Goes(w, "running", "running")
    BY <2>1, <1>5 DEF WorkerStates
  <2>2. CASE Goes(w, "running", "ended") /\ Drops(w)
    BY <2>2, <1>4 DEF WorkerStates
  <2> QED
    BY <1>10, <2>1, <2>2 DEF Runs
<1>11. ASSUME NEW f \in Funcs \cup {Hook}, Forget(f) PROVE ThreadInv'
  <2>1. ThreadTypes'
    BY <1>11 DEF Forget, ThreadTypes
  <2>2. PlacesFit'
    BY <1>11 DEF Forget, ThreadTypes, PlacesFit
  <2>3. \A w \in Workers : \A g \in Funcs \cup {Hook} : w \in holders'[g] <=> w \in holders[g]
    BY <1>11, ThreadsAssumption DEF Forget, ThreadTypes
  <2>4. \A w \in Workers : Carries(w)' = Carries(w)
    BY <1>11 DEF Forget, Carries, Captured
  <2> QED
    BY <1>11, <2>1, <2>2, <2>3, <2>4 DEF HoldersFit, Forget
<1> QED
  BY <1>1, <1>2, <1>6, <1>7, <1>8, <1>9, <1>10, <1>11 DEF ThreadNext

\* However many threads share a function, and whenever the application drops it or the
\* implementation, each thread finds alive what it has still to call, and nothing outlives the
\* last that needs it.
THEOREM ThreadsAreSafe == ThreadSpec => []ThreadsKeepWhatTheyNeed
<1>1. ThreadInit => ThreadInv
  BY ThreadsAssumption
     DEF ThreadInit, ThreadInv, ThreadTypes, PlacesFit, HoldersFit, Carries, WorkerStates
<1>2. ThreadInv => ThreadsKeepWhatTheyNeed
  <2> SUFFICES ASSUME ThreadTypes, PlacesFit, HoldersFit PROVE ThreadsKeepWhatTheyNeed
    BY DEF ThreadInv, ThreadsKeepWhatTheyNeed
  <2>1. ASSUME NEW w \in Workers, NEW f \in Needs(w) PROVE Owned(f)
    BY <2>1 DEF ThreadTypes, PlacesFit, HoldersFit, Carries, Captured, Needs, Owned
  <2>2. ASSUME NEW f \in Funcs, Owned(f), App \notin holders[f]
        PROVE  \E w \in Workers : f \in Needs(w)
    <3>1. PICK w \in Workers : w \in holders[f]
      BY <2>2 DEF Owned, ThreadTypes
    <3>2. f \in Carries(w) /\ f # Hook
      BY <3>1, ThreadsAssumption DEF HoldersFit
    <3> QED
      BY <3>2 DEF Carries, Captured, Needs, ThreadTypes, WorkerStates
  <2> QED
    BY <2>1, <2>2 DEF ThreadsKeepWhatTheyNeed
<1> QED
  BY <1>1, <1>2, ThreadStep, PTL DEF ThreadSpec

(* Crossing *)

Holdings == {NoObject, Crash, Aborted} \cup {Itself(s) : s \in {"cpp", "java"}}
            \cup {Proxy(s) : s \in {"cpp", "java"}}

\* What one side can hold is told apart.
LEMMA Distinct ==
    /\ NoObject # Proxy("cpp") /\ NoObject # Proxy("java") /\ NoObject # Itself("cpp")
    /\ NoObject # Itself("java")
    /\ Itself("cpp") # Proxy("cpp") /\ Itself("java") # Proxy("java")
    /\ Itself("cpp") # Proxy("java") /\ Itself("java") # Proxy("cpp")
    /\ Proxy("java") # Proxy("cpp") /\ Itself("java") # Itself("cpp")
    /\ Crash # NoObject /\ \A s : Crash # Itself(s) /\ Crash # Proxy(s)
    /\ Aborted # NoObject /\ \A s : Aborted # Itself(s) /\ Aborted # Proxy(s)
BY DEF NoObject, Proxy, Itself, Crash, Aborted

\* What becomes of each of them at the border, case by case.
LEMMA CrossesTo ==
    ASSUME NEW i, NEW a
    PROVE  /\ ToJava(i, a, NoObject) = NoObject
           /\ ToJava(i, a, Proxy("cpp")) = Itself("java")
           /\ i \in WithCppProxy => ToJava(i, a, Itself("cpp")) = Proxy("java")
           /\ i \notin WithCppProxy =>
                  ToJava(i, a, Itself("cpp")) = IF a THEN Aborted ELSE Crash
           /\ ToCpp(i, a, NoObject) = NoObject
           /\ ToCpp(i, a, Proxy("java")) = Itself("cpp")
           /\ i \in WithJavaProxy => ToCpp(i, a, Itself("java")) = Proxy("cpp")
           /\ i \notin WithJavaProxy =>
                  ToCpp(i, a, Itself("java")) = IF a THEN Aborted ELSE NoObject
BY Distinct, Zenon DEF ToJava, ToCpp

TravelInv ==
    /\ traveller \in [interface : Interfaces, asserts : BOOLEAN, home : {"cpp", "java"},
                      side : {"cpp", "java"}, holds : Holdings]
    /\ CrossesAndReturns

\* Every crossing keeps the invariant.
LEMMA TravelStep == TravelInv /\ [TravelNext]_traveller => TravelInv'
<1> SUFFICES ASSUME TravelInv, [TravelNext]_traveller PROVE TravelInv'
  OBVIOUS
<1>1. CASE UNCHANGED traveller
  BY <1>1 DEF TravelInv, CrossesAndReturns
<1> DEFINE i == traveller.interface
           a == traveller.asserts
           c == traveller.holds
<1>2. CASE CrossToJava
  <2>1. /\ i \in Interfaces /\ traveller.side = "cpp" /\ a \in BOOLEAN
        /\ c # Crash /\ c # Aborted
        /\ traveller.home \in {"cpp", "java"}
        /\ traveller' = [interface |-> i, asserts |-> a, home |-> traveller.home,
                         side |-> "java", holds |-> ToJava(i, a, c)]
    BY <1>2 DEF TravelInv, CrossToJava, Lives
  <2>2. CASE traveller.home = "cpp"
    BY <2>1, <2>2, CrossesTo, Distinct DEF TravelInv, CrossesAndReturns, Holdings
  <2>3. CASE traveller.home = "java"
    BY <2>1, <2>3, CrossesTo, Distinct DEF TravelInv, CrossesAndReturns, Holdings
  <2> QED
    BY <2>1, <2>2, <2>3
<1>3. CASE CrossToCpp
  <2>1. /\ i \in Interfaces /\ traveller.side = "java" /\ a \in BOOLEAN
        /\ c # Crash /\ c # Aborted
        /\ traveller.home \in {"cpp", "java"}
        /\ traveller' = [interface |-> i, asserts |-> a, home |-> traveller.home,
                         side |-> "cpp", holds |-> ToCpp(i, a, c)]
    BY <1>3 DEF TravelInv, CrossToCpp, Lives
  <2>2. CASE traveller.home = "cpp"
    BY <2>1, <2>2, CrossesTo, Distinct DEF TravelInv, CrossesAndReturns, Holdings
  <2>3. CASE traveller.home = "java"
    BY <2>1, <2>3, CrossesTo, Distinct DEF TravelInv, CrossesAndReturns, Holdings
  <2> QED
    BY <2>1, <2>2, <2>3
<1> QED
  BY <1>1, <1>2, <1>3 DEF TravelNext

\* An object is itself at home and one proxy abroad, however often it crosses, for any interfaces.
THEOREM ObjectsComeHome == TravelSpec => []CrossesAndReturns
<1>1. TravelInit => TravelInv
  BY Distinct DEF TravelInit, TravelInv, CrossesAndReturns, Holdings
<1>2. TravelInv => CrossesAndReturns
  BY DEF TravelInv
<1> QED
  BY <1>1, <1>2, TravelStep, PTL DEF TravelSpec

-----------------------------------------------------------------------------
(* Containers *)

\* An outcome is what it carries: fine or failed, and with what.
LEMMA Outcomes ==
    \A v, w :
        /\ Fine(v).ok /\ Fine(v).value = v
        /\ ~ Fails(v).ok /\ Fails(v).value = v
        /\ Fine(v) = Fine(w) => v = w
        /\ Fails(v) = Fails(w) => v = w
        /\ Fine(v) # Fails(w)
<1> TAKE v, w
<1>1. Fine(v).ok /\ Fine(v).value = v /\ ~ Fails(v).ok /\ Fails(v).value = v
  BY Zenon DEF Fine, Fails
<1>2. Fine(w).ok /\ Fine(w).value = w /\ ~ Fails(w).ok /\ Fails(w).value = w
  BY Zenon DEF Fine, Fails
<1> QED
  BY <1>1, <1>2

Cargo == Texts \cup {Absent, "", "-", "0", "1", "2"}

\* The words that stand for values are different words.
LEMMA Strings ==
    /\ Absent \notin Texts /\ BadTexts \subseteq Texts
    /\ \A v \in BadTexts : Mended[v] \in Texts
    /\ Absent \notin {"1", "2", "0", "-", ""} /\ "1" # "2" /\ "0" \notin {"1", "2"}
BY MarshalAssumption DEF Absent

\* What a conversion is, taken apart.
LEMMA Sides ==
    ASSUME NEW t \in Trips
    PROVE  /\ t.side \in {"jni", "objc"} /\ t.to \in {"cpp", "platform"} /\ t.kind \in Kinds
           /\ t.value \in {"text", "number", "optional"} /\ t.asserts \in BOOLEAN
           /\ t.kind = "flags" => t.side = "jni" /\ t.value = "number"
           /\ t.kind = "set" => t.value # "optional"
           /\ t.side = "jni" => t.side # "objc"
BY DEF Trips

(* Texts and numbers *)

\* A text on its way to C++, case by case (Marshal.hpp:169, DJIMarshal+Private.h:118).
LEMMA TextTo ==
    ASSUME NEW t \in Trips, NEW v \in Texts \cup {Absent}
    PROVE  /\ v # Absent /\ v \notin BadTexts => TextToCpp(t, v) = Fine(v)
           /\ v \in BadTexts /\ t.side = "jni" => TextToCpp(t, v) = Fine(Mended[v])
           /\ v \in BadTexts /\ t.side = "objc" => TextToCpp(t, v) = Fine("")
           /\ v = Absent /\ t.asserts => TextToCpp(t, v) = Fails("aborted")
           /\ v = Absent /\ ~ t.asserts /\ t.side = "jni" => TextToCpp(t, v) = Fails("threw")
BY Sides, Strings DEF TextToCpp

\* A text on its way from C++, case by case.
LEMMA TextFrom ==
    ASSUME NEW t \in Trips, NEW v \in Texts \cup {Absent}
    PROVE  /\ v \notin BadTexts => TextFromCpp(t, v) = Fine(v)
           /\ v \in BadTexts /\ t.side = "jni" => TextFromCpp(t, v) = Fine(Mended[v])
           /\ v \in BadTexts /\ t.side = "objc" => TextFromCpp(t, v) = Fine(Absent)
<1>1. t.side = "jni" => t.side # "objc"
  BY Sides
<1> QED
  BY <1>1, Zenon DEF TextFromCpp

\* A boxed number on its way to C++, case by case (Marshal.hpp:43-51).
LEMMA NumberTo ==
    ASSUME NEW t \in Trips, NEW v \in {"1", "2", Absent}
    PROVE  /\ v # Absent => NumberToCpp(t, v) = Fine(v)
           /\ v = Absent /\ t.asserts => NumberToCpp(t, v) = Fails("aborted")
           /\ v = Absent /\ ~ t.asserts /\ t.side = "jni" => NumberToCpp(t, v) = Fails("undefined")
<1>1. t.side = "jni" => t.side # "objc"
  BY Sides
<1> QED
  BY <1>1, Zenon DEF NumberToCpp

\* Texts become one text on their way to C++ only if one of them is none.
LEMMA TextsBecomeOne ==
    ASSUME NEW t \in Trips, NEW v \in Texts \cup {Absent}, NEW w \in Texts \cup {Absent},
           v = Absent => t.side = "jni", w = Absent => t.side = "jni",
           v # w, TextToCpp(t, v) = TextToCpp(t, w)
    PROVE  {v, w} \cap BadTexts # {}
<1> SUFFICES ASSUME v \notin BadTexts, w \notin BadTexts PROVE FALSE
  OBVIOUS
<1>1. \/ v # Absent /\ TextToCpp(t, v) = Fine(v)
      \/ v = Absent /\ \E how : TextToCpp(t, v) = Fails(how)
  BY TextTo
<1>2. \/ w # Absent /\ TextToCpp(t, w) = Fine(w)
      \/ w = Absent /\ \E how : TextToCpp(t, w) = Fails(how)
  BY TextTo
<1> QED
  BY <1>1, <1>2, Outcomes

\* Texts become one text on their way from C++ only if one of them is none; in Objective-C both
\* become nil.
LEMMA TextsFromOne ==
    ASSUME NEW t \in Trips, NEW v \in Texts, NEW w \in Texts,
           v # w, TextFromCpp(t, v) = TextFromCpp(t, w)
    PROVE  {v, w} \cap BadTexts # {} /\ (t.side = "objc" => TextFromCpp(t, v).value = Absent)
<1>1. {v, w} \cap BadTexts # {}
  <2> SUFFICES ASSUME v \notin BadTexts, w \notin BadTexts PROVE FALSE
    OBVIOUS
  <2>1. TextFromCpp(t, v) = Fine(v) /\ TextFromCpp(t, w) = Fine(w)
    BY TextFrom
  <2> QED
    BY <2>1, Outcomes
<1>2. t.side = "objc" => TextFromCpp(t, v) = Fine(Absent)
  BY <1>1, TextFrom
<1> QED
  BY <1>1, <1>2, Outcomes

\* What comes out as nil was no text.
LEMMA TextFromNil ==
    ASSUME NEW t \in Trips, NEW v \in Texts \cup {Absent}, TextFromCpp(t, v).value = Absent
    PROVE  v \in BadTexts \cup {Absent}
<1> SUFFICES ASSUME v \notin BadTexts PROVE v = Absent
  OBVIOUS
<1>1. TextFromCpp(t, v) = Fine(v)
  BY TextFrom
<1> QED
  BY <1>1, Outcomes

\* The word that stands for the outcome of a number.
LEMMA NumberToWord ==
    ASSUME NEW t \in Trips, NEW v \in {"1", "2", Absent}, v = Absent => t.side = "jni"
    PROVE  NumberToCpp(t, v).value =
              IF v = Absent THEN IF t.asserts THEN "aborted" ELSE "undefined" ELSE v
<1>1. CASE v = Absent /\ t.asserts
  <2>1. NumberToCpp(t, v) = Fails("aborted")
    BY <1>1, NumberTo
  <2> QED
    BY <1>1, <2>1, Outcomes
<1>2. CASE v = Absent /\ ~ t.asserts
  <2>1. NumberToCpp(t, v) = Fails("undefined")
    BY <1>2, NumberTo
  <2> QED
    BY <1>2, <2>1, Outcomes
<1>3. CASE v # Absent
  <2>1. NumberToCpp(t, v) = Fine(v)
    BY <1>3, NumberTo
  <2> QED
    BY <1>3, <2>1, Outcomes
<1> QED
  BY <1>1, <1>2, <1>3

\* The keys that a container of this conversion can have: null only in a map of Java.
LEMMA KeysAre ==
    ASSUME NEW t \in Trips
    PROVE  /\ t.kind # "map" => Keys(t) = {"-"}
           /\ t.kind = "map" => Keys(t) \in SUBSET (Texts \cup {Absent})
           /\ t.kind = "map" /\ Absent \in Keys(t) => t.to = "cpp" /\ t.side = "jni"
<1>1. Absent \notin Texts
  BY Strings
<1>2. CASE t.kind # "map"
  BY <1>2, Zenon DEF Keys
<1>3. CASE t.kind = "map" /\ t.to = "cpp" /\ t.side = "jni"
  <2>1. Keys(t) = Texts \cup {Absent}
    BY <1>3, Zenon DEF Keys
  <2> QED
    BY <1>3, <2>1
<1>4. CASE t.kind = "map" /\ ~ (t.to = "cpp" /\ t.side = "jni")
  <2>1. Keys(t) = Texts
    BY <1>4, Zenon DEF Keys
  <2> QED
    BY <1>1, <1>4, <2>1
<1> QED
  BY <1>2, <1>3, <1>4

\* The values that it can have: null from Java, or where the type is optional.
LEMMA ValuesAre ==
    ASSUME NEW t \in Trips
    PROVE  /\ Values(t) \in SUBSET ((IF t.value = "number" THEN {"1", "2"} ELSE Texts)
                                    \cup {Absent})
           /\ Absent \in Values(t) =>
                IF t.to = "cpp" THEN t.side = "jni" /\ t.kind # "flags"
                                ELSE t.value = "optional"
<1> DEFINE given == IF t.value = "number" THEN {"1", "2"} ELSE Texts
<1>1. Absent \notin given
  BY Strings
<1>2. CASE t.to = "cpp" /\ t.side = "jni" /\ t.kind # "flags"
  <2>1. Values(t) = given \cup {Absent}
    BY <1>2, Zenon DEF Values
  <2> QED
    BY <1>2, <2>1
<1>3. CASE t.to = "cpp" /\ ~ (t.side = "jni" /\ t.kind # "flags")
  <2>1. Values(t) = given
    BY <1>3, Zenon DEF Values
  <2> QED
    BY <1>1, <1>3, <2>1
<1>4. CASE t.to # "cpp" /\ t.value = "optional"
  <2>1. Values(t) = given \cup {Absent}
    BY <1>4, Zenon DEF Values
  <2> QED
    BY <1>4, <2>1
<1>5. CASE t.to # "cpp" /\ t.value # "optional"
  <2>1. Values(t) = given
    BY <1>5, Zenon DEF Values
  <2> QED
    BY <1>1, <1>5, <2>1
<1> QED
  BY <1>2, <1>3, <1>4, <1>5

(* What becomes of a key and of a value *)

KeyBecomes(t, k) == IF t.to = "cpp" THEN KeyToCpp(t, k) ELSE KeyFromCpp(t, k)
ValueBecomes(t, v) == IF t.to = "cpp" THEN ValueToCpp(t, v) ELSE ValueFromCpp(t, v)

\* An outcome is something, or the end that a null comes to.
Ends(t, null, how) ==
    /\ t.to = "cpp" /\ t.side = "jni" /\ null
    /\ how \in {"aborted", "threw", "undefined"}
    /\ how = "aborted" => t.asserts

\* A key becomes something, or is a null of Java that ends the conversion.
LEMMA KeyBecomesWhat ==
    ASSUME NEW t \in Trips, NEW k \in Keys(t)
    PROVE  \/ \E c \in Cargo : KeyBecomes(t, k) = Fine(c)
           \/ \E how \in {"aborted", "threw"} :
                KeyBecomes(t, k) = Fails(how) /\ Ends(t, k = Absent, how)
<1>1. CASE t.kind # "map"
  BY <1>1, KeysAre DEF KeyBecomes, KeyToCpp, KeyFromCpp, Cargo
<1>2. CASE t.kind = "map"
  <2>1. k \in Texts \cup {Absent} /\ (k = Absent => t.to = "cpp" /\ t.side = "jni")
    BY <1>2, KeysAre
  <2>2. KeyBecomes(t, k) = IF t.to = "cpp" THEN TextToCpp(t, k) ELSE TextFromCpp(t, k)
    BY <1>2 DEF KeyBecomes, KeyToCpp, KeyFromCpp
  <2>3. CASE k # Absent
    <3>1. \E c \in Texts \cup {"", Absent} : KeyBecomes(t, k) = Fine(c)
      <4>1. CASE t.to = "cpp"
        BY <2>1, <2>2, <2>3, <4>1, TextTo, Strings, Sides
      <4>2. CASE t.to # "cpp"
        BY <2>1, <2>2, <2>3, <4>2, TextFrom, Strings, Sides
      <4> QED
        BY <4>1, <4>2
    <3> QED
      BY <3>1 DEF Cargo
  <2>4. CASE k = Absent
    BY <2>1, <2>2, <2>4, TextTo DEF Ends
  <2> QED
    BY <2>3, <2>4
<1> QED
  BY <1>1, <1>2

\* Two keys become one only if one of them is no text.
LEMMA KeysBecomeOne ==
    ASSUME NEW t \in Trips, t.kind = "map", NEW k \in Keys(t), NEW l \in Keys(t),
           k # l, KeyBecomes(t, k) = KeyBecomes(t, l)
    PROVE  /\ {k, l} \cap BadTexts # {}
           /\ t.side = "objc" /\ t.to # "cpp" => KeyBecomes(t, k).value = Absent
<1>1. k \in Texts \cup {Absent} /\ (k = Absent => t.to = "cpp" /\ t.side = "jni")
  BY KeysAre
<1>2. l \in Texts \cup {Absent} /\ (l = Absent => t.to = "cpp" /\ t.side = "jni")
  BY KeysAre
<1>3. CASE t.to = "cpp"
  <2>1. TextToCpp(t, k) = TextToCpp(t, l)
    BY <1>3 DEF KeyBecomes, KeyToCpp
  <2> QED
    BY <1>1, <1>2, <1>3, <2>1, TextsBecomeOne
<1>4. CASE t.to # "cpp"
  <2>1. KeyBecomes(t, k) = TextFromCpp(t, k) /\ TextFromCpp(t, k) = TextFromCpp(t, l)
    BY <1>4 DEF KeyBecomes, KeyFromCpp
  <2>2. k \in Texts /\ l \in Texts
    BY <1>1, <1>2, <1>4
  <2> QED
    BY <2>1, <2>2, TextsFromOne
<1> QED
  BY <1>3, <1>4

\* The conversion of a value to C++ goes by its type.
LEMMA ValueTo ==
    ASSUME NEW t \in Trips, t.to = "cpp", NEW v
    PROVE  /\ t.kind = "flags" => ValueToCpp(t, v) = OrdinalToCpp(v)
           /\ t.kind # "flags" /\ t.value = "number" => ValueToCpp(t, v) = NumberToCpp(t, v)
           /\ t.value = "text" => ValueToCpp(t, v) = TextToCpp(t, v)
           /\ t.value = "optional" => ValueToCpp(t, v) = OptionalToCpp(t, v)
<1>1. /\ "text" # "number" /\ "optional" # "number" /\ "text" # "optional"
      /\ t.kind = "flags" => t.value = "number"
  BY Sides
<1> QED
  BY <1>1, Zenon DEF ValueToCpp

\* The conversion of a value from C++ goes by its type.
LEMMA ValueFrom ==
    ASSUME NEW t \in Trips, NEW v
    PROVE  /\ t.value = "number" => ValueFromCpp(t, v) = Fine(v)
           /\ t.value = "text" => ValueFromCpp(t, v) = TextFromCpp(t, v)
           /\ t.value = "optional" => ValueFromCpp(t, v) = OptionalFromCpp(t, v)
<1>1. "text" # "number" /\ "optional" # "number" /\ "text" # "optional"
  OBVIOUS
<1> QED
  BY <1>1, Zenon DEF ValueFromCpp

\* A value becomes something, or is a null of Java that its type does not allow.
LEMMA ValueBecomesWhat ==
    ASSUME NEW t \in Trips, NEW v \in Values(t)
    PROVE  \/ \E c \in Cargo : ValueBecomes(t, v) = Fine(c)
           \/ \E how \in {"aborted", "threw", "undefined"} :
                /\ ValueBecomes(t, v) = Fails(how) /\ Ends(t, v = Absent, how)
                /\ t.value # "optional"
                /\ how = "undefined" => t.value = "number" /\ ~ t.asserts
<1> DEFINE b == ValueBecomes(t, v)
<1>1. CASE t.to = "cpp"
  <2>1. v = Absent => t.side = "jni" /\ t.kind # "flags"
    BY <1>1, ValuesAre
  <2>2. CASE t.kind = "flags"
    <3>1. v \in {"1", "2"}
      BY <2>1, <2>2, ValuesAre, Sides
    <3> QED
      BY <1>1, <2>2, <3>1, ValueTo, Strings DEF ValueBecomes, OrdinalToCpp, Cargo
  <2>3. CASE t.kind # "flags" /\ t.value = "number"
    <3>1. v \in {"1", "2", Absent} /\ b = NumberToCpp(t, v)
      BY <1>1, <2>3, ValuesAre, ValueTo DEF ValueBecomes
    <3>2. CASE v # Absent
      BY <3>1, <3>2, NumberTo DEF Cargo
    <3>3. CASE v = Absent
      BY <1>1, <2>1, <2>3, <3>1, <3>3, NumberTo DEF Ends
    <3> QED
      BY <3>2, <3>3
  <2>4. CASE t.value = "text"
    <3>1. v \in Texts \cup {Absent} /\ b = TextToCpp(t, v)
      BY <1>1, <2>4, ValuesAre, ValueTo DEF ValueBecomes
    <3>2. CASE v # Absent
      <4>1. \E c \in Texts \cup {""} : b = Fine(c)
        BY <3>1, <3>2, TextTo, Strings, Sides
      <4> QED
        BY <4>1 DEF Cargo
    <3>3. CASE v = Absent
      BY <1>1, <2>1, <2>4, <3>1, <3>3, TextTo DEF Ends
    <3> QED
      BY <3>2, <3>3
  <2>5. CASE t.value = "optional"
    <3>1. v \in Texts \cup {Absent} /\ b = OptionalToCpp(t, v)
      BY <1>1, <2>5, ValuesAre, ValueTo DEF ValueBecomes
    <3>2. \E c \in Texts \cup {"", Absent} : b = Fine(c)
      BY <3>1, TextTo, Strings, Sides DEF OptionalToCpp
    <3> QED
      BY <3>2 DEF Cargo
  <2> QED
    BY <2>2, <2>3, <2>4, <2>5, Sides
<1>2. CASE t.to # "cpp"
  <2>1. v = Absent => t.value = "optional"
    BY <1>2, ValuesAre
  <2>2. /\ v \in {"1", "2"} \cup Texts \cup {Absent}
        /\ t.value # "number" => v \in Texts \cup {Absent}
    BY ValuesAre
  <2>3. \E c \in {"1", "2"} \cup Texts \cup {Absent} : b = Fine(c)
    BY <1>2, <2>1, <2>2, TextFrom, ValueFrom, Strings, Sides DEF ValueBecomes, OptionalFromCpp
  <2> QED
    BY <2>3 DEF Cargo
<1> QED
  BY <1>1, <1>2

\* Two elements of a set become one only if one of them is no text.
LEMMA ValuesBecomeOne ==
    ASSUME NEW t \in Trips, t.kind \in {"set", "flags"}, NEW v \in Values(t), NEW w \in Values(t),
           v # w, ValueBecomes(t, v) = ValueBecomes(t, w)
    PROVE  /\ {v, w} \cap BadTexts # {}
           /\ t.side = "objc" /\ t.to # "cpp" => ValueBecomes(t, v).value = Absent
<1>1. t.value # "optional" /\ (t.kind = "flags" => t.value = "number" /\ t.side = "jni")
  BY Sides
<1>2. CASE t.value = "number"
  <2>1. v \in {"1", "2", Absent} /\ w \in {"1", "2", Absent}
    BY <1>2, ValuesAre
  <2>2. CASE t.to = "cpp" /\ t.kind # "flags"
    <3>1. /\ v = Absent => t.side = "jni"
          /\ w = Absent => t.side = "jni"
          /\ NumberToCpp(t, v) = NumberToCpp(t, w)
      BY <1>2, <2>2, ValueTo, ValuesAre DEF ValueBecomes
    <3>2. v = w
      BY <2>1, <3>1, NumberToWord
    <3> QED
      BY <3>2
  <2>3. CASE t.to = "cpp" /\ t.kind = "flags"
    <3>1. v \in {"1", "2"} /\ w \in {"1", "2"} /\ OrdinalToCpp(v) = OrdinalToCpp(w)
      BY <2>1, <2>3, ValueTo, ValuesAre DEF ValueBecomes
    <3> QED
      BY <3>1, Outcomes, Strings DEF OrdinalToCpp
  <2>4. CASE t.to # "cpp"
    BY <1>2, <2>4, ValueFrom, Outcomes DEF ValueBecomes
  <2> QED
    BY <2>2, <2>3, <2>4
<1>3. CASE t.value = "text"
  <2>1. v \in Texts \cup {Absent} /\ w \in Texts \cup {Absent}
    BY <1>3, ValuesAre
  <2>2. CASE t.to = "cpp"
    <3>1. /\ v = Absent => t.side = "jni"
          /\ w = Absent => t.side = "jni"
          /\ TextToCpp(t, v) = TextToCpp(t, w)
      BY <1>3, <2>2, ValueTo, ValuesAre DEF ValueBecomes
    <3> QED
      BY <2>1, <2>2, <3>1, TextsBecomeOne
  <2>3. CASE t.to # "cpp"
    <3>1. /\ v # Absent /\ w # Absent
          /\ ValueBecomes(t, v) = TextFromCpp(t, v) /\ TextFromCpp(t, v) = TextFromCpp(t, w)
      BY <1>3, <2>3, ValueFrom, ValuesAre DEF ValueBecomes
    <3> QED
      BY <2>1, <3>1, TextsFromOne
  <2> QED
    BY <2>2, <2>3
<1> QED
  BY <1>1, <1>2, <1>3, Sides

(* The conversion *)

\* The elements at two places become one.
Together(i, j) ==
    /\ trip.kind # "list"
    /\ IF trip.kind = "map" THEN Converted(Walked[i])[1] = Converted(Walked[j])[1]
                            ELSE Converted(Walked[i]) = Converted(Walked[j])

CollideBy(n) == \E i, j \in 1..n : i # j /\ Together(i, j)

\* What the loop goes through is a container of this conversion.
WalkedIs == Walked \in Seq(Elements(trip)) /\ Unique(trip, Walked)

\* What has arrived is what has been done of it.
ArrivedSoFar ==
    /\ at \in 0..Len(Walked)
    /\ arrived \in Seq(Cargo \X Cargo)
    /\ IF CollideBy(at) THEN Len(arrived) < at
       ELSE /\ Len(arrived) = at
            /\ \A i \in 1..at :
                Converted(Walked[i]) = <<Fine(arrived[i][1]), Fine(arrived[i][2])>>

\* No nil has gone into a container of Foundation.
NothingNil ==
    trip.side = "objc" /\ trip.to = "platform" =>
        \A i \in 1..at, p \in 1..2 : Converted(Walked[i])[p].value # Absent

\* What the iterator and the size tell of the source.
KnowsTheSource ==
    /\ phase \in {"start", "sized"} => at = 0 /\ walk = NoWalk /\ changes \in Nat
    /\ phase = "start" => changes = 0
    /\ phase = "sized" /\ changes = 0 => size = Len(source)
    /\ phase = "loop" /\ trip.to = "cpp" /\ trip.side = "jni" => at <= size
    /\ phase \notin {"start", "sized"} /\ trip.to = "cpp" =>
        /\ walk.made \in Nat /\ walk.made <= changes
        /\ walk.made = 0 /\ Settled => size = Len(Walked)
    /\ phase = "returned" =>
        at = IF trip.to = "cpp" /\ trip.side = "jni" THEN size ELSE Len(Walked)

MarshalInv ==
    /\ trip \in Trips /\ changes \in Nat /\ phase \in Phases
    /\ phase = "sized" => trip.to = "cpp"
    /\ trip.to = "platform" => changes = 0
    /\ at \in Nat /\ size \in Nat /\ leaked \in Nat
    /\ trip.to = "cpp" => leaked = 0
    /\ phase = "loop" /\ trip.to = "platform" => refs = IF trip.side = "jni" THEN 1 ELSE 0
    /\ phase \in Ended =>
        refs = IF trip.to = "platform" /\ trip.side = "jni" /\ phase = "returned" THEN 1 ELSE 0
    /\ source \in Seq(Elements(trip)) /\ Unique(trip, source)
    /\ WalkedIs
    /\ Settled => ArrivedSoFar
    /\ NothingNil
    /\ KnowsTheSource
    /\ leaked > 0 => CollideBy(at)
    /\ FailsForAReason

\* Converted, in these terms.
LEMMA ConvertedIs ==
    ASSUME NEW e
    PROVE  Converted(e) = <<KeyBecomes(trip, e[1]), ValueBecomes(trip, e[2])>>
BY DEF Converted, KeyBecomes, ValueBecomes

\* Collide speaks of what has been done.
LEMMA CollideIs == Collide <=> CollideBy(at)
BY DEF Collide, CollideBy, Together

\* What an element is, and what becomes of it.
LEMMA ElementParts ==
    ASSUME trip \in Trips, Walked \in Seq(Elements(trip)), NEW i \in DOMAIN Walked
    PROVE  /\ Walked[i][1] \in Keys(trip) /\ Walked[i][2] \in Values(trip)
           /\ Walked[i] = <<Walked[i][1], Walked[i][2]>>
BY DEF Elements

\* What adding does, case by case: the new container knows the key, or has the element, or not.
LEMMA AddedIs ==
    ASSUME NEW t \in Trips, NEW c \in Seq(Cargo \X Cargo), NEW key \in Cargo, NEW value \in Cargo
    PROVE  LET known == \E i \in DOMAIN c : c[i][1] = key
               there == \E i \in DOMAIN c : c[i] = <<key, value>>
           IN  /\ t.kind = "map" /\ known /\ t.to = "cpp" => Added(t, c, key, value) = c
               /\ t.kind = "map" /\ known /\ t.to # "cpp" =>
                    Added(t, c, key, value) = Replaced(c, key, value)
               /\ t.kind \in {"set", "flags"} /\ there => Added(t, c, key, value) = c
               /\ t.kind = "map" /\ ~ known => Added(t, c, key, value) = Append(c, <<key, value>>)
               /\ t.kind \in {"set", "flags"} /\ ~ there =>
                    Added(t, c, key, value) = Append(c, <<key, value>>)
               /\ t.kind = "list" => Added(t, c, key, value) = Append(c, <<key, value>>)
<1> DEFINE known == \E i \in DOMAIN c : c[i][1] = key
           there == \E i \in DOMAIN c : c[i] = <<key, value>>
           map == t.kind = "map"
           set == t.kind \in {"set", "flags"}
<1>1. ~ (map /\ set)
  OBVIOUS
<1>2. t.kind = "list" => ~ map /\ ~ set
  OBVIOUS
<1>3. Added(t, c, key, value) =
        CASE map /\ known -> IF t.to = "cpp" THEN c ELSE Replaced(c, key, value)
          [] set /\ there -> c
          [] OTHER -> Append(c, <<key, value>>)
  BY Zenon DEF Added
<1> HIDE DEF known, there, map, set
<1>4. /\ map /\ known => Added(t, c, key, value) =
                           IF t.to = "cpp" THEN c ELSE Replaced(c, key, value)
      /\ set /\ there => Added(t, c, key, value) = c
      /\ ~ (map /\ known) /\ ~ (set /\ there) => Added(t, c, key, value) = Append(c, <<key, value>>)
  BY <1>1, <1>3, Zenon
<1> QED
  BY <1>1, <1>2, <1>4 DEF known, there, map, set

\* Replacing keeps the length, adding adds one.
LEMMA AddedLength ==
    ASSUME NEW t \in Trips, NEW c \in Seq(Cargo \X Cargo), NEW key \in Cargo, NEW value \in Cargo
    PROVE  /\ Added(t, c, key, value) \in Seq(Cargo \X Cargo)
           /\ \/ Len(Added(t, c, key, value)) = Len(c)
              \/ Added(t, c, key, value) = Append(c, <<key, value>>)
<1>1. Replaced(c, key, value) \in Seq(Cargo \X Cargo) /\ Len(Replaced(c, key, value)) = Len(c)
  <2>1. \A i \in 1..Len(c) : (IF c[i][1] = key THEN <<key, value>> ELSE c[i]) \in Cargo \X Cargo
    OBVIOUS
  <2>2. Replaced(c, key, value) =
            [i \in 1..Len(c) |-> IF c[i][1] = key THEN <<key, value>> ELSE c[i]]
    BY DEF Replaced
  <2> QED
    BY <2>1, <2>2
<1>2. Append(c, <<key, value>>) \in Seq(Cargo \X Cargo)
  OBVIOUS
<1>3. t.kind \in {"map", "set", "flags", "list"}
  BY Sides DEF Kinds
<1>4. \/ Added(t, c, key, value) = c
      \/ Added(t, c, key, value) = Replaced(c, key, value)
      \/ Added(t, c, key, value) = Append(c, <<key, value>>)
  BY <1>3, AddedIs
<1> QED
  BY <1>1, <1>2, <1>4

\* The step that both directions share: one more element of the source is added.
LEMMA OneMoreArrives ==
    ASSUME trip \in Trips, Walked \in Seq(Elements(trip)), ArrivedSoFar, at < Len(Walked),
           NEW key \in Cargo, NEW value \in Cargo,
           Converted(Walked[at + 1]) = <<Fine(key), Fine(value)>>,
           trip' = trip, Walked' = Walked, at' = at + 1,
           arrived' = Added(trip, arrived, key, value)
    PROVE  /\ ArrivedSoFar'
           /\ CollideBy(at) => CollideBy(at)'
           /\ trip.kind = "map" /\ (\E i \in DOMAIN arrived : arrived[i][1] = key) => CollideBy(at)'
<1> DEFINE c == arrived
           n == at
           known == \E i \in DOMAIN c : c[i][1] = key
           there == \E i \in DOMAIN c : c[i] = <<key, value>>
<1>1. /\ n \in Nat /\ n + 1 \in 0..Len(Walked) /\ n + 1 \in 1..n + 1 /\ 1..n \subseteq 1..n + 1
      /\ c \in Seq(Cargo \X Cargo)
  BY DEF ArrivedSoFar
<1>2. /\ \A i, j : Together(i, j)' <=> Together(i, j)
      /\ \A e : Converted(e)' = Converted(e)
  BY Zenon DEF Together, Converted
<1>3. CollideBy(at)' <=> CollideBy(n + 1)
  BY <1>2 DEF CollideBy
<1>4. CollideBy(n) => CollideBy(n + 1)
  BY <1>1 DEF CollideBy
<1>5. /\ arrived' \in Seq(Cargo \X Cargo)
      /\ Len(arrived') = Len(c) \/ arrived' = Append(c, <<key, value>>)
  BY <1>1, AddedLength
<1>6. CASE CollideBy(n)
  <2>1. Len(c) < n /\ Len(c) \in Nat
    BY <1>1, <1>6 DEF ArrivedSoFar
  <2>2. Len(arrived') < n + 1
    BY <1>1, <1>5, <2>1
  <2> QED
    BY <1>1, <1>3, <1>4, <1>5, <1>6, <2>2 DEF ArrivedSoFar
<1>7. CASE ~ CollideBy(n)
  <2>1. /\ Len(c) = n
        /\ \A i \in 1..n : Converted(Walked[i]) = <<Fine(c[i][1]), Fine(c[i][2])>>
    BY <1>7 DEF ArrivedSoFar
  <2>2. ASSUME NEW i \in 1..n
        PROVE  Together(i, n + 1) <=>
                  \/ trip.kind = "map" /\ c[i][1] = key
                  \/ trip.kind \in {"set", "flags"} /\ c[i] = <<key, value>>
    <3>1. c[i] = <<c[i][1], c[i][2]>>
      BY <1>1, <2>1
    <3>2. /\ (Fine(c[i][1]) = Fine(key)) <=> (c[i][1] = key)
          /\ (Fine(c[i][2]) = Fine(value)) <=> (c[i][2] = value)
      BY Outcomes
    <3>3. Converted(Walked[i]) = <<Fine(c[i][1]), Fine(c[i][2])>>
      BY <2>1
    <3>4. (Converted(Walked[i])[1] = Converted(Walked[n + 1])[1]) <=> (c[i][1] = key)
      BY <3>2, <3>3
    <3>5. (Converted(Walked[i]) = Converted(Walked[n + 1])) <=> (c[i] = <<key, value>>)
      BY <3>1, <3>2, <3>3
    <3>6. trip.kind \in {"list", "set", "map", "flags"}
      BY Sides DEF Kinds
    <3> QED
      BY <3>4, <3>5, <3>6 DEF Together
  <2>3. \A i, j : Together(i, j) <=> Together(j, i)
    BY DEF Together
  <2>4. CollideBy(n + 1) <=> \E i \in 1..n : Together(i, n + 1)
    <3>1. ASSUME NEW i \in 1..n + 1, NEW j \in 1..n + 1, i # j, Together(i, j)
          PROVE  \E k \in 1..n : Together(k, n + 1)
      <4>1. ~ (i \in 1..n /\ j \in 1..n)
        BY <1>7, <3>1 DEF CollideBy
      <4> QED
        BY <1>1, <2>3, <3>1, <4>1
    <3>2. ASSUME NEW k \in 1..n, Together(k, n + 1) PROVE CollideBy(n + 1)
      BY <1>1, <3>2 DEF CollideBy
    <3> QED
      BY <3>1, <3>2 DEF CollideBy
  <2>5. CollideBy(n + 1) <=> \/ trip.kind = "map" /\ known
                             \/ trip.kind \in {"set", "flags"} /\ there
    <3>1. DOMAIN c = 1..n
      BY <1>1, <2>1
    <3> QED
      BY <2>2, <2>4, <3>1
  <2> HIDE DEF known, there
  <2>6. CASE CollideBy(n + 1)
    <3>1. Len(arrived') = n
      <4>1. arrived' = c \/ arrived' = Replaced(c, key, value)
        BY <1>1, <2>5, <2>6, AddedIs DEF known, there
      <4>2. Len(Replaced(c, key, value)) = Len(c)
        BY <1>1 DEF Replaced
      <4> QED
        BY <2>1, <4>1, <4>2
    <3> QED
      BY <1>1, <1>3, <1>5, <2>6, <3>1 DEF ArrivedSoFar
  <2>7. CASE ~ CollideBy(n + 1)
    <3>1. arrived' = Append(c, <<key, value>>)
      <4>1. trip.kind \in {"list", "set", "map", "flags"}
        BY Sides DEF Kinds
      <4>2. CASE trip.kind = "list"
        BY <1>1, <4>2, AddedIs
      <4>3. CASE trip.kind = "map"
        BY <1>1, <2>5, <2>7, <4>3, AddedIs DEF known
      <4>4. CASE trip.kind \in {"set", "flags"}
        BY <1>1, <2>5, <2>7, <4>4, AddedIs DEF there
      <4> QED
        BY <4>1, <4>2, <4>3, <4>4
    <3>2. /\ Len(arrived') = n + 1 /\ arrived'[n + 1] = <<key, value>>
          /\ \A i \in 1..n : arrived'[i] = c[i]
      BY <1>1, <2>1, <3>1
    <3>3. \A i \in 1..n + 1 : Converted(Walked[i]) = <<Fine(arrived'[i][1]), Fine(arrived'[i][2])>>
      BY <1>1, <2>1, <3>2
    <3>4. \A i \in 1..n + 1 :
             Converted(Walked[i])' = <<Fine(arrived[i][1])', Fine(arrived[i][2])'>>
      BY <1>2, <3>3 DEF Fine
    <3> QED
      BY <1>1, <1>3, <1>5, <2>5, <2>7, <3>2, <3>4 DEF ArrivedSoFar, known
  <2> QED
    BY <1>3, <1>7, <2>5, <2>6, <2>7 DEF known
<1> QED
  BY <1>3, <1>4, <1>6, <1>7

\* An element that is not the last is there to be had, or the container has been changed.
LEMMA ElementIs ==
    ASSUME MarshalInv, phase = "loop", trip.to = "cpp", ~ Exhausted
    PROVE  \/ at < Len(Walked) /\ Element = Fine(Walked[at + 1])
           \/ changes > 0 /\ Element = Fails(IF trip.side = "jni" THEN "threw" ELSE "raised")
<1>1. /\ trip \in Trips /\ trip.side \in {"jni", "objc"} /\ changes \in Nat
      /\ at \in Nat /\ size \in Nat /\ Len(Walked) \in Nat
  BY Sides DEF MarshalInv, WalkedIs
<1>2. /\ walk.made \in Nat /\ walk.made <= changes
      /\ walk.made = 0 /\ Settled => size = Len(Walked)
      /\ trip.side = "jni" => at <= size
  BY DEF MarshalInv, KnowsTheSource
<1>3. Settled => at <= Len(Walked)
  BY DEF MarshalInv, ArrivedSoFar
<1>4. CASE ~ Iterated(trip)
  <2>1. trip.side = "jni" /\ trip.side # "objc" /\ trip.kind = "list" /\ Walked = source
    BY <1>1, <1>4 DEF Iterated, Walked
  <2>2. Element = IF at < Len(Walked) THEN Fine(Walked[at + 1]) ELSE Fails("threw")
    BY <1>4, <2>1, Zenon DEF Element
  <2>3. at < size
    BY <1>1, <1>2, <2>1 DEF Exhausted
  <2>4. at >= Len(Walked) => changes > 0
    BY <1>1, <1>2, <1>3, <2>3 DEF Settled
  <2> QED
    BY <1>1, <2>1, <2>2, <2>4
<1>5. CASE Iterated(trip)
  <2>1. Walked = walk.whole /\ Settled
    BY <1>5 DEF Walked, Settled
  <2> DEFINE given == IF at < Len(walk.whole) THEN Fine(walk.whole[at + 1]) ELSE Fails("threw")
             changed == /\ trip.side = "jni" /\ trip.kind \in {"set", "map"}
                        /\ walk.made # changes
             enumerated == trip.side = "objc" /\ walk.made # changes
  <2>2. Element = CASE ~ Iterated(trip) -> IF at < Len(source) THEN Fine(source[at + 1])
                                                               ELSE Fails("threw")
                    [] changed -> Fails("threw")
                    [] enumerated -> Fails("raised")
                    [] OTHER -> given
    BY Zenon DEF Element
  <2>3. ~ (changed /\ enumerated)
    OBVIOUS
  <2> HIDE DEF given, changed, enumerated
  <2>4. CASE changed
    <3>1. Element = Fails("threw")
      BY <1>5, <2>2, <2>3, <2>4, Zenon
    <3> QED
      BY <1>1, <1>2, <2>4, <3>1 DEF changed
  <2>5. CASE enumerated
    <3>1. Element = Fails("raised")
      BY <1>5, <2>2, <2>3, <2>5, Zenon
    <3>2. trip.side # "jni"
      BY <2>5 DEF enumerated
    <3> QED
      BY <1>1, <1>2, <2>5, <3>1, <3>2 DEF enumerated
  <2>6. CASE ~ changed /\ ~ enumerated
    <3>1. Element = given
      BY <1>5, <2>2, <2>6, Zenon
    <3>2. at < Len(Walked) => Element = Fine(Walked[at + 1])
      BY <2>1, <3>1 DEF given
    <3>3. ASSUME at >= Len(Walked)
          PROVE  changes > 0 /\ trip.side = "jni" /\ Element = Fails("threw")
      <4>1. at = Len(Walked)
        BY <1>1, <1>3, <2>1, <3>3
      <4>2. trip.side = "jni" /\ at # size
        BY <1>1, <2>1, <4>1 DEF Exhausted
      <4>3. changes > 0
        BY <1>1, <1>2, <2>1, <4>1, <4>2
      <4>4. Element = Fails("threw")
        BY <1>1, <2>1, <3>1, <3>3 DEF given
      <4> QED
        BY <4>2, <4>3, <4>4
    <3> QED
      BY <1>1, <3>2, <3>3
  <2> QED
    BY <2>4, <2>5, <2>6
<1> QED
  BY <1>4, <1>5

\* What has arrived is not disturbed by what does not touch it.
LEMMA ArrivedStays ==
    ASSUME trip' = trip, Walked' = Walked, UNCHANGED <<at, arrived>>
    PROVE  /\ ArrivedSoFar => ArrivedSoFar'
           /\ CollideBy(at) <=> CollideBy(at)'
           /\ WalkedIs => WalkedIs'
           /\ NothingNil => NothingNil'
<1>1. \A e : Converted(e)' = Converted(e)
  BY Zenon DEF Converted
<1>2. CollideBy(at) <=> CollideBy(at)'
  BY <1>1 DEF CollideBy, Together
<1>3. WalkedIs => WalkedIs'
  BY DEF WalkedIs
<1>4. NothingNil => NothingNil'
  <2> SUFFICES ASSUME NothingNil, trip.side = "objc", trip.to = "platform",
                      NEW i \in 1..at, NEW p \in 1..2
               PROVE  Converted(Walked[i])[p]'.value # Absent
    BY DEF NothingNil
  <2>1. Converted(Walked[i])[p].value # Absent
    BY DEF NothingNil
  <2>2. Converted(Walked[i])' = Converted(Walked[i])
    BY DEF Converted
  <2> QED
    BY <2>1, <2>2
<1>5. ArrivedSoFar => ArrivedSoFar'
  BY <1>1, <1>2 DEF ArrivedSoFar, Fine
<1> QED
  BY <1>2, <1>3, <1>4, <1>5

\* The end of a loop keeps what is known.
LEMMA StopKeeps ==
    ASSUME MarshalInv, phase = "loop", NEW how \in Ended, Stop(how),
           trip.to = "cpp" \/ how # "returned",
           how = "returned" =>
              at = IF trip.to = "cpp" /\ trip.side = "jni" THEN size ELSE Len(Walked),
           FailsForAReason'
    PROVE  MarshalInv'
<1>1. /\ UNCHANGED <<trip, source, changes, size, walk, at, arrived, leaked>>
      /\ phase' = how /\ refs' = 0
  BY DEF Stop
<1>2. how \notin {"start", "sized", "loop"} /\ how \in Phases
  BY DEF Ended
<1>3. Walked' = Walked /\ (Settled' <=> Settled)
  BY <1>1 DEF Walked, Settled
<1>4. KnowsTheSource'
  BY <1>1, <1>2, <1>3 DEF MarshalInv, KnowsTheSource
<1>5. /\ Settled' => ArrivedSoFar'
      /\ WalkedIs' /\ NothingNil'
      /\ leaked' > 0 => CollideBy(at)'
  BY <1>1, <1>3, ArrivedStays DEF MarshalInv
<1> QED
  BY <1>1, <1>2, <1>4, <1>5 DEF MarshalInv

\* A null that the code does not allow ends the conversion.
LEMMA TakeFailsForAReason ==
    ASSUME trip.to = "cpp", at < Len(Walked), NEW p \in 1..2,
           NEW how \in {"aborted", "threw", "undefined"}, Stop(how),
           Ends(trip, Walked[at + 1][p] = Absent, how),
           p = 2 => trip.value # "optional",
           how = "undefined" => p = 2 /\ trip.value = "number" /\ ~ trip.asserts
    PROVE  FailsForAReason'
<1>1. UNCHANGED <<trip, at>> /\ Walked' = Walked /\ phase' = how
  BY DEF Stop, Walked
<1>2. /\ trip'.to = "cpp" /\ trip'.side = "jni" /\ Walked'[at' + 1][p] = Absent
      /\ p = 2 => trip'.value # "optional"
      /\ phase' = "undefined" => p = 2 /\ trip'.value = "number" /\ ~ trip'.asserts
      /\ phase' = "aborted" => trip'.asserts
  BY <1>1 DEF Ends
<1>3. at' < Len(Walked')
  BY <1>1
<1> QED
  BY <1>2, <1>3 DEF FailsForAReason

\* A conversion that has not ended has not failed.
LEMMA NoFailure ==
    ASSUME phase' \notin {"threw", "raised", "aborted", "undefined"}
    PROVE  FailsForAReason'
BY DEF FailsForAReason

\* Converting an element to C++ keeps the invariant (Marshal.hpp:353-369, 415-433, 488-516).
LEMMA TakeKeeps == ASSUME MarshalInv, Take PROVE MarshalInv'
<1>0. /\ trip \in Trips /\ changes \in Nat /\ phase = "loop" /\ trip.to = "cpp" /\ ~ Exhausted
  BY DEF MarshalInv, Take
<1> DEFINE got == Element
           key == KeyToCpp(trip, got.value[1])
           value == ValueToCpp(trip, got.value[2])
<1>1. CASE ~ got.ok /\ Stop(got.value)
  <2> DEFINE how == IF trip.side = "jni" THEN "threw" ELSE "raised"
  <2>1. changes > 0 /\ got = Fails(how)
    BY <1>0, <1>1, ElementIs, Outcomes
  <2>2. Stop(how) /\ how \in Ended /\ how # "returned"
    BY <1>1, <2>1, Outcomes DEF Ended, Phases
  <2>3. FailsForAReason'
    BY <1>0, <2>1, <2>2 DEF FailsForAReason, Stop
  <2> HIDE DEF how
  <2> QED
    BY <1>0, <2>2, <2>3, StopKeeps
<1>2. CASE got.ok
  <2> DEFINE e == Walked[at + 1]
  <2>1. at < Len(Walked) /\ got = Fine(e)
    BY <1>0, <1>2, ElementIs, Outcomes
  <2>2. got.value = e
    BY <2>1, Outcomes
  <2>3. /\ Walked \in Seq(Elements(trip)) /\ at \in Nat /\ at + 1 \in DOMAIN Walked
    BY <2>1 DEF MarshalInv, WalkedIs
  <2>4. e[1] \in Keys(trip) /\ e[2] \in Values(trip)
    BY <1>0, <2>3, ElementParts
  <2>5. key = KeyBecomes(trip, e[1]) /\ value = ValueBecomes(trip, e[2])
    BY <1>0, <2>2 DEF KeyBecomes, ValueBecomes
  <2>6. \/ ~ key.ok /\ Stop(key.value)
        \/ ~ value.ok /\ Stop(value.value)
        \/ /\ key.ok /\ value.ok
           /\ arrived' = Added(trip, arrived, key.value, value.value)
           /\ at' = at + 1
           /\ UNCHANGED <<trip, source, changes, size, walk, refs, leaked, phase>>
    BY <1>2 DEF Take
  <2> HIDE DEF got, key, value, e
  <2>7. CASE ~ key.ok /\ Stop(key.value)
    <3>1. PICK how \in {"aborted", "threw"} :
            key = Fails(how) /\ Ends(trip, e[1] = Absent, how)
      BY <1>0, <2>4, <2>5, <2>7, KeyBecomesWhat, Outcomes
    <3>2. Stop(how) /\ how \in Ended /\ how # "returned"
      BY <2>7, <3>1, Outcomes DEF Ended, Phases
    <3>3. FailsForAReason'
      BY <1>0, <2>1, <3>1, <3>2, TakeFailsForAReason DEF e
    <3> QED
      BY <1>0, <3>2, <3>3, StopKeeps
  <2>8. CASE ~ value.ok /\ Stop(value.value)
    <3>1. PICK how \in {"aborted", "threw", "undefined"} :
            /\ value = Fails(how) /\ Ends(trip, e[2] = Absent, how)
            /\ trip.value # "optional"
            /\ how = "undefined" => trip.value = "number" /\ ~ trip.asserts
      BY <1>0, <2>4, <2>5, <2>8, ValueBecomesWhat, Outcomes
    <3>2. Stop(how) /\ how \in Ended /\ how # "returned"
      BY <2>8, <3>1, Outcomes DEF Ended, Phases
    <3>3. FailsForAReason'
      BY <1>0, <2>1, <3>1, <3>2, TakeFailsForAReason DEF e
    <3> QED
      BY <1>0, <3>2, <3>3, StopKeeps
  <2>9. CASE /\ key.ok /\ value.ok
             /\ arrived' = Added(trip, arrived, key.value, value.value)
             /\ at' = at + 1
             /\ UNCHANGED <<trip, source, changes, size, walk, refs, leaked, phase>>
    <3>1. PICK k \in Cargo : key = Fine(k)
      BY <1>0, <2>4, <2>5, <2>9, KeyBecomesWhat, Outcomes
    <3>2. PICK v \in Cargo : value = Fine(v)
      BY <1>0, <2>4, <2>5, <2>9, ValueBecomesWhat, Outcomes
    <3>3. Converted(e) = <<Fine(k), Fine(v)>>
      BY <2>5, <3>1, <3>2, ConvertedIs
    <3>4. arrived' = Added(trip, arrived, k, v)
      BY <2>9, <3>1, <3>2, Outcomes
    <3>5. Walked' = Walked /\ (Settled' <=> Settled)
      BY <2>9 DEF Walked, Settled
    <3>6. Settled' => ArrivedSoFar'
      BY <1>0, <2>1, <2>3, <2>9, <3>3, <3>4, <3>5, OneMoreArrives DEF MarshalInv, e
    <3>7. KnowsTheSource'
      <4>1. trip.side = "jni" => at + 1 <= size
        BY <1>0, <2>3 DEF MarshalInv, KnowsTheSource, Exhausted
      <4> QED
        BY <1>0, <2>9, <3>5, <4>1 DEF MarshalInv, KnowsTheSource
    <3>8. /\ leaked = 0 /\ leaked' = 0 /\ WalkedIs' /\ NothingNil' /\ at' \in Nat
      BY <1>0, <2>3, <2>9, <3>5 DEF MarshalInv, WalkedIs, NothingNil
    <3>9. FailsForAReason'
      BY <1>0, <2>9, NoFailure
    <3> QED
      BY <1>0, <2>9, <3>6, <3>7, <3>8, <3>9 DEF MarshalInv, Ended
  <2> QED
    BY <2>6, <2>7, <2>8, <2>9
<1>3. got.ok \/ (~ got.ok /\ Stop(got.value))
  BY DEF Take
<1> QED
  BY <1>1, <1>2, <1>3

\* Returning what has arrived keeps the invariant.
LEMMA ReturnCppKeeps == ASSUME MarshalInv, ReturnCpp PROVE MarshalInv'
<1>1. trip \in Trips /\ phase = "loop" /\ trip.to = "cpp" /\ Exhausted /\ Stop("returned")
  BY DEF MarshalInv, ReturnCpp
<1>2. at = IF trip.to = "cpp" /\ trip.side = "jni" THEN size ELSE Len(Walked)
  BY <1>1, Sides DEF Exhausted, Walked, Iterated
<1>3. FailsForAReason'
  BY <1>1, NoFailure DEF Stop
<1>4. "returned" \in Ended
  BY DEF Ended, Phases
<1> QED
  BY <1>1, <1>2, <1>3, <1>4, StopKeeps

\* What is left when an element is taken out.
LEMMA Without ==
    ASSUME NEW t \in Trips, NEW s \in Seq(Elements(t)), Unique(t, s), NEW i \in DOMAIN s
    PROVE  LET r == SubSeq(s, 1, i - 1) \o SubSeq(s, i + 1, Len(s))
           IN  r \in Seq(Elements(t)) /\ Unique(t, r)
<1> DEFINE n == Len(s)
           before == SubSeq(s, 1, i - 1)
           after == SubSeq(s, i + 1, n)
           r == before \o after
           spot(k) == IF k < i THEN k ELSE k + 1
<1>1. n \in Nat /\ i \in 1..n /\ DOMAIN s = 1..n
  OBVIOUS
<1> HIDE DEF n
<1>2. /\ before \in Seq(Elements(t)) /\ Len(before) = i - 1
      /\ \A k \in 1..(i - 1) : before[k] = s[k]
  <2>1. /\ 1 \in Int /\ i - 1 \in Int /\ \A k \in 1..(i - 1) : s[k] \in Elements(t)
        /\ (i - 1) - 1 + 1 = i - 1 /\ (IF 1 <= i - 1 THEN (i - 1) - 1 + 1 ELSE 0) = i - 1
    BY <1>1
  <2>2. /\ before \in Seq(Elements(t))
        /\ Len(before) = IF 1 <= i - 1 THEN (i - 1) - 1 + 1 ELSE 0
        /\ \A k \in 1..((i - 1) - 1 + 1) : before[k] = s[1 + k - 1]
    BY <2>1, SubSeqProperties
  <2> QED
    BY <1>1, <2>1, <2>2
<1>3. /\ after \in Seq(Elements(t)) /\ Len(after) = n - i
      /\ \A k \in 1..(n - i) : after[k] = s[k + i]
  <2>1. /\ i + 1 \in Int /\ n \in Int /\ \A k \in (i + 1)..n : s[k] \in Elements(t)
        /\ n - (i + 1) + 1 = n - i /\ (IF i + 1 <= n THEN n - (i + 1) + 1 ELSE 0) = n - i
    BY <1>1
  <2>2. /\ after \in Seq(Elements(t))
        /\ Len(after) = IF i + 1 <= n THEN n - (i + 1) + 1 ELSE 0
        /\ \A k \in 1..(n - (i + 1) + 1) : after[k] = s[(i + 1) + k - 1]
    BY <2>1, SubSeqProperties
  <2>3. \A k \in 1..(n - i) : (i + 1) + k - 1 = k + i
    BY <1>1
  <2> QED
    BY <1>1, <2>1, <2>2, <2>3
<1> HIDE DEF before, after
<1>5. /\ r \in Seq(Elements(t)) /\ Len(r) = n - 1 /\ DOMAIN r = 1..(n - 1)
      /\ \A k \in 1..(n - 1) : r[k] = IF k <= i - 1 THEN before[k] ELSE after[k - (i - 1)]
  <2>0. before \in Seq(Elements(t)) /\ after \in Seq(Elements(t))
    BY <1>2, <1>3
  <2>1. /\ r \in Seq(Elements(t)) /\ Len(r) = Len(before) + Len(after)
        /\ \A k \in 1..(Len(before) + Len(after)) :
              r[k] = IF k <= Len(before) THEN before[k] ELSE after[k - Len(before)]
    <3>1. r \in Seq(Elements(t)) /\ Len(r) = Len(before) + Len(after)
      BY <2>0, ConcatProperties, Zenon
    <3>2. \A k \in 1..(Len(before) + Len(after)) :
              r[k] = IF k <= Len(before) THEN before[k] ELSE after[k - Len(before)]
      BY <2>0, ConcatProperties, Zenon
    <3> QED
      BY <3>1, <3>2, Zenon
  <2>2. Len(before) + Len(after) = n - 1
    BY <1>1, <1>2, <1>3
  <2> QED
    BY <1>1, <1>2, <2>1, <2>2
<1> HIDE DEF r
<1>6. \A k \in DOMAIN r : r[k] = s[spot(k)] /\ spot(k) \in DOMAIN s
  <2> TAKE k \in DOMAIN r
  <2>1. k \in 1..(n - 1) /\ spot(k) \in 1..n
    BY <1>1, <1>5
  <2>2. CASE k <= i - 1
    <3>1. k \in 1..(i - 1) /\ spot(k) = k
      BY <1>1, <2>1, <2>2
    <3>2. r[k] = before[k]
      BY <1>5, <2>1, <2>2
    <3> QED
      BY <1>1, <1>2, <2>1, <3>1, <3>2
  <2>3. CASE ~ k <= i - 1
    <3>0. k \in Int /\ i \in Int /\ n \in Int /\ k <= n - 1 /\ i <= k
      BY <1>1, <2>1, <2>3
    <3>1. k - (i - 1) \in 1..(n - i)
      BY <3>0
    <3>3. k - (i - 1) + i = k + 1
      BY <3>0
    <3>4. spot(k) = k + 1
      BY <3>0
    <3>2. r[k] = after[k - (i - 1)]
      BY <1>5, <2>1, <2>3
    <3> QED
      BY <1>1, <1>3, <2>1, <3>1, <3>2, <3>3, <3>4
  <2> QED
    BY <2>2, <2>3
<1>7. \A k, l \in DOMAIN r : k # l => spot(k) # spot(l)
  BY <1>1, <1>5
<1> HIDE DEF spot
<1>8. Unique(t, r)
  <2> SUFFICES ASSUME NEW k \in DOMAIN r, NEW l \in DOMAIN r, k # l
               PROVE  CASE t.kind = "list" -> TRUE
                        [] t.kind = "map" -> r[k][1] # r[l][1]
                        [] OTHER -> r[k] # r[l]
    BY Zenon DEF Unique
  <2>1. /\ spot(k) \in DOMAIN s /\ spot(l) \in DOMAIN s /\ spot(k) # spot(l)
        /\ r[k] = s[spot(k)] /\ r[l] = s[spot(l)]
    BY <1>6, <1>7, Zenon
  <2>2. (CASE t.kind = "list" -> TRUE
           [] t.kind = "map" -> s[spot(k)][1] # s[spot(l)][1]
           [] OTHER -> s[spot(k)] # s[spot(l)])
    BY <2>1, Zenon DEF Unique
  <2> QED
    BY <2>1, <2>2, Zenon
<1> QED
  BY <1>5, <1>8 DEF r, before, after, n

\* A change by the application leaves alone what the iterator goes through.
LEMMA ChangeKeeps == ASSUME MarshalInv, Change PROVE MarshalInv'
<1>1. /\ trip \in Trips /\ trip.to = "cpp" /\ phase \in {"sized", "loop"}
      /\ changes \in Nat /\ changes' = changes + 1
      /\ UNCHANGED <<trip, size, walk, at, arrived, refs, leaked, phase>>
  BY DEF MarshalInv, Change
<1>2. changes' # 0 /\ changes' > 0 /\ changes' \in Nat
  BY <1>1
<1>3. source' \in Seq(Elements(trip)) /\ Unique(trip, source')
  <2>1. source \in Seq(Elements(trip)) /\ Unique(trip, source)
    BY DEF MarshalInv
  <2>2. CASE \E e \in Elements(trip) : source' = Append(source, e) /\ Unique(trip, source')
    BY <2>1, <2>2
  <2>3. CASE \E i \in DOMAIN source :
                source' = SubSeq(source, 1, i - 1) \o SubSeq(source, i + 1, Len(source))
    BY <1>1, <2>1, <2>3, Without
  <2> QED
    BY <2>2, <2>3 DEF Change
<1>4. FailsForAReason'
  BY <1>1, NoFailure
<1>5. CASE Iterated(trip)
  <2>1. Walked' = Walked /\ Settled /\ Settled'
    BY <1>1, <1>5 DEF Walked, Settled
  <2>2. ArrivedSoFar' /\ WalkedIs' /\ NothingNil'
    BY <1>1, <2>1, ArrivedStays DEF MarshalInv
  <2>3. KnowsTheSource'
    BY <1>1, <1>2, <2>1 DEF MarshalInv, KnowsTheSource
  <2> QED
    BY <1>1, <1>2, <1>3, <1>4, <2>2, <2>3 DEF MarshalInv, Ended
<1>6. CASE ~ Iterated(trip)
  <2>1. Walked' = source' /\ ~ Settled'
    BY <1>1, <1>2, <1>6 DEF Walked, Settled, Iterated
  <2>2. WalkedIs' /\ NothingNil'
    BY <1>1, <1>3, <2>1 DEF WalkedIs, NothingNil
  <2>3. KnowsTheSource'
    BY <1>1, <1>2, <2>1 DEF MarshalInv, KnowsTheSource
  <2> QED
    BY <1>1, <1>2, <1>3, <1>4, <2>1, <2>2, <2>3 DEF MarshalInv, Ended
<1> QED
  BY <1>5, <1>6

\* Asking for the size keeps the invariant.
LEMMA AskSizeKeeps == ASSUME MarshalInv, AskSize PROVE MarshalInv'
<1>1. /\ trip.to = "cpp" /\ phase = "start" /\ phase' = "sized" /\ size' = Len(source)
      /\ UNCHANGED <<trip, source, changes, walk, at, arrived, refs, leaked>>
  BY DEF AskSize
<1>2. FailsForAReason'
  BY <1>1, NoFailure
<1>3. Walked' = Walked /\ (Settled' <=> Settled)
  BY <1>1 DEF Walked, Settled
<1>4. /\ Settled' => ArrivedSoFar'
      /\ WalkedIs' /\ NothingNil'
      /\ leaked' > 0 => CollideBy(at)'
  BY <1>1, <1>3, ArrivedStays DEF MarshalInv
<1>5. KnowsTheSource'
  BY <1>1, <1>3 DEF MarshalInv, KnowsTheSource, NoWalk
<1>6. size' \in Nat
  BY <1>1 DEF MarshalInv
<1> QED
  BY <1>1, <1>2, <1>4, <1>5, <1>6 DEF MarshalInv, Phases, Ended

\* Making the iterator keeps the invariant: it goes through the source as it is now.
LEMMA MakeIteratorKeeps == ASSUME MarshalInv, MakeIterator PROVE MarshalInv'
<1>1. /\ phase = "sized" /\ phase' = "loop" /\ trip.to = "cpp"
      /\ walk' = IF Iterated(trip) THEN [whole |-> source, made |-> changes] ELSE NoWalk
      /\ UNCHANGED <<trip, source, changes, size, at, arrived, leaked>>
  BY DEF MarshalInv, MakeIterator
<1>2. FailsForAReason'
  BY <1>1, NoFailure
<1>3. Walked' = source /\ (Settled' <=> Settled)
  BY <1>1 DEF Walked, Settled, Iterated
<1>4. /\ at = 0 /\ changes \in Nat /\ size \in Nat /\ source \in Seq(Elements(trip))
      /\ Unique(trip, source) /\ leaked = 0
  BY <1>1 DEF MarshalInv, KnowsTheSource
<1>5. WalkedIs' /\ NothingNil'
  BY <1>1, <1>3, <1>4 DEF WalkedIs, NothingNil
<1>6. ASSUME Settled' PROVE ArrivedSoFar'
  <2>1. ArrivedSoFar /\ ~ CollideBy(0) /\ ~ CollideBy(0)'
    BY <1>3, <1>6 DEF MarshalInv, CollideBy
  <2>2. arrived \in Seq(Cargo \X Cargo) /\ Len(arrived) = 0
    BY <1>4, <2>1 DEF ArrivedSoFar
  <2>3. at' = 0 /\ arrived' = arrived /\ ~ CollideBy(at)'
    BY <1>1, <1>4, <2>1 DEF CollideBy
  <2>4. 0 \in 0..Len(Walked')
    BY <1>3, <1>4
  <2> QED
    BY <2>2, <2>3, <2>4 DEF ArrivedSoFar
<1>7. KnowsTheSource'
  <2>1. walk'.made \in Nat /\ walk'.made <= changes
    BY <1>1, <1>4 DEF NoWalk
  <2>2. walk'.made = 0 /\ Settled' => size = Len(source)
    BY <1>1, <1>3 DEF MarshalInv, KnowsTheSource, Settled
  <2> QED
    BY <1>1, <1>3, <1>4, <2>1, <2>2 DEF KnowsTheSource
<1> QED
  BY <1>1, <1>2, <1>4, <1>5, <1>6, <1>7 DEF MarshalInv, Phases, Ended

\* Constructing the new container keeps the invariant.
LEMMA ConstructKeeps == ASSUME MarshalInv, Construct PROVE MarshalInv'
<1>1. /\ phase = "start" /\ phase' = "loop" /\ trip.to = "platform"
      /\ refs' = IF trip.side = "jni" THEN 1 ELSE 0
      /\ UNCHANGED <<trip, source, changes, size, walk, at, arrived, leaked>>
  BY DEF Construct
<1>2. FailsForAReason'
  BY <1>1, NoFailure
<1>3. Walked' = Walked /\ (Settled' <=> Settled)
  BY <1>1 DEF Walked, Settled
<1>4. /\ Settled' => ArrivedSoFar'
      /\ WalkedIs' /\ NothingNil'
      /\ leaked' > 0 => CollideBy(at)'
  BY <1>1, <1>3, ArrivedStays DEF MarshalInv
<1>5. KnowsTheSource'
  BY <1>1 DEF KnowsTheSource
<1> QED
  BY <1>1, <1>2, <1>4, <1>5 DEF MarshalInv, Phases, Ended

\* Returning the new container keeps the invariant.
LEMMA ReturnPlatformKeeps == ASSUME MarshalInv, ReturnPlatform PROVE MarshalInv'
<1>1. /\ phase = "loop" /\ phase' = "returned" /\ trip.to = "platform" /\ at = Len(source)
      /\ UNCHANGED <<trip, source, changes, size, walk, at, arrived, refs, leaked>>
  BY DEF ReturnPlatform
<1>2. FailsForAReason'
  BY <1>1, NoFailure
<1>3. Walked' = Walked /\ (Settled' <=> Settled) /\ Walked = source
  BY <1>1 DEF Walked, Settled
<1>4. /\ Settled' => ArrivedSoFar'
      /\ WalkedIs' /\ NothingNil'
      /\ leaked' > 0 => CollideBy(at)'
  BY <1>1, <1>3, ArrivedStays DEF MarshalInv
<1>5. KnowsTheSource'
  BY <1>1, <1>3 DEF KnowsTheSource
<1> QED
  BY <1>1, <1>2, <1>4, <1>5 DEF MarshalInv, Phases, Ended

\* Foundation refuses only what stands for nil.
LEMMA RefusedForAReason ==
    ASSUME NEW t \in Trips, t.to = "platform", t.side = "objc",
           NEW k \in Keys(t), NEW v \in Values(t)
    PROVE  /\ KeyFromCpp(t, k).value = Absent => k \in BadTexts \cup {Absent}
           /\ ValueFromCpp(t, v).value = Absent => v \in BadTexts \cup {Absent}
<1>1. KeyFromCpp(t, k).value = Absent => k \in BadTexts \cup {Absent}
  <2>1. CASE t.kind = "map"
    <3>1. k \in Texts \cup {Absent} /\ KeyFromCpp(t, k) = TextFromCpp(t, k)
      BY <2>1, KeysAre DEF KeyFromCpp
    <3> QED
      BY <3>1, TextFromNil
  <2>2. CASE t.kind # "map"
    <3>1. KeyFromCpp(t, k) = Fine("-")
      BY <2>2, KeysAre DEF KeyFromCpp
    <3> QED
      BY <3>1, Outcomes, Strings
  <2> QED
    BY <2>1, <2>2
<1>2. ValueFromCpp(t, v).value = Absent => v \in BadTexts \cup {Absent}
  <2>1. CASE t.value = "number"
    BY <2>1, ValueFrom, Outcomes
  <2>2. CASE t.value = "text"
    <3>1. v \in Texts \cup {Absent} /\ ValueFromCpp(t, v) = TextFromCpp(t, v)
      BY <2>2, ValueFrom, ValuesAre
    <3> QED
      BY <3>1, TextFromNil
  <2>3. CASE t.value = "optional"
    <3>1. v \in Texts \cup {Absent} /\ ValueFromCpp(t, v) = OptionalFromCpp(t, v)
      BY <2>3, ValueFrom, ValuesAre
    <3> QED
      BY <3>1, TextFromNil DEF OptionalFromCpp
  <2> QED
    BY <2>1, <2>2, <2>3, Sides
<1> QED
  BY <1>1, <1>2

\* Converting an element from C++ keeps the invariant (Marshal.hpp:371-385, 435-449, 518-533).
LEMMA GiveKeeps == ASSUME MarshalInv, Give PROVE MarshalInv'
<1> DEFINE e == Walked[at + 1]
           key == KeyFromCpp(trip, e[1])
           value == ValueFromCpp(trip, e[2])
<1>0. trip.to = "platform" /\ Walked = source
  BY DEF Give, Walked
<1>1. /\ trip \in Trips /\ trip.to = "platform" /\ changes = 0 /\ phase = "loop" /\ Settled
      /\ at \in Nat /\ at < Len(Walked) /\ at + 1 \in DOMAIN Walked
      /\ Walked \in Seq(Elements(trip)) /\ ArrivedSoFar
  <2>1. trip \in Trips /\ phase = "loop" /\ at < Len(Walked) /\ at \in Nat /\ changes = 0
    BY <1>0 DEF MarshalInv, Give
  <2>2. Settled
    BY <2>1 DEF Settled
  <2>3. Walked \in Seq(Elements(trip)) /\ ArrivedSoFar
    BY <2>2 DEF MarshalInv, WalkedIs
  <2>4. at + 1 \in 1..Len(Walked)
    BY <2>1, <2>3
  <2> QED
    BY <1>0, <2>1, <2>2, <2>3, <2>4
<1>2. e[1] \in Keys(trip) /\ e[2] \in Values(trip)
  BY <1>1, ElementParts
<1>3. key = KeyBecomes(trip, e[1]) /\ value = ValueBecomes(trip, e[2])
  BY <1>1 DEF KeyBecomes, ValueBecomes
<1>4. CASE Refuses(key.value, value.value) /\ Stop("raised")
  <2>1. trip.side = "objc" /\ \E p \in 1..2 : e[p] \in BadTexts \cup {Absent}
    BY <1>1, <1>2, <1>4, RefusedForAReason DEF Refuses
  <2>2. /\ trip' = trip /\ Walked' = Walked /\ at' = at /\ phase' = "raised"
    BY <1>4 DEF Stop, Walked
  <2>3. FailsForAReason'
    BY <1>1, <2>1, <2>2 DEF FailsForAReason
  <2>4. "raised" \in Ended /\ "raised" # "returned"
    BY DEF Ended, Phases
  <2> QED
    BY <1>1, <1>4, <2>3, <2>4, StopKeeps
<1>5. CASE /\ ~ Refuses(key.value, value.value)
           /\ arrived' = Added(trip, arrived, key.value, value.value)
           /\ at' = at + 1
           /\ leaked' = IF Replaces(key.value) THEN leaked + 1 ELSE leaked
           /\ UNCHANGED <<trip, source, changes, size, walk, refs, phase>>
  <2>1. PICK k \in Cargo : key = Fine(k)
    BY <1>1, <1>2, <1>3, KeyBecomesWhat DEF Ends
  <2>2. PICK v \in Cargo : value = Fine(v)
    BY <1>1, <1>2, <1>3, ValueBecomesWhat DEF Ends
  <2>3. key.value = k /\ value.value = v
    BY <2>1, <2>2, Outcomes
  <2>4. Converted(e) = <<Fine(k), Fine(v)>>
    BY <1>3, <2>1, <2>2, ConvertedIs
  <2> HIDE DEF key, value, e
  <2>5. arrived' = Added(trip, arrived, k, v)
    BY <1>5, <2>3
  <2>6. Walked' = Walked /\ (Settled' <=> Settled)
    BY <1>5 DEF Walked, Settled
  <2>7. /\ ArrivedSoFar'
        /\ CollideBy(at) => CollideBy(at)'
        /\ trip.kind = "map" /\ (\E i \in DOMAIN arrived : arrived[i][1] = k) => CollideBy(at)'
    BY <1>1, <1>5, <2>4, <2>5, <2>6, OneMoreArrives DEF e
  <2>8. leaked' \in Nat /\ (leaked' > 0 => CollideBy(at)')
    BY <1>1, <1>5, <2>3, <2>7 DEF MarshalInv, Replaces
  <2>9. KnowsTheSource'
    BY <1>1, <1>5 DEF KnowsTheSource
  <2>10. NothingNil'
    <3> SUFFICES ASSUME trip.side = "objc", NEW i \in 1..at + 1, NEW p \in 1..2
                 PROVE  Converted(Walked[i])[p].value # Absent
      <4>1. \A i : Converted(Walked[i])' = Converted(Walked[i])
        BY <1>5, <2>6 DEF Converted
      <4> QED
        BY <1>1, <1>5, <4>1 DEF NothingNil
    <3>1. CASE i \in 1..at
      BY <1>1, <3>1 DEF MarshalInv, NothingNil
    <3>2. CASE i = at + 1
      <4>1. k # Absent /\ v # Absent
        BY <1>5, <2>3 DEF Refuses
      <4>2. Converted(e)[p] = Fine(k) \/ Converted(e)[p] = Fine(v)
        BY <2>4
      <4> QED
        BY <3>2, <4>1, <4>2, Outcomes DEF e
    <3> QED
      BY <1>1, <3>1, <3>2
  <2>11. FailsForAReason'
    BY <1>1, <1>5, NoFailure
  <2>12. WalkedIs' /\ at' \in Nat
    BY <1>1, <1>5, <2>6 DEF MarshalInv, WalkedIs
  <2> QED
    BY <1>1, <1>5, <2>7, <2>8, <2>9, <2>10, <2>11, <2>12 DEF MarshalInv, Ended
<1> QED
  BY <1>0, <1>4, <1>5 DEF Give

\* The invariant holds before the conversion.
LEMMA MarshalInitially == MarshalInit => MarshalInv
<1> SUFFICES ASSUME MarshalInit PROVE MarshalInv
  OBVIOUS
<1>1. /\ trip \in Trips /\ source \in Seq(Elements(trip)) /\ Unique(trip, source)
      /\ changes = 0 /\ size = 0 /\ walk = NoWalk
      /\ at = 0 /\ arrived = <<>> /\ refs = 0 /\ leaked = 0 /\ phase = "start"
  BY DEF MarshalInit, Containers
<1>2. ~ CollideBy(0)
  BY DEF CollideBy
<1>3. WalkedIs
  <2>1. Walked = source \/ Walked = <<>>
    BY <1>1 DEF Walked, NoWalk
  <2>2. <<>> \in Seq(Elements(trip)) /\ Unique(trip, <<>>)
    BY DEF Unique
  <2>3. CASE Walked = source
    BY <1>1, <2>3, Zenon DEF WalkedIs
  <2>4. CASE Walked = <<>>
    BY <2>2, <2>4, Zenon DEF WalkedIs
  <2> QED
    BY <2>1, <2>3, <2>4
<1>4. ArrivedSoFar
  BY <1>1, <1>2, <1>3 DEF ArrivedSoFar, WalkedIs
<1>5. KnowsTheSource /\ NothingNil
  BY <1>1 DEF KnowsTheSource, NothingNil
<1> QED
  BY <1>1, <1>3, <1>4, <1>5 DEF MarshalInv, FailsForAReason, Phases, Ended

\* Every step keeps the invariant.
LEMMA MarshalStep == MarshalInv /\ [MarshalNext]_marshalVars => MarshalInv'
<1> SUFFICES ASSUME MarshalInv, [MarshalNext]_marshalVars PROVE MarshalInv'
  OBVIOUS
<1>1. CASE UNCHANGED marshalVars
  <2>1. UNCHANGED <<trip, source, changes, size, walk, at, arrived, refs, leaked, phase>>
    BY <1>1 DEF marshalVars
  <2>2. Walked' = Walked /\ (Settled' <=> Settled)
    BY <2>1 DEF Walked, Settled
  <2>3. FailsForAReason => FailsForAReason'
    BY <2>1, <2>2 DEF FailsForAReason
  <2>4. KnowsTheSource => KnowsTheSource'
    BY <2>1, <2>2 DEF KnowsTheSource
  <2>5. /\ Settled' => ArrivedSoFar'
        /\ WalkedIs' /\ NothingNil'
        /\ leaked' > 0 => CollideBy(at)'
    BY <2>1, <2>2, ArrivedStays DEF MarshalInv
  <2> QED
    BY <2>1, <2>3, <2>4, <2>5 DEF MarshalInv
<1> QED
  BY <1>1, ChangeKeeps, AskSizeKeeps, MakeIteratorKeeps, TakeKeeps, ReturnCppKeeps,
     ConstructKeeps, GiveKeeps, ReturnPlatformKeeps DEF MarshalNext

\* What became one was two: one of them is no text, and not on the way to Objective-C.
LEMMA CollisionsAreOfBadTexts ==
    ASSUME trip \in Trips, WalkedIs, at \in 0..Len(Walked), NothingNil, CollideBy(at)
    PROVE  /\ trip.side = "jni" \/ trip.to = "cpp"
           /\ \E i \in 1..at, p \in 1..2 : Walked[i][p] \in BadTexts
<1>0. /\ Walked \in Seq(Elements(trip)) /\ Unique(trip, Walked)
      /\ DOMAIN Walked = 1..Len(Walked) /\ 1..at \subseteq DOMAIN Walked
      /\ trip.to \in {"cpp", "platform"} /\ trip.side \in {"jni", "objc"}
  BY Sides DEF WalkedIs
<1>1. PICK i, j \in 1..at : i # j /\ Together(i, j)
  BY Zenon DEF CollideBy
<1>2. trip.kind # "list" /\ trip.kind \in {"list", "set", "map", "flags"}
  BY <1>1, Sides DEF Together, Kinds
<1>3. i \in DOMAIN Walked /\ j \in DOMAIN Walked
  BY <1>0
<1>4. /\ Walked[i][1] \in Keys(trip) /\ Walked[i][2] \in Values(trip)
      /\ Walked[j][1] \in Keys(trip) /\ Walked[j][2] \in Values(trip)
      /\ Walked[i] = <<Walked[i][1], Walked[i][2]>>
      /\ Walked[j] = <<Walked[j][1], Walked[j][2]>>
  BY <1>0, <1>3, ElementParts
<1>5. Converted(Walked[i]) = <<KeyBecomes(trip, Walked[i][1]), ValueBecomes(trip, Walked[i][2])>>
  BY ConvertedIs
<1>6. trip.side = "objc" /\ trip.to # "cpp" =>
        /\ KeyBecomes(trip, Walked[i][1]).value # Absent
        /\ ValueBecomes(trip, Walked[i][2]).value # Absent
  <2> SUFFICES ASSUME trip.side = "objc", trip.to # "cpp"
               PROVE  /\ KeyBecomes(trip, Walked[i][1]).value # Absent
                      /\ ValueBecomes(trip, Walked[i][2]).value # Absent
    OBVIOUS
  <2>1. \A p \in 1..2 : Converted(Walked[i])[p].value # Absent
    BY <1>0 DEF NothingNil
  <2> QED
    BY <1>5, <2>1
<1>7. CASE trip.kind = "map"
  <2>1. Walked[i][1] # Walked[j][1]
    <3>1. "map" # "list"
      OBVIOUS
    <3> QED
      BY <1>0, <1>1, <1>3, <1>7, <3>1, Zenon DEF Unique
  <2>2. KeyBecomes(trip, Walked[i][1]) = KeyBecomes(trip, Walked[j][1])
    BY <1>1, <1>7, ConvertedIs DEF Together
  <2>3. /\ {Walked[i][1], Walked[j][1]} \cap BadTexts # {}
        /\ trip.side = "objc" /\ trip.to # "cpp" => KeyBecomes(trip, Walked[i][1]).value = Absent
    BY <1>4, <1>7, <2>1, <2>2, KeysBecomeOne
  <2> QED
    BY <1>0, <1>6, <2>3
<1>8. CASE trip.kind \in {"set", "flags"}
  <2>1. Walked[i] # Walked[j]
    <3>1. trip.kind # "list" /\ trip.kind # "map"
      BY <1>8
    <3> QED
      BY <1>0, <1>1, <1>3, <3>1, Zenon DEF Unique
  <2>2. Walked[i][1] = "-" /\ Walked[j][1] = "-"
    BY <1>4, <1>8, KeysAre
  <2>3. Walked[i][2] # Walked[j][2]
    BY <1>4, <2>1, <2>2
  <2>4. Converted(Walked[i]) = Converted(Walked[j])
    BY <1>1, <1>8 DEF Together
  <2>5. ValueBecomes(trip, Walked[i][2]) = ValueBecomes(trip, Walked[j][2])
    BY <2>4, ConvertedIs
  <2>6. /\ {Walked[i][2], Walked[j][2]} \cap BadTexts # {}
        /\ trip.side = "objc" /\ trip.to # "cpp" => ValueBecomes(trip, Walked[i][2]).value = Absent
    BY <1>4, <1>8, <2>3, <2>5, ValuesBecomeOne
  <2> QED
    BY <1>0, <1>6, <2>6
<1> QED
  BY <1>2, <1>7, <1>8

\* The invariant says that what returns is whole.
LEMMA QuietArrivesWhole == MarshalInv => QuietMeansWhole
<1> SUFFICES ASSUME MarshalInv, phase = "returned", Settled PROVE QuietMeansWhole
  BY DEF QuietMeansWhole
<1>1. /\ trip \in Trips /\ WalkedIs /\ ArrivedSoFar /\ NothingNil
      /\ at \in 0..Len(Walked) /\ Len(Walked) \in Nat /\ at \in Nat
  BY DEF MarshalInv, ArrivedSoFar, WalkedIs
<1>2. \/ at = Len(Walked)
      \/ at < Len(Walked) /\ at = size /\ trip.side = "jni" /\ walk.made > 0
  <2>1. /\ at = IF trip.to = "cpp" /\ trip.side = "jni" THEN size ELSE Len(Walked)
        /\ trip.to = "cpp" => walk.made \in Nat /\ (walk.made = 0 => size = Len(Walked))
    BY DEF MarshalInv, KnowsTheSource
  <2> QED
    BY <1>1, <2>1
<1>3. Collide <=> CollideBy(at)
  BY CollideIs
<1>4. CASE CollideBy(at)
  <2>1. Len(arrived) < at
    BY <1>4, <1>1 DEF ArrivedSoFar
  <2>2. /\ trip.side = "jni" \/ trip.to = "cpp"
        /\ \E i \in 1..at, p \in 1..2 : Walked[i][p] \in BadTexts
    BY <1>1, <1>4, CollisionsAreOfBadTexts
  <2> QED
    BY <1>2, <1>3, <1>4, <2>1, <2>2 DEF QuietMeansWhole
<1>5. CASE ~ CollideBy(at)
  BY <1>1, <1>2, <1>3, <1>5 DEF QuietMeansWhole, ArrivedSoFar
<1> QED
  BY <1>4, <1>5

\* The invariant says that nothing is left behind.
LEMMA NothingIsLeft == MarshalInv => NothingLeftBehind
BY CollideIs DEF MarshalInv, NothingLeftBehind

\* A container that is returned is whole as it was at one moment, however large it is, whatever
\* texts it has and however often the application changes it meanwhile, but for the two
\* exceptions that the property names: the loops of Marshal.hpp and DJIMarshal+Private.h drop
\* nothing else.
THEOREM ContainersArriveWhole == MarshalSpec => []QuietMeansWhole
BY MarshalInitially, MarshalStep, QuietArrivesWhole, PTL DEF MarshalSpec

\* A conversion fails for a change of the application's, and then with an exception only, or
\* for the element that it is at.
THEOREM ConversionsFailForAReason == MarshalSpec => []FailsForAReason
<1>1. MarshalInv => FailsForAReason
  BY DEF MarshalInv
<1> QED
  BY <1>1, MarshalInitially, MarshalStep, PTL DEF MarshalSpec

\* A conversion leaves no local reference behind, whichever way it ends and whatever the
\* application does meanwhile.
THEOREM ConversionsLeaveNothing == MarshalSpec => []NothingLeftBehind
BY MarshalInitially, MarshalStep, NothingIsLeft, PTL DEF MarshalSpec

-----------------------------------------------------------------------------
(* The comparison of records. *)

\* What a language compares of a value that is not NaN is a number.
LEMMA SeenIsANumber ==
    ASSUME NEW l \in Languages, NEW kind \in FieldKinds, NEW v \in FieldValues(kind),
           ~ IsNaN(kind, v)
    PROVE  Seen(l, kind, v) \in Int
<1>1. CASE kind = "integer"
  <2>1. v \in Int
    BY <1>1, DerivingsAssumption DEF FieldValues
  <2> QED
    BY <1>1, <2>1 DEF Seen, HasTicks
<1>2. CASE kind = "float"
  <2>1. v \in Int \/ v = MinusZero
    BY <1>2, DerivingsAssumption DEF FieldValues, IsNaN
  <2> QED
    BY <1>2, <2>1 DEF Seen, Float
<1>3. CASE kind \in {"date", "duration"}
  <2>1. v \in Int /\ Kept[v] \in Int
    <3>1. v \in Instants
      BY <1>3 DEF FieldValues
    <3> QED
      BY <3>1, DerivingsAssumption
  <2> QED
    BY <1>3, <2>1 DEF Seen, HasTicks
<1>4. CASE kind = "string"
  <2>1. v \in Int /\ Utf16Rank[v] \in Int
    <3>1. v \in Phrases
      BY <1>4 DEF FieldValues
    <3> QED
      BY <3>1, DerivingsAssumption
  <2> QED
    BY <1>4, <2>1 DEF Seen, HasTicks
<1> QED
  BY <1>1, <1>2, <1>3, <1>4 DEF FieldKinds

\* One number is below another, above or the same.
Sign(x, y) == IF x < y THEN -1 ELSE IF y < x THEN 1 ELSE 0

\* Where there is no NaN, a field decides as its numbers do.
LEMMA NumbersDecide ==
    ASSUME NEW l \in Languages, NEW kind \in FieldKinds,
           NEW a \in FieldValues(kind), NEW b \in FieldValues(kind), Compares(kind, a, b)
    PROVE  /\ Decided(l, kind, a, b) = Sign(Seen(l, kind, a), Seen(l, kind, b))
           /\ Same(l, kind, a, b) <=> Sign(Seen(l, kind, a), Seen(l, kind, b)) = 0
<1> DEFINE x == Seen(l, kind, a)
<1> DEFINE y == Seen(l, kind, b)
<1>1. x \in Int /\ y \in Int
  BY SeenIsANumber DEF Compares
<1>2. Compares(kind, b, a)
  BY DEF Compares
<1>3. (Below(l, kind, a, b) <=> x < y) /\ (Below(l, kind, b, a) <=> y < x)
  BY <1>2 DEF Below
<1>4. Same(l, kind, a, b) <=> x = y
  BY DEF Same
<1>5. Decided(l, kind, a, b) = Sign(x, y)
  BY <1>3 DEF Decided, Sign
<1> HIDE DEF x, y
<1>6. x = y <=> Sign(x, y) = 0
  BY <1>1 DEF Sign
<1> QED
  BY <1>4, <1>5, <1>6 DEF x, y

\* NaN decides nothing and is the same as nothing.
LEMMA NaNDecidesNothing ==
    ASSUME NEW l, NEW kind, NEW a, NEW b, ~ Compares(kind, a, b)
    PROVE  Decided(l, kind, a, b) = 0 /\ ~ Same(l, kind, a, b)
<1>1. ~ Compares(kind, b, a)
  BY DEF Compares
<1> QED
  BY <1>1 DEF Decided, Below, Same

\* Asked the other way round, a field decides the opposite.
LEMMA DecidedIsOpposite ==
    ASSUME NEW l \in Languages, NEW kind \in FieldKinds,
           NEW a \in FieldValues(kind), NEW b \in FieldValues(kind)
    PROVE  /\ Decided(l, kind, a, b) \in {-1, 0, 1}
           /\ Decided(l, kind, b, a) \in {-1, 0, 1}
           /\ Decided(l, kind, b, a) + Decided(l, kind, a, b) = 0
<1>1. CASE Compares(kind, a, b)
  <2>1. Compares(kind, b, a)
    BY <1>1 DEF Compares
  <2>2. Seen(l, kind, a) \in Int /\ Seen(l, kind, b) \in Int
    BY <1>1, SeenIsANumber DEF Compares
  <2>3. /\ Decided(l, kind, a, b) = Sign(Seen(l, kind, a), Seen(l, kind, b))
        /\ Decided(l, kind, b, a) = Sign(Seen(l, kind, b), Seen(l, kind, a))
    BY <1>1, <2>1, NumbersDecide
  <2> QED
    BY <2>2, <2>3 DEF Sign
<1>2. CASE ~ Compares(kind, a, b)
  <2>1. ~ Compares(kind, b, a)
    BY <1>2 DEF Compares
  <2>2. Decided(l, kind, a, b) = 0 /\ Decided(l, kind, b, a) = 0
    BY <1>2, <2>1, NaNDecidesNothing
  <2> QED
    BY <2>2
<1> QED
  BY <1>1, <1>2

\* Both languages see the same of two values, but for ticks and for the order of strings.
LEMMA SeenAlike ==
    ASSUME NEW kind \in FieldKinds, NEW a \in FieldValues(kind), NEW b \in FieldValues(kind),
           Compares(kind, a, b)
    PROVE  /\ "below a unit" \notin QuirksOf(kind, a, b) =>
                (Same("cpp", kind, a, b) <=> Same("java", kind, a, b))
           /\ Same("cpp", kind, a, b) => Same("java", kind, a, b)
           /\ QuirksOf(kind, a, b) \subseteq {"NaN", "two zeros"}
              /\ QuirksOf(kind, b, a) \subseteq {"NaN", "two zeros"} =>
                Decided("cpp", kind, a, b) = Decided("java", kind, a, b)
           /\ Same("java", kind, a, b) =>
                SameHash(kind, a, b) \/ "two zeros" \in QuirksOf(kind, a, b)
<1> DEFINE Strange == {"below a unit", "astral"}
<1> DEFINE Plain(x, y) == \A q \in Strange : q \notin QuirksOf(kind, x, y)
<1> SUFFICES
        /\ "below a unit" \notin QuirksOf(kind, a, b) =>
             (Same("cpp", kind, a, b) <=> Same("java", kind, a, b))
        /\ Same("cpp", kind, a, b) => Same("java", kind, a, b)
        /\ Plain(a, b) /\ Plain(b, a) =>
             Decided("cpp", kind, a, b) = Decided("java", kind, a, b)
        /\ Same("java", kind, a, b) =>
             SameHash(kind, a, b) \/ "two zeros" \in QuirksOf(kind, a, b)
  OBVIOUS
<1> DEFINE s(l, v) == Seen(l, kind, v)
<1>0. "cpp" \in Languages /\ "java" \in Languages
  BY DEF Languages
<1>1. /\ Same("cpp", kind, a, b) <=> s("cpp", a) = s("cpp", b)
      /\ Same("java", kind, a, b) <=> s("java", a) = s("java", b)
  BY DEF Same
<1>2. /\ Decided("cpp", kind, a, b) = Sign(s("cpp", a), s("cpp", b))
      /\ Decided("java", kind, a, b) = Sign(s("java", a), s("java", b))
  BY <1>0, NumbersDecide
<1>3. CASE kind = "integer"
  <2>1. s("cpp", a) = a /\ s("cpp", b) = b /\ s("java", a) = a /\ s("java", b) = b
    BY <1>3 DEF Seen, HasTicks
  <2>2. SameHash(kind, a, b) <=> a = b
    BY <1>3, <2>1 DEF SameHash
  <2> HIDE DEF s
  <2> QED
    BY <1>1, <1>2, <2>1, <2>2
<1>4. CASE kind = "float"
  <2>1. s("cpp", a) = Float(a) /\ s("cpp", b) = Float(b)
        /\ s("java", a) = Float(a) /\ s("java", b) = Float(b)
    BY <1>4 DEF Seen
  <2>2. SameHash(kind, a, b) <=> a = b
    BY <1>4 DEF SameHash
  <2>3. Float(a) = Float(b) => a = b \/ {a, b} = {MinusZero, 0}
    BY DEF Float
  <2>4. {a, b} = {MinusZero, 0} => "two zeros" \in QuirksOf(kind, a, b)
    BY <1>4 DEF QuirksOf
  <2> HIDE DEF s
  <2> QED
    BY <1>1, <1>2, <2>1, <2>2, <2>3, <2>4
<1>5. CASE kind \in {"date", "duration"}
  <2>0. a \in Instants /\ b \in Instants
    BY <1>5 DEF FieldValues
  <2>1. s("cpp", a) = a /\ s("cpp", b) = b /\ s("java", a) = Kept[a] /\ s("java", b) = Kept[b]
    BY <1>5 DEF Seen, HasTicks
  <2>2. SameHash(kind, a, b) <=> Kept[a] = Kept[b]
    BY <1>5, <2>1 DEF SameHash
  <2>3. "below a unit" \in QuirksOf(kind, a, b) <=> a # b /\ Kept[a] = Kept[b]
    BY <1>5 DEF QuirksOf, HasTicks
  <2>4. /\ a \in Int /\ b \in Int /\ Kept[a] \in Int /\ Kept[b] \in Int
        /\ (a <= b => Kept[a] <= Kept[b]) /\ (b <= a => Kept[b] <= Kept[a])
    BY <2>0, DerivingsAssumption
  <2>5. (a = b \/ Kept[a] # Kept[b]) => Sign(a, b) = Sign(Kept[a], Kept[b])
    BY <2>4 DEF Sign
  <2>6. Plain(a, b) => a = b \/ Kept[a] # Kept[b]
    BY <2>3
  <2> HIDE DEF s, Plain
  <2>7. Plain(a, b) => Decided("cpp", kind, a, b) = Decided("java", kind, a, b)
    BY <1>2, <2>1, <2>5, <2>6
  <2> QED
    BY <1>1, <2>1, <2>2, <2>3, <2>7
<1>6. CASE kind = "string"
  <2>0. a \in Phrases /\ b \in Phrases
    BY <1>6 DEF FieldValues
  <2> DEFINE u == Utf16Rank[a]
  <2> DEFINE w == Utf16Rank[b]
  <2>1. s("cpp", a) = a /\ s("cpp", b) = b /\ s("java", a) = u /\ s("java", b) = w
    BY <1>6 DEF Seen, HasTicks
  <2>2. SameHash(kind, a, b) <=> u = w
    BY <1>6, <2>1 DEF SameHash
  <2>3. /\ "astral" \in QuirksOf(kind, a, b) <=> (a < b) # (u < w)
        /\ "astral" \in QuirksOf(kind, b, a) <=> (b < a) # (w < u)
    BY <1>6 DEF QuirksOf
  <2>4. a \in Int /\ b \in Int /\ u \in Int /\ w \in Int /\ (u = w <=> a = b)
    BY <2>0, DerivingsAssumption
  <2>5. Plain(a, b) /\ Plain(b, a) => ((a < b) <=> (u < w)) /\ ((b < a) <=> (w < u))
    BY <2>3
  <2> HIDE DEF s, Plain, u, w
  <2>6. ((a < b) <=> (u < w)) /\ ((b < a) <=> (w < u)) => Sign(a, b) = Sign(u, w)
    BY <2>4 DEF Sign
  <2>7. Plain(a, b) /\ Plain(b, a) => Decided("cpp", kind, a, b) = Decided("java", kind, a, b)
    BY <1>2, <2>1, <2>5, <2>6
  <2> QED
    BY <1>1, <2>1, <2>2, <2>4, <2>7
<1> QED
  BY <1>3, <1>4, <1>5, <1>6 DEF FieldKinds
\* The order of two records so far, and what a field makes of it.
Further(o, x, y) == IF o # 0 THEN o ELSE Sign(x, y)

\* Field by field, what is not above one is not above what that is not above.
LEMMA FieldsCompose ==
    ASSUME NEW x \in Int, NEW y \in Int, NEW z \in Int,
           NEW a \in {-1, 0, 1}, NEW b \in {-1, 0, 1}, NEW c \in {-1, 0, 1},
           a <= 0 /\ b <= 0 => c <= 0,
           b <= 0 /\ c >= 0 => a >= 0,
           c >= 0 /\ a <= 0 => b >= 0
    PROVE  Further(a, x, y) <= 0 /\ Further(b, y, z) <= 0 => Further(c, x, z) <= 0
BY DEF Further, Sign

\* All that is known of three records after some of their fields.
DerivingsTypes ==
    /\ unread \in Seq(FieldKinds)
    /\ order \in [Languages -> [Pairs -> {-1, 0, 1}]]
    /\ equal \in [Languages -> BOOLEAN]

Opposite ==
    \A l \in Languages, i, j \in Three :
        i # j => order[l][<<j, i>>] + order[l][<<i, j>>] = 0

Composed ==
    \A l \in Languages, i, j, k \in Three :
        i # j /\ j # k /\ i # k =>
            (order[l][<<i, j>>] <= 0 /\ order[l][<<j, k>>] <= 0 => order[l][<<i, k>>] <= 0)

EqualIsUndecided == \A l \in Languages : equal[l] <=> order[l][<<1, 2>>] = 0

AlikeSoFar ==
    /\ quirks \subseteq {"NaN", "two zeros"} =>
         \A p \in Pairs : order["cpp"][p] = order["java"][p]
    /\ "below a unit" \notin quirks => (equal["cpp"] <=> equal["java"])
    /\ equal["cpp"] => equal["java"]

DerivingsInv ==
    /\ DerivingsTypes
    /\ Opposite
    /\ "NaN" \notin quirks => Composed /\ EqualIsUndecided
    /\ equal["java"] => oneHash \/ "two zeros" \in quirks
    /\ AlikeSoFar

\* Pairs are of two different records.
LEMMA PairsAre == \A i, j \in Three : i # j => <<i, j>> \in Pairs
BY DEF Pairs

\* And are nothing else.
LEMMA PairHas == \A p \in Pairs : p[1] \in Three /\ p[2] \in Three /\ p[1] # p[2]
                      /\ p = <<p[1], p[2]>>
BY DEF Pairs

\* The two languages.
LEMMA LanguagesAre == "cpp" \in Languages /\ "java" \in Languages
BY DEF Languages

\* Before the first field nothing is decided.
LEMMA DerivingsInitially == DerivingsInit => DerivingsInv
<1> SUFFICES ASSUME DerivingsInit PROVE DerivingsInv
  OBVIOUS
<1>1. \A l \in Languages, p \in Pairs : order[l][p] = 0
  BY DEF DerivingsInit
<1>2. \A l \in Languages : equal[l] = TRUE
  BY DEF DerivingsInit
<1>3. DerivingsTypes
  <2>1. unread \in Seq(FieldKinds)
    BY DerivingsAssumption DEF DerivingsInit
  <2>2. order \in [Languages -> [Pairs -> {-1, 0, 1}]]
    BY DEF DerivingsInit
  <2>3. equal \in [Languages -> BOOLEAN]
    BY DEF DerivingsInit
  <2> QED
    BY <2>1, <2>2, <2>3 DEF DerivingsTypes
<1>4. Opposite
  <2>1. 0 + 0 = 0
    BY SMT
  <2> QED
    BY <1>1, <2>1, PairsAre DEF Opposite
<1>5. Composed
  BY <1>1, PairsAre DEF Composed
<1>6. EqualIsUndecided
  <2>1. <<1, 2>> \in Pairs
    BY PairsAre DEF Three
  <2> QED
    BY <1>1, <1>2, <2>1 DEF EqualIsUndecided
<1>7. AlikeSoFar
  BY <1>1, <1>2, LanguagesAre DEF AlikeSoFar
<1>8. oneHash
  BY DEF DerivingsInit
<1> QED
  BY <1>3, <1>4, <1>5, <1>6, <1>7, <1>8 DEF DerivingsInv

\* What a field shows of two values is among the quirks from then on.
LEMMA QuirksGrow ==
    ASSUME NEW kind, NEW v,
           quirks' = quirks \cup UNION {QuirksOf(kind, v[p[1]], v[p[2]]) : p \in Pairs}
    PROVE  /\ quirks \subseteq quirks'
           /\ \A i, j \in Three : i # j => QuirksOf(kind, v[i], v[j]) \subseteq quirks'
<1>1. ASSUME NEW i \in Three, NEW j \in Three, i # j
      PROVE  QuirksOf(kind, v[i], v[j]) \subseteq quirks'
  <2> DEFINE p == <<i, j>>
  <2>1. p \in Pairs /\ p[1] = i /\ p[2] = j
    BY <1>1, PairsAre
  <2> HIDE DEF p
  <2> QED
    BY <2>1
<1> QED
  BY <1>1

\* Comparing the next field keeps the invariant.
LEMMA NextFieldKeeps == ASSUME DerivingsInv, NextField PROVE DerivingsInv'
<1> DEFINE kind == Head(unread)
<1>1. PICK v \in [Three -> FieldValues(kind)] :
        /\ CompareOrder(kind, v)
        /\ CompareEqual(kind, v)
        /\ HashBoth(kind, v)
        /\ quirks' = quirks \cup UNION {QuirksOf(kind, v[p[1]], v[p[2]]) : p \in Pairs}
  BY DEF NextField
<1>2. kind \in FieldKinds /\ unread' \in Seq(FieldKinds)
  <2>1. unread \in Seq(FieldKinds)
    BY DEF DerivingsInv, DerivingsTypes
  <2>2. unread # <<>> /\ unread' = Tail(unread)
    BY DEF NextField
  <2> QED
    BY <2>1, <2>2
<1>3. \A i \in Three : v[i] \in FieldValues(kind)
  OBVIOUS
<1> HIDE DEF kind
<1> DEFINE D(l, i, j) == Decided(l, kind, v[i], v[j])
<1>4. \A l \in Languages, i, j \in Three :
        i # j => order'[l][<<i, j>>] = IF order[l][<<i, j>>] # 0 THEN order[l][<<i, j>>]
                                       ELSE D(l, i, j)
  <2> SUFFICES ASSUME NEW l \in Languages, NEW i \in Three, NEW j \in Three, i # j
               PROVE  order'[l][<<i, j>>] = IF order[l][<<i, j>>] # 0 THEN order[l][<<i, j>>]
                                            ELSE D(l, i, j)
    OBVIOUS
  <2> DEFINE p == <<i, j>>
  <2>1. p \in Pairs /\ p[1] = i /\ p[2] = j
    BY PairsAre
  <2> HIDE DEF p
  <2>2. order'[l][p] = IF order[l][p] # 0 THEN order[l][p] ELSE Decided(l, kind, v[p[1]], v[p[2]])
    BY <1>1, <2>1 DEF CompareOrder
  <2> QED
    BY <2>1, <2>2 DEF p
<1>5. \A l \in Languages : equal'[l] = (equal[l] /\ Same(l, kind, v[1], v[2]))
  BY <1>1 DEF CompareEqual
<1>6. \A l \in Languages, i, j \in Three : i # j => order[l][<<i, j>>] \in {-1, 0, 1}
  BY PairsAre DEF DerivingsInv, DerivingsTypes
<1>7. \A l \in Languages, i, j \in Three :
        /\ D(l, i, j) \in {-1, 0, 1} /\ D(l, j, i) \in {-1, 0, 1}
        /\ D(l, j, i) + D(l, i, j) = 0
  BY <1>2, <1>3, DecidedIsOpposite
<1>8. quirks \subseteq quirks'
      /\ \A i, j \in Three : i # j => QuirksOf(kind, v[i], v[j]) \subseteq quirks'
  BY <1>1, QuirksGrow
<1>9. \A i, j \in Three :
        i # j /\ ~ Compares(kind, v[i], v[j]) => "NaN" \in QuirksOf(kind, v[i], v[j])
  BY DEF QuirksOf
<1>10. 1 \in Three /\ 2 \in Three /\ 1 # 2
  BY DEF Three
<1>11. DerivingsTypes'
  <2>1. order' \in [Languages -> [Pairs -> {-1, 0, 1}]]
    <3> DEFINE N(l, p) == IF order[l][p] # 0 THEN order[l][p]
                          ELSE Decided(l, kind, v[p[1]], v[p[2]])
    <3>1. ASSUME NEW l \in Languages, NEW p \in Pairs
          PROVE  N(l, p) \in {-1, 0, 1}
      <4>1. p[1] \in Three /\ p[2] \in Three
        BY PairHas
      <4>2. Decided(l, kind, v[p[1]], v[p[2]]) \in {-1, 0, 1}
        BY <1>7, <4>1
      <4>3. order[l][p] \in {-1, 0, 1}
        BY DEF DerivingsInv, DerivingsTypes
      <4> QED
        BY <4>2, <4>3
    <3>2. order' = [l \in Languages |-> [p \in Pairs |-> N(l, p)]]
      BY <1>1 DEF CompareOrder
    <3> HIDE DEF N
    <3> QED
      BY <3>1, <3>2
  <2>2. equal' \in [Languages -> BOOLEAN]
    BY <1>1 DEF CompareEqual
  <2> QED
    BY <1>2, <2>1, <2>2 DEF DerivingsTypes
<1>12. Opposite'
  <2> SUFFICES ASSUME NEW l \in Languages, NEW i \in Three, NEW j \in Three, i # j
               PROVE  order'[l][<<j, i>>] + order'[l][<<i, j>>] = 0
    BY DEF Opposite
  <2> DEFINE a == order[l][<<i, j>>]
  <2> DEFINE b == order[l][<<j, i>>]
  <2>1. b + a = 0 /\ a \in {-1, 0, 1} /\ b \in {-1, 0, 1}
    BY <1>6 DEF DerivingsInv, Opposite
  <2>2. /\ D(l, i, j) \in {-1, 0, 1} /\ D(l, j, i) \in {-1, 0, 1}
        /\ D(l, j, i) + D(l, i, j) = 0
    BY <1>7
  <2>3. order'[l][<<i, j>>] = (IF a # 0 THEN a ELSE D(l, i, j))
        /\ order'[l][<<j, i>>] = (IF b # 0 THEN b ELSE D(l, j, i))
    BY <1>4
  <2> HIDE DEF a, b, D
  <2> QED
    BY <2>1, <2>2, <2>3, SMT
<1>13. ASSUME "NaN" \notin quirks' PROVE Composed' /\ EqualIsUndecided'
  <2>1. "NaN" \notin quirks
    BY <1>8, <1>13
  <2>2. \A i, j \in Three : i # j => Compares(kind, v[i], v[j])
    BY <1>8, <1>9, <1>13
  <2> DEFINE S(l, i) == Seen(l, kind, v[i])
  <2>3. \A l \in Languages, i \in Three : S(l, i) \in Int
    <3> SUFFICES ASSUME NEW l \in Languages, NEW i \in Three PROVE S(l, i) \in Int
      OBVIOUS
    <3>1. \E j \in Three : i # j
      BY DEF Three
    <3>2. ~ IsNaN(kind, v[i])
      BY <2>2, <3>1 DEF Compares
    <3> QED
      BY <1>2, <1>3, <3>2, SeenIsANumber
  <2>4. \A l \in Languages, i, j \in Three :
          i # j => D(l, i, j) = Sign(S(l, i), S(l, j))
    BY <1>2, <1>3, <2>2, NumbersDecide
  <2>5. \A l \in Languages, i, j \in Three :
          i # j => order'[l][<<i, j>>] = Further(order[l][<<i, j>>], S(l, i), S(l, j))
    BY <1>4, <2>4 DEF Further
  <2>6. Composed'
    <3> SUFFICES ASSUME NEW l \in Languages, NEW i \in Three, NEW j \in Three, NEW k \in Three,
                        i # j, j # k, i # k
                 PROVE  order'[l][<<i, j>>] <= 0 /\ order'[l][<<j, k>>] <= 0
                        => order'[l][<<i, k>>] <= 0
      BY DEF Composed
    <3> DEFINE a == order[l][<<i, j>>]
    <3> DEFINE b == order[l][<<j, k>>]
    <3> DEFINE c == order[l][<<i, k>>]
    <3>1. a \in {-1, 0, 1} /\ b \in {-1, 0, 1} /\ c \in {-1, 0, 1}
      BY <1>6
    <3>2. /\ order[l][<<j, i>>] + a = 0 /\ order[l][<<k, j>>] + b = 0
          /\ order[l][<<k, i>>] + c = 0
      BY DEF DerivingsInv, Opposite
    <3>3. /\ a <= 0 /\ b <= 0 => c <= 0
          /\ b <= 0 /\ order[l][<<k, i>>] <= 0 => order[l][<<j, i>>] <= 0
          /\ order[l][<<k, i>>] <= 0 /\ a <= 0 => order[l][<<k, j>>] <= 0
      BY <2>1 DEF DerivingsInv, Composed
    <3>4. (b <= 0 /\ c >= 0 => a >= 0) /\ (c >= 0 /\ a <= 0 => b >= 0)
      <4>1. /\ order[l][<<j, i>>] \in {-1, 0, 1} /\ order[l][<<k, j>>] \in {-1, 0, 1}
            /\ order[l][<<k, i>>] \in {-1, 0, 1}
        BY <1>6
      <4> HIDE DEF a, b, c
      <4> QED
        BY <3>1, <3>2, <3>3, <4>1, SMT
    <3>5. /\ order'[l][<<i, j>>] = Further(a, S(l, i), S(l, j))
          /\ order'[l][<<j, k>>] = Further(b, S(l, j), S(l, k))
          /\ order'[l][<<i, k>>] = Further(c, S(l, i), S(l, k))
      BY <2>5
    <3>6. S(l, i) \in Int /\ S(l, j) \in Int /\ S(l, k) \in Int
      BY <2>3
    <3> HIDE DEF a, b, c, S
    <3> QED
      BY <3>1, <3>3, <3>4, <3>5, <3>6, FieldsCompose
  <2>7. EqualIsUndecided'
    <3> SUFFICES ASSUME NEW l \in Languages
                 PROVE  equal'[l] <=> order'[l][<<1, 2>>] = 0
      BY DEF EqualIsUndecided
    <3> DEFINE a == order[l][<<1, 2>>]
    <3> DEFINE g == Sign(S(l, 1), S(l, 2))
    <3>1. equal[l] <=> a = 0
      BY <2>1 DEF DerivingsInv, EqualIsUndecided
    <3>2. Same(l, kind, v[1], v[2]) <=> g = 0
      BY <1>2, <1>3, <1>10, <2>2, NumbersDecide
    <3>3. equal'[l] <=> equal[l] /\ Same(l, kind, v[1], v[2])
      BY <1>5
    <3>4. order'[l][<<1, 2>>] = IF a # 0 THEN a ELSE g
      BY <1>10, <2>5 DEF Further
    <3> HIDE DEF a, g
    <3>5. order'[l][<<1, 2>>] = 0 <=> a = 0 /\ g = 0
      BY <3>4
    <3> QED
      BY <3>1, <3>2, <3>3, <3>5
  <2> QED
    BY <2>6, <2>7
<1>14. ASSUME equal'["java"] PROVE oneHash' \/ "two zeros" \in quirks'
  <2>1. equal["java"] /\ Same("java", kind, v[1], v[2])
    BY <1>5, <1>14, LanguagesAre
  <2>2. Compares(kind, v[1], v[2])
    BY <2>1 DEF Same
  <2>3. SameHash(kind, v[1], v[2]) \/ "two zeros" \in QuirksOf(kind, v[1], v[2])
    BY <1>2, <1>3, <1>10, <2>1, <2>2, SeenAlike
  <2>4. oneHash \/ "two zeros" \in quirks
    BY <2>1 DEF DerivingsInv
  <2>5. oneHash' = (oneHash /\ SameHash(kind, v[1], v[2]))
    BY <1>1 DEF HashBoth
  <2> QED
    BY <1>8, <1>10, <2>3, <2>4, <2>5
<1>15. AlikeSoFar'
  <2>1. ASSUME quirks' \subseteq {"NaN", "two zeros"}, NEW p \in Pairs
        PROVE  order'["cpp"][p] = order'["java"][p]
    <3>1. PICK i \in Three, j \in Three : i # j /\ p = <<i, j>>
      BY PairHas
    <3>2. order["cpp"][p] = order["java"][p]
      BY <1>8, <2>1 DEF DerivingsInv, AlikeSoFar
    <3>3. D("cpp", i, j) = D("java", i, j)
      <4>1. CASE Compares(kind, v[i], v[j])
        <5>1. /\ QuirksOf(kind, v[i], v[j]) \subseteq {"NaN", "two zeros"}
              /\ QuirksOf(kind, v[j], v[i]) \subseteq {"NaN", "two zeros"}
          BY <1>8, <2>1, <3>1
        <5> QED
          BY <1>2, <1>3, <4>1, <5>1, SeenAlike
      <4>2. CASE ~ Compares(kind, v[i], v[j])
        BY <4>2, NaNDecidesNothing
      <4> QED
        BY <4>1, <4>2
    <3> HIDE DEF D
    <3> QED
      BY <1>4, <3>1, <3>2, <3>3, LanguagesAre
  <2>2. "below a unit" \notin quirks' =>
          (Same("cpp", kind, v[1], v[2]) <=> Same("java", kind, v[1], v[2]))
    <3>1. CASE Compares(kind, v[1], v[2])
      BY <1>2, <1>3, <1>8, <1>10, <3>1, SeenAlike
    <3>2. CASE ~ Compares(kind, v[1], v[2])
      BY <3>2, NaNDecidesNothing
    <3> QED
      BY <3>1, <3>2
  <2>3. Same("cpp", kind, v[1], v[2]) => Same("java", kind, v[1], v[2])
    <3>1. CASE Compares(kind, v[1], v[2])
      BY <1>2, <1>3, <1>10, <3>1, SeenAlike
    <3>2. CASE ~ Compares(kind, v[1], v[2])
      BY <3>2, NaNDecidesNothing
    <3> QED
      BY <3>1, <3>2
  <2>4. /\ equal'["cpp"] <=> equal["cpp"] /\ Same("cpp", kind, v[1], v[2])
        /\ equal'["java"] <=> equal["java"] /\ Same("java", kind, v[1], v[2])
    BY <1>5, LanguagesAre
  <2>5. ("below a unit" \notin quirks => (equal["cpp"] <=> equal["java"]))
        /\ (equal["cpp"] => equal["java"])
    BY DEF DerivingsInv, AlikeSoFar
  <2>6. "below a unit" \notin quirks' => "below a unit" \notin quirks
    BY <1>8
  <2>7. ("below a unit" \notin quirks' => (equal'["cpp"] <=> equal'["java"]))
        /\ (equal'["cpp"] => equal'["java"])
    BY <2>2, <2>3, <2>4, <2>5, <2>6
  <2> QED
    BY <2>1, <2>7 DEF AlikeSoFar
<1> QED
  BY <1>11, <1>12, <1>13, <1>14, <1>15 DEF DerivingsInv

\* Every step of the comparison keeps the invariant.
LEMMA DerivingsStep == DerivingsInv /\ [DerivingsNext]_derivingsVars => DerivingsInv'
<1>1. ASSUME DerivingsInv, NextField PROVE DerivingsInv'
  BY <1>1, NextFieldKeeps
<1>2. ASSUME DerivingsInv, UNCHANGED derivingsVars PROVE DerivingsInv'
  BY <1>2 DEF derivingsVars, DerivingsInv, DerivingsTypes, Opposite, Composed, EqualIsUndecided,
     AlikeSoFar
<1> QED
  BY <1>1, <1>2 DEF DerivingsNext

\* In both languages records are ordered, whatever their fields and the values in them: what
\* record_with_derivings.cpp and RecordWithDerivings.java do field by field.
THEOREM RecordsAreOrdered == DerivingsSpec => []OrdersStrictly
<1>1. DerivingsInv => OrdersStrictly
  <2> SUFFICES ASSUME DerivingsInv, "NaN" \notin quirks
      PROVE /\ \A p \in Pairs : RecordGreater(p[1], p[2]) =>
                            RecordLessOrEqual(p[2], p[1]) /\ ~ RecordLess(p[1], p[2])
            /\ NotEqual <=> RecordLess(1, 2) \/ RecordGreater(1, 2)
            /\ (RecordLessOrEqual(1, 2) /\ RecordGreaterOrEqual(3, 2)) => RecordLessOrEqual(1, 3)
            /\ CompareTo(1, 2) = -CompareTo(2, 1)
            /\ CompareTo(1, 2) = 0 <=> equal["java"]
            /\ CompareTo(1, 2) <= 0 /\ CompareTo(2, 3) <= 0 => CompareTo(1, 3) <= 0
            /\ equal["java"] => oneHash \/ "two zeros" \in quirks
    BY DEF OrdersStrictly
  <2> DEFINE o(l, i, j) == order[l][<<i, j>>]
  <2>1. \A l \in Languages, i, j \in Three :
          i # j => o(l, i, j) \in {-1, 0, 1} /\ o(l, j, i) + o(l, i, j) = 0
    BY PairsAre DEF DerivingsInv, DerivingsTypes, Opposite
  <2>2. \A l \in Languages :
          /\ equal[l] <=> o(l, 1, 2) = 0
          /\ o(l, 1, 2) <= 0 /\ o(l, 2, 3) <= 0 => o(l, 1, 3) <= 0
    <3>1. EqualIsUndecided /\ Composed
      BY DEF DerivingsInv
    <3>2. \A l \in Languages : o(l, 1, 2) <= 0 /\ o(l, 2, 3) <= 0 => o(l, 1, 3) <= 0
      <4>1. 1 # 2 /\ 2 # 3 /\ 1 # 3 /\ 1 \in Three /\ 2 \in Three /\ 3 \in Three
        BY DEF Three
      <4> QED
        BY <3>1, <4>1 DEF Composed
    <3> QED
      BY <3>1, <3>2 DEF EqualIsUndecided
  <2>3. 1 \in Three /\ 2 \in Three /\ 3 \in Three
    BY DEF Three
  <2>4. \A p \in Pairs : RecordGreater(p[1], p[2]) =>
                         RecordLessOrEqual(p[2], p[1]) /\ ~ RecordLess(p[1], p[2])
    <3> SUFFICES ASSUME NEW p \in Pairs, o("cpp", p[2], p[1]) = -1
                 PROVE  ~ (o("cpp", p[1], p[2]) = -1)
      BY DEF RecordGreater, RecordLessOrEqual, RecordLess
    <3>1. p[1] \in Three /\ p[2] \in Three /\ p[1] # p[2]
      BY PairHas
    <3>2. o("cpp", p[2], p[1]) + o("cpp", p[1], p[2]) = 0 /\ o("cpp", p[1], p[2]) \in {-1, 0, 1}
      BY <2>1, <3>1, LanguagesAre
    <3> HIDE DEF o
    <3> QED
      BY <3>2, SMT
  <2>5. \A l \in Languages :
          /\ o(l, 1, 2) \in {-1, 0, 1} /\ o(l, 2, 1) + o(l, 1, 2) = 0
          /\ o(l, 2, 1) \in {-1, 0, 1}
          /\ o(l, 2, 3) \in {-1, 0, 1} /\ o(l, 3, 2) + o(l, 2, 3) = 0
          /\ o(l, 3, 2) \in {-1, 0, 1}
          /\ o(l, 1, 3) \in {-1, 0, 1} /\ o(l, 3, 1) + o(l, 1, 3) = 0
          /\ o(l, 3, 1) \in {-1, 0, 1}
    BY <2>1, <2>3
  <2> HIDE DEF o
  <2>6. equal["cpp"] <=> ~ (o("cpp", 1, 2) = -1 \/ o("cpp", 2, 1) = -1)
    BY <2>2, <2>5, LanguagesAre
  <2>7. ~ (o("cpp", 2, 1) = -1) /\ ~ (o("cpp", 3, 2) = -1) => ~ (o("cpp", 3, 1) = -1)
    BY <2>2, <2>5, LanguagesAre
  <2>8. o("java", 1, 2) = -o("java", 2, 1)
    BY <2>5, LanguagesAre
  <2>9. (o("java", 1, 2) = 0 <=> equal["java"])
        /\ (o("java", 1, 2) <= 0 /\ o("java", 2, 3) <= 0 => o("java", 1, 3) <= 0)
    BY <2>2, LanguagesAre
  <2>10. NotEqual <=> RecordLess(1, 2) \/ RecordGreater(1, 2)
    BY <2>6 DEF NotEqual, RecordLess, RecordGreater, o
  <2>11. (RecordLessOrEqual(1, 2) /\ RecordGreaterOrEqual(3, 2)) => RecordLessOrEqual(1, 3)
    BY <2>7 DEF RecordLess, RecordLessOrEqual, RecordGreaterOrEqual, o
  <2>12. equal["java"] => oneHash \/ "two zeros" \in quirks
    BY DEF DerivingsInv
  <2> QED
    BY <2>4, <2>8, <2>9, <2>10, <2>11, <2>12 DEF CompareTo, o
<1> QED
  BY <1>1, DerivingsInitially, DerivingsStep, PTL DEF DerivingsSpec

\* Two languages, one answer, but for what Java does not have of a time and for the order of
\* strings beyond the basic plane.
THEOREM LanguagesCompareAlike == DerivingsSpec => []ComparesAlike
<1>1. DerivingsInv => ComparesAlike
  <2>1. ASSUME DerivingsInv PROVE AlikeSoFar /\ equal \in [Languages -> BOOLEAN]
    BY <2>1 DEF DerivingsInv, DerivingsTypes
  <2> QED
    BY <2>1, LanguagesAre DEF ComparesAlike, AlikeSoFar
<1> QED
  BY <1>1, DerivingsInitially, DerivingsStep, PTL DEF DerivingsSpec

-----------------------------------------------------------------------------
(* The generated glue: the tables *)

\* The records of the test suite, by name.
NamesOfRecords ==
    {"AssortedPrimitives", "ClientReturnedRecord", "ConstantRecord", "Constants", "DateRecord",
     "EmptyRecord", "EnumUsageRecord", "ExtendedRecord", "ExternRecordWithDerivings",
     "MapDateRecord", "MapListRecord", "MapRecord", "NestedCollection", "PrimitiveList",
     "RecordUsingExtendedRecord", "RecordWithDerivings", "RecordWithDurationAndDerivings",
     "RecordWithFlags", "RecordWithNestedDerivings", "SetRecord", "VarnameRecord",
     "WcharTestRec"}

\* Each row of the table of records bears the name of its record.
LEMMA RowsAreNamed ==
  /\ AssortedPrimitivesFields.name = "AssortedPrimitives"
  /\ ClientReturnedRecordFields.name = "ClientReturnedRecord"
  /\ ConstantRecordFields.name = "ConstantRecord"
  /\ ConstantsFields.name = "Constants"
  /\ DateRecordFields.name = "DateRecord"
  /\ EmptyRecordFields.name = "EmptyRecord"
  /\ EnumUsageRecordFields.name = "EnumUsageRecord"
  /\ ExtendedRecordFields.name = "ExtendedRecord"
  /\ ExternRecordWithDerivingsFields.name = "ExternRecordWithDerivings"
  /\ MapDateRecordFields.name = "MapDateRecord"
  /\ MapListRecordFields.name = "MapListRecord"
  /\ MapRecordFields.name = "MapRecord"
  /\ NestedCollectionFields.name = "NestedCollection"
  /\ PrimitiveListFields.name = "PrimitiveList"
  /\ RecordUsingExtendedRecordFields.name = "RecordUsingExtendedRecord"
  /\ RecordWithDerivingsFields.name = "RecordWithDerivings"
  /\ RecordWithDurationAndDerivingsFields.name = "RecordWithDurationAndDerivings"
  /\ RecordWithFlagsFields.name = "RecordWithFlags"
  /\ RecordWithNestedDerivingsFields.name = "RecordWithNestedDerivings"
  /\ SetRecordFields.name = "SetRecord"
  /\ VarnameRecordFields.name = "VarnameRecord"
  /\ WcharTestRecFields.name = "WcharTestRec"
  BY SMT
     DEF Record, AssortedPrimitivesFields, ClientReturnedRecordFields, ConstantRecordFields,
         ConstantsFields, DateRecordFields, EmptyRecordFields, EnumUsageRecordFields,
         ExtendedRecordFields, ExternRecordWithDerivingsFields, MapDateRecordFields,
         MapListRecordFields, MapRecordFields, NestedCollectionFields, PrimitiveListFields,
         RecordUsingExtendedRecordFields, RecordWithDerivingsFields,
         RecordWithDurationAndDerivingsFields, RecordWithFlagsFields,
         RecordWithNestedDerivingsFields, SetRecordFields, VarnameRecordFields,
         WcharTestRecFields

\* The names of the records are those.
LEMMA RecordNamesAre == RecordNames = NamesOfRecords
  BY SMT, RowsAreNamed DEF RecordNames, Records, NamesOfRecords

\* No two records have a name in common.
LEMMA RecordsDiffer == ASSUME NEW r \in Records, NEW s \in Records, r.name = s.name PROVE r = s
  BY SMT, RowsAreNamed DEF Records

\* So a name finds its record.
LEMMA RecordOfName == ASSUME NEW r \in Records PROVE RecordOf(r.name) = r
  BY Zenon, RecordsDiffer DEF RecordOf

\* What the methods of a row have in common.
LEMMA RowIs ==
  ASSUME NEW i, NEW names, NEW args, NEW ret, NEW m \in Row(i, names, args, ret)
  PROVE  m.interface = i /\ m.args = args /\ m.ret = ret
  BY DEF Row

\* And those of a row of plain names.
LEMMA CallIs ==
  ASSUME NEW i, NEW names, NEW args, NEW ret, NEW m \in Calls(i, names, args, ret)
  PROVE  m.interface = i
  BY DEF Row, Calls

\* The interfaces with a class CppProxy in Java.
Implementers ==
    {"Object", "Job", "JobQueue", "TestHelpers", "TestDuration", "EnumUsageInterface",
     "UsesSingleLanguageListeners", "ListenerCaller", "FlagRoundtrip", "ReverseClientInterface",
     "WcharTestHelpers", "UserToken", "Conflict", "ConflictUser", "CppException", "ReturnOne",
     "ReturnTwo", "VarnameInterface", "ExternInterface1", "InterfaceUsingExtendedRecord",
     "ConstantsInterface"}

\* What C++ implements is among these interfaces, so that no record is.
LEMMA CppImplementedAre == CppImplemented \subseteq Implementers
<1> SUFFICES ASSUME NEW m \in NativeMethods PROVE m.interface \in Implementers
  BY DEF CppImplemented
<1>1. CASE m \in SupportNatives
  BY <1>1, RowIs, CallIs, SMTT(30)
     DEF SupportNatives, ObjectNatives, JobNatives, QueueNatives, Implementers
<1>2. CASE m \in HelpersNatives \cup HelpersNatives2
  BY <1>2, RowIs, SMTT(30) DEF HelpersNatives, HelpersNatives2, Implementers
<1>3. CASE m \in DurationTexts \cup DurationNatives \cup ColorNatives \cup ListenerNatives
                 \cup ListenerCallerNatives
  BY <1>3, RowIs, SMTT(30)
     DEF DurationTexts, DurationNatives, ColorNatives, ListenerNatives, ListenerCallerNatives,
         ColorMethods, ListenerMethods, Implementers
<1>4. CASE m \in FlagNatives \cup ReverseNatives \cup WcharNatives \cup TokenNatives
                 \cup ConflictNatives
  BY <1>4, RowIs, SMTT(30)
     DEF FlagNatives, ReverseNatives, WcharNatives, TokenNatives, TokenMethods, ConflictNatives,
         Implementers
<1>5. CASE m \in ConflictUserNatives \cup ExceptionNatives \cup ReturnOneNatives
                 \cup ReturnTwoNatives \cup VarnameNatives \cup ExternNatives
                 \cup ExtendedNatives \cup ConstantsNatives
  BY <1>5, RowIs, SMTT(30)
     DEF ConflictUserNatives, ExceptionNatives, ReturnOneNatives, ReturnTwoNatives,
         ReturnNatives, VarnameNatives, ExternNatives, ExtendedNatives, ConstantsNatives,
         Implementers
<1> QED
  BY <1>1, <1>2, <1>3, <1>4, <1>5, SMT DEF NativeMethods, TestNatives

-----------------------------------------------------------------------------
(* What the conversions hold: types, and from C++ *)

Constructors == {"Optional", "ListOf", "SetOf", "MapOf"}

\* The sorts of names are apart.
LEMMA SortsAreApart ==
  /\ Constructors \cap (RecordNames \cup CppImplemented \cup FlagSets \cup Enums) = {}
  /\ RecordNames \cap (CppImplemented \cup FlagSets \cup Enums) = {}
  /\ FlagSets \cap (CppImplemented \cup Enums) = {}
  /\ Enums \cap CppImplemented = {}
  BY RecordNamesAre, CppImplementedAre, SMT
     DEF Constructors, NamesOfRecords, FlagSets, Enums, Implementers

Plain(t) == t.name \notin Constructors

Simple(t) == Plain(t) /\ t.name \notin RecordNames \cup FlagSets

Leaf(t) == Simple(t) /\ t.name \notin CppImplemented

\* The larger of two numbers.
LEMMA MaxOfTwo == ASSUME NEW a \in Int, NEW b \in Int PROVE Max({a, b}) = IF a >= b THEN a ELSE b
  BY DEF Max

\* The arguments do not matter to what has no parts.
LEMMA PeakOfSimple ==
  ASSUME NEW t, Simple(t), NEW peaks, NEW n
  PROVE  PeakFromParts(t, peaks, n) \in 1..2
<1>1. t.name \notin {"Optional", "ListOf", "SetOf", "MapOf"} /\ t.name \notin RecordNames
      /\ t.name \notin FlagSets
  BY DEF Simple, Plain, Constructors
<1>2. CASE t.name \in Enums
  BY <1>1, <1>2, SortsAreApart, SMT DEF PeakFromParts
<1>3. CASE t.name \notin Enums
  BY <1>1, <1>3, SMT DEF PeakFromParts
<1> QED
  BY <1>2, <1>3

\* A set of flags holds the set, and one flag at a time with its reference.
LEMMA PeakOfFlags ==
  ASSUME NEW t, t.name \in FlagSets, NEW peaks, NEW n
  PROVE  PeakFromParts(t, peaks, n) \in 1..3
  BY SortsAreApart, SMT DEF Constructors, PeakFromParts

\* A list or a set holds itself and an element.
LEMMA PeakOfList ==
  ASSUME NEW t, t.name \in {"ListOf", "SetOf"}, NEW peaks, NEW n
  PROVE  PeakFromParts(t, peaks, n) = IF n = 0 THEN 1 ELSE 1 + peaks[1]
  BY SortsAreApart, SMT DEF Constructors, PeakFromParts, PeakFromList

\* A map holds itself, a key, and with it a value.
LEMMA PeakOfMap ==
  ASSUME NEW t, t.name = "MapOf", NEW peaks, NEW n
  PROVE  PeakFromParts(t, peaks, n) = IF n = 0 THEN 1 ELSE 1 + Max({peaks[1], 1 + peaks[2]})
  BY SortsAreApart, SMT DEF Constructors, PeakFromParts

\* An optional value holds what the value does.
LEMMA PeakOfOptional ==
  ASSUME NEW t, t.name = "Optional", NEW peaks, NEW n
  PROVE  PeakFromParts(t, peaks, n) = peaks[1]
  BY SortsAreApart, SMT DEF Constructors, PeakFromParts

\* A record holds its fields for NewObject().
LEMMA PeakOfRecord ==
  ASSUME NEW t, t.name \in RecordNames, NEW peaks, NEW n
  PROVE  PeakFromParts(t, peaks, n) = PeakOfFields(Parts(t), peaks)
  BY SortsAreApart, SMT DEF Constructors, PeakFromParts

\* A set of numbers that is not empty and has a bound has a largest one.
LEMMA MaxOfBounded ==
  ASSUME NEW S \in SUBSET Nat, S # {}, NEW bound \in Nat, \A x \in S : x <= bound
  PROVE  Max(S) \in S /\ \A x \in S : x <= Max(S)
<1> DEFINE R == OpToRel(<, Nat)
           Gaps == {bound - x : x \in S}
<1>1. IsWellFoundedOn(R, Nat)
  BY NatLessThanWellFounded
<1>2. \A x, y \in Nat : (<<x, y>> \in R) <=> x < y
  BY DEF OpToRel
<1> HIDE DEF R
<1>3. Gaps \subseteq Nat /\ Gaps # {}
  <2>1. \A x \in S : bound - x \in Nat
    OBVIOUS
  <2> QED
    BY <2>1, Zenon
<1>4. PICK least \in Gaps : \A y \in Gaps : ~ (<<y, least>> \in R)
  BY <1>1, <1>3, WFMin
<1>5. PICK top \in S : least = bound - top
  OBVIOUS
<1>6. \A x \in S : top >= x
  <2> TAKE x \in S
  <2>1. bound - x \in Gaps /\ ~ (<<bound - x, least>> \in R)
    BY <1>4
  <2>2. bound - x \in Nat /\ least \in Nat /\ ~ (bound - x < least)
    BY <1>2, <1>3, <2>1
  <2> QED
    BY <1>5, <2>2
<1>7. \E x \in S : \A y \in S : x >= y
  BY <1>6
<1> QED
  BY <1>7, Zenon DEF Max

\* Among so many fields there are at most as many references.
LEMMA HeldIsFew ==
  ASSUME NEW types, NEW which, NEW lo \in Nat, NEW hi \in Nat, lo <= hi,
         \A i \in which : Held(types[i]) = 1 => i \in lo..hi
  PROVE  HeldOf(types, which) \in 0..(hi - lo + 1)
<1> DEFINE S == {i \in which : Held(types[i]) = 1}
<1>1. S \subseteq lo..hi
  OBVIOUS
<1>2. IsFiniteSet(lo..hi) /\ Cardinality(lo..hi) = hi - lo + 1
  BY FS_Interval
<1>3. IsFiniteSet(S) /\ Cardinality(S) <= Cardinality(lo..hi)
  BY <1>1, <1>2, FS_Subset
<1>4. Cardinality(S) \in Nat
  BY <1>3, FS_CardinalityType
<1> HIDE DEF S
<1>5. Cardinality(S) \in 0..(hi - lo + 1)
  BY <1>2, <1>3, <1>4
<1> QED
  BY <1>5 DEF HeldOf, S

\* Without references among the fields there are none.
LEMMA NothingHeld ==
  ASSUME NEW types, NEW which, \A i \in which : Held(types[i]) # 1
  PROVE  HeldOf(types, which) = 0
<1>1. {i \in which : Held(types[i]) = 1} = {}
  OBVIOUS
<1> QED
  BY <1>1, FS_EmptySet DEF HeldOf

\* With at most a references among the fields, and p for the last of them, there are a + p - 1.
LEMMA PeakOfFieldsIsSmall ==
  ASSUME NEW fields, NEW peaks, NEW a \in 0..7, NEW p \in 2..5, a + p <= 9,
         HeldOf(fields, DOMAIN fields) \in 0..a,
         \A i \in DOMAIN fields : Held(fields[i]) = 1 => peaks[i] \in 1..p
  PROVE  PeakOfFields(fields, peaks) \in 1..(a + p - 1)
<1> DEFINE all == HeldOf(fields, DOMAIN fields)
<1> DEFINE T == {all - 1 + peaks[i] : i \in {i \in DOMAIN fields : Held(fields[i]) = 1}}
<1>1. \A x \in T : x \in 0..(a + p - 1)
  OBVIOUS
<1>2. all \in Nat /\ 1 + all \in 1..(a + p - 1)
  OBVIOUS
<1> HIDE DEF all, T
<1> DEFINE S == {1 + all} \cup T
<1>3. S \in SUBSET Nat /\ S # {} /\ 1 + all \in S /\ \A x \in S : x <= 8
  BY <1>1, <1>2
<1>4. Max(S) \in S /\ 1 + all <= Max(S)
  BY <1>3, MaxOfBounded
<1>5. Max(S) \in 1..(a + p - 1)
  BY <1>1, <1>2, <1>4
<1> QED
  BY <1>5 DEF PeakOfFields, all, T

\* What is given holds at most b, on each of the levels.
FlatWithin(t, b) == \A n \in Nat : PeakFrom1(t, n) \in 1..b

PartWithin(t, b) == \A n \in Nat : PeakFrom2(t, n) \in 1..b

FieldWithin(t, b) == \A n \in Nat : PeakFrom3(t, n) \in 1..b

GivenWithin(t, b) == \A n \in Nat : PeakFrom(t, n) \in 1..b

\* The parts of a container are not mistaken for a record's fields.
LEMMA PartsOfContainers ==
  ASSUME NEW e, NEW k
  PROVE  /\ Parts(Opt(e)) = <<e>> /\ Parts(ListOf(e)) = <<e>> /\ Parts(SetOf(e)) = <<e>>
         /\ Parts(MapOf(k, e)) = <<k, e>>
  BY SortsAreApart DEF Parts, Constructors, Opt, ListOf, SetOf, MapOf, OfParts

\* Containers have their names.
LEMMA NamesOfContainers ==
  ASSUME NEW e, NEW k
  PROVE  /\ Opt(e).name = "Optional" /\ ListOf(e).name = "ListOf" /\ SetOf(e).name = "SetOf"
         /\ MapOf(k, e).name = "MapOf"
  BY DEF Opt, ListOf, SetOf, MapOf, OfParts

\* A container holds one or two more than its elements do.
LEMMA ContainersOf ==
  ASSUME NEW e, NEW k, NEW x \in Int, NEW y \in Int, NEW b \in Nat, NEW n, x \in 1..b
  PROVE  /\ PeakFromParts(Opt(e), <<x>>, n) \in 1..b
         /\ PeakFromParts(ListOf(e), <<x>>, n) \in 1..(b + 1)
         /\ PeakFromParts(SetOf(e), <<x>>, n) \in 1..(b + 1)
         /\ y \in 1..(b + 1) => PeakFromParts(MapOf(k, e), <<y, x>>, n) \in 1..(b + 2)
<1>1. PeakFromParts(Opt(e), <<x>>, n) \in 1..b
  BY NamesOfContainers, PeakOfOptional
<1>2. PeakFromParts(ListOf(e), <<x>>, n) \in 1..(b + 1)
  BY NamesOfContainers, PeakOfList
<1>3. PeakFromParts(SetOf(e), <<x>>, n) \in 1..(b + 1)
  BY NamesOfContainers, PeakOfList
<1>4. ASSUME y \in 1..(b + 1) PROVE PeakFromParts(MapOf(k, e), <<y, x>>, n) \in 1..(b + 2)
  <2>1. Max({y, 1 + x}) \in 1..(b + 1)
    BY <1>4, MaxOfTwo
  <2>2. PeakFromParts(MapOf(k, e), <<y, x>>, n) = IF n = 0 THEN 1 ELSE 1 + Max({y, 1 + x})
    BY NamesOfContainers, PeakOfMap
  <2> QED
    BY <2>1, <2>2
<1> QED
  BY <1>1, <1>2, <1>3, <1>4

\* A part, a field, a type of a call.
LEMMA SimpleWithin ==
  ASSUME NEW t, Simple(t)
  PROVE  FlatWithin(t, 2) /\ PartWithin(t, 2) /\ FieldWithin(t, 2) /\ GivenWithin(t, 2)
  BY PeakOfSimple
     DEF FlatWithin, PartWithin, FieldWithin, GivenWithin, PeakFrom1, PeakFrom2, PeakFrom3,
         PeakFrom

\* Sets of flags hold three, wherever they are.
LEMMA FlagsWithin ==
  ASSUME NEW t, t.name \in FlagSets
  PROVE  FlatWithin(t, 3) /\ PartWithin(t, 3) /\ FieldWithin(t, 3) /\ GivenWithin(t, 3)
  BY PeakOfFlags
     DEF FlatWithin, PartWithin, FieldWithin, GivenWithin, PeakFrom1, PeakFrom2, PeakFrom3,
         PeakFrom

\* On the level of parts, a container holds what its elements do and itself.
LEMMA PartsWithin ==
  ASSUME NEW e, NEW k, NEW b \in Nat, FlatWithin(e, b), FlatWithin(k, b + 1)
  PROVE  /\ PartWithin(Opt(e), b) /\ PartWithin(ListOf(e), b + 1) /\ PartWithin(SetOf(e), b + 1)
         /\ PartWithin(MapOf(k, e), b + 2)
<1> SUFFICES ASSUME NEW n \in Nat
             PROVE  /\ PeakFrom2(Opt(e), n) \in 1..b /\ PeakFrom2(ListOf(e), n) \in 1..(b + 1)
                    /\ PeakFrom2(SetOf(e), n) \in 1..(b + 1)
                    /\ PeakFrom2(MapOf(k, e), n) \in 1..(b + 2)
  BY DEF PartWithin
<1> DEFINE x == PeakFrom1(e, n)
           y == PeakFrom1(k, n)
<1>1. x \in 1..b /\ y \in 1..(b + 1)
  BY DEF FlatWithin
<1>2. [i \in DOMAIN <<e>> |-> PeakFrom1(<<e>>[i], n)] = <<x>>
  OBVIOUS
<1>3. [i \in DOMAIN <<k, e>> |-> PeakFrom1(<<k, e>>[i], n)] = <<y, x>>
  OBVIOUS
<1> HIDE DEF x, y
<1>4. /\ PeakFromParts(Opt(e), <<x>>, n) \in 1..b
      /\ PeakFromParts(ListOf(e), <<x>>, n) \in 1..(b + 1)
      /\ PeakFromParts(SetOf(e), <<x>>, n) \in 1..(b + 1)
      /\ PeakFromParts(MapOf(k, e), <<y, x>>, n) \in 1..(b + 2)
  BY <1>1, ContainersOf
<1> QED
  BY <1>2, <1>3, <1>4, PartsOfContainers DEF PeakFrom2

\* So on the level of fields.
LEMMA FieldsWithin ==
  ASSUME NEW e, NEW k, NEW b \in Nat, PartWithin(e, b), PartWithin(k, b + 1)
  PROVE  /\ FieldWithin(Opt(e), b) /\ FieldWithin(ListOf(e), b + 1)
         /\ FieldWithin(SetOf(e), b + 1)
         /\ FieldWithin(MapOf(k, e), b + 2)
<1> SUFFICES ASSUME NEW n \in Nat
             PROVE  /\ PeakFrom3(Opt(e), n) \in 1..b /\ PeakFrom3(ListOf(e), n) \in 1..(b + 1)
                    /\ PeakFrom3(SetOf(e), n) \in 1..(b + 1)
                    /\ PeakFrom3(MapOf(k, e), n) \in 1..(b + 2)
  BY DEF FieldWithin
<1> DEFINE x == PeakFrom2(e, n)
           y == PeakFrom2(k, n)
<1>1. x \in 1..b /\ y \in 1..(b + 1)
  BY DEF PartWithin
<1>2. [i \in DOMAIN <<e>> |-> PeakFrom2(<<e>>[i], n)] = <<x>>
  OBVIOUS
<1>3. [i \in DOMAIN <<k, e>> |-> PeakFrom2(<<k, e>>[i], n)] = <<y, x>>
  OBVIOUS
<1> HIDE DEF x, y
<1>4. /\ PeakFromParts(Opt(e), <<x>>, n) \in 1..b
      /\ PeakFromParts(ListOf(e), <<x>>, n) \in 1..(b + 1)
      /\ PeakFromParts(SetOf(e), <<x>>, n) \in 1..(b + 1)
      /\ PeakFromParts(MapOf(k, e), <<y, x>>, n) \in 1..(b + 2)
  BY <1>1, ContainersOf
<1> QED
  BY <1>2, <1>3, <1>4, PartsOfContainers DEF PeakFrom3

\* And so where a call gives it.
LEMMA GivensWithin ==
  ASSUME NEW e, NEW k, NEW b \in Nat, FieldWithin(e, b), FieldWithin(k, b + 1)
  PROVE  /\ GivenWithin(Opt(e), b) /\ GivenWithin(ListOf(e), b + 1)
         /\ GivenWithin(SetOf(e), b + 1)
         /\ GivenWithin(MapOf(k, e), b + 2)
<1> SUFFICES ASSUME NEW n \in Nat
             PROVE  /\ PeakFrom(Opt(e), n) \in 1..b /\ PeakFrom(ListOf(e), n) \in 1..(b + 1)
                    /\ PeakFrom(SetOf(e), n) \in 1..(b + 1)
                    /\ PeakFrom(MapOf(k, e), n) \in 1..(b + 2)
  BY DEF GivenWithin
<1> DEFINE x == PeakFrom3(e, n)
           y == PeakFrom3(k, n)
<1>1. x \in 1..b /\ y \in 1..(b + 1)
  BY DEF FieldWithin
<1>2. [i \in DOMAIN <<e>> |-> PeakFrom3(<<e>>[i], n)] = <<x>>
  OBVIOUS
<1>3. [i \in DOMAIN <<k, e>> |-> PeakFrom3(<<k, e>>[i], n)] = <<y, x>>
  OBVIOUS
<1> HIDE DEF x, y
<1>4. /\ PeakFromParts(Opt(e), <<x>>, n) \in 1..b
      /\ PeakFromParts(ListOf(e), <<x>>, n) \in 1..(b + 1)
      /\ PeakFromParts(SetOf(e), <<x>>, n) \in 1..(b + 1)
      /\ PeakFromParts(MapOf(k, e), <<y, x>>, n) \in 1..(b + 2)
  BY <1>1, ContainersOf
<1> QED
  BY <1>2, <1>3, <1>4, PartsOfContainers DEF PeakFrom

\* The fields that records have.
LEMMA FieldsOfSimple ==
  ASSUME NEW e, NEW k, Simple(e), Simple(k)
  PROVE  /\ FieldWithin(Opt(e), 2) /\ FieldWithin(ListOf(e), 3) /\ FieldWithin(SetOf(e), 3)
         /\ FieldWithin(MapOf(k, e), 4) /\ FieldWithin(ListOf(SetOf(e)), 4)
         /\ FieldWithin(ListOf(MapOf(k, e)), 5)
<1>1. /\ FlatWithin(e, 2) /\ FlatWithin(k, 3) /\ PartWithin(e, 2) /\ PartWithin(k, 3)
  BY SimpleWithin DEF FlatWithin, PartWithin
<1>2. PartWithin(SetOf(e), 3) /\ PartWithin(MapOf(k, e), 4)
  BY <1>1, PartsWithin
<1>3. PartWithin(SetOf(e), 4) /\ PartWithin(MapOf(k, e), 5)
  BY <1>2 DEF PartWithin
<1>4. FieldWithin(ListOf(SetOf(e)), 4) /\ FieldWithin(ListOf(MapOf(k, e)), 5)
  BY <1>2, <1>3, FieldsWithin
<1> QED
  BY <1>1, <1>4, FieldsWithin

\* The containers that calls give.
LEMMA GivensOfSimple ==
  ASSUME NEW e, NEW k, Simple(e), Simple(k)
  PROVE  /\ GivenWithin(Opt(e), 2) /\ GivenWithin(ListOf(e), 3) /\ GivenWithin(SetOf(e), 3)
         /\ GivenWithin(MapOf(k, e), 4)
<1>1. /\ FieldWithin(e, 2) /\ FieldWithin(k, 3)
  BY SimpleWithin DEF FieldWithin
<1> QED
  BY <1>1, GivensWithin

\* A set of flags that need not be there.
LEMMA GivenFlags ==
  ASSUME NEW e, e.name \in FlagSets
  PROVE  GivenWithin(Opt(e), 3)
<1>1. FieldWithin(e, 3) /\ FieldWithin(e, 4)
  BY FlagsWithin DEF FieldWithin
<1> QED
  BY <1>1, GivensWithin

-----------------------------------------------------------------------------
(* To C++ *)

\* What is taken leaves so many and holds at most b, on each of the levels.
FlatTaken(t, left, b) ==
    \A n \in Nat : LET taken == Taken1(t, n) IN taken.left \in 0..left /\ taken.peak \in 0..b

PartTaken(t, left, b) ==
    \A n \in Nat : LET taken == Taken2(t, n) IN taken.left \in 0..left /\ taken.peak \in 0..b

TakenWithin(t, left, b) ==
    \A n \in Nat : LET taken == Taken(t, n) IN taken.left \in 0..left /\ taken.peak \in 0..b

\* Nothing depends on what is said of the parts where there are none.
LEMMA TakenOfPlain ==
  ASSUME NEW t, Plain(t), NEW part, NEW n
  PROVE  LET taken == TakenFromParts(t, part, n) IN
         /\ taken.left \in 0..1 /\ taken.peak \in 0..2
         /\ t.name \in CppImplemented => taken.left = 1 /\ taken.peak = 1
         /\ t.name \in FlagSets => taken.left = 0
         /\ t.name \notin CppImplemented \cup FlagSets => taken.left = 0 /\ taken.peak = 0
<1>1. t.name \notin {"Optional", "ListOf", "SetOf", "MapOf"}
  BY DEF Plain, Constructors
<1>2. CASE t.name \in FlagSets
  BY <1>1, <1>2, SortsAreApart, SMT DEF TakenFromParts
<1>3. CASE t.name \in CppImplemented
  BY <1>1, <1>3, SortsAreApart, SMT DEF TakenFromParts
<1>4. CASE t.name \notin CppImplemented \cup FlagSets
  BY <1>1, <1>4, SortsAreApart, SMT DEF TakenFromParts
<1> QED
  BY <1>2, <1>3, <1>4

\* The content of a container is its element, of a map its value.
LEMMA ContentsOf ==
  ASSUME NEW e, NEW k
  PROVE  /\ Content(Opt(e)) = e /\ Content(ListOf(e)) = e /\ Content(SetOf(e)) = e
         /\ Content(MapOf(k, e)) = e
  BY DEF Content, Opt, ListOf, SetOf, MapOf, OfParts

\* What is left of each element, and held at once, depends on the container.
LEMMA TakenOfContainers ==
  ASSUME NEW t, NEW part, NEW n \in Nat
  PROVE  LET taken == TakenFromParts(t, part, n) IN
         /\ t.name = "Optional" => taken = part
         /\ t.name \in {"ListOf", "SetOf", "MapOf"} => taken.left = n * part.left
         /\ t.name = "ListOf" =>
                taken.peak = IF n = 0 THEN 0 ELSE 0 + (n - 1) * part.left + 1 + part.peak
         /\ t.name = "SetOf" =>
                taken.peak = IF n = 0 THEN 1 ELSE 1 + (n - 1) * part.left + 1 + part.peak
         /\ t.name = "MapOf" =>
                taken.peak = IF n = 0 THEN 2 ELSE 2 + (n - 1) * part.left + 3 + part.peak
<1>1. CASE t.name = "Optional"
  BY <1>1, SortsAreApart, SMT DEF TakenFromParts, Constructors
<1>2. CASE t.name = "ListOf"
  BY <1>2, SortsAreApart, SMT DEF TakenFromParts, Constructors
<1>3. CASE t.name = "SetOf"
  BY <1>3, SortsAreApart, SMT DEF TakenFromParts, Constructors
<1>4. CASE t.name = "MapOf"
  BY <1>4, SortsAreApart, SMT DEF TakenFromParts, Constructors
<1> QED
  BY <1>1, <1>2, <1>3, <1>4

\* Where the elements leave nothing, a container leaves nothing either, whatever its size.
LEMMA TakenOver ==
  ASSUME NEW e, NEW k, NEW part, NEW n \in Nat, NEW b \in Nat, part.left = 0, part.peak \in 0..b
  PROVE  /\ TakenFromParts(Opt(e), part, n) = part
         /\ LET taken == TakenFromParts(ListOf(e), part, n) IN
            taken.left = 0 /\ taken.peak \in 0..(b + 1)
         /\ LET taken == TakenFromParts(SetOf(e), part, n) IN
            taken.left = 0 /\ taken.peak \in 0..(b + 2)
         /\ LET taken == TakenFromParts(MapOf(k, e), part, n) IN
            taken.left = 0 /\ taken.peak \in 0..(b + 5)
<1>1. n * part.left = 0 /\ (n - 1) * part.left = 0
  OBVIOUS
<1>2. TakenFromParts(Opt(e), part, n) = part
  BY NamesOfContainers, TakenOfContainers
<1>3. LET taken == TakenFromParts(ListOf(e), part, n) IN
      /\ taken.left = n * part.left
      /\ taken.peak = IF n = 0 THEN 0 ELSE 0 + (n - 1) * part.left + 1 + part.peak
  BY NamesOfContainers, TakenOfContainers
<1>4. LET taken == TakenFromParts(SetOf(e), part, n) IN
      /\ taken.left = n * part.left
      /\ taken.peak = IF n = 0 THEN 1 ELSE 1 + (n - 1) * part.left + 1 + part.peak
  BY NamesOfContainers, TakenOfContainers
<1>5. LET taken == TakenFromParts(MapOf(k, e), part, n) IN
      /\ taken.left = n * part.left
      /\ taken.peak = IF n = 0 THEN 2 ELSE 2 + (n - 1) * part.left + 3 + part.peak
  BY NamesOfContainers, TakenOfContainers
<1> QED
  BY <1>1, <1>2, <1>3, <1>4, <1>5

\* What has no objects in it that C++ may have implemented.
LEMMA TakenOfLeaf ==
  ASSUME NEW t, Leaf(t)
  PROVE  FlatTaken(t, 0, 0) /\ PartTaken(t, 0, 0) /\ TakenWithin(t, 0, 0)
<1>1. \A part, n : TakenFromParts(t, part, n).left = 0 /\ TakenFromParts(t, part, n).peak = 0
  BY TakenOfPlain DEF Leaf, Simple
<1> QED
  BY <1>1 DEF FlatTaken, PartTaken, TakenWithin, Taken1, Taken2, Taken

\* So for the elements of a container in a container.
LEMMA PartsTaken ==
  ASSUME NEW e, NEW k, NEW b \in Nat, FlatTaken(e, 0, b)
  PROVE  /\ PartTaken(Opt(e), 0, b) /\ PartTaken(ListOf(e), 0, b + 1)
         /\ PartTaken(SetOf(e), 0, b + 2) /\ PartTaken(MapOf(k, e), 0, b + 5)
<1>1. \A n \in Nat : Taken1(e, n).left = 0 /\ Taken1(e, n).peak \in 0..b
  BY DEF FlatTaken
<1>2. /\ \A n \in Nat : Taken2(Opt(e), n) = TakenFromParts(Opt(e), Taken1(e, n), n)
      /\ \A n \in Nat : Taken2(ListOf(e), n) = TakenFromParts(ListOf(e), Taken1(e, n), n)
      /\ \A n \in Nat : Taken2(SetOf(e), n) = TakenFromParts(SetOf(e), Taken1(e, n), n)
      /\ \A n \in Nat : Taken2(MapOf(k, e), n) = TakenFromParts(MapOf(k, e), Taken1(e, n), n)
  BY ContentsOf DEF Taken2
<1>3. PartTaken(Opt(e), 0, b)
  BY <1>1, <1>2, TakenOver DEF PartTaken
<1>4. PartTaken(ListOf(e), 0, b + 1)
  BY <1>1, <1>2, TakenOver DEF PartTaken
<1>5. PartTaken(SetOf(e), 0, b + 2)
  BY <1>1, <1>2, TakenOver DEF PartTaken
<1>6. PartTaken(MapOf(k, e), 0, b + 5)
  BY <1>1, <1>2, TakenOver DEF PartTaken
<1> QED
  BY <1>3, <1>4, <1>5, <1>6

\* And for the container itself.
LEMMA ContainersTaken ==
  ASSUME NEW e, NEW k, NEW b \in Nat, PartTaken(e, 0, b)
  PROVE  /\ TakenWithin(Opt(e), 0, b) /\ TakenWithin(ListOf(e), 0, b + 1)
         /\ TakenWithin(SetOf(e), 0, b + 2) /\ TakenWithin(MapOf(k, e), 0, b + 5)
<1>1. \A n \in Nat : Taken2(e, n).left = 0 /\ Taken2(e, n).peak \in 0..b
  BY DEF PartTaken
<1>2. /\ \A n \in Nat : Taken(Opt(e), n) = TakenFromParts(Opt(e), Taken2(e, n), n)
      /\ \A n \in Nat : Taken(ListOf(e), n) = TakenFromParts(ListOf(e), Taken2(e, n), n)
      /\ \A n \in Nat : Taken(SetOf(e), n) = TakenFromParts(SetOf(e), Taken2(e, n), n)
      /\ \A n \in Nat : Taken(MapOf(k, e), n) = TakenFromParts(MapOf(k, e), Taken2(e, n), n)
  BY ContentsOf DEF Taken
<1>3. TakenWithin(Opt(e), 0, b)
  BY <1>1, <1>2, TakenOver DEF TakenWithin
<1>4. TakenWithin(ListOf(e), 0, b + 1)
  BY <1>1, <1>2, TakenOver DEF TakenWithin
<1>5. TakenWithin(SetOf(e), 0, b + 2)
  BY <1>1, <1>2, TakenOver DEF TakenWithin
<1>6. TakenWithin(MapOf(k, e), 0, b + 5)
  BY <1>1, <1>2, TakenOver DEF TakenWithin
<1> QED
  BY <1>3, <1>4, <1>5, <1>6

\* The containers that records and calls have.
LEMMA TakenOfLeaves ==
  ASSUME NEW e, NEW k, Leaf(e)
  PROVE  /\ TakenWithin(Opt(e), 0, 0) /\ TakenWithin(ListOf(e), 0, 1)
         /\ TakenWithin(SetOf(e), 0, 2) /\ TakenWithin(MapOf(k, e), 0, 5)
         /\ TakenWithin(ListOf(SetOf(e)), 0, 3) /\ TakenWithin(ListOf(MapOf(k, e)), 0, 6)
<1>1. FlatTaken(e, 0, 0) /\ PartTaken(e, 0, 0)
  BY TakenOfLeaf
<1>2. PartTaken(SetOf(e), 0, 2) /\ PartTaken(MapOf(k, e), 0, 5)
  BY <1>1, PartsTaken
<1>3. TakenWithin(ListOf(SetOf(e)), 0, 3) /\ TakenWithin(ListOf(MapOf(k, e)), 0, 6)
  BY <1>2, ContainersTaken
<1> QED
  BY <1>1, <1>3, ContainersTaken

\* An object, or one that need not be there.
LEMMA TakenOfPlainType ==
  ASSUME NEW t, Plain(t)
  PROVE  TakenWithin(t, 1, 2) /\ TakenWithin(Opt(t), 1, 2)
<1>1. \A part, n : /\ TakenFromParts(t, part, n).left \in 0..1
                   /\ TakenFromParts(t, part, n).peak \in 0..2
  BY TakenOfPlain
<1>2. \A n \in Nat : Taken(Opt(t), n) = Taken2(t, n)
  BY ContentsOf, NamesOfContainers, TakenOfContainers DEF Taken
<1> QED
  BY <1>1, <1>2 DEF TakenWithin, Taken2, Taken

\* A set of objects that C++ has implemented.
LEMMA TakenOfObjects ==
  ASSUME NEW t, Plain(t), t.name \in CppImplemented, NEW n \in Nat
  PROVE  LET taken == Taken(SetOf(t), n) IN taken.left = n /\ taken.peak \in 0..(n + 2)
<1>1. Taken2(t, n).left = 1 /\ Taken2(t, n).peak = 1
  BY TakenOfPlain DEF Taken2
<1>2. Taken(SetOf(t), n) = TakenFromParts(SetOf(t), Taken2(t, n), n)
  BY ContentsOf DEF Taken
<1>3. LET taken == TakenFromParts(SetOf(t), Taken2(t, n), n) IN
      /\ taken.left = n * 1
      /\ taken.peak = IF n = 0 THEN 1 ELSE 1 + (n - 1) * 1 + 1 + 1
  BY <1>1, NamesOfContainers, TakenOfContainers
<1> QED
  BY <1>2, <1>3

\* A name that is none of the others is a leaf.
LEMMA LeafNames ==
  ASSUME NEW t,
         t.name \notin Constructors \cup NamesOfRecords \cup FlagSets \cup Implementers
  PROVE  Leaf(t)
  BY RecordNamesAre, CppImplementedAre DEF Leaf, Simple, Plain

\* The marshalling classes of Marshal.hpp are leaves, and so are enums and durations.
LEMMA LeafTypes ==
  /\ Leaf(Bool) /\ Leaf(I8) /\ Leaf(I16) /\ Leaf(I32) /\ Leaf(I64) /\ Leaf(F32) /\ Leaf(F64)
  /\ Leaf(Void) /\ Leaf(String) /\ Leaf(WString) /\ Leaf(Binary) /\ Leaf(Date)
  /\ Leaf(Of("Color")) /\ \A rep : Leaf(Duration(rep))
  BY LeafNames
     DEF Constructors, NamesOfRecords, FlagSets, Implementers, Of, OfParts, Bool, I8, I16,
     I32, I64, F32, F64, Void, String, WString, Binary, Date, Duration

\* What a record's toCpp() may find in a field.
FieldOk(t) == TakenWithin(t, 0, 6) /\ (Containing(t) \/ TakenWithin(t, 0, 0))

\* Six are the most that any of them needs.
LEMMA TakenWeakens ==
  ASSUME NEW t, NEW b \in 0..6, TakenWithin(t, 0, b)
  PROVE  TakenWithin(t, 0, 6)
<1>1. \A x \in 0..b : x \in 0..6
  OBVIOUS
<1> QED
  BY <1>1, Zenon DEF TakenWithin

\* LeafTypes and containers of leaves are such fields.
LEMMA FieldsOk ==
  ASSUME NEW e, NEW k, Leaf(e)
  PROVE  /\ FieldOk(e) /\ FieldOk(Opt(e)) /\ FieldOk(ListOf(e)) /\ FieldOk(SetOf(e))
         /\ FieldOk(MapOf(k, e)) /\ FieldOk(ListOf(SetOf(e))) /\ FieldOk(ListOf(MapOf(k, e)))
<1>1. /\ TakenWithin(e, 0, 0) /\ TakenWithin(Opt(e), 0, 0) /\ TakenWithin(ListOf(e), 0, 1)
      /\ TakenWithin(SetOf(e), 0, 2) /\ TakenWithin(MapOf(k, e), 0, 5)
      /\ TakenWithin(ListOf(SetOf(e)), 0, 3) /\ TakenWithin(ListOf(MapOf(k, e)), 0, 6)
  BY TakenOfLeaves, TakenOfLeaf
<1>2. \A x, y : Containing(ListOf(x)) /\ Containing(SetOf(x)) /\ Containing(MapOf(y, x))
  BY NamesOfContainers DEF Containing
<1> QED
  BY <1>1, <1>2, TakenWeakens DEF FieldOk

\* Records, which have a frame of their own, and sets of flags are such fields too.
LEMMA OtherFieldsOk ==
  ASSUME NEW t, t.name \in RecordNames \cup FlagSets
  PROVE  FieldOk(t)
<1>1. Plain(t) /\ t.name \notin CppImplemented
  BY SortsAreApart DEF Plain
<1>2. CASE t.name \in FlagSets
  <2>1. \A part, n :
          LET taken == TakenFromParts(t, part, n) IN taken.left = 0 /\ taken.peak \in 0..2
    BY <1>1, <1>2, TakenOfPlain
  <2> QED
    BY <1>2, <2>1 DEF FieldOk, Containing, TakenWithin, Taken
<1>3. CASE t.name \notin FlagSets
  <2>1. \A part, n : LET taken == TakenFromParts(t, part, n) IN taken.left = 0 /\ taken.peak = 0
    BY <1>1, <1>3, TakenOfPlain
  <2> QED
    BY <2>1 DEF FieldOk, TakenWithin, Taken
<1> QED
  BY <1>2, <1>3

-----------------------------------------------------------------------------
(* Records *)

\* The types of fields, but for the list of maps.
FieldTypes ==
    {Bool, I8, I16, I32, I64, F32, F64, String, WString, Date, Of("Color"), Duration(F64),
     Opt(Bool), Opt(I8), Opt(I16), Opt(I32), Opt(I64), Opt(F32), Opt(F64), Opt(String),
     Opt(Of("Color")), ListOf(Of("Color")), ListOf(I64), SetOf(Of("Color")), SetOf(String),
     SetOf(I32), MapOf(Of("Color"), Of("Color")), MapOf(String, Date), MapOf(String, I64),
     MapOf(I32, I32), ListOf(SetOf(String)), Of("AccessFlags"),
     Of("RecordWithDerivings"), Of("ExtendedRecord")}

\* All of them are fields that toCpp() may find.
LEMMA FieldTypesOk == ASSUME NEW t \in FieldTypes PROVE FieldOk(t)
<1>1. /\ FieldOk(Of("AccessFlags")) /\ FieldOk(Of("RecordWithDerivings"))
      /\ FieldOk(Of("ExtendedRecord"))
  BY OtherFieldsOk, RecordNamesAre DEF NamesOfRecords, FlagSets, Of
<1> QED
  BY <1>1, LeafTypes, FieldsOk, SMTT(30) DEF FieldTypes

\* The scope of a record counts its fields and the record.
RowFits(r) ==
    /\ r.scope \in Nat /\ DOMAIN r.fields = 1..(r.scope - 1)
    /\ \/ \A i \in DOMAIN r.fields : r.fields[i] \in FieldTypes
       \/ r.fields = <<ListOf(MapOf(String, I64))>>

\* It does so in each of the generated classes.
LEMMA EveryRowFits == ASSUME NEW r \in Records PROVE RowFits(r)
<1>1. RowFits(AssortedPrimitivesFields)
  BY SMT DEF RowFits, AssortedPrimitivesFields, Record, FieldTypes
<1>2. RowFits(ClientReturnedRecordFields)
  BY SMT DEF RowFits, ClientReturnedRecordFields, Record, FieldTypes
<1>3. RowFits(ConstantRecordFields)
  BY SMT DEF RowFits, ConstantRecordFields, Record, FieldTypes
<1>4. RowFits(ConstantsFields)
  BY SMT DEF RowFits, ConstantsFields, Record, FieldTypes
<1>5. RowFits(DateRecordFields)
  BY SMT DEF RowFits, DateRecordFields, Record, FieldTypes
<1>6. RowFits(EmptyRecordFields)
  BY SMT DEF RowFits, EmptyRecordFields, Record, FieldTypes
<1>7. RowFits(EnumUsageRecordFields)
  BY SMT DEF RowFits, EnumUsageRecordFields, Record, FieldTypes
<1>8. RowFits(ExtendedRecordFields)
  BY SMT DEF RowFits, ExtendedRecordFields, Record, FieldTypes
<1>9. RowFits(ExternRecordWithDerivingsFields)
  BY SMT DEF RowFits, ExternRecordWithDerivingsFields, Record, FieldTypes
<1>10. RowFits(MapDateRecordFields)
  BY SMT DEF RowFits, MapDateRecordFields, Record, FieldTypes
<1>11. RowFits(MapListRecordFields)
  BY SMT DEF RowFits, MapListRecordFields, Record, FieldTypes
<1>12. RowFits(MapRecordFields)
  BY SMT DEF RowFits, MapRecordFields, Record, FieldTypes
<1>13. RowFits(NestedCollectionFields)
  BY SMT DEF RowFits, NestedCollectionFields, Record, FieldTypes
<1>14. RowFits(PrimitiveListFields)
  BY SMT DEF RowFits, PrimitiveListFields, Record, FieldTypes
<1>15. RowFits(RecordUsingExtendedRecordFields)
  BY SMT DEF RowFits, RecordUsingExtendedRecordFields, Record, FieldTypes
<1>16. RowFits(RecordWithDerivingsFields)
  BY SMT DEF RowFits, RecordWithDerivingsFields, Record, FieldTypes
<1>17. RowFits(RecordWithDurationAndDerivingsFields)
  BY SMT DEF RowFits, RecordWithDurationAndDerivingsFields, Record, FieldTypes
<1>18. RowFits(RecordWithFlagsFields)
  BY SMT DEF RowFits, RecordWithFlagsFields, Record, FieldTypes
<1>19. RowFits(RecordWithNestedDerivingsFields)
  BY SMT DEF RowFits, RecordWithNestedDerivingsFields, Record, FieldTypes
<1>20. RowFits(SetRecordFields)
  BY SMT DEF RowFits, SetRecordFields, Record, FieldTypes
<1>21. RowFits(VarnameRecordFields)
  BY SMT DEF RowFits, VarnameRecordFields, Record, FieldTypes
<1>22. RowFits(WcharTestRecFields)
  BY SMT DEF RowFits, WcharTestRecFields, Record, FieldTypes
<1> QED
  BY <1>1, <1>2, <1>3, <1>4, <1>5, <1>6, <1>7, <1>8, <1>9, <1>10, <1>11, <1>12, <1>13, <1>14,
     <1>15, <1>16, <1>17, <1>18, <1>19, <1>20, <1>21, <1>22, SMT
     DEF Records

\* A record of records, and what it takes to give one.
LEMMA FieldWeakens ==
  ASSUME NEW t, NEW b \in 1..4, FieldWithin(t, b)
  PROVE  FieldWithin(t, 4)
<1>1. \A x \in 1..b : x \in 1..4
  OBVIOUS
<1> QED
  BY <1>1, Zenon DEF FieldWithin

\* The parts of a record are its fields.
LEMMA RowOfName ==
  ASSUME NEW r \in Records
  PROVE  r.name \in RecordNames /\ Parts(Of(r.name)) = r.fields
<1>1. r.name \in RecordNames
  BY DEF RecordNames
<1> QED
  BY <1>1, RecordOfName DEF Parts, Of

\* Numbers and truth values hold no reference.
LEMMA HeldByType ==
  /\ \A t : Held(t) \in 0..1
  /\ Held(Bool) = 0 /\ Held(I8) = 0 /\ Held(I16) = 0 /\ Held(I32) = 0 /\ Held(I64) = 0
  /\ Held(F32) = 0 /\ Held(F64) = 0
  BY DEF Held, Primitives, Of, Bool, I8, I16, I32, I64, F32, F64

\* A record of one truth value, in a field.
LEMMA ExtendedRecordWithin == FieldWithin(Of("ExtendedRecord"), 4)
<1> DEFINE r == ExtendedRecordFields
<1>1. r \in Records /\ r.name = "ExtendedRecord" /\ r.fields = <<Bool>>
  BY DEF Records, ExtendedRecordFields, Record
<1>2. HeldOf(<<Bool>>, DOMAIN <<Bool>>) = 0
  BY HeldByType, NothingHeld
<1>3. ASSUME NEW peaks PROVE PeakOfFields(<<Bool>>, peaks) \in 1..1
  <2>1. \A i \in DOMAIN <<Bool>> : Held(<<Bool>>[i]) = 1 => peaks[i] \in 1..2
    BY HeldByType
  <2>2. HeldOf(<<Bool>>, DOMAIN <<Bool>>) \in 0..0
    BY <1>2
  <2> QED
    BY <2>1, <2>2, PeakOfFieldsIsSmall
<1>4. Of("ExtendedRecord").name = "ExtendedRecord"
  BY DEF Of
<1> HIDE DEF r
<1>5. ASSUME NEW n \in Nat PROVE PeakFrom3(Of("ExtendedRecord"), n) \in 1..1
  BY <1>1, <1>3, <1>4, RowOfName, PeakOfRecord DEF PeakFrom3
<1> QED
  BY <1>5 DEF FieldWithin

\* Only two of its fields are references.
LEMMA DerivingsFields ==
  /\ RecordWithDerivingsFields \in Records
  /\ RecordWithDerivingsFields.name = "RecordWithDerivings"
  /\ LET f == RecordWithDerivingsFields.fields IN
     /\ HeldOf(f, DOMAIN f) \in 0..2
     /\ \A i \in DOMAIN f : Held(f[i]) = 1 => Simple(f[i])
<1> DEFINE r == RecordWithDerivingsFields
           f == <<I8, I16, I32, I64, F32, F64, Date, String>>
<1>1. r \in Records /\ r.name = "RecordWithDerivings" /\ r.fields = f
  BY DEF Records, RecordWithDerivingsFields, Record
<1>2. /\ DOMAIN f = 1..8 /\ f[1] = I8 /\ f[2] = I16 /\ f[3] = I32 /\ f[4] = I64 /\ f[5] = F32
      /\ f[6] = F64 /\ f[7] = Date /\ f[8] = String
  OBVIOUS
<1> HIDE DEF r, f
<1>3. \A i \in DOMAIN f : Held(f[i]) = 1 => i \in 7..8 /\ Simple(f[i])
  <2>1. Simple(Date) /\ Simple(String)
    BY LeafTypes DEF Leaf
  <2> QED
    BY <1>2, <2>1, HeldByType
<1>4. HeldOf(f, DOMAIN f) \in 0..(8 - 7 + 1)
  BY <1>3, HeldIsFew
<1>5. HeldOf(f, DOMAIN f) \in 0..2
  BY <1>4
<1> QED
  BY <1>1, <1>3, <1>5 DEF r

\* So it takes three at most to give such a record, whatever the level.
LEMMA DerivingsPeak ==
  ASSUME NEW peaks,
         \A i \in DOMAIN RecordWithDerivingsFields.fields :
            Simple(RecordWithDerivingsFields.fields[i]) => peaks[i] \in 1..2
  PROVE  PeakOfFields(RecordWithDerivingsFields.fields, peaks) \in 1..3
<1> DEFINE f == RecordWithDerivingsFields.fields
<1>1. \A i \in DOMAIN f : Held(f[i]) = 1 => peaks[i] \in 1..2
  BY DerivingsFields
<1>2. HeldOf(f, DOMAIN f) \in 0..2
  BY DerivingsFields
<1> HIDE DEF f
<1>3. PeakOfFields(f, peaks) \in 1..(2 + 2 - 1)
  BY <1>1, <1>2, PeakOfFieldsIsSmall
<1> QED
  BY <1>3 DEF f

\* Such a record in a field.
LEMMA RecordWithDerivingsWithin == FieldWithin(Of("RecordWithDerivings"), 4)
<1> DEFINE f == RecordWithDerivingsFields.fields
<1>1. ASSUME NEW n \in Nat PROVE PeakFrom3(Of("RecordWithDerivings"), n) \in 1..3
  <2> DEFINE peaks == [i \in DOMAIN f |-> PeakFrom2(f[i], n)]
  <2>1. \A i \in DOMAIN f : Simple(f[i]) => peaks[i] \in 1..2
    BY SimpleWithin DEF PartWithin
  <2>2. PeakOfFields(f, peaks) \in 1..3
    BY <2>1, DerivingsPeak
  <2>3. Of("RecordWithDerivings").name = "RecordWithDerivings"
    BY DEF Of
  <2> HIDE DEF peaks, f
  <2>4. Parts(Of("RecordWithDerivings")) = f /\ Of("RecordWithDerivings").name \in RecordNames
    BY <2>3, RowOfName, DerivingsFields DEF f
  <2> QED
    BY <2>2, <2>4, PeakOfRecord DEF PeakFrom3, peaks
<1>2. \A x \in 1..3 : x \in 1..4
  OBVIOUS
<1> QED
  BY <1>1, <1>2 DEF FieldWithin

\* What a record has in its fields holds four at most when it is given.
LEMMA FieldTypesGive ==
  ASSUME NEW t \in FieldTypes
  PROVE  FieldWithin(t, 4)
<1>1. \A e : Leaf(e) => FieldWithin(e, 4) /\ FieldWithin(Opt(e), 4)
  BY SimpleWithin, FieldsOfSimple, FieldWeakens DEF Leaf
<1>2. \A e : Leaf(e) => FieldWithin(ListOf(e), 4) /\ FieldWithin(SetOf(e), 4)
  BY FieldsOfSimple, FieldWeakens DEF Leaf
<1>3. \A e : Leaf(e) => FieldWithin(ListOf(SetOf(e)), 4)
  BY FieldsOfSimple, FieldWeakens DEF Leaf
<1>4. \A e, k : Leaf(e) /\ Leaf(k) => FieldWithin(MapOf(k, e), 4)
  BY FieldsOfSimple DEF Leaf
<1>5. FieldWithin(Of("AccessFlags"), 4)
  BY FlagsWithin, FieldWeakens DEF FlagSets, Of
<1> QED
  BY <1>1, <1>2, <1>3, <1>4, <1>5, LeafTypes, ExtendedRecordWithin, RecordWithDerivingsWithin,
     SMTT(30) DEF FieldTypes

\* What it takes to give a record.
Gives(fields, b) ==
    \A n \in Nat :
        PeakOfFields(fields, [i \in DOMAIN fields |-> PeakFrom3(fields[i], n)]) \in 1..b

\* As many as there are places for them.
LEMMA HeldUpTo ==
  ASSUME NEW types, NEW which, NEW k \in Nat, 1 <= k, \A i \in which : i \in 1..k
  PROVE  HeldOf(types, which) \in 0..k
<1>1. \A i \in which : Held(types[i]) = 1 => i \in 1..k
  OBVIOUS
<1>2. 1 \in Nat /\ k - 1 + 1 = k
  OBVIOUS
<1>3. HeldOf(types, which) \in 0..(k - 1 + 1)
  BY <1>1, <1>2, HeldIsFew, Zenon
<1> QED
  BY <1>2, <1>3

\* Five fields, and four for the last of them.
LEMMA FewFieldsGive ==
  ASSUME NEW fields, NEW k \in 0..5, DOMAIN fields = 1..k,
         \A i \in DOMAIN fields : FieldWithin(fields[i], 4)
  PROVE  Gives(fields, 8)
<1>1. \A i \in DOMAIN fields : i \in 1..5
  OBVIOUS
<1>2. HeldOf(fields, DOMAIN fields) \in 0..5
  <2>1. 5 \in Nat /\ 1 <= 5
    OBVIOUS
  <2> QED
    BY <1>1, <2>1, HeldUpTo, Zenon
<1>3. ASSUME NEW n \in Nat
      PROVE  PeakOfFields(fields, [i \in DOMAIN fields |-> PeakFrom3(fields[i], n)]) \in 1..8
  <2> DEFINE peaks == [i \in DOMAIN fields |-> PeakFrom3(fields[i], n)]
  <2>1. \A i \in DOMAIN fields : peaks[i] \in 1..4
    BY DEF FieldWithin
  <2> HIDE DEF peaks
  <2>2. PeakOfFields(fields, peaks) \in 1..(5 + 4 - 1)
    BY <1>2, <2>1, PeakOfFieldsIsSmall
  <2> QED
    BY <2>2 DEF peaks
<1> QED
  BY <1>3 DEF Gives

\* One field, and five for it.
LEMMA ListOfMapsGives == Gives(<<ListOf(MapOf(String, I64))>>, 8)
<1> DEFINE t == ListOf(MapOf(String, I64))
           f == <<t>>
<1>1. FieldWithin(t, 5)
  BY LeafTypes, FieldsOfSimple DEF Leaf
<1>2. DOMAIN f = 1..1 /\ f[1] = t
  OBVIOUS
<1> HIDE DEF t, f
<1>3. HeldOf(f, DOMAIN f) \in 0..(1 - 1 + 1)
  BY <1>2, HeldIsFew
<1>4. ASSUME NEW n \in Nat
      PROVE  PeakOfFields(f, [i \in DOMAIN f |-> PeakFrom3(f[i], n)]) \in 1..8
  <2> DEFINE peaks == [i \in DOMAIN f |-> PeakFrom3(f[i], n)]
  <2>1. \A i \in DOMAIN f : peaks[i] \in 1..5
    BY <1>1, <1>2 DEF FieldWithin
  <2> HIDE DEF peaks
  <2>2. PeakOfFields(f, peaks) \in 1..(1 + 5 - 1)
    BY <1>3, <2>1, PeakOfFieldsIsSmall
  <2> QED
    BY <2>2 DEF peaks
<1> QED
  BY <1>4 DEF Gives, f, t

\* Seven of its fields are boxed.
LEMMA AssortedPrimitivesGive == Gives(AssortedPrimitivesFields.fields, 8)
<1> DEFINE f == <<Bool, I8, I16, I32, I64, F32, F64, Opt(Bool), Opt(I8), Opt(I16), Opt(I32),
                  Opt(I64), Opt(F32), Opt(F64)>>
<1>1. AssortedPrimitivesFields.fields = f
  BY DEF AssortedPrimitivesFields, Record
<1>2. DOMAIN f = 1..14
  OBVIOUS
<1>3. /\ f[1] = Bool /\ f[2] = I8 /\ f[3] = I16 /\ f[4] = I32 /\ f[5] = I64 /\ f[6] = F32
      /\ f[7] = F64
  OBVIOUS
<1>4. \A i \in DOMAIN f : FieldWithin(f[i], 2)
  <2>1. \A t \in {Bool, I8, I16, I32, I64, F32, F64} : Simple(t)
    BY LeafTypes DEF Leaf
  <2>2. \A t \in {Bool, I8, I16, I32, I64, F32, F64} :
           FieldWithin(t, 2) /\ FieldWithin(Opt(t), 2)
    BY <2>1, SimpleWithin, FieldsOfSimple, Zenon
  <2>3. \A i \in 1..14 :
           f[i] \in {Bool, I8, I16, I32, I64, F32, F64}
                    \cup {Opt(t) : t \in {Bool, I8, I16, I32, I64, F32, F64}}
    OBVIOUS
  <2> QED
    BY <1>2, <2>2, <2>3, Zenon
<1> HIDE DEF f
<1>5. \A i \in DOMAIN f : Held(f[i]) = 1 => i \in 8..14
  BY <1>2, <1>3, HeldByType
<1>6. HeldOf(f, DOMAIN f) \in 0..(14 - 8 + 1)
  BY <1>5, HeldIsFew
<1>7. ASSUME NEW n \in Nat
      PROVE  PeakOfFields(f, [i \in DOMAIN f |-> PeakFrom3(f[i], n)]) \in 1..8
  <2> DEFINE peaks == [i \in DOMAIN f |-> PeakFrom3(f[i], n)]
  <2>1. \A i \in DOMAIN f : peaks[i] \in 1..2
    BY <1>4 DEF FieldWithin
  <2> HIDE DEF peaks
  <2>2. PeakOfFields(f, peaks) \in 1..(7 + 2 - 1)
    BY <1>6, <2>1, PeakOfFieldsIsSmall
  <2> QED
    BY <2>2 DEF peaks
<1> QED
  BY <1>1, <1>7 DEF Gives

\* A record with eight fields, most of which are numbers.
LEMMA DerivingsGive == Gives(RecordWithDerivingsFields.fields, 8)
<1> DEFINE f == RecordWithDerivingsFields.fields
<1>1. ASSUME NEW n \in Nat
      PROVE  PeakOfFields(f, [i \in DOMAIN f |-> PeakFrom3(f[i], n)]) \in 1..3
  <2>1. \A i \in DOMAIN f : Simple(f[i]) => PeakFrom3(f[i], n) \in 1..2
    BY SimpleWithin DEF FieldWithin
  <2> QED
    BY <2>1, DerivingsPeak
<1>2. \A x \in 1..3 : x \in 1..8
  OBVIOUS
<1> QED
  BY <1>1, <1>2 DEF Gives

\* All others have five fields at most.
LEMMA RowSizes ==
  ASSUME NEW r \in Records
  PROVE  \/ r.scope \in 1..6
         \/ r = AssortedPrimitivesFields
         \/ r = RecordWithDerivingsFields
  BY SMT
     DEF Records, Record, AssortedPrimitivesFields, ClientReturnedRecordFields,
         ConstantRecordFields, ConstantsFields, DateRecordFields, EmptyRecordFields,
         EnumUsageRecordFields, ExtendedRecordFields, ExternRecordWithDerivingsFields,
         MapDateRecordFields, MapListRecordFields, MapRecordFields, NestedCollectionFields,
         PrimitiveListFields, RecordUsingExtendedRecordFields, RecordWithDerivingsFields,
         RecordWithDurationAndDerivingsFields, RecordWithFlagsFields,
         RecordWithNestedDerivingsFields, SetRecordFields, VarnameRecordFields,
         WcharTestRecFields

\* No record takes more than eight references to give.
LEMMA RecordsGive == ASSUME NEW r \in Records PROVE Gives(r.fields, 8)
<1>1. CASE r = AssortedPrimitivesFields
  BY <1>1, AssortedPrimitivesGive
<1>2. CASE r = RecordWithDerivingsFields
  BY <1>2, DerivingsGive
<1>3. CASE r.fields = <<ListOf(MapOf(String, I64))>>
  BY <1>3, ListOfMapsGives
<1>4. ASSUME r.scope \in 1..6, \A i \in DOMAIN r.fields : r.fields[i] \in FieldTypes
      PROVE  Gives(r.fields, 8)
  <2> DEFINE f == r.fields
  <2>1. DOMAIN f = 1..(r.scope - 1) /\ \A i \in DOMAIN f : FieldWithin(f[i], 4)
    BY <1>4, EveryRowFits, FieldTypesGive DEF RowFits
  <2> DEFINE k == r.scope - 1
  <2>2. k \in 0..5 /\ DOMAIN f = 1..k
    BY <1>4, <2>1
  <2> HIDE DEF f, k
  <2>3. Gives(f, 8)
    BY <2>1, <2>2, FewFieldsGive
  <2> QED
    BY <2>3 DEF f
<1> QED
  BY <1>1, <1>2, <1>3, <1>4, EveryRowFits, RowSizes DEF RowFits

\* Wherever a call gives it.
LEMMA GivenRecords == ASSUME NEW t, t.name \in RecordNames PROVE GivenWithin(t, 8)
<1>1. PICK r \in Records : r.name = t.name
  BY DEF RecordNames
<1>2. Parts(t) = r.fields
  BY <1>1, RecordOfName DEF Parts
<1>3. Gives(r.fields, 8)
  BY RecordsGive
<1> QED
  BY <1>2, <1>3, PeakOfRecord DEF GivenWithin, Gives, PeakFrom

\* Whatever is given, it is within eight references.
LEMMA GivenPlain == ASSUME NEW t, Plain(t) PROVE GivenWithin(t, 8)
<1>1. \A x \in 1..3 : x \in 1..8
  OBVIOUS
<1>2. \A x \in 1..2 : x \in 1..8
  OBVIOUS
<1>3. CASE Simple(t)
  BY <1>2, <1>3, SimpleWithin, Zenon DEF GivenWithin
<1>4. CASE t.name \in FlagSets
  BY <1>1, <1>4, FlagsWithin, Zenon DEF GivenWithin
<1>5. CASE t.name \in RecordNames
  BY <1>5, GivenRecords
<1> QED
  BY <1>3, <1>4, <1>5 DEF Simple

-----------------------------------------------------------------------------
(* The calls *)

\* The types of calls that are not plain: those that are given, and those that are taken.
GivenTypes ==
    {Opt(I32), Opt(String), Opt(Duration(I64)), Opt(Of("Color")), Opt(Of("AccessFlags")),
     Opt(Of("EmptyFlags")), Opt(Of("ClientInterface")), ListOf(Of("Color")), SetOf(Of("Color")),
     MapOf(Of("Color"), Of("Color")), MapOf(String, I64), ListOf(Of("Object"))}

TakenTypes ==
    {Opt(Duration(I64)), Opt(Of("Color")), Opt(Of("AccessFlags")), Opt(Of("EmptyFlags")),
     Opt(Of("ReverseClientInterface")), ListOf(Of("Color")), SetOf(Of("Color")),
     MapOf(Of("Color"), Of("Color")), MapOf(String, I64), MapOf(Of("Color"), String)}

\* Eight are the most that any call needs for one value that it gives.
LEMMA GivenWeakens ==
  ASSUME NEW t, NEW b \in 1..8, GivenWithin(t, b) PROVE GivenWithin(t, 8)
<1>1. \A x \in 1..b : x \in 1..8
  OBVIOUS
<1> QED
  BY <1>1, Zenon DEF GivenWithin

\* What the containers of calls contain is simple.
LEMMA SimpleThere ==
  /\ Simple(I32) /\ Simple(I64) /\ Simple(String) /\ Simple(Duration(I64)) /\ Simple(Of("Color"))
  /\ Simple(Of("Object")) /\ Simple(Of("ClientInterface"))
<1>1. Simple(Of("Object")) /\ Simple(Of("ClientInterface"))
  BY RecordNamesAre DEF Constructors, NamesOfRecords, FlagSets, Simple, Plain, Of
<1> QED
  BY <1>1, LeafTypes DEF Leaf

\* So for all types that calls give.
LEMMA GivenTypesFit ==
  ASSUME NEW t, Plain(t) \/ t \in GivenTypes PROVE GivenWithin(t, 8)
<1>1. \A e : Simple(e) => GivenWithin(Opt(e), 8)
  BY GivensOfSimple, GivenWeakens
<1>2. \A e : Simple(e) => GivenWithin(ListOf(e), 8) /\ GivenWithin(SetOf(e), 8)
  BY GivensOfSimple, GivenWeakens
<1>3. \A e, k : Simple(e) /\ Simple(k) => GivenWithin(MapOf(k, e), 8)
  BY GivensOfSimple, GivenWeakens
<1>4. GivenWithin(Opt(Of("AccessFlags")), 8) /\ GivenWithin(Opt(Of("EmptyFlags")), 8)
  BY GivenFlags, GivenWeakens DEF FlagSets, Of
<1>5. CASE Plain(t)
  BY <1>5, GivenPlain
<1>6. CASE t \in GivenTypes
  BY <1>1, <1>2, <1>3, <1>4, <1>6, SimpleThere, SMTT(30) DEF GivenTypes
<1> QED
  BY <1>5, <1>6

\* One is left at most of what is taken, and five are the most at once.
LEMMA TakenWidens ==
  ASSUME NEW t, NEW left \in 0..1, NEW b \in 0..5, TakenWithin(t, left, b)
  PROVE  TakenWithin(t, 1, 5)
<1>1. \A x \in 0..left : x \in 0..1
  OBVIOUS
<1>2. \A x \in 0..b : x \in 0..5
  OBVIOUS
<1> QED
  BY <1>1, <1>2, Zenon DEF TakenWithin

\* So for all types that calls take, but for a set of objects.
LEMMA TakenTypesFit ==
  ASSUME NEW t, Plain(t) \/ t \in TakenTypes PROVE TakenWithin(t, 1, 5)
<1>1. \A e : Plain(e) => TakenWithin(e, 1, 5) /\ TakenWithin(Opt(e), 1, 5)
  BY TakenOfPlainType, TakenWidens
<1>2. \A e : Leaf(e) => TakenWithin(ListOf(e), 1, 5) /\ TakenWithin(SetOf(e), 1, 5)
  BY TakenOfLeaves, TakenWidens
<1>3. \A e, k : Leaf(e) => TakenWithin(MapOf(k, e), 1, 5)
  BY TakenOfLeaves, TakenWidens
<1>4. Plain(Duration(I64)) /\ Plain(Of("Color"))
  BY LeafTypes DEF Leaf, Simple
<1>5. /\ Plain(Of("AccessFlags")) /\ Plain(Of("EmptyFlags"))
      /\ Plain(Of("ReverseClientInterface"))
  BY DEF Constructors, Plain, Of
<1>6. CASE Plain(t)
  BY <1>1, <1>6
<1>7. CASE t \in TakenTypes
  BY <1>1, <1>2, <1>3, <1>4, <1>5, <1>7, LeafTypes, SMTT(30) DEF TakenTypes
<1> QED
  BY <1>6, <1>7

\* What is said of the rows of the tables.
PlainRow(m) ==
    /\ DOMAIN m.args \subseteq 1..2
    /\ \A i \in DOMAIN m.args : Plain(m.args[i])
    /\ Plain(m.ret)

ProxyRow(m) ==
    /\ DOMAIN m.args \subseteq 1..3
    /\ \A i \in DOMAIN m.args : Plain(m.args[i]) \/ m.args[i] \in GivenTypes
    /\ Plain(m.ret) \/ m.ret \in TakenTypes

NativeRow(m) ==
    /\ DOMAIN m.args \subseteq 1..2
    /\ \A i \in DOMAIN m.args : Plain(m.args[i]) \/ m.args[i] \in TakenTypes
    /\ Plain(m.ret) \/ m.ret \in GivenTypes

\* A row of plain types is good both ways.
LEMMA PlainRows ==
  ASSUME NEW m, PlainRow(m) PROVE ProxyRow(m) /\ NativeRow(m)
  BY DEF PlainRow, ProxyRow, NativeRow

\* A row that names its types by strings is one of plain types.
LEMMA PlainCalls ==
  ASSUME NEW i, NEW names, NEW args, NEW ret, NEW m \in Calls(i, names, args, ret),
         DOMAIN args \subseteq 1..2, \A k \in DOMAIN args : args[k] \notin Constructors,
         ret \notin Constructors
  PROVE  PlainRow(m)
<1>1. m.args = [k \in DOMAIN args |-> Of(args[k])] /\ m.ret = Of(ret)
  BY DEF Calls, Row
<1>2. \A name : name \notin Constructors => Plain(Of(name))
  BY DEF Plain, Of
<1> QED
  BY <1>1, <1>2 DEF PlainRow

\* The calls of JavascriptArray.
LEMMA ArrayRows == ASSUME NEW m \in ArrayGetters \cup ArrayPushers PROVE PlainRow(m)
<1>1. CASE m \in ArrayGetters
  BY <1>1, PlainCalls, SMT DEF ArrayGetters, Constructors
<1>2. CASE m \in ArrayPushers
  BY <1>2, PlainCalls, SMT DEF ArrayPushers, Constructors
<1> QED
  BY <1>1, <1>2

\* The calls of JavascriptMap.
LEMMA MapRows == ASSUME NEW m \in MapGetters \cup MapPutters PROVE PlainRow(m)
<1>1. CASE m \in MapGetters
  BY <1>1, PlainCalls, SMT DEF MapGetters, Constructors
<1>2. CASE m \in MapPutters
  BY <1>2, PlainCalls, SMT DEF MapPutters, Constructors
<1> QED
  BY <1>1, <1>2

\* The calls of the key iterator, promises, dispatchers and the bridge.
LEMMA OtherRows ==
  ASSUME NEW m \in KeyIteratorCalls \cup PromiseCalls \cup DispatcherCalls \cup BridgeCalls
  PROVE  PlainRow(m)
  BY PlainCalls, SMT
     DEF KeyIteratorCalls, PromiseCalls, DispatcherCalls, BridgeCalls, Constructors

\* The native methods of the support library.
LEMMA NativeRows == ASSUME NEW m \in SupportNatives PROVE PlainRow(m)
  BY PlainCalls, SMT DEF SupportNatives, ObjectNatives, JobNatives, QueueNatives, Constructors

\* The calls of JavascriptCallback; invoke() gives a list of objects.
LEMMA CallbackRows == ASSUME NEW m \in CallbackCalls PROVE ProxyRow(m)
<1>1. CASE m \in Row("Callback", {"invoke"}, <<ListOf(Of("Object"))>>, Void)
  BY <1>1, RowIs DEF ProxyRow, GivenTypes, Plain, Void, Of, Constructors
<1>2. CASE m \in Calls("Callback", {"invokeSingleArg"}, <<"Object">>, "Void")
  BY <1>2, PlainCalls, PlainRows DEF Constructors
<1> QED
  BY <1>1, <1>2 DEF CallbackCalls

\* A row is good if its types are.
LEMMA RowShapes ==
  ASSUME NEW i, NEW names, NEW args, NEW ret, NEW m \in Row(i, names, args, ret)
  PROVE  /\ /\ DOMAIN args \subseteq 1..3
            /\ \A k \in DOMAIN args : Plain(args[k]) \/ args[k] \in GivenTypes
            /\ Plain(ret) \/ ret \in TakenTypes
            => ProxyRow(m)
         /\ /\ DOMAIN args \subseteq 1..2
            /\ \A k \in DOMAIN args : Plain(args[k]) \/ args[k] \in TakenTypes
            /\ Plain(ret) \/ ret \in GivenTypes
            => NativeRow(m)
  BY RowIs DEF ProxyRow, NativeRow

\* Everything that is not a container or optional is plain.
LEMMA PlainTypes ==
  /\ \A name : name \notin Constructors => Plain(Of(name))
  /\ Plain(Bool) /\ Plain(I8) /\ Plain(I32) /\ Plain(I64) /\ Plain(F64) /\ Plain(Void)
  /\ Plain(String) /\ Plain(WString) /\ Plain(Binary) /\ \A rep : Plain(Duration(rep))
  BY DEF Plain, Of, OfParts, Bool, I8, I32, I64, F64, Void, String, WString, Binary, Duration,
         Constructors

\* The native methods of TestHelpers that move collections.
LEMMA HelpersRows == ASSUME NEW m \in HelpersNatives PROVE NativeRow(m)
  BY RowShapes, PlainTypes, SMTT(30) DEF HelpersNatives, GivenTypes, TakenTypes, Constructors

\* The others of TestHelpers.
LEMMA HelpersRows2 == ASSUME NEW m \in HelpersNatives2 PROVE NativeRow(m)
  BY RowShapes, PlainTypes, SMTT(30) DEF HelpersNatives2, GivenTypes, TakenTypes, Constructors

\* Those of TestDuration.
LEMMA DurationRows == ASSUME NEW m \in DurationTexts \cup DurationNatives PROVE NativeRow(m)
  BY RowShapes, PlainTypes, SMTT(30)
     DEF DurationTexts, DurationNatives, GivenTypes, TakenTypes, Constructors

\* The methods of EnumUsageInterface go both ways.
LEMMA ColorRows ==
  ASSUME NEW m \in ColorMethods \cup ColorNatives
  PROVE  NativeRow(m) /\ (m \in ColorMethods => ProxyRow(m))
  BY RowShapes, PlainTypes, SMTT(30)
     DEF ColorMethods, ColorNatives, GivenTypes, TakenTypes, Constructors

\* So do those of UsesSingleLanguageListeners.
LEMMA ListenerRows ==
  ASSUME NEW m \in ListenerMethods \cup ListenerNatives
  PROVE  NativeRow(m) /\ (m \in ListenerMethods => ProxyRow(m))
  BY RowShapes, PlainTypes, SMTT(30)
     DEF ListenerMethods, ListenerNatives, GivenTypes, TakenTypes, Constructors

\* The native methods that move objects and strings.
LEMMA InterfaceRows ==
  ASSUME NEW m \in ListenerCallerNatives \cup ReverseNatives \cup WcharNatives \cup TokenNatives
                   \cup ConflictNatives
  PROVE  NativeRow(m)
  BY RowShapes, PlainTypes, SMTT(30)
     DEF ListenerCallerNatives, ReverseNatives, WcharNatives, TokenNatives, TokenMethods,
         ConflictNatives, GivenTypes, TakenTypes, Constructors

\* Those that move sets of flags.
LEMMA FlagRows == ASSUME NEW m \in FlagNatives PROVE NativeRow(m)
  BY RowShapes, PlainTypes, SMTT(30) DEF FlagNatives, GivenTypes, TakenTypes, Constructors

\* Exceptions, names, extern and extended records, constants.
LEMMA LastRows ==
  ASSUME NEW m \in ExceptionNatives \cup VarnameNatives \cup ExternNatives \cup ExtendedNatives \cup
           ConstantsNatives
  PROVE NativeRow(m)
  BY RowShapes, PlainTypes, SMTT(30)
     DEF ExceptionNatives, VarnameNatives, ExternNatives, ExtendedNatives,
     ConstantsNatives, GivenTypes, TakenTypes, Constructors

\* Objects that return numbers.
LEMMA ReturnRows == ASSUME NEW m \in ReturnOneNatives \cup ReturnTwoNatives PROVE NativeRow(m)
  BY RowShapes, PlainTypes, SMTT(30)
     DEF ReturnOneNatives, ReturnTwoNatives, ReturnNatives, GivenTypes, TakenTypes, Constructors

\* The only one that takes a container of objects that C++ may have implemented.
ConflictArg(m) == m.args = <<SetOf(Of("Conflict"))>> /\ m.ret = Bool

\* Such a set is all that ConflictUser takes.
LEMMA ConflictRows == ASSUME NEW m \in ConflictUserNatives PROVE NativeRow(m) \/ ConflictArg(m)
<1>1. CASE m \in Row("ConflictUser", {"conflictArg"}, <<SetOf(Of("Conflict"))>>, Bool)
  BY <1>1, RowIs DEF ConflictArg
<1>2. CASE m \in Row("ConflictUser", {"nativeDestroy"}, <<>>, Void)
           \/ m \in Row("ConflictUser", {"Conflict"}, <<>>, Of("Conflict"))
  BY <1>2, RowShapes, PlainTypes, SMTT(30) DEF Constructors
<1> QED
  BY <1>1, <1>2 DEF ConflictUserNatives

\* So every native method is good, or takes that set.
LEMMA NativesFit == ASSUME NEW m \in NativeMethods PROVE NativeRow(m) \/ ConflictArg(m)
  BY NativeRows, PlainRows, HelpersRows, HelpersRows2, DurationRows, ColorRows, ListenerRows,
     InterfaceRows, FlagRows, LastRows, ReturnRows, ConflictRows
     DEF NativeMethods, TestNatives

\* The calls of ClientInterface.
LEMMA ClientRows == ASSUME NEW m \in ClientCalls PROVE ProxyRow(m)
  BY RowShapes, PlainTypes, SMTT(30) DEF ClientCalls, GivenTypes, TakenTypes, Constructors

\* The calls of ExternInterface2 and of tokens.
LEMMA ExternRows == ASSUME NEW m \in ExternCalls \cup TokenCalls PROVE ProxyRow(m)
  BY RowShapes, PlainTypes, SMTT(30)
     DEF ExternCalls, TokenCalls, TokenMethods, GivenTypes, TakenTypes, Constructors

\* So every call of a JavaProxy is good.
LEMMA ProxiesFit == ASSUME NEW m \in ProxyCalls PROVE ProxyRow(m)
  BY ArrayRows, MapRows, OtherRows, CallbackRows, PlainRows, ClientRows, ExternRows, ColorRows,
     ListenerRows
     DEF ProxyCalls, SupportCalls, TestCalls, ColorCalls, ListenerCalls

\* A record's toCpp() has a reference to spare for each of its fields, and one for the record.
RecordRow(m) ==
    /\ m.interface \in RecordNames
    /\ RecordOf(m.interface).scope \in Nat
    /\ DOMAIN m.args = 1..(RecordOf(m.interface).scope - 1)
    /\ \A i \in DOMAIN m.args : FieldOk(m.args[i])

\* So every toCpp() is good.
LEMMA RecordsFit == ASSUME NEW m \in RecordCalls PROVE RecordRow(m)
<1>1. PICK r \in Records : m \in Row(r.name, {"toCpp"}, r.fields, Of(r.name))
  BY DEF RecordCalls
<1>2. m.interface = r.name /\ m.args = r.fields
  BY <1>1, RowIs
<1>3. FieldOk(ListOf(MapOf(String, I64)))
  BY FieldsOk, LeafTypes
<1>4. \A i \in DOMAIN r.fields : FieldOk(r.fields[i])
  BY <1>3, EveryRowFits, FieldTypesOk DEF RowFits
<1> QED
  BY <1>2, <1>4, EveryRowFits, RecordOfName, RowOfName DEF RecordRow, RowFits

-----------------------------------------------------------------------------
(* The frame *)

\* JniLocalScope counts the fields and the record, but not a walk through a container.
RecordPeak(peak) ==
    LET scope == RecordOf(call.interface).scope IN
    peak <= scope \/ (peak <= scope + 5 /\ \E i \in Arguments : Containing(call.args[i]))

\* What the variables of the glue are.
CallTypes ==
    /\ \/ frame = "JavaProxy" /\ call \in ProxyCalls
       \/ frame = "native" /\ call \in NativeMethods
       \/ frame = "toCpp" /\ call \in RecordCalls
    /\ elements \in Nat /\ returned \in BOOLEAN
    /\ done \subseteq Arguments /\ (returned => done = Arguments)
    /\ localRefs \in Nat /\ most \in Nat

\* which a native method begins.
RefsBounded ==
    LET many == Cardinality(done) IN
    /\ frame = "JavaProxy" => (~ returned => localRefs <= many) /\ most <= 10
    /\ frame = "native" /\ ~ ConflictArg(call) =>
           (~ returned => localRefs <= 3 + many) /\ most <= 16
    /\ frame = "native" /\ ConflictArg(call) =>
           /\ localRefs <= 2 + elements /\ (done = {} => localRefs <= 2)
           /\ most <= 4 + elements
    /\ frame = "toCpp" => (~ returned => localRefs <= many) /\ RecordPeak(most)

\* The inductive invariant.
GlueInv == CallTypes /\ RefsBounded

\* How many arguments have been converted, before and after one more.
LEMMA FewDone ==
  ASSUME NEW k \in Nat, NEW S \in SUBSET (1..k)
  PROVE  /\ Cardinality(S) \in 0..k
         /\ \A i \in (1..k) \ S : /\ Cardinality(S) \in 0..(k - 1)
                                  /\ Cardinality(S \cup {i}) = Cardinality(S) + 1
<1>1. IsFiniteSet(1..k) /\ Cardinality(1..k) = k
  BY FS_Interval
<1>2. ASSUME NEW T \in SUBSET (1..k) PROVE Cardinality(T) \in 0..k /\ IsFiniteSet(T)
  <2>1. IsFiniteSet(T) /\ Cardinality(T) <= Cardinality(1..k)
    BY <1>1, FS_Subset
  <2>2. Cardinality(T) \in Nat
    BY <2>1, FS_CardinalityType
  <2> QED
    BY <1>1, <2>1, <2>2
<1>3. ASSUME NEW i \in (1..k) \ S
      PROVE  Cardinality(S) \in 0..(k - 1) /\ Cardinality(S \cup {i}) = Cardinality(S) + 1
  <2>1. Cardinality(S \cup {i}) = Cardinality(S) + 1
    BY <1>2, FS_AddElement
  <2>2. Cardinality(S \cup {i}) \in 0..k /\ Cardinality(S) \in 0..k
    BY <1>2
  <2> QED
    BY <2>1, <2>2
<1> QED
  BY <1>2, <1>3

\* What one value needs that a call gives.
LEMMA GivenIs ==
  ASSUME NEW t, GivenWithin(t, 8), elements \in Nat
  PROVE  Given(t) \in 0..8 /\ Held(t) \in 0..1 /\ (Held(t) = 0 => Given(t) = 0)
  BY HeldByType DEF Given, GivenWithin

\* What the count of references and its peak are after a conversion.
LEMMA Referred ==
  ASSUME NEW after \in Nat, NEW peak \in Nat, most \in Nat, Refer(after, peak)
  PROVE  /\ localRefs' = after /\ localRefs' \in Nat /\ most' \in Nat
         /\ most' = IF most >= peak THEN most ELSE peak
  BY MaxOfTwo DEF Refer

\* Whatever is called, its row is good.
LEMMA GlueTypesThere ==
  ASSUME GlueInv
  PROVE  /\ frame = "JavaProxy" => ProxyRow(call)
         /\ frame = "native" => NativeRow(call) \/ ConflictArg(call)
         /\ frame = "toCpp" => RecordRow(call)
  BY NativesFit, ProxiesFit, RecordsFit DEF GlueInv, CallTypes

\* A JavaProxy passes an argument: at most two are there already, and eight more for this one.
LEMMA PassArgumentFits == GlueInv /\ PassArgument => GlueInv'
<1> SUFFICES ASSUME GlueInv, frame = "JavaProxy", UNCHANGED <<frame, call, elements, returned>>,
                    NEW i \in Arguments \ done, done' = done \cup {i},
                    Refer(localRefs + Held(call.args[i]), localRefs + Given(call.args[i]))
             PROVE  GlueInv'
  BY DEF PassArgument
<1> DEFINE t == call.args[i]
<1>1. ProxyRow(call)
  BY GlueTypesThere
<1>2. Given(t) \in 0..8 /\ Held(t) \in 0..1
  BY <1>1, GivenIs, GivenTypesFit DEF ProxyRow, GlueInv, CallTypes, Arguments
<1>3. /\ Cardinality(done) \in 0..2 /\ Cardinality(done') = Cardinality(done) + 1
  BY <1>1, FewDone DEF ProxyRow, GlueInv, CallTypes, Arguments
<1> HIDE DEF t
<1>4. /\ localRefs' = localRefs + Held(t) /\ localRefs' \in Nat /\ most' \in Nat
      /\ most' = IF most >= localRefs + Given(t) THEN most ELSE localRefs + Given(t)
  BY <1>2, Referred DEF GlueInv, CallTypes, t
<1>5. CallTypes'
  BY <1>4 DEF GlueInv, CallTypes, Arguments
<1>6. ~ returned /\ localRefs <= Cardinality(done) /\ most <= 10
  BY DEF GlueInv, CallTypes, RefsBounded
<1>7. localRefs' <= Cardinality(done') /\ most' <= 10
  BY <1>2, <1>3, <1>4, <1>6 DEF GlueInv, CallTypes
<1>8. RefsBounded'
  BY <1>7 DEF RefsBounded
<1> QED
  BY <1>5, <1>8 DEF GlueInv

\* What one value leaves and needs that a call takes.
LEMMA TakenIs ==
  ASSUME NEW t, NEW left \in Nat, NEW b \in Nat, TakenWithin(t, left, b), elements \in Nat
  PROVE  Taken(t, elements).left \in 0..left /\ Taken(t, elements).peak \in 0..b
  BY DEF TakenWithin

\* C++ implements the elements of that set.
LEMMA ConflictIsImplemented == "Conflict" \in CppImplemented
<1>1. [interface |-> "Conflict", name |-> "nativeDestroy", args |-> <<>>, ret |-> Void]
      \in ConflictNatives
  BY DEF ConflictNatives, Row
<1> QED
  BY <1>1 DEF CppImplemented, NativeMethods, TestNatives

\* A native method takes an argument: it leaves one, or in the set one for each element.
LEMMA TakeArgumentFits == GlueInv /\ TakeArgument => GlueInv'
<1> SUFFICES ASSUME GlueInv, frame = "native", UNCHANGED <<frame, call, elements, returned>>,
                    NEW i \in Arguments \ done, done' = done \cup {i},
                    Refer(localRefs + Taken(call.args[i], elements).left,
                          localRefs + Taken(call.args[i], elements).peak)
             PROVE  GlueInv'
  BY DEF TakeArgument
<1> DEFINE t == call.args[i]
           left == Taken(t, elements).left
           peak == Taken(t, elements).peak
<1>1. ~ returned /\ elements \in Nat /\ localRefs \in Nat /\ most \in Nat
  BY DEF GlueInv, CallTypes
<1>2. ASSUME left \in Nat, peak \in Nat
      PROVE  /\ CallTypes' /\ localRefs' = localRefs + left
             /\ most' = IF most >= localRefs + peak THEN most ELSE localRefs + peak
  <2> HIDE DEF t, left, peak
  <2>1. /\ localRefs' = localRefs + left /\ localRefs' \in Nat /\ most' \in Nat
        /\ most' = IF most >= localRefs + peak THEN most ELSE localRefs + peak
    <3>1. localRefs + left \in Nat /\ localRefs + peak \in Nat
      BY <1>1, <1>2
    <3>2. Refer(localRefs + left, localRefs + peak)
      BY DEF t, left, peak
    <3> QED
      BY <1>1, <3>1, <3>2, Referred
  <2> QED
    BY <1>1, <2>1 DEF GlueInv, CallTypes, Arguments
<1>3. CASE ~ ConflictArg(call)
  <2>1. NativeRow(call)
    BY <1>3, GlueTypesThere
  <2>2. TakenWithin(t, 1, 5)
    BY <2>1, TakenTypesFit DEF NativeRow, Arguments
  <2>3. left \in 0..1 /\ peak \in 0..5
    BY <1>1, <2>2, TakenIs
  <2>4. Cardinality(done) \in 0..1 /\ Cardinality(done') = Cardinality(done) + 1
    BY <2>1, FewDone DEF NativeRow, GlueInv, CallTypes, Arguments
  <2> HIDE DEF left, peak, t
  <2>5. localRefs <= 3 + Cardinality(done) /\ most <= 16
    BY <1>1, <1>3 DEF GlueInv, RefsBounded
  <2>6. localRefs' <= 3 + Cardinality(done') /\ most' <= 16
    BY <1>1, <1>2, <2>3, <2>4, <2>5
  <2>7. RefsBounded'
    BY <1>3, <2>6 DEF RefsBounded
  <2> QED
    BY <1>2, <2>3, <2>7 DEF GlueInv
<1>4. CASE ConflictArg(call)
  <2>1. Arguments = 1..1 /\ call.args[1] = SetOf(Of("Conflict"))
    BY <1>4 DEF ConflictArg, Arguments
  <2>2. i = 1 /\ done = {}
    BY <2>1 DEF GlueInv, CallTypes
  <2>3. Plain(Of("Conflict")) /\ Of("Conflict").name \in CppImplemented
    BY ConflictIsImplemented DEF Plain, Of, Constructors
  <2>4. left = elements /\ peak \in 0..(elements + 2)
    BY <1>1, <2>1, <2>2, <2>3, TakenOfObjects
  <2> HIDE DEF left, peak, t
  <2>5. localRefs <= 2 /\ most <= 4 + elements
    BY <1>4, <2>2 DEF GlueInv, RefsBounded
  <2>6. left \in Nat /\ peak \in Nat /\ peak <= elements + 2
    BY <1>1, <2>4
  <2>7. localRefs' = localRefs + left
        /\ most' = IF most >= localRefs + peak THEN most ELSE localRefs + peak
    BY <1>2, <2>6
  <2>8. localRefs' <= 2 + elements /\ most' <= 4 + elements
    BY <1>1, <2>4, <2>5, <2>6, <2>7
  <2>9. RefsBounded'
    BY <1>4, <2>2, <2>8 DEF RefsBounded
  <2> QED
    BY <1>2, <2>6, <2>9 DEF GlueInv
<1> QED
  BY <1>3, <1>4

\* A record's toCpp() takes a field: a reference for the field, and a walk through a container.
LEMMA TakeFieldFits == GlueInv /\ TakeField => GlueInv'
<1> SUFFICES ASSUME GlueInv, frame = "toCpp", UNCHANGED <<frame, call, elements, returned>>,
                    NEW i \in Arguments \ done, done' = done \cup {i},
                    LET taken == Taken(call.args[i], elements)
                        field == localRefs + Held(call.args[i])
                    IN  Refer(field + taken.left, field + taken.peak)
             PROVE  GlueInv'
  BY DEF TakeField
<1> DEFINE t == call.args[i]
           left == Taken(t, elements).left
           peak == Taken(t, elements).peak
           own == Held(t)
           scope == RecordOf(call.interface).scope
<1>1. ~ returned /\ elements \in Nat /\ localRefs \in Nat /\ most \in Nat
  BY DEF GlueInv, CallTypes
<1>2. RecordRow(call) /\ FieldOk(t)
  BY GlueTypesThere DEF RecordRow, Arguments
<1>3. /\ left = 0 /\ peak \in 0..6 /\ own \in 0..1
      /\ peak = 0 \/ \E k \in Arguments : Containing(call.args[k])
  <2>1. left \in 0..0 /\ peak \in 0..6
    BY <1>1, <1>2, TakenIs DEF FieldOk
  <2>2. CASE Containing(t)
    BY <2>1, <2>2, HeldByType
  <2>3. CASE TakenWithin(t, 0, 0)
    <3>1. peak \in 0..0
      BY <1>1, <2>3, TakenIs
    <3> QED
      BY <2>1, <3>1, HeldByType
  <2> QED
    BY <1>2, <2>2, <2>3 DEF FieldOk
<1>4. /\ scope \in Nat /\ Cardinality(done) \in 0..(scope - 2)
      /\ Cardinality(done') = Cardinality(done) + 1
  <2>1. scope \in Nat /\ Arguments = 1..(scope - 1) /\ i \in 1..(scope - 1)
    BY <1>2 DEF RecordRow, Arguments
  <2> DEFINE k == scope - 1
  <2>2. k \in Nat /\ done \in SUBSET (1..k) /\ i \in (1..k) \ done
    BY <2>1 DEF GlueInv, CallTypes
  <2> HIDE DEF k
  <2>3. Cardinality(done) \in 0..(k - 1) /\ Cardinality(done') = Cardinality(done) + 1
    BY <2>2, FewDone
  <2> QED
    BY <2>1, <2>3 DEF k
<1>5. localRefs <= Cardinality(done) /\ RecordPeak(most)
  BY <1>1 DEF GlueInv, RefsBounded
<1> HIDE DEF left, peak, own
<1>6. /\ localRefs' = localRefs + own + left /\ localRefs' \in Nat /\ most' \in Nat
      /\ most' = IF most >= localRefs + own + peak THEN most ELSE localRefs + own + peak
  BY <1>1, <1>3, Referred DEF left, peak, own
<1>7. CallTypes'
  BY <1>6 DEF GlueInv, CallTypes, Arguments
<1>8. localRefs' <= Cardinality(done')
  BY <1>1, <1>3, <1>4, <1>5, <1>6
<1>9. RecordPeak(most)'
  <2>1. localRefs + own + peak <= scope - 1 + peak
    BY <1>1, <1>3, <1>4, <1>5
  <2> QED
    BY <1>1, <1>3, <1>4, <1>5, <1>6, <2>1 DEF RecordPeak, Arguments
<1>10. RefsBounded'
  BY <1>8, <1>9 DEF RefsBounded
<1> QED
  BY <1>7, <1>10 DEF GlueInv

\* A JavaProxy takes the result, after the references of the arguments have gone.
LEMMA TakeResultFits == GlueInv /\ TakeResult => GlueInv'
<1> SUFFICES ASSUME GlueInv, frame = "JavaProxy", UNCHANGED <<frame, call, elements, done>>,
                    done = Arguments, ~ returned, returned' = TRUE,
                    LET taken == Taken(call.ret, elements)
                        result == Held(call.ret)
                    IN  Refer(result + taken.left, Max({localRefs + result, result + taken.peak}))
             PROVE  GlueInv'
  BY DEF TakeResult
<1> DEFINE left == Taken(call.ret, elements).left
           peak == Taken(call.ret, elements).peak
           result == Held(call.ret)
           top == Max({localRefs + result, result + peak})
<1>1. elements \in Nat /\ localRefs \in Nat /\ most \in Nat
  BY DEF GlueInv, CallTypes
<1>2. ProxyRow(call)
  BY GlueTypesThere
<1>3. left \in 0..1 /\ peak \in 0..5 /\ result \in 0..1
  <2>1. TakenWithin(call.ret, 1, 5)
    BY <1>2, TakenTypesFit DEF ProxyRow
  <2> QED
    BY <1>1, <2>1, TakenIs, HeldByType
<1>4. Cardinality(done) \in 0..3
  BY <1>2, FewDone DEF ProxyRow, GlueInv, CallTypes, Arguments
<1>5. localRefs <= Cardinality(done) /\ most <= 10
  BY DEF GlueInv, RefsBounded
<1>6. Refer(result + left, top)
  OBVIOUS
<1> HIDE DEF left, peak, result
<1>7. top = IF localRefs + result >= result + peak THEN localRefs + result ELSE result + peak
  BY <1>1, <1>3, MaxOfTwo
<1> HIDE DEF top
<1>8. top \in 0..6 /\ result + left \in Nat
  BY <1>1, <1>3, <1>4, <1>5, <1>7
<1>9. localRefs' \in Nat /\ most' \in Nat /\ most' <= 10
  BY <1>1, <1>5, <1>6, <1>8, Referred
<1>10. CallTypes'
  BY <1>9 DEF GlueInv, CallTypes, Arguments
<1>11. RefsBounded'
  BY <1>9 DEF RefsBounded
<1> QED
  BY <1>10, <1>11 DEF GlueInv

\* A native method gives the result: five are there already, and eight more.
LEMMA GiveResultFits == GlueInv /\ GiveResult => GlueInv'
<1> SUFFICES ASSUME GlueInv, frame = "native", UNCHANGED <<frame, call, elements, done>>,
                    done = Arguments, ~ returned, returned' = TRUE,
                    Refer(localRefs + Held(call.ret), localRefs + Given(call.ret))
             PROVE  GlueInv'
  BY DEF GiveResult
<1> DEFINE own == Held(call.ret)
           given == Given(call.ret)
<1>1. elements \in Nat /\ localRefs \in Nat /\ most \in Nat
  BY DEF GlueInv, CallTypes
<1>2. ASSUME own \in 0..1, given \in 0..8
      PROVE  /\ CallTypes' /\ localRefs' = localRefs + own
             /\ most' = IF most >= localRefs + given THEN most ELSE localRefs + given
  <2>1. Refer(localRefs + own, localRefs + given)
    OBVIOUS
  <2> HIDE DEF own, given
  <2>2. localRefs + own \in Nat /\ localRefs + given \in Nat
    BY <1>1, <1>2
  <2>3. /\ localRefs' = localRefs + own /\ localRefs' \in Nat /\ most' \in Nat
        /\ most' = IF most >= localRefs + given THEN most ELSE localRefs + given
    BY <1>1, <2>1, <2>2, Referred
  <2> QED
    BY <2>3 DEF GlueInv, CallTypes, Arguments
<1>3. CASE ~ ConflictArg(call)
  <2>1. NativeRow(call)
    BY <1>3, GlueTypesThere
  <2>2. given \in 0..8 /\ own \in 0..1
    BY <1>1, <2>1, GivenTypesFit, GivenIs DEF NativeRow
  <2>3. Cardinality(done) \in 0..2
    BY <2>1, FewDone DEF NativeRow, GlueInv, CallTypes, Arguments
  <2>4. localRefs <= 3 + Cardinality(done) /\ most <= 16
    BY <1>3 DEF GlueInv, RefsBounded
  <2> HIDE DEF own, given
  <2>5. most' <= 16
    BY <1>1, <1>2, <2>2, <2>3, <2>4
  <2>6. RefsBounded'
    BY <1>3, <2>5 DEF RefsBounded
  <2> QED
    BY <1>2, <2>2, <2>6 DEF GlueInv
<1>4. CASE ConflictArg(call)
  <2>1. own = 0 /\ given = 0
    BY <1>4, HeldByType DEF ConflictArg, Given
  <2>2. localRefs <= 2 + elements /\ most <= 4 + elements /\ (done = {} => localRefs <= 2)
    BY <1>4 DEF GlueInv, RefsBounded
  <2> HIDE DEF own, given
  <2>3. localRefs' = localRefs /\ most' <= 4 + elements
    BY <1>1, <1>2, <2>1, <2>2
  <2>4. RefsBounded'
    BY <1>4, <2>2, <2>3 DEF RefsBounded
  <2> QED
    BY <1>2, <2>1, <2>4 DEF GlueInv
<1> QED
  BY <1>3, <1>4

\* A record's frame is popped.
LEMMA PopFrameFits == GlueInv /\ PopFrame => GlueInv'
<1> SUFFICES ASSUME GlueInv, frame = "toCpp", UNCHANGED <<frame, call, elements, done>>,
                    done = Arguments, ~ returned, returned' = TRUE, Refer(0, localRefs)
             PROVE  GlueInv'
  BY DEF PopFrame
<1>1. localRefs \in Nat /\ most \in Nat /\ RecordRow(call)
  BY GlueTypesThere DEF GlueInv, CallTypes
<1>2. /\ localRefs' = 0 /\ most' \in Nat
      /\ most' = IF most >= localRefs THEN most ELSE localRefs
  BY <1>1, Referred
<1>3. localRefs <= Cardinality(done) /\ RecordPeak(most)
  BY DEF GlueInv, RefsBounded
<1>4. localRefs <= RecordOf(call.interface).scope
  <2> DEFINE scope == RecordOf(call.interface).scope
             k == IF scope = 0 THEN 0 ELSE scope - 1
  <2>1. scope \in Nat /\ k \in Nat /\ k <= scope /\ Arguments = 1..(scope - 1)
    BY <1>1 DEF RecordRow, Arguments
  <2>2. Arguments = 1..k
    BY <2>1
  <2> HIDE DEF k, scope
  <2>3. Cardinality(done) \in 0..k
    BY <2>1, <2>2, FewDone DEF GlueInv, CallTypes
  <2> QED
    BY <1>1, <1>3, <2>1, <2>3 DEF scope
<1>5. RecordPeak(most)'
  <2>1. CASE most' = most
    BY <1>3, <2>1 DEF RecordPeak, Arguments
  <2>2. CASE most' = localRefs
    BY <1>4, <2>2 DEF RecordPeak
  <2> QED
    BY <1>2, <2>1, <2>2
<1>6. RefsBounded'
  BY <1>5 DEF RefsBounded
<1>7. CallTypes'
  BY <1>2 DEF GlueInv, CallTypes, Arguments
<1> QED
  BY <1>6, <1>7 DEF GlueInv

\* A native method starts with at most two arguments and `this'.
LEMMA GlueStarts == GlueInit => GlueInv
<1> SUFFICES ASSUME GlueInit PROVE GlueInv
  OBVIOUS
<1>1. /\ done = {} /\ returned = FALSE /\ elements \in Nat /\ Cardinality(done) = 0
      /\ most = localRefs
  BY SizesAssumption, FS_EmptySet DEF GlueInit
<1>2. ASSUME localRefs \in Nat PROVE CallTypes
  BY <1>1, <1>2 DEF GlueInit, CallTypes
<1>3. CASE frame = "native"
  <2>1. /\ call \in NativeMethods /\ localRefs = 1 + HeldOf(call.args, Arguments)
        /\ 1 \in Nat /\ 1 <= 1 /\ 2 \in Nat /\ 1 <= 2
    BY <1>3 DEF GlueInit
  <2>2. CASE ~ ConflictArg(call)
    <3>1. \A i \in Arguments : i \in 1..2
      BY <2>1, <2>2, NativesFit DEF NativeRow, Arguments
    <3>2. HeldOf(call.args, Arguments) \in 0..2
      BY <2>1, <3>1, HeldUpTo, Zenon
    <3>3. localRefs \in Nat /\ localRefs <= 3
      BY <2>1, <3>2
    <3>4. RefsBounded
      BY <1>1, <1>3, <2>2, <3>3 DEF RefsBounded
    <3> QED
      BY <1>2, <3>3, <3>4 DEF GlueInv
  <2>3. CASE ConflictArg(call)
    <3>1. \A i \in Arguments : i \in 1..1
      BY <2>3 DEF ConflictArg, Arguments
    <3>2. HeldOf(call.args, Arguments) \in 0..1
      BY <2>1, <3>1, HeldUpTo, Zenon
    <3>3. localRefs \in Nat /\ localRefs <= 2
      BY <2>1, <3>2
    <3>4. RefsBounded
      BY <1>1, <1>3, <2>3, <3>3 DEF RefsBounded
    <3> QED
      BY <1>2, <3>3, <3>4 DEF GlueInv
  <2> QED
    BY <2>2, <2>3
<1>4. CASE frame = "JavaProxy"
  <2>1. localRefs = 0
    BY <1>4 DEF GlueInit
  <2>2. RefsBounded
    BY <1>1, <1>4, <2>1 DEF RefsBounded
  <2> QED
    BY <1>2, <2>1, <2>2 DEF GlueInv
<1>5. CASE frame = "toCpp"
  <2>1. localRefs = 0 /\ RecordOf(call.interface).scope \in Nat
    BY <1>5, RecordsFit DEF GlueInit, RecordRow
  <2>2. RefsBounded
    BY <1>1, <1>5, <2>1 DEF RefsBounded, RecordPeak
  <2> QED
    BY <1>2, <2>1, <2>2 DEF GlueInv
<1> QED
  BY <1>3, <1>4, <1>5 DEF GlueInit

\* Every step keeps the invariant.
LEMMA GlueSteps == GlueInv /\ [GlueNext]_glueVars => GlueInv'
<1>1. ASSUME GlueInv, UNCHANGED glueVars PROVE GlueInv'
  BY <1>1 DEF GlueInv, CallTypes, RefsBounded, RecordPeak, Arguments, glueVars
<1> QED
  BY <1>1, PassArgumentFits, TakeArgumentFits, TakeFieldFits, TakeResultFits, GiveResultFits,
     PopFrameFits
     DEF GlueNext

\* The invariant is as much as is promised.
LEMMA GlueInvFits == GlueInv => FrameFits
<1> SUFFICES ASSUME GlueInv PROVE FrameFits
  OBVIOUS
<1>1. most \in Nat /\ elements \in Nat
  BY DEF GlueInv, CallTypes
<1>2. CASE frame = "JavaProxy"
  BY <1>2 DEF GlueInv, RefsBounded, FrameFits, Capacity
<1>3. CASE frame = "native" /\ ~ ConflictArg(call)
  BY <1>3 DEF GlueInv, RefsBounded, FrameFits, Capacity
<1>4. CASE frame = "native" /\ ConflictArg(call)
  <2>1. most <= 16 + elements
    BY <1>1, <1>4 DEF GlueInv, RefsBounded
  <2>2. 1 \in Arguments /\ call.args[1] = SetOf(Of("Conflict"))
    BY <1>4 DEF ConflictArg, Arguments
  <2>3. Plain(Of("Conflict")) /\ Of("Conflict").name \in CppImplemented
    BY ConflictIsImplemented DEF Plain, Of, Constructors
  <2>4. Taken(SetOf(Of("Conflict")), 1).left = 1
    BY <2>3, TakenOfObjects
  <2>5. Containing(SetOf(Of("Conflict")))
    BY NamesOfContainers DEF Containing
  <2>6. LeavesOneEach
    BY <1>4, <2>2, <2>4, <2>5 DEF LeavesOneEach
  <2> QED
    BY <1>4, <2>1, <2>6 DEF FrameFits, Capacity
<1>5. CASE frame = "toCpp"
  BY <1>1, <1>5 DEF GlueInv, RefsBounded, RecordPeak, FrameFits, Capacity
<1> QED
  BY <1>2, <1>3, <1>4, <1>5 DEF GlueInv, CallTypes

\* No generated call needs more local references than its frame has room for, with the two
\* exceptions that FrameFits names, however large the containers are.
THEOREM CallsFitTheirFrames == GlueSpec => []FrameFits
<1>1. GlueInit => GlueInv
  BY GlueStarts
<1>2. GlueInv /\ [GlueNext]_glueVars => GlueInv'
  BY GlueSteps
<1>3. GlueInv => FrameFits
  BY GlueInvFits
<1> QED
  BY <1>1, <1>2, <1>3, PTL DEF GlueSpec

-----------------------------------------------------------------------------
(* The signatures *)

\* A call in the terms of the signature under which its method is looked up.
AsLookedUp(m) ==
    [m EXCEPT !.args = [i \in DOMAIN m.args |-> CodeOf(m.args[i])], !.ret = CodeOf(m.ret)]

\* A row of methods, in those terms.
LEMMA RowAgrees ==
  ASSUME NEW i, NEW names, NEW args, NEW ret, NEW m \in Row(i, names, args, ret),
         NEW all, names \subseteq all, NEW codes, NEW code,
         codes = [k \in DOMAIN args |-> CodeOf(args[k])], code = CodeOf(ret)
  PROVE  AsLookedUp(m) \in Row(i, all, codes, code)
<1>1. PICK n \in names : m = [interface |-> i, name |-> n, args |-> args, ret |-> ret]
  BY DEF Row
<1>2. m.args = args /\ m.ret = ret
  BY <1>1
<1>3. AsLookedUp(m) = [m EXCEPT !.args = codes, !.ret = code]
  BY <1>2 DEF AsLookedUp
<1>4. AsLookedUp(m) = [interface |-> i, name |-> n, args |-> codes, ret |-> code]
  BY <1>1, <1>3
<1> QED
  BY <1>1, <1>4 DEF Row

\* A row without arguments.
LEMMA NoArgumentAgrees ==
  ASSUME NEW i, NEW names, NEW ret, NEW m \in Row(i, names, <<>>, ret)
  PROVE  AsLookedUp(m) \in Row(i, names, <<>>, CodeOf(ret))
<1>1. <<>> = [k \in DOMAIN <<>> |-> CodeOf(<<>>[k])]
  OBVIOUS
<1> QED
  BY <1>1, RowAgrees, Zenon

\* A row of one argument.
LEMMA OneArgumentAgrees ==
  ASSUME NEW i, NEW names, NEW a, NEW ret, NEW m \in Row(i, names, <<a>>, ret)
  PROVE  AsLookedUp(m) \in Row(i, names, <<CodeOf(a)>>, CodeOf(ret))
<1>1. <<CodeOf(a)>> = [k \in DOMAIN <<a>> |-> CodeOf(<<a>>[k])]
  OBVIOUS
<1> QED
  BY <1>1, RowAgrees, Zenon

\* A row of two arguments.
LEMMA TwoArgumentsAgree ==
  ASSUME NEW i, NEW names, NEW a, NEW b, NEW ret, NEW m \in Row(i, names, <<a, b>>, ret)
  PROVE  AsLookedUp(m) \in Row(i, names, <<CodeOf(a), CodeOf(b)>>, CodeOf(ret))
<1>1. <<CodeOf(a), CodeOf(b)>> = [k \in DOMAIN <<a, b>> |-> CodeOf(<<a, b>>[k])]
  OBVIOUS
<1> QED
  BY <1>1, RowAgrees, Zenon

\* A row of plain names without arguments.
LEMMA NoNameAgrees ==
  ASSUME NEW i, NEW names, NEW ret, NEW m \in Calls(i, names, <<>>, ret)
  PROVE  AsLookedUp(m) \in Row(i, names, <<>>, CodeOf(Of(ret)))
<1>1. [k \in DOMAIN <<>> |-> Of(<<>>[k])] = <<>>
  OBVIOUS
<1>2. Calls(i, names, <<>>, ret) = Row(i, names, <<>>, Of(ret))
  BY <1>1 DEF Calls
<1> QED
  BY <1>2, NoArgumentAgrees

\* A row of plain names with one argument.
LEMMA OneNameAgrees ==
  ASSUME NEW i, NEW names, NEW a, NEW ret, NEW m \in Calls(i, names, <<a>>, ret)
  PROVE  AsLookedUp(m) \in Row(i, names, <<CodeOf(Of(a))>>, CodeOf(Of(ret)))
<1>1. [k \in DOMAIN <<a>> |-> Of(<<a>>[k])] = <<Of(a)>>
  OBVIOUS
<1>2. Calls(i, names, <<a>>, ret) = Row(i, names, <<Of(a)>>, Of(ret))
  BY <1>1 DEF Calls
<1> QED
  BY <1>2, OneArgumentAgrees

\* A row of plain names with two arguments.
LEMMA TwoNamesAgree ==
  ASSUME NEW i, NEW names, NEW a, NEW b, NEW ret, NEW m \in Calls(i, names, <<a, b>>, ret)
  PROVE  AsLookedUp(m) \in Row(i, names, <<CodeOf(Of(a)), CodeOf(Of(b))>>, CodeOf(Of(ret)))
<1>1. [k \in DOMAIN <<a, b>> |-> Of(<<a, b>>[k])] = <<Of(a), Of(b)>>
  OBVIOUS
<1>2. Calls(i, names, <<a, b>>, ret) = Row(i, names, <<Of(a), Of(b)>>, Of(ret))
  BY <1>1 DEF Calls
<1> QED
  BY <1>2, TwoArgumentsAgree

\* The codes of plain names.
LEMMA CodesOfNames ==
  /\ CodeOf(Of("Bool")) = "Z" /\ CodeOf(Of("I32")) = "I" /\ CodeOf(Of("F64")) = "D"
  /\ CodeOf(Of("Void")) = "V" /\ CodeOf(Of("String")) = "String"
  /\ CodeOf(Of("Array")) = "Array" /\ CodeOf(Of("Map")) = "Map" /\ CodeOf(Of("Object")) = "Object"
  /\ CodeOf(Of("Type")) = "Type" /\ CodeOf(Of("KeyIterator")) = "KeyIterator"
  /\ CodeOf(Of("JobQueue")) = "JobQueue" /\ CodeOf(Of("JobDispatcher")) = "JobDispatcher"
  BY SMT DEF CodeOf, Code, Codes, Of

\* The codes of the other types in the calls of JavaProxies.
LEMMA CodesOfTypes ==
  /\ CodeOf(I64) = "J" /\ CodeOf(I32) = "I" /\ CodeOf(F64) = "D" /\ CodeOf(Void) = "V"
  /\ CodeOf(String) = "String" /\ CodeOf(Binary) = "[B" /\ CodeOf(Opt(String)) = "String"
  /\ CodeOf(Of("ClientInterface")) = "ClientInterface"
  /\ CodeOf(Opt(Of("ClientInterface"))) = "ClientInterface"
  /\ CodeOf(Of("ClientReturnedRecord")) = "ClientReturnedRecord"
  /\ CodeOf(Of("TestHelpers")) = "TestHelpers"
  /\ CodeOf(Of("ExternRecordWithDerivings")) = "ExternRecordWithDerivings"
  /\ CodeOf(Of("ObjcOnlyListener")) = "ObjcOnlyListener"
  /\ CodeOf(Of("JavaOnlyListener")) = "JavaOnlyListener"
  /\ CodeOf(Of("Color")) = "Color" /\ CodeOf(Opt(Of("Color"))) = "Color"
  /\ \A e : CodeOf(ListOf(e)) = "ArrayList" /\ CodeOf(SetOf(e)) = "HashSet"
  /\ \A k, e : CodeOf(MapOf(k, e)) = "HashMap"
  BY SMT DEF CodeOf, Code, BoxedCode, Codes, BoxedCodes, Of, OfParts, Opt, ListOf, SetOf, MapOf,
             I64, I32, F64, Void, String, Binary

\* JavascriptArray: what reads.
LEMMA ArrayGettersAgree == ASSUME NEW m \in ArrayGetters PROVE AsLookedUp(m) \in ArrayLookups
  BY NoNameAgrees, OneNameAgrees, CodesOfNames, SMT DEF ArrayGetters, ArrayLookups

\* JavascriptArray: what writes.
LEMMA ArrayPushersAgree == ASSUME NEW m \in ArrayPushers PROVE AsLookedUp(m) \in ArrayLookups
<1>1. CASE m \in Calls("Array", {"pushNull"}, <<>>, "Void")
  <2>1. AsLookedUp(m) \in Row("Array", {"pushNull"}, <<>>, "V")
    BY <1>1, NoNameAgrees, CodesOfNames, SMT
  <2> QED
    BY <2>1, SMT DEF ArrayLookups
<1>2. CASE m \notin Calls("Array", {"pushNull"}, <<>>, "Void")
  <2> DEFINE Pushing(name, arg) == Calls("Array", {name}, <<arg>>, "Void")
             Push(name, code) == Row("Array", {name}, <<code>>, "V")
  <2>1. m \in UNION {Pushing("pushBoolean", "Bool"), Pushing("pushDouble", "F64"),
                     Pushing("pushInt", "I32"), Pushing("pushString", "String"),
                     Pushing("pushArray", "Array"), Pushing("pushMap", "Map"),
                     Pushing("pushObject", "Object"), Pushing("append", "Array")}
    BY <1>2, SMT DEF ArrayPushers
  <2>2. AsLookedUp(m) \in
          UNION {Push("pushBoolean", "Z"), Push("pushDouble", "D"), Push("pushInt", "I"),
                 Push("pushString", "String"), Push("pushArray", "Array"), Push("pushMap", "Map"),
                 Push("pushObject", "Object"), Push("append", "Array")}
    BY <2>1, OneNameAgrees, CodesOfNames, SMT
  <2> QED
    BY <2>2, SMT DEF ArrayLookups
<1> QED
  BY <1>1, <1>2

\* JavascriptMap: what reads.
LEMMA MapGettersAgree == ASSUME NEW m \in MapGetters PROVE AsLookedUp(m) \in MapLookups
  BY NoNameAgrees, OneNameAgrees, CodesOfNames, SMT DEF MapGetters, MapLookups

\* JavascriptMap: what writes.
LEMMA MapPuttersAgree == ASSUME NEW m \in MapPutters PROVE AsLookedUp(m) \in MapLookups
  BY OneNameAgrees, TwoNamesAgree, CodesOfNames, SMT DEF MapPutters, MapLookups

\* JavascriptMapKeyIterator.
LEMMA KeysAgree == ASSUME NEW m \in KeyIteratorCalls PROVE AsLookedUp(m) \in KeyIteratorLookups
  BY NoNameAgrees, CodesOfNames, SMT DEF KeyIteratorCalls, KeyIteratorLookups

\* JavascriptCallback.
LEMMA CallbacksAgree == ASSUME NEW m \in CallbackCalls PROVE AsLookedUp(m) \in CallbackLookups
<1>1. CASE m \in Row("Callback", {"invoke"}, <<ListOf(Of("Object"))>>, Void)
  <2>1. AsLookedUp(m) \in Row("Callback", {"invoke"}, <<"ArrayList">>, "V")
    BY <1>1, OneArgumentAgrees, CodesOfTypes, SMT
  <2> QED
    BY <2>1, SMT DEF CallbackLookups
<1>2. CASE m \in Calls("Callback", {"invokeSingleArg"}, <<"Object">>, "Void")
  <2>1. AsLookedUp(m) \in Row("Callback", {"invokeSingleArg"}, <<"Object">>, "V")
    BY <1>2, OneNameAgrees, CodesOfNames, SMT
  <2> QED
    BY <2>1, SMT DEF CallbackLookups
<1> QED
  BY <1>1, <1>2 DEF CallbackCalls

\* JavascriptPromise.
LEMMA PromisesAgree == ASSUME NEW m \in PromiseCalls PROVE AsLookedUp(m) \in PromiseLookups
  BY NoNameAgrees, OneNameAgrees, TwoNamesAgree, CodesOfNames, SMT
     DEF PromiseCalls, PromiseLookups

\* JobDispatcher.
LEMMA DispatchersAgree ==
  ASSUME NEW m \in DispatcherCalls
  PROVE  AsLookedUp(m) \in DispatcherLookups
  BY NoNameAgrees, CodesOfNames, SMT DEF DispatcherCalls, DispatcherLookups

\* ReactBridge.
LEMMA BridgesAgree == ASSUME NEW m \in BridgeCalls PROVE AsLookedUp(m) \in BridgeLookups
<1>1. CASE \/ m \in Calls("Bridge", {"createMap"}, <<>>, "Map")
           \/ m \in Calls("Bridge", {"createArray"}, <<>>, "Array")
  BY <1>1, NoNameAgrees, CodesOfNames, SMT DEF BridgeLookups
<1>2. CASE \/ m \in Calls("Bridge", {"emitEventWithMap"}, <<"String", "Map">>, "Void")
           \/ m \in Calls("Bridge", {"emitEventWithArray"}, <<"String", "Array">>, "Void")
  BY <1>2, TwoNamesAgree, CodesOfNames, SMT DEF BridgeLookups
<1>3. CASE \/ m \in Calls("Bridge", {"copyMap"}, <<"Map">>, "Map")
           \/ m \in Calls("Bridge", {"copyArray"}, <<"Array">>, "Array")
           \/ m \in Calls("Bridge", {"createJobDispatcher"}, <<"JobQueue">>, "JobDispatcher")
  BY <1>3, OneNameAgrees, CodesOfNames, SMT DEF BridgeLookups
<1> QED
  BY <1>1, <1>2, <1>3, SMT DEF BridgeCalls

\* A row of three arguments.
LEMMA ThreeArgumentsAgree ==
  ASSUME NEW i, NEW names, NEW a, NEW b, NEW c, NEW ret,
         NEW m \in Row(i, names, <<a, b, c>>, ret)
  PROVE  AsLookedUp(m) \in Row(i, names, <<CodeOf(a), CodeOf(b), CodeOf(c)>>, CodeOf(ret))
<1>1. <<CodeOf(a), CodeOf(b), CodeOf(c)>> = [k \in DOMAIN <<a, b, c>> |-> CodeOf(<<a, b, c>>[k])]
  OBVIOUS
<1> QED
  BY <1>1, RowAgrees, Zenon

\* ClientInterface.
LEMMA ClientsAgree == ASSUME NEW m \in ClientCalls PROVE AsLookedUp(m) \in ClientLookups
  BY NoArgumentAgrees, OneArgumentAgrees, ThreeArgumentsAgree, CodesOfTypes, SMT
     DEF ClientCalls, ClientLookups

\* EnumUsageInterface, whose optional colors have the code of colors.
LEMMA ColorsAgree == ASSUME NEW m \in ColorCalls PROVE AsLookedUp(m) \in ColorLookups
<1> DEFINE Echo(name, type) == Row("EnumUsageInterface", {name}, <<type>>, type)
<1>1. \A name, code, x :
         x \in Row("EnumUsageInterface", {name}, <<code>>, code) /\ name \in {"e", "o"} =>
         x \in Row("EnumUsageInterface", {"e", "o"}, <<code>>, code)
  BY DEF Row
<1>2. CASE m \in Echo("e", Of("Color"))
  <2>1. AsLookedUp(m) \in Row("EnumUsageInterface", {"e"}, <<"Color">>, "Color")
    BY <1>2, OneArgumentAgrees, CodesOfTypes, SMT
  <2> QED
    BY <1>1, <2>1, SMT DEF ColorLookups
<1>3. CASE m \in Echo("o", Opt(Of("Color")))
  <2>1. AsLookedUp(m) \in Row("EnumUsageInterface", {"o"}, <<"Color">>, "Color")
    BY <1>3, OneArgumentAgrees, CodesOfTypes, SMT
  <2> QED
    BY <1>1, <2>1, SMT DEF ColorLookups
<1>4. CASE m \in Echo("l", ListOf(Of("Color")))
  BY <1>4, OneArgumentAgrees, CodesOfTypes, SMT DEF ColorLookups
<1>5. CASE m \in Echo("s", SetOf(Of("Color")))
  BY <1>5, OneArgumentAgrees, CodesOfTypes, SMT DEF ColorLookups
<1>6. CASE m \in Echo("m", MapOf(Of("Color"), Of("Color")))
  BY <1>6, OneArgumentAgrees, CodesOfTypes, SMT DEF ColorLookups
<1> QED
  BY <1>2, <1>3, <1>4, <1>5, <1>6 DEF ColorCalls, ColorMethods

\* ExternInterface2.
LEMMA ExternsAgree == ASSUME NEW m \in ExternCalls PROVE AsLookedUp(m) \in ExternLookups
  BY OneArgumentAgrees, CodesOfTypes, SMT DEF ExternCalls, ExternLookups

\* UserToken.
LEMMA TokensAgree == ASSUME NEW m \in TokenCalls PROVE AsLookedUp(m) \in TokenLookups
  BY NoArgumentAgrees, CodesOfTypes, SMT DEF TokenCalls, TokenMethods, TokenLookups

\* UsesSingleLanguageListeners.
LEMMA ListenersAgree == ASSUME NEW m \in ListenerCalls PROVE AsLookedUp(m) \in ListenerLookups
  BY NoArgumentAgrees, OneArgumentAgrees, CodesOfTypes, SMT
     DEF ListenerCalls, ListenerMethods, ListenerLookups

\* The codes of the other types in records.
LEMMA CodesOfFields ==
  /\ CodeOf(Bool) = "Z" /\ CodeOf(I8) = "B" /\ CodeOf(I16) = "S" /\ CodeOf(F32) = "F"
  /\ CodeOf(Opt(Bool)) = "Boolean" /\ CodeOf(Opt(I8)) = "Byte" /\ CodeOf(Opt(I16)) = "Short"
  /\ CodeOf(Opt(I32)) = "Integer" /\ CodeOf(Opt(I64)) = "Long" /\ CodeOf(Opt(F32)) = "Float"
  /\ CodeOf(Opt(F64)) = "Double" /\ CodeOf(WString) = "String" /\ CodeOf(Date) = "Date"
  /\ CodeOf(Of("AccessFlags")) = "EnumSet" /\ \A rep : CodeOf(Duration(rep)) = "Duration"
  /\ CodeOf(Of("RecordWithDerivings")) = "RecordWithDerivings"
  /\ CodeOf(Of("ExtendedRecord")) = "ExtendedRecord"
  BY SMT
     DEF CodeOf, Code, BoxedCode, Codes, BoxedCodes, Of, OfParts, Opt, Bool, I8, I16, I32, I64,
             F32, F64, WString, Date, Duration

\* A record's constructor and fields are looked up by the codes of its fields.
RecordAgrees(r) == Lookup(r.name, [i \in DOMAIN r.fields |-> CodeOf(r.fields[i])]) \in RecordLookups

\* So they are in each of the generated classes.
LEMMA RecordsAgree == ASSUME NEW r \in Records PROVE RecordAgrees(r)
<1>1. RecordAgrees(AssortedPrimitivesFields)
  BY CodesOfTypes, CodesOfFields, SMT
     DEF RecordAgrees, AssortedPrimitivesFields, AssortedPrimitivesIds, Record, Lookup,
         RecordLookups
<1>2. RecordAgrees(ClientReturnedRecordFields)
  BY CodesOfTypes, CodesOfFields, SMT
     DEF RecordAgrees, ClientReturnedRecordFields, ClientReturnedRecordIds, Record, Lookup,
         RecordLookups
<1>3. RecordAgrees(ConstantRecordFields)
  BY CodesOfTypes, CodesOfFields, SMT
     DEF RecordAgrees, ConstantRecordFields, ConstantRecordIds, Record, Lookup, RecordLookups
<1>4. RecordAgrees(ConstantsFields)
  BY CodesOfTypes, CodesOfFields, SMT
     DEF RecordAgrees, ConstantsFields, ConstantsIds, Record, Lookup, RecordLookups
<1>5. RecordAgrees(DateRecordFields)
  BY CodesOfTypes, CodesOfFields, SMT
     DEF RecordAgrees, DateRecordFields, DateRecordIds, Record, Lookup, RecordLookups
<1>6. RecordAgrees(EmptyRecordFields)
  BY CodesOfTypes, CodesOfFields, SMT
     DEF RecordAgrees, EmptyRecordFields, EmptyRecordIds, Record, Lookup, RecordLookups
<1>7. RecordAgrees(EnumUsageRecordFields)
  BY CodesOfTypes, CodesOfFields, SMT
     DEF RecordAgrees, EnumUsageRecordFields, EnumUsageRecordIds, Record, Lookup, RecordLookups
<1>8. RecordAgrees(ExtendedRecordFields)
  BY CodesOfTypes, CodesOfFields, SMT
     DEF RecordAgrees, ExtendedRecordFields, ExtendedRecordIds, Record, Lookup, RecordLookups
<1>9. RecordAgrees(ExternRecordWithDerivingsFields)
  BY CodesOfTypes, CodesOfFields, SMT
     DEF RecordAgrees, ExternRecordWithDerivingsFields, ExternRecordWithDerivingsIds, Record,
         Lookup, RecordLookups
<1>10. RecordAgrees(MapDateRecordFields)
  BY CodesOfTypes, CodesOfFields, SMT
     DEF RecordAgrees, MapDateRecordFields, MapDateRecordIds, Record, Lookup, RecordLookups
<1>11. RecordAgrees(MapListRecordFields)
  BY CodesOfTypes, CodesOfFields, SMT
     DEF RecordAgrees, MapListRecordFields, MapListRecordIds, Record, Lookup, RecordLookups
<1>12. RecordAgrees(MapRecordFields)
  BY CodesOfTypes, CodesOfFields, SMT
     DEF RecordAgrees, MapRecordFields, MapRecordIds, Record, Lookup, RecordLookups
<1>13. RecordAgrees(NestedCollectionFields)
  BY CodesOfTypes, CodesOfFields, SMT
     DEF RecordAgrees, NestedCollectionFields, NestedCollectionIds, Record, Lookup, RecordLookups
<1>14. RecordAgrees(PrimitiveListFields)
  BY CodesOfTypes, CodesOfFields, SMT
     DEF RecordAgrees, PrimitiveListFields, PrimitiveListIds, Record, Lookup, RecordLookups
<1>15. RecordAgrees(RecordUsingExtendedRecordFields)
  BY CodesOfTypes, CodesOfFields, SMT
     DEF RecordAgrees, RecordUsingExtendedRecordFields, RecordUsingExtendedRecordIds, Record,
         Lookup, RecordLookups
<1>16. RecordAgrees(RecordWithDerivingsFields)
  BY CodesOfTypes, CodesOfFields, SMT
     DEF RecordAgrees, RecordWithDerivingsFields, RecordWithDerivingsIds, Record, Lookup,
         RecordLookups
<1>17. RecordAgrees(RecordWithDurationAndDerivingsFields)
  BY CodesOfTypes, CodesOfFields, SMT
     DEF RecordAgrees, RecordWithDurationAndDerivingsFields, RecordWithDurationAndDerivingsIds,
         Record, Lookup, RecordLookups
<1>18. RecordAgrees(RecordWithFlagsFields)
  BY CodesOfTypes, CodesOfFields, SMT
     DEF RecordAgrees, RecordWithFlagsFields, RecordWithFlagsIds, Record, Lookup, RecordLookups
<1>19. RecordAgrees(RecordWithNestedDerivingsFields)
  BY CodesOfTypes, CodesOfFields, SMT
     DEF RecordAgrees, RecordWithNestedDerivingsFields, RecordWithNestedDerivingsIds, Record,
         Lookup, RecordLookups
<1>20. RecordAgrees(SetRecordFields)
  BY CodesOfTypes, CodesOfFields, SMT
     DEF RecordAgrees, SetRecordFields, SetRecordIds, Record, Lookup, RecordLookups
<1>21. RecordAgrees(VarnameRecordFields)
  BY CodesOfTypes, CodesOfFields, SMT
     DEF RecordAgrees, VarnameRecordFields, VarnameRecordIds, Record, Lookup, RecordLookups
<1>22. RecordAgrees(WcharTestRecFields)
  BY CodesOfTypes, CodesOfFields, SMT
     DEF RecordAgrees, WcharTestRecFields, WcharTestRecIds, Record, Lookup, RecordLookups
<1> QED
  BY <1>1, <1>2, <1>3, <1>4, <1>5, <1>6, <1>7, <1>8, <1>9, <1>10, <1>11, <1>12, <1>13, <1>14,
     <1>15, <1>16, <1>17, <1>18, <1>19, <1>20, <1>21, <1>22, SMT DEF Records

\* What a JavaProxy calls has been looked up as it is called.
LEMMA ProxiesAgree == ASSUME NEW m \in ProxyCalls PROVE AsLookedUp(m) \in Lookups
<1>1. CASE m \in SupportCalls
  <2>1. AsLookedUp(m) \in SupportLookups
    BY <1>1, ArrayGettersAgree, ArrayPushersAgree, MapGettersAgree, MapPuttersAgree, KeysAgree,
       CallbacksAgree, PromisesAgree, DispatchersAgree, BridgesAgree
       DEF SupportCalls, SupportLookups
  <2> QED
    BY <2>1 DEF Lookups
<1>2. CASE m \in TestCalls
  <2>1. AsLookedUp(m) \in TestLookups
    BY <1>2, ClientsAgree, ColorsAgree, ExternsAgree, TokensAgree, ListenersAgree
       DEF TestCalls, TestLookups
  <2> QED
    BY <2>1 DEF Lookups
<1> QED
  BY <1>1, <1>2 DEF ProxyCalls

\* So signatures agree in all calls.
LEMMA GlueInvAgrees == GlueInv => SignaturesAgree
<1> SUFFICES ASSUME GlueInv PROVE SignaturesAgree
  OBVIOUS
<1>1. ASSUME frame = "JavaProxy" PROVE AsLookedUp(call) \in Lookups
  BY <1>1, ProxiesAgree DEF GlueInv, CallTypes
<1>2. ASSUME frame = "toCpp"
      PROVE  Lookup(call.interface, [i \in DOMAIN call.args |-> CodeOf(call.args[i])])
             \in RecordLookups
  <2>1. call \in RecordCalls
    BY <1>2 DEF GlueInv, CallTypes
  <2>2. PICK r \in Records : call \in Row(r.name, {"toCpp"}, r.fields, Of(r.name))
    BY <2>1 DEF RecordCalls
  <2>3. call.interface = r.name /\ call.args = r.fields
    BY <2>2, RowIs
  <2> QED
    BY <2>3, RecordsAgree DEF RecordAgrees
<1> QED
  BY <1>1, <1>2 DEF SignaturesAgree, AsLookedUp, Arguments

\* Every call of a JavaProxy, and every record that is built or read, agrees with the signature
\* under which its class has looked it up, at every step.
THEOREM CallsAreLookedUp == GlueSpec => []SignaturesAgree
<1>1. GlueInit => GlueInv
  BY GlueStarts
<1>2. GlueInv /\ [GlueNext]_glueVars => GlueInv'
  BY GlueSteps
<1>3. GlueInv => SignaturesAgree
  BY GlueInvAgrees
<1> QED
  BY <1>1, <1>2, <1>3, PTL DEF GlueSpec

=============================================================================
