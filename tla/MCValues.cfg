SPECIFICATION Spec
CONSTANTS
    Boxes = {b1, b2}
    Arrays = {a1}
    Maps = {m1}
    Halves <- MCHalves
    IntLimit = 2
    Undefined = Undefined
    Slots = {x1, x2, x3}
    MaxValue = 2
    Texts = {"", "fffd", "bad", "worse"}
    BadTexts = {"bad", "worse"}
    Mended <- MCMended
    MaxSize = 2
    MaxChanges = 1
    Workers = {w1, w2}
    Funcs = {f1, f2}
    Hook = Hook
    CallsVM = {f1}
    App = App
    Sizes = {0, 1, 20}
    Bytes <- MCBytes
    Units <- MCUnits
    MaxText = 4
    LongLimit = 64
    IntLimit32 = 8
    Periods = {1, 4, 16}
    Second = 4
    TicksInMilli = 4
    Amounts <- MCAmounts
    NoDuration = NoDuration
    Derived <- GeneratedRecords
    Numbers = {0, 1}
    NaN = NaN
    MinusZero = MinusZero
    Instants <- MCInstants
    Kept <- MCKept
    Phrases = {0, 1, 2}
    Utf16Rank <- MCUtf16Rank
    Interfaces <- NamedInterfaces
    WithCppProxy <- CppImplemented
    WithJavaProxy <- JavaImplemented
INVARIANTS
    MembersAreCounted
    AnswersWhatWasPut
    FlagsTellTheTruth
    ComparesConsistently
    
    FailsForAReason
    NothingLeftBehind
    SignaturesAgree
    FrameFits
    CrossesAndReturns
    ThreadsKeepWhatTheyNeed
    ArrivesWellFormed
    TextSurvives
    TimesSurvive
    OrdersStrictly
    ComparesAlike
CHECK_DEADLOCK FALSE
