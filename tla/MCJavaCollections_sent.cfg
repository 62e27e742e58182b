\* What JavaScript gets when an argument is passed on.
SPECIFICATION Spec
CONSTANTS
    n1 = n1
    n2 = n2
    n3 = n3
    w1 = w1
    w2 = w2
    w3 = w3
    JsArray = JsArray
    JsMap = JsMap
    None = None
    Wrappers = {w1, w2, w3}
    Containers = {JsArray, JsMap, n1, n2}
    \* a number, so that TLC can compare the content of a map with that of an array
    Keys = {10}
    MaxLength = 2
    MaxWrites = 2
SYMMETRY Symmetry
INVARIANTS
    ArrivesAsSent
\* The bounds leave nothing to do in the end.
CHECK_DEADLOCK FALSE
