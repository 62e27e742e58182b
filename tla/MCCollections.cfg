\* Three wrappers; containers of C++ code's own besides JavaScript's two.
SPECIFICATION Spec
CONSTANTS
    n1 = n1
    n2 = n2
    n3 = n3
    w1 = w1
    w2 = w2
    w3 = w3
    JsArray = JsArray
    JsMap = JsMap
    None = None
    Wrappers = {w1, w2, w3}
    Containers = {JsArray, JsMap, n1, n2, n3}
    \* a number, so that TLC can compare the content of a map with that of an array
    Keys = {10}
    MaxLength = 2
    MaxWrites = 3
    JavaWrites = 2
    JavaSpares = 1
SYMMETRY Symmetry
INVARIANTS
    WritersAreAlone
PROPERTIES
    JavascriptKeepsItsOwn
\* The bounds leave nothing to do in the end.
CHECK_DEADLOCK FALSE
