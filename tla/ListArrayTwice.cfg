\* Upload URLs are generated for one list of objects, and then once more.
SPECIFICATION ListSpec
CONSTANTS
    n1 = n1
    n2 = n2
    Nodes = {n1, n2}
    Null = Null
INVARIANTS
    ArrayHasObjects
CHECK_DEADLOCK FALSE
