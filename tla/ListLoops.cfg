\* Four addresses, which the allocator may reuse.
SPECIFICATION ListSpec
CONSTANTS
    n1 = n1
    n2 = n2
    n3 = n3
    n4 = n4
    Nodes = {n1, n2, n3, n4}
    Null = Null
SYMMETRY NodeSymmetry
INVARIANTS
    Linked
    ScanMeetsAll
    ScanRemovesDoomed
CHECK_DEADLOCK FALSE
