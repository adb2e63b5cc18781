CONSTANTS
    VL = 32
    MemBytes = 144
    XBits = 8
    TagBits = 2
    Groups <- None
    AccessGroups <- None
    ScalarGroups <- BitForms
SPECIFICATION LeafSpec
INVARIANTS
    UpperHalfCleared
