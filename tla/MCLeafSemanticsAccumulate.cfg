CONSTANTS
    VL = 32
    MemBytes = 144
    XBits = 8
    TagBits = 2
    Groups <- LongGroup
    AccessGroups <- None
    ScalarGroups <- None
SPECIFICATION LeafSpec
INVARIANTS
    AccumulatorRead
