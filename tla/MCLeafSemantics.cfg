CONSTANTS
    VL = 32
    MemBytes = 144
    XBits = 8
    TagBits = 2
    Groups <- AllGroups
    AccessGroups <- AllAccesses
    ScalarGroups <- AllForms
SPECIFICATION LeafSpec
INVARIANTS
    AliasSafe
    TailsCleared
    AccumulatorKept
    StoresReported
    TransfersAgree
    FaultContract
    BlockTransfers
    IntegerReference
    FloatReference
