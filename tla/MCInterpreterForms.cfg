CONSTANTS
    Code <- FormsProgram
    RangeOf <- FormsRanges
    None = None
    Regs <- MCRegs
    InitRegs <- FormsRegs
    Entries = {1, 5, 12}
    NestedEntries = {1, 5, 12}
    TopCalls = {"run", "step"}
    Tracks = {"cache", "debug"}
    TraceMasks <- MCMasks
    HookWanted = TRUE
    Diverts <- FormsDiverts
    HostMarkers = {}
    BTypeWrites = {0}
    CallbackBType = FALSE
    GuardedPages = FALSE
    ReleaseBuild = FALSE
    MaxDepth = 2
    MaxGcs = 1
SPECIFICATION Spec
CONSTRAINT GcsBound
INVARIANTS
    TypeOK
    TracingConsistent
PROPERTIES
    OutermostKeepsProgress
