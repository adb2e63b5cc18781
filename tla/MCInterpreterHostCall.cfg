CONSTANTS
    Code <- CallsProgram
    RangeOf <- CallsRanges
    None = None
    Regs <- MCRegs
    InitRegs <- CallsRegs
    Entries = {1}
    NestedEntries = {1}
    TopCalls = {"run"}
    Tracks = {"cache", "debug"}
    TraceMasks = {{}}
    HookWanted = TRUE
    Diverts = {}
    HostMarkers = {9}
    BTypeWrites = {0, 2}
    CallbackBType = FALSE
    GuardedPages = FALSE
    ReleaseBuild = TRUE
    MaxDepth = 1
    MaxGcs = 3
SPECIFICATION Spec
CONSTRAINT GcsBound
INVARIANTS
    NoGcsFailure
