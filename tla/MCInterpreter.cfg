CONSTANTS
    Code <- NestingProgram
    RangeOf <- NestingRanges
    None = None
    Regs <- MCRegs
    InitRegs <- NestingRegs
    Entries <- NestingEntries
    NestedEntries <- NestingEntries
    TopCalls = {"run"}
    Tracks = {"cache", "debug"}
    TraceMasks <- MCMasks
    HookWanted = TRUE
    Diverts = {}
    HostMarkers = {}
    BTypeWrites = {0, 2}
    CallbackBType = FALSE
    GuardedPages = FALSE
    ReleaseBuild = TRUE
    MaxDepth = 3
    MaxGcs = 3
SPECIFICATION Spec
CONSTRAINT GcsBound
INVARIANTS
    ScopesNest
    CursorIntact
    CacheTrackSilent
    PendingStateKept
