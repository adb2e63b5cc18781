CONSTANTS
    Code <- CallsProgram
    RangeOf <- CallsRanges
    None = None
    Regs <- MCRegs
    InitRegs <- CallsRegs
    Entries = {1, 5, 11, 13, 14, 15, 16, 17, 18, 19, 32, 36}
    NestedEntries = {40}
    TopCalls = {"run"}
    Tracks = {"cache", "debug"}
    TraceMasks = {{}}
    HookWanted = TRUE
    Diverts = {}
    HostMarkers = {}
    BTypeWrites = {0, 2}
    CallbackBType = FALSE
    GuardedPages = TRUE
    ReleaseBuild = TRUE
    MaxDepth = 3
    MaxGcs = 3
SPECIFICATION LiveSpec
INVARIANTS
    NoGcsFailure
PROPERTIES
    LandingsMatch
    CallsReturn
