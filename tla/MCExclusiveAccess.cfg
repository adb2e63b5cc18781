CONSTANTS
    Guests = {"outer", "inner", "innermost"}
    SimOf <- OneSim
    Level <- Depth
    Methods <- AllMethods
    Iterations = 1
SPECIFICATION FairSpec
INVARIANTS
    NoLostUpdate
PROPERTIES
    ReplacesWhatWasRead
    AllFinish
