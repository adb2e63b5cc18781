CONSTANTS
    RefCode <- LoopProgram
    WrongEntries <- AllWrong
    Cells = {"c1", "c2"}
    Modulus = 3
    Rerun = FALSE
    MaxRuns = 2
SPECIFICATION LiveSpec
INVARIANTS
    LockstepInv
    NoFalseAlarm
PROPERTIES
    DivergenceReported
    RunReturns
