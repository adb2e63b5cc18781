CONSTANTS
    s1 = s1
    s2 = s2
    Sims = {s1, s2}
    Addrs = {1, 2}
    NStorages = 3
    Storages <- MCStorages
    PushedValues <- MCPushedValues
    MaxDepth = 1
SPECIFICATION Spec
CHECK_DEADLOCK FALSE
SYMMETRY Threads
INVARIANTS
    ExclusiveStack
    ReferencesFresh
PROPERTIES
    PrivateStacks
