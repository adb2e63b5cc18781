CONSTANTS
    Registrars = {r1, r2}
    Simulators = {s1}
    None = None
    AddrLimit = 16
    Requests <- MCLiveRequests
    Text <- MCText
    Forms <- MCForms
    SimulatedForms <- MCSimulatedForms
    add = add
    bti = bti
    sveonly = sveonly
SPECIFICATION LiveSpec
PROPERTIES
    EveryCallEnds
    FastPathLockFree
