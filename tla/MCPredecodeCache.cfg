CONSTANTS
    Registrars = {r1, r2}
    Simulators = {s1}
    None = None
    AddrLimit = 20
    Requests <- MCRequests
    Text <- MCText
    Forms <- MCForms
    SimulatedForms <- MCSimulatedForms
    add = add
    bti = bti
    sveonly = sveonly
SPECIFICATION Spec
SYMMETRY RegistrarSymmetry
INVARIANTS
    TypeOK
    Disjoint
    EntriesMatchDecoder
    SearchExact
    DispatchCorrect
    LockDiscipline
    ErrorDetailIsCallers
PROPERTIES
    AppendOnly
    RefinesRegistry
