SPECIFICATION Spec
CONSTANTS
    Requests = {r1, r2}
    Procs = {p1}
    None = None
    Adapter = "openbao"
    RollbackSeconds = 2
    Window = 1
    MaxTime = 3
    MaxCrashes = 2
    TornWrites = TRUE
    Aging = TRUE
SYMMETRY Symmetry
INVARIANT OpenBaoStopped
