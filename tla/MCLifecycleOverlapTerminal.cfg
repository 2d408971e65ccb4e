SPECIFICATION Spec
CONSTANTS
    Requests = {r1, r2}
    Procs = {p1, p2}
    None = None
    Adapter = "zot"
    RollbackSeconds = 2
    Window = 1
    MaxTime = 2
    MaxCrashes = 0
    TornWrites = TRUE
    Aging = FALSE
SYMMETRY Symmetry
INVARIANT TerminalTruthfulAtRest
