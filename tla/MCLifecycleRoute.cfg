SPECIFICATION RouteSpec
CONSTANTS
    Requests = {r1}
    Procs = {p1}
    None = None
    Adapter = "zot"
    RollbackSeconds = 2
    Window = 1
    MaxTime = 3
    MaxCrashes = 0
    TornWrites = FALSE
    Aging = FALSE
PROPERTY JournalResolved
