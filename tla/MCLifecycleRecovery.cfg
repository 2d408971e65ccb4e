SPECIFICATION FairSpec
CONSTANTS
    Requests = {r1, r2}
    Procs = {p1}
    None = None
    Adapter = "zot"
    RollbackSeconds = 2
    Window = 1
    MaxTime = 3
    MaxCrashes = 2
    TornWrites = FALSE
    Aging = FALSE
INVARIANT RecoveryAccepted
PROPERTY JournalResolved
