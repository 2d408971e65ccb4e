SPECIFICATION Spec
CONSTANTS
    Requests = {r1, r2}
    Procs = {p1}
    None = None
    Adapter = "zot"
    RollbackSeconds = 2
    Window = 1
    MaxTime = 3
    MaxCrashes = 3
    TornWrites = TRUE
    Aging = TRUE
SYMMETRY Symmetry
INVARIANTS JournalRestorable RecordsAgree ServiceFollows CompleteBeforeDeadline
PROPERTIES OutcomeKept AtomicSwitch
