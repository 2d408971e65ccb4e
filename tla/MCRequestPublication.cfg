SPECIFICATION FairSpec
CONSTANTS
    Requests = {r1, r2}
    Files = {f1, f2}
    Cnf = cnf
    Procs = {p1, p2}
    None = None
    MaxCrashes = 2
    TornWrites = TRUE
    Expiring = TRUE
INVARIANTS OpenIsCurrent OneAtATime
PROPERTIES AtomicPublication RequestResolved
