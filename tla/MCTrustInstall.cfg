SPECIFICATION FairSpec
CONSTANTS
    Names = {n1, n2}
    Procs = {p1, p2}
    Partial = partial
    None = None
    MaxCrashes = 2
    TornWrites = TRUE
INVARIANTS PublishedWhole Resumable
PROPERTIES TrustImmutable Installed
