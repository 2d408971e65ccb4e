SPECIFICATION FairSpec
CONSTANTS
    N = 3
    Owner = 2
    Plans = {p1}
    Edge = edge
    None = None
    MaxFaults = 1
    MaxLate = 1
INVARIANTS HaproxyReserved ActivationExclusive PassedProven
PROPERTIES OutcomePermanent OneFault HaproxyRestored TransactionEnds
