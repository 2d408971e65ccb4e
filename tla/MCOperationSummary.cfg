SPECIFICATION FairSpec
CONSTANTS
    Hosts = {s, a}
    Servers = {s}
    Stray = {x}
    StrayPhases = {2}
    OPERATIONS <- MCOperations
    ServerOnly = {2}
    Unchanged = {2}
    MaxFaults = 2
    None = none
INVARIANTS PassSound NothingLeft
PROPERTIES GateHolds SignalEnds
