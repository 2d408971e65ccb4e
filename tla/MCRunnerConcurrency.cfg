SPECIFICATION FairSpec
CONSTANTS
    Desired = 2
    Values = {1, 2, 3}
    MaxClock = 2
    MaxWrites = 2
    MaxFaults = 2
INVARIANT TokenSafe
PROPERTIES ReportTrue Converges
