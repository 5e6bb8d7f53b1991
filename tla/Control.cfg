SPECIFICATION FairSpec
CONSTANTS
    a = a
    b = b
    None = None
    Fragments = {a, b}
    Wants <- AllWants
    Invalid <- Refused
    MaxGen = 2
    MaxFaults = 2
    MaxRestores = 1
INVARIANTS
    RowTellsTheTruth
    WakeupIsKept
PROPERTIES
    StatusConverges
    SyncConverges
