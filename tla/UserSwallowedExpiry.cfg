SPECIFICATION FairSpec
CONSTANTS
    u1 = u1
    u2 = u2
    h1 = h1
    h2 = h2
    None = None
    Users = {u1}
    Labels = {"a"}
    Deadlines = {1}
    Handlers = {h1}
    MaxTime = 1
    MaxBack = 0
    MaxEdits = 1
    MaxFaults = 0
    Lag = 0
PROPERTIES
    ExpiriesConverge
