SPECIFICATION FairSpec
CONSTANTS
    u1 = u1
    u2 = u2
    h1 = h1
    h2 = h2
    None = None
    Users = {u1}
    Labels = {"a", "b"}
    Deadlines = {1}
    Handlers = {h1}
    MaxTime = 1
    MaxBack = 1
    MaxEdits = 1
    MaxFaults = 1
    Lag = 1
INVARIANTS
    AppliedIsCurrent
    NoGenerationStorm
    VersionIdentifiesRow
    BoundedScanSuffices
PROPERTIES
    OutboxIsRequested
    AccessConverges
