SPECIFICATION Spec
CONSTANTS
    NumCores = 2
    f1 = f1
    f2 = f2
    f3 = f3
    p1 = p1
    p2 = p2
    None = None
    Fragments <- MCFragments
    Ports <- MCPorts
    PortOf <- MCPortOf
    Wants <- AllWants
    MaxGen = 2
    MaxFaults = 2
    CrashInRollback = TRUE
INVARIANTS
    UnappliedIsUntouched
