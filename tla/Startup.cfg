SPECIFICATION Spec
CONSTANTS
    None = None
    Requests = {r1, r2}
    OldPolicies <- MCPolicies
    Pasts <- MCPasts
    Limits <- MCLimits
INVARIANTS
    UpIsUsable
    RestartsKeepRows
    OneOwner
PROPERTY
    StartConverges
CHECK_DEADLOCK FALSE
