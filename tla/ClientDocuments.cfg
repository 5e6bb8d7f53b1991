SPECIFICATION DocumentsSpec
CONSTANTS
    None = None
    a = a
    b = b
    c = c
    A = A
    B = B
    r1 = r1
    r2 = r2
    s1 = s1
    s2 = s2
    Listed <- MCListed
    Capability <- MCCapability
    Role <- MCRole
    References <- MCReferences
    Pools = {A, B}
    BuiltIn = {B}
    Rules <- MCRules
    Sets <- MCSets
    Domains = {"d", "e"}
    Lines <- MCLines
    Members <- MCMembers
    Targets <- MCTargets
    Starts <- MCStarts
INVARIANTS
    DocumentIsClosed
    PageIsSound
CHECK_DEADLOCK FALSE
