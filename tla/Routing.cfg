SPECIFICATION FairSpec
CONSTANTS
    A = A
    B = B
    Pools = {A, B}
    BuiltIn = {B}
    Custom = "custom"
    Sets = {"custom", "s"}
    Entries = {1, 2, 3}
    Sources = {1, 2}
    Values = {"x"}
    Urls = {"u", "v"}
    Dated = {"v"}
    Handlers = {"h1", "h2"}
    Scheduler = "scheduler"
    References <- References2
    Scenarios <- FiveScenarios
    None = None
    Gone = Gone
INVARIANTS
    PolicyHolds
    SetsAreServable
PROPERTIES
    SourceConverges
CHECK_DEADLOCK FALSE
