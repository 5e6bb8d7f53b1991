SPECIFICATION FairSpec
CONSTANTS
    m1 = m1
    Modules = {m1}
    None = None
    MaxVersion = 2
    Limits <- FewLimits
INVARIANTS
    NeededRuntimeStays
    RunningIsCurrent
    MarkerAgrees
    RemovedStaysOut
PROPERTIES
    FailedUpdateIsUndone
    RequestsEnd
CHECK_DEADLOCK FALSE
