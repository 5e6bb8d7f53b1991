SPECIFICATION FairSpec
CONSTANTS
    Last = 2
    Schema <- FirstMigrates
    Minutes <- QuarterToAndLater
    None = None
    Limits <- Mixed
INVARIANT
    CurrentIsInstalled
PROPERTIES
    FailedRunsTheOldPanel
    UpdateConverges
CHECK_DEADLOCK FALSE
