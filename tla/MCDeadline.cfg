SPECIFICATION FairSpec
CONSTANTS
    timeout = 7
    Res = 3
    Early = 2
    MaxTime = 12
INVARIANTS
    DeadlineIsExact
PROPERTIES
    ImplementsBoundedWait
    WaitEnds
CHECK_DEADLOCK FALSE
