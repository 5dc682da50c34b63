SPECIFICATION FairSpec
CONSTANTS
    Limits <- MCLimits
    MaxQueue = 1
INVARIANTS
    TypeOK
    NoLostWakeup
    UnpublishedIsStopped
    ClosedHasNoEffect
    FinalizerRunsOnce
PROPERTIES
    FailedPublicationCloses
    StopEnds
CHECK_DEADLOCK FALSE
