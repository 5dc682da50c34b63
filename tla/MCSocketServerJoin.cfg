SPECIFICATION Spec
CONSTANTS
    Limits <- MCStopAll
    MaxQueue = 1
INVARIANT FinalizerNotLost
CHECK_DEADLOCK FALSE
