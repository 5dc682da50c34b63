SPECIFICATION FairSpec
CONSTANTS
    MaxMessages = 1
    MaxAttempts = 1
    Limits <- MCRestart
    StartOutcomes <- MCStartOutcomes
    Decisions <- FewDecisions
PROPERTIES
    StartedAttemptsEnd
CHECK_DEADLOCK FALSE
