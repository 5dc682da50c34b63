SPECIFICATION Spec
CONSTANTS
    MaxMessages = 1
    MaxAttempts = 1
    Limits <- MCRace
    StartOutcomes <- MCStartOutcomes
    Decisions <- FewDecisions
PROPERTIES
    TerminalIsFinal
CHECK_DEADLOCK FALSE
