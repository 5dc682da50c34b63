SPECIFICATION FairSpec
CONSTANTS
    MaxMessages = 2
    MaxAttempts = 2
    Limits <- MCLimits
    StartOutcomes <- MCStartOutcomes
    Decisions <- FewDecisions
INVARIANTS
    TypeOK
    OneReplyPerAttempt
    RunningOwnsLane
    QueueMatchesStore
    QueueInMailboxOrder
    LineageIsALine
    RetryBudget
    SettledIsAnswered
PROPERTIES
    TerminalIsFinal
    EveryMessageAnswered
CHECK_DEADLOCK FALSE
