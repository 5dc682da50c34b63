SPECIFICATION FairSpec
CONSTANTS
    MaxReplies = 2
    MaxRequeues = 1
    MaxOverlap = 1
    Limits <- MCLimits
INVARIANTS
    TypeOK
    RunningDeliversHead
    DeliveryBudget
    OrphansOnlyByCrash
    ConsumedForAReason
    EndsOnce
PROPERTY EveryReplyLeaves
CHECK_DEADLOCK FALSE
