SPECIFICATION FairSpec
CONSTANTS
    Agents = {a, b, c}
    Entry = {a}
    User = user
    MaxDepth = 2
    MaxAttempts = 2
    MaxJobs = 6
    MaxEdges = 2
    Limits <- MCUndisturbed
PROPERTY PendingEdgeSettles
CHECK_DEADLOCK FALSE
