SPECIFICATION Spec
CONSTANTS
    SilenceStart = 3
    RepeatInterval = 2
    MaxNotices = 0
    Limit = 3
    MaxTime = 14
    MaxCrashes = 1
INVARIANTS
    NoticesAreSilence
    GivesUpOnSilence
CHECK_DEADLOCK FALSE
