SPECIFICATION Spec
CONSTANTS
    Limits <- MCRace
    MaxClaims = 4
INVARIANTS
    OneInDelivery
CHECK_DEADLOCK FALSE
