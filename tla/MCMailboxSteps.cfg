SPECIFICATION Spec
CONSTANTS
    Limits <- MCLimits
    MaxClaims = 4
INVARIANTS
    SerialLane
PROPERTIES
    StaleLeaseGoes
CHECK_DEADLOCK FALSE
