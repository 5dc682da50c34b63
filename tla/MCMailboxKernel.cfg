SPECIFICATION Spec
CONSTANTS
    MaxEvents = 3
    MaxLease = 3
    Refs <- MCRefs
INVARIANTS
    TypeOK
    SummaryExact
    LeaseGuardsDelivery
PROPERTIES
    LeaseVersionsGrow
    ImplementsLane
