\* One card whose audit is required: two rounds, two audit rounds, two returns.
SPECIFICATION Spec
CONSTANTS
    Audit = "required"
    MaxTip = 2
    MaxReturns = 2
    MaxAudits = 2
    MaxRounds = 2
    MaxReworks = 1
INVARIANTS
    TypeOK
    MergedHoldsPassed
    CompletedWasAudited
    NoSilentOrphan
    OneDerivedRoundInFlight
PROPERTIES
    DeliveryIsReviewed
    LifecycleSpec
CHECK_DEADLOCK FALSE
