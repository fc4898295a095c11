\* One process at a time, which may stop anywhere: three claims, two reopens.
SPECIFICATION Spec
CONSTANTS
    Process = {p1}
    MaxClaims = 3
    MaxReopens = 2
    CliClaims = TRUE
    ByPath = FALSE
INVARIANTS
    TypeOK
    NeverLost
    StrandedByOneMove
    ClaimIsRecorded
PROPERTIES
    RecordedClaimNotReplayed
CHECK_DEADLOCK FALSE
