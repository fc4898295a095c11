\* Two processes race: two gate claims and block, complete, reopen, withdraw.
SPECIFICATION Spec
CONSTANTS
    Process = {p1, p2}
    MaxClaims = 3
    MaxReopens = 1
    CliClaims = FALSE
    ByPath = FALSE
INVARIANTS
    NotLostByRace
    OneRecordPerPending
SYMMETRY Symmetry
CHECK_DEADLOCK FALSE
