\* The document: closing reads only the records of the current round.
SPECIFICATION Spec
CONSTANTS
    Audit = "required"
    MaxTip = 2
    MaxReturns = 2
    MaxAudits = 2
    MaxRounds = 2
    MaxReworks = 0
INVARIANTS
    ClosureRestsOnItsRound
CHECK_DEADLOCK FALSE
