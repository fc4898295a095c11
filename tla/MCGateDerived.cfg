\* The comment: a derived round is judged on its publish record.
SPECIFICATION Spec
CONSTANTS
  MaxReturns = 3
  MaxAudits = 3
  MaxDispatches = 1
  MaxRounds = 1
  MaxReopens = 0
  MaxStops = 0
INVARIANTS DerivedCanBeJudged
CHECK_DEADLOCK FALSE
