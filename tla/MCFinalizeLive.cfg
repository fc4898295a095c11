\* One card and another commit on the base branch; killed runs, failed pushes, until there is a record.
SPECIFICATION FairSpec
CONSTANTS
  Cards = {c1}
  Runs = {r1, r2}
  Remote = TRUE
  Deployable = TRUE
  Regression = "block"
  Outside = 1
  MaxTip = 1
  MaxVerdicts = 2
  MaxFaults = 2
  MaxReruns = 1
PROPERTIES PassedIsRecorded
CHECK_DEADLOCK FALSE
