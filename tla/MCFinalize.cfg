\* Two cards, two runs at a time, one commit of a person, one stop or failure.
SPECIFICATION Spec
CONSTANTS
  Cards = {c1, c2}
  Runs = {r1, r2}
  Remote = TRUE
  Deployable = TRUE
  Regression = "block"
  Outside = 1
  MaxTip = 1
  MaxVerdicts = 1
  MaxFaults = 1
  MaxReruns = 1
SYMMETRY Symmetry
INVARIANTS TypeOK RecordNamesDelivery RecordedIsPushed DeployedWasAudited
PROPERTIES LedgerSpec UndoTakesOwnMerge
CHECK_DEADLOCK FALSE
