\* The branch moves on after its tip was checked.
SPECIFICATION Spec
CONSTANTS
  Cards = {c1}
  Runs = {r1}
  Remote = TRUE
  Deployable = TRUE
  Regression = "block"
  Outside = 0
  MaxTip = 2
  MaxVerdicts = 1
  MaxFaults = 1
  MaxReruns = 0
SYMMETRY Symmetry
INVARIANTS MergedWasCovered
CHECK_DEADLOCK FALSE
