\* The comment: following the remote touches only what the remote changed.
SPECIFICATION Spec
CONSTANTS
  r1 = r1
  r2 = r2
  a = a
  b = b
  chronicle = chronicle
  Runs = {r1, r2}
  Files = {a, b, chronicle}
  Scope <- OwnScope
  MaxWrites = 2
  MaxForeign = 1
  MaxStaged = 0
  MaxFaults = 0
INVARIANTS CommitsKept
CHECK_DEADLOCK FALSE
