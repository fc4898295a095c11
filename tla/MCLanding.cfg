\* Two landings with a shared file, work elsewhere and by hand, and a fault.
SPECIFICATION Spec
CONSTANTS
  r1 = r1
  r2 = r2
  a = a
  b = b
  chronicle = chronicle
  Runs = {r1, r2}
  Files = {a, b, chronicle}
  Scope <- OwnScope
  MaxWrites = 2
  MaxForeign = 1
  MaxStaged = 1
  MaxFaults = 1
INVARIANTS PassIsPublished WorkKept
PROPERTIES PublishedInTheEnd
CHECK_DEADLOCK FALSE
