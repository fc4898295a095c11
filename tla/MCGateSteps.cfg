\* Two returns and audit rounds, three rounds; any two verbs are cut short anywhere.
SPECIFICATION Spec
CONSTANTS
  MaxReturns = 2
  MaxAudits = 2
  MaxDispatches = 1
  MaxRounds = 3
  MaxReopens = 2
  MaxStops = 2
INVARIANTS TypeOK EveryRoundDelivered OneClosurePerRound ReviewedReturnExists StandstillHasCause DerivedCardOnce FreshReport
CHECK_DEADLOCK FALSE
