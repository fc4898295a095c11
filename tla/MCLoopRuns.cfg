\* Two runs, two cards, one kill, two stops, one new deployment.
SPECIFICATION FairSpec
CONSTANTS
  Cards = {"c1", "c2"}
  Runs = {1, 2}
  MaxTime = 2
  MaxKills = 1
  MaxStops = 2
  MaxReexecs = 1
INVARIANTS TypeOK OlderRunWins NoOvertaking HolderIsUndisturbed ResidueKeepsOut StoppedIsGone
PROPERTIES QueueMoves RequestIsHeeded
CONSTRAINT FirstAboutFirst
CHECK_DEADLOCK FALSE
