SPECIFICATION FairSpec
CONSTANTS
  Name = {r1, r2, r3}
  Graphs <- MCGraphs
INVARIANTS
  DependenciesFirst
  PlannedOnce
  OutcomeIsRight
PROPERTIES
  WorkShrinks
  Terminates
CHECK_DEADLOCK FALSE
