SPECIFICATION Spec
CONSTANTS
  MaxPid = 4
  MaxSignals = 2
INVARIANTS
  ExitIsClean
  KillPassIsComplete
PROPERTIES
  CleanupEnds
CHECK_DEADLOCK FALSE
