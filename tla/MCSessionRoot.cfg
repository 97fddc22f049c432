SPECIFICATION Spec
CONSTANTS
  MaxPid = 3
  MaxSignals = 0
INVARIANTS
  DescendantsEnd
CHECK_DEADLOCK FALSE
