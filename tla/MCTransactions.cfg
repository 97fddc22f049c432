SPECIFICATION FairSpec
CONSTANTS
  Absent = Absent
  Dir = Dir
  Torn = Torn
  Keep = Keep
  Forget = Forget
  None = None
  Path = {q1, q2}
  Content = {c1, c2}
  Proc = {p1, p2}
  MaxFaults = 2
  CrashInRmtree = FALSE
INVARIANTS
  TypeOK
  BodiesSeeWholeTransactions
  RollbackPossible
PROPERTIES
  Atomic
  RollbackIsWhole
  JournalResolved
