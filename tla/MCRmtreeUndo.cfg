SPECIFICATION Spec
CONSTANTS
  Absent = Absent
  Dir = Dir
  Torn = Torn
  Keep = Keep
  Forget = Forget
  None = None
  Path = {q1, q2}
  Content = {c1, c2}
  Proc = {p1}
  MaxFaults = 1
  CrashInRmtree = TRUE
SYMMETRY Symmetry
PROPERTY Atomic
