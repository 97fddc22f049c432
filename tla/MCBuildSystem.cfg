SPECIFICATION FairSystem
CONSTANTS
  None = None
  Good = Good
  Bad = Bad
  Proc = {p1, p2}
  Recipe = {r1}
  Version = {v1, v2}
  Source = {s1, s2}
  SourcesOf <- MCSourcesOf
  Content = {c1}
  MaxCalls = 2
  MaxFaults = 1
  Syncer = {y1, y2}
  MaxSyncs = 2
  MaxDeaths = 1
INVARIANTS
  SystemTypeOK
  SourcesVerified
  TreeInUse
  NoCircularWait
PROPERTIES
  OneArtifactPerId
  CallsEnd
  TreesKept
CHECK_DEADLOCK FALSE
