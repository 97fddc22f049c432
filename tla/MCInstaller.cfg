SPECIFICATION Spec
CONSTANTS
  None = None
  Tree = {dev, sys}
  SharedTree = {dev}
  Disk <- MCDisk
  MaxCalls = 2
  MaxFaults = 2
INVARIANTS
  TypeOK
  CompleteIsClean
  FailureIsClean
  HostMountsSurvive
  LayoutFits
  EspIsFat32
PROPERTIES
  WritesAreGuarded
