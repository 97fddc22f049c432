CONSTANTS
  Version = {v1, v2}
  Installed = v1
  Updater = {u1, u2}
  MaxBuilds = 2
  MaxFaults = 2
SPECIFICATION Spec
SYMMETRY Symmetry
INVARIANTS MenuBoots MenuHasKernel
PROPERTY RescueKept
CHECK_DEADLOCK FALSE
