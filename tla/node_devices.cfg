SPECIFICATION Spec
CONSTANTS
  None = None
  Orphaned = Orphaned
  v1 = v1
  v2 = v2
  Volumes = {v1, v2}
  Block = {v2}
  Devices = {1, 2, 3, 4}
  ConnectTries = 2
  FormatTries = 2
  RecoveryTries = 2
  Storm = 3
  Trip = 2
  MaxFaults = 1
INVARIANTS OwnDevice 
CHECK_DEADLOCK FALSE
