SPECIFICATION FairSpec
CONSTANTS
  None = None
  Orphaned = Orphaned
  v1 = v1
  v2 = v2
  Volumes = {v1}
  Block = {}
  Devices = {1, 2, 3, 4}
  ConnectTries = 2
  FormatTries = 2
  RecoveryTries = 2
  Storm = 3
  Trip = 2
  MaxFaults = 2
INVARIANTS TypeOK  
PROPERTIES  PodStarts PodGoes
CHECK_DEADLOCK FALSE
