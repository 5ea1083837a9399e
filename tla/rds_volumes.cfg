SPECIFICATION FairSpec
CONSTANTS
  None = None
  Orphan = Orphan
  v1 = v1
  Volumes = {v1}
  Snaps = {s1}
  Threads = {t1, t2}
  VolumeOf <- Taken
  SizeOf <- Claims
  ExpandTo = {5}
  Units = {2, 8}
  MinSize = 2
  MaxRetries = 2
  PrintsSource = FALSE
  DryRun = FALSE
  BasePath = TRUE
  MaxLosses = 1
INVARIANTS PassTypeOK BoundIntact CapacityHonoured
PROPERTIES OnlyLateCallsUndo GoneIsCollected ProvisioningEnds
CHECK_DEADLOCK FALSE
