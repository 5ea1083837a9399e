SPECIFICATION FairSpec
CONSTANTS
  MaxFaults = 2
  MaxEvents = 1
INVARIANTS TypeOK OnePassAfterStop GracefulIsQuiet
PROPERTIES TriggerServed StopReturns LinkRestored
CHECK_DEADLOCK FALSE
