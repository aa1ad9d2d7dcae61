SPECIFICATION FairSpec
CONSTANTS
  Action = {a1, a2, a3}
  Silent = {}
  MaxRetries = 2
  MaxCrashes = 0
  DiskFaults = FALSE
INVARIANTS NoLostWakeup SingleDrain
PROPERTIES ReplayInOrder DrainTerminates ReconnectionServes
