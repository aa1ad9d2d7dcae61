SPECIFICATION FairSpec
CONSTANTS
  Action = {a1}
  Silent = {}
  MaxRetries = 2
  MaxCrashes = 0
  DiskFaults = FALSE
PROPERTIES DrainsAutomatically
