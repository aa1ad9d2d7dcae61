SPECIFICATION Spec
CONSTANTS
  Action = {a1, a2}
  Silent = {a2}
  MaxRetries = 2
  MaxCrashes = 1
  DiskFaults = TRUE
INVARIANTS TypeOK NoDuplicateEffect RetryBudget RetriesAreServed
PROPERTIES RestartKeepsQueue KeepsContract
