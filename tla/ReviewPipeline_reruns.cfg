SPECIFICATION Spec
CONSTANTS
  r1 = r1
  r2 = r2
  p1 = p1
  Threshold = 7500
  Exploit = {x1}
  Uuid = {u1}
  Run = {r1, r2}
  PR = {p1}
  Target <- SameTarget
  PeerSets <- OnlySecurity
  Findings <- OnlyHigh
  MaxExploits = 0
  MaxPushes = 1
  Opinions = {}
  MaxRestarts = 1
  MaxOutages = 1
INVARIANTS RecordIsBacked OneReviewPerPR QueuedInOrder
SYMMETRY SameRuns
CHECK_DEADLOCK FALSE
