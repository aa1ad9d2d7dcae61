SPECIFICATION Spec
CONSTANTS
  r1 = r1
  r2 = r2
  p1 = p1
  Threshold = 7500
  Exploit = {x1}
  Uuid = {u1}
  Run = {r1}
  PR = {p1}
  Target <- OneTarget
  PeerSets <- ThreeSizes
  Findings <- OnlyHigh
  MaxExploits = 1
  MaxPushes = 0
  Opinions = {"approve", "reject"}
  MaxRestarts = 0
  MaxOutages = 1
INVARIANTS DefendedIsVotedOn
CHECK_DEADLOCK FALSE
