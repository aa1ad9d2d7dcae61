SPECIFICATION FairSpec
CONSTANTS
  gateway = gateway
  coder = coder
  goal = goal
  Agent = {gateway, coder}
  Gateway = gateway
  Coder = coder
  Goal = {goal}
  MaxPRs = 2
  Nobody = Nobody
  HasRepo = TRUE
  QueueMax = 1
  SeenMax = 1
  MaxTime = 1
  MaxFaults = 2
INVARIANTS TypeOK OneGoalOnePR BusyIsTrue
PROPERTIES QueuedIsTaken
CHECK_DEADLOCK FALSE
