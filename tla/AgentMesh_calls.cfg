SPECIFICATION FairSpec
CONSTANTS
  gateway = gateway
  redteam = redteam
  security = security
  scan = scan
  review = review
  first = first
  Agent = {gateway, redteam, security}
  Gateway = gateway
  Call = {scan, review, first}
  Caller <- CallerOf
  Callee <- CalleeOf
  Service <- ServiceOf
  Debates <- DebatesIn
  Root = {scan, review}
  MaxFaults = 1
INVARIANTS TypeOK DebateOutlivesScan AnswerFollowsDebates
PROPERTIES CallsEnd
CHECK_DEADLOCK FALSE
