SPECIFICATION FairSpec
CONSTANTS
  Callers = {"p", "o"}
  Requests = {"r1", "r2"}
  Parent <- MCParent
  RunOf <- MCRunOf
  Awaited = TRUE
  Limit <- MCLimit
PROPERTY RequestedStarts
CHECK_DEADLOCK FALSE
