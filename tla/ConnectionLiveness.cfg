SPECIFICATION FairSpec
CONSTANTS
  Slots = {1, 2}
  MaxRemaining = 1
  Handlers = {h1, h2}
  Threads = {"t1"}
  MaxUser = 1
  MaxCred = 2
  MaxRestarts = 1
  MaxPolls = 0
  Userless = FALSE
  WriteFailures = TRUE
  Compaction = FALSE
  Auxiliary = FALSE
  Operators = FALSE
PROPERTIES
  RequestsEnd
  StopLeaves
CHECK_DEADLOCK FALSE
