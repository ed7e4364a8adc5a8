SPECIFICATION Spec
CONSTANTS
  Slots = {1}
  MaxRemaining = 1
  Handlers = {h1}
  Threads = {"t1"}
  MaxUser = 1
  MaxCred = 1
  MaxRestarts = 0
  MaxPolls = 0
  Userless = TRUE
  WriteFailures = FALSE
  Compaction = FALSE
  Auxiliary = FALSE
  Operators = TRUE
SYMMETRY Symmetry
INVARIANTS
  NoReplay
CHECK_DEADLOCK FALSE
