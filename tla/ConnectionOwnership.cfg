SPECIFICATION Spec
CONSTANTS
  Slots = {1, 2}
  MaxRemaining = 1
  Handlers = {h1}
  Threads = {"t1"}
  MaxUser = 1
  MaxCred = 3
  MaxRestarts = 0
  MaxPolls = 1
  Userless = FALSE
  WriteFailures = FALSE
  Compaction = TRUE
  Auxiliary = FALSE
  Operators = FALSE
SYMMETRY Symmetry
INVARIANTS
  OwnerSafety
  OpaquePinned
  AttemptOnce
PROPERTIES
  TurnPinned
CHECK_DEADLOCK FALSE
