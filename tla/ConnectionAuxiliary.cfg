SPECIFICATION Spec
CONSTANTS
  Slots = {1}
  MaxRemaining = 1
  Handlers = {h1}
  Threads = {"t1", "t2"}
  MaxUser = 1
  MaxCred = 2
  MaxRestarts = 1
  MaxPolls = 0
  Userless = FALSE
  WriteFailures = FALSE
  Compaction = TRUE
  Auxiliary = TRUE
  Operators = TRUE
SYMMETRY Symmetry
INVARIANTS
  OwnerSafety
PROPERTIES
  ConversationStable
CHECK_DEADLOCK FALSE
