SPECIFICATION Spec
CONSTANTS
  Slots = {1}
  MaxRemaining = 1
  Handlers = {h1, h2}
  Threads = {"t1"}
  MaxUser = 2
  MaxCred = 1
  MaxRestarts = 1
  MaxPolls = 1
  Userless = FALSE
  WriteFailures = TRUE
  Compaction = FALSE
  Auxiliary = FALSE
  Operators = TRUE
SYMMETRY Symmetry
INVARIANTS
  NoReplay
  CheckpointBeforeDispatch
  AdmissionExclusive
PROPERTIES
  DecisionCurrent
CHECK_DEADLOCK FALSE
