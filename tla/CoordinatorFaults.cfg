SPECIFICATION Spec
CONSTANTS
  Limit = 2
  MaxCommands = 2
  MaxUsage = 0
  MaxTurns = 0
  MaxHomes = 5
  MaxFaults = 1
INVARIANTS
  NoResurrection
CHECK_DEADLOCK FALSE
