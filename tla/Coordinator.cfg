SPECIFICATION FairSpec
CONSTANTS
  Limit = 2
  MaxCommands = 1
  MaxUsage = 2
  MaxTurns = 2
  MaxHomes = 5
  MaxFaults = 0
INVARIANTS
  AllOrNothing
  DeletedIsGone
  UsageKept
  TurnsExclusive
PROPERTIES
  DeletesConfirmed
  PhasesEnd
CHECK_DEADLOCK FALSE
