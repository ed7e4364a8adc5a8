SPECIFICATION Spec
CONSTANTS
  Ids = {1, 2}
  MaxFrames = 3
  ProbeFrames = 2
INVARIANTS
  CommitsExactly
  TerminalHeld
  LimitExact
  Transparent
PROPERTIES
  BreakingWithheld
