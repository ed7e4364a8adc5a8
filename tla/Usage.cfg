SPECIFICATION Spec
CONSTANTS
  Slots = {a}
  MaxInputs = 3
  MaxChanges = 1
INVARIANTS
  SamplesCurrent
  AnswerOwned
PROPERTIES
  RefreshSettled
  CatchesUp
