SPECIFICATION FairSpec
CONSTANTS
  Slots = {1}
  Requests = {r1, r2}
  Commands = {c1}
  Users = {1}
  MaxToken = 2
  MaxCrashes = 1
INVARIANTS
  ExchangeOnce
  ProgressExact
PROPERTIES
  TurnHistoryStable
  RequestsReturn
  FastPathFree
  CancelledLeaves
