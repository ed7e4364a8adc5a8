SPECIFICATION Spec
CONSTANTS
  None = None
  Slots = {s1, s2}
  Accounts = {x, y}
  Projects = {p1}
  Threads = {t1, t2}
  Handles = {h1, h2}
  Requests = {q1, q2}
  Reservations = {1}
  i1 = i1
  k1 = k1
  c1 = c1
  r1 = r1
  Bodies <- MCBodies
  Answers <- MCAnswers
SYMMETRY Symmetry
INVARIANTS
  SpoiledNeverRuns
  RecordsFaithful
  HandoffExact
  HistoryReplays
PROPERTIES
  Implements
