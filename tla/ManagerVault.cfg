SPECIFICATION Spec
CONSTANTS
  Slots = {1, 2}
  Requests = {r1}
  Commands = {c1}
  Users = {1, 2}
  MaxToken = 3
  MaxCrashes = 1
SYMMETRY Symmetry
PROPERTIES
  NoLostUpdate
