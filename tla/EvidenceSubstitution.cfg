SPECIFICATION Spec
CONSTANTS
  Client = {c1, c2}
  Key = {k1, k2}
  Image = {i1, i2}
  Staff = Staff
  None = None
  MaxStops = 1
INVARIANTS
  ModelSeesFrozenPair
SYMMETRY Symmetry
CHECK_DEADLOCK FALSE
