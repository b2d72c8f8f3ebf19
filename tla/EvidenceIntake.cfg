SPECIFICATION FairIntake
CONSTANTS
  Client = {c1, c2}
  Key = {k1, k2}
  Image = {i1, i2}
  Staff = Staff
  None = None
  MaxStops = 2
INVARIANTS
  TypeOK
  HalvesMatch
  FrozenPairStands
  JobMeansFrozen
  RoundsSuffice
PROPERTIES
  AuthorizedIntakeStarts
CHECK_DEADLOCK FALSE
