SPECIFICATION Spec
CONSTANTS
  Item = {i1, i2}
  Case = {c1, c2}
  Key = {k1, k2}
  None = None
  Second = 2
  EndOfTime = 4
INVARIANTS
  TypeOK
  HoldIsLive
  BothRolesPresented
PROPERTIES
  BegunInWindow
  ItemsLocked
SYMMETRY Symmetry
