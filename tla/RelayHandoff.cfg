SPECIFICATION HandoffSpec
CONSTANTS
  Item = {i1}
  Case = {c1, c2}
  Key = {c1, c2}
  None = None
  Second = 2
  EndOfTime = 3
  Handler = {h1, h2}
  ClientKey = {k1, k2}
  ItemOf <- OneItem
  HoldTime = 3
  TokenTime = 2
INVARIANTS
  HandoffTypeOK
  ServiceFollowsRelay
  ReleaseIsReady
  AcceptedNotLost
SYMMETRY Symmetry
