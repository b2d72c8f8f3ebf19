SPECIFICATION Spec
CONSTANTS
  k1 = k1
  k2 = k2
  Handler = {h1, h2}
  Key = {k1, k2}
  None = None
  WrongAnswerLimit = 1
INVARIANTS
  TypeOK
  SnapshotsCurrent
  ReleaseGates
  GatesAhead
  HandoffEvidence
  EventLedger
  RelayAgreement
  OutboxTruth
  WrongAnswersCounted
PROPERTIES
  StoppedStaysStopped
  PromiseKept
SYMMETRY HandlerSymmetry
VIEW View
ACTION_CONSTRAINT LowestFreshKey
CHECK_DEADLOCK FALSE
