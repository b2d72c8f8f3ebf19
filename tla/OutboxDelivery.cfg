SPECIFICATION Spec
CONSTANTS
  Worker = {w1, w2}
  Operator = {o1, o2}
  Request = Request
  None = None
  MaxAttempts = 3
  MaxDuplicates = 1
  MaxCrashes = 1
  MaxReconciles = 2
  MaxErrors = 1
  LostReplies = TRUE
INVARIANTS
  TypeOK
  AtMostOneModelCall
  RowMatchesCase
  ClaimEndsWithRow
PROPERTIES
  RecoveryNeverProposes
SYMMETRY Symmetry
CHECK_DEADLOCK FALSE
