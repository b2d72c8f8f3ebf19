SPECIFICATION FairSpec
CONSTANTS
  Worker = {w1, w2}
  Operator = {o1}
  Request = Request
  None = None
  MaxAttempts = 3
  MaxDuplicates = 0
  MaxCrashes = 0
  MaxReconciles = 2
  MaxErrors = 0
  LostReplies = TRUE
PROPERTY AmbiguousEnqueueSafe
CHECK_DEADLOCK FALSE
