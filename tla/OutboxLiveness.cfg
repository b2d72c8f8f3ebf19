SPECIFICATION FairSpec
CONSTANTS
  Worker = {w1, w2}
  Operator = {o1}
  Request = Request
  None = None
  MaxAttempts = 3
  MaxDuplicates = 1
  MaxCrashes = 2
  MaxReconciles = 2
  MaxErrors = 0
  LostReplies = FALSE
PROPERTY CommandSettles
CHECK_DEADLOCK FALSE
