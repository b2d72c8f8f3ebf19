SPECIFICATION Spec
CONSTANTS
  Handler = {h1, h2}
  Worker = {w1}
  None = None
  MaxEpoch = 2
  WrongAnswerLimit = 1
INVARIANT NextRunNotStranded
VIEW ViewedReset
SYMMETRY Symmetry
CHECK_DEADLOCK FALSE
