SPECIFICATION Spec
CONSTANTS
  Handler = {h1, h2}
  Worker = {w1, w2}
  None = None
  MaxEpoch = 3
  WrongAnswerLimit = 1
INVARIANTS
  TypeOK
  PacketOfThisEpoch
  OneCommandPerCase
VIEW ViewedReset
SYMMETRY Symmetry
CHECK_DEADLOCK FALSE
