SPECIFICATION Spec
CONSTANTS
  Case = {c1, c2}
  Claimant = {p1}
  Staff = {s1}
  Viewer = {}
  k1 = k1
  k2 = k2
  ClaimantKey <- SharedKeys
  StaffKey = {j1, j2}
  None = None
  WrongAnswers = 1
  LinkLife = 1
  EndOfTime = 1
INVARIANTS
  WrongAnswerReplaced
CHECK_DEADLOCK FALSE
