SPECIFICATION Spec
CONSTANTS
  Case = {c1}
  Claimant = {p1, p2}
  Staff = {s1}
  Viewer = {w1}
  k1 = k1
  k2 = k2
  ClaimantKey <- SharedKeys
  StaffKey = {j1, j2}
  None = None
  WrongAnswers = 1
  LinkLife = 1
  EndOfTime = 1
INVARIANTS
  TypeOK
  ActiveMeansTaken
  AnswersUseLinks
  InspectionWasTrue
  WrongAnswerReplaced
CHECK_DEADLOCK FALSE
SYMMETRY Symmetry
