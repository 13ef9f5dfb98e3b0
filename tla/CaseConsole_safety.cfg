SPECIFICATION Spec
CONSTANTS
  Cases = {c1, c2}
  Sessions = {s1, s2}
  MaxTraces = 1
  PageSize = 1
  MaxRestarts = 1
  Nothing = Nothing
  Running = Running
SYMMETRY MCSymmetry
INVARIANTS
  TypeOK
  LossIsShown
  TimelineSurvivesReview
  RingForgetsOldest
CHECK_DEADLOCK FALSE
