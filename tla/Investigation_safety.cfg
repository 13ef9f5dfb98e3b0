SPECIFICATION Spec
CONSTANTS
  Opener = open
  Decisions = {d1, d2}
  Specialists <- OneSpecialist
  Settings <- Varied
SYMMETRY MCSymmetry
INVARIANTS
  TypeOK
  PausedIsComplete
  ReviewedBeforeFiling
  CleanCompletion
  ReportsAreAttributed
  CalmDeleteIsComplete
PROPERTY ImplementsCaseReview
CHECK_DEADLOCK FALSE
