SPECIFICATION Spec
CONSTANTS
  Keys = {h1, h2}
  Rpm = 25
  Burst = 2
  MaxTime = 9
SYMMETRY MCSymmetry
INVARIANTS
  TypeOK
  RateBounded
  RetryHonoured
CHECK_DEADLOCK FALSE
