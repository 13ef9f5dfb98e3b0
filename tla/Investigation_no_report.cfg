SPECIFICATION Spec
CONSTANTS
  Opener = open
  Decisions = {d1}
  Specialists <- OneSpecialist
  Settings <- Defaults
INVARIANT CompletedHasReport
CHECK_DEADLOCK FALSE
