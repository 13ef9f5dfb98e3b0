SPECIFICATION Spec
CONSTANTS
  Recorders = {r1, r2, r3}
  Clearers = {c1, c2}
  Forged = Forged
  None = None
SYMMETRY MCSymmetry
INVARIANTS
  TypeOK
  ChainIntact
  TamperEvident
  ClearanceLeavesTrace
CHECK_DEADLOCK FALSE
