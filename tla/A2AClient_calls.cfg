SPECIFICATION FairSpec
CONSTANTS
  Calls = {c1, c2}
  Peers = {here, there}
  Local = {here}
  HasLoopback = TRUE
  MaxAttempts = 3
  None = None
INVARIANTS
  TypeOK
  WorkIsBounded
  RemotePeersAnswerThemselves
  FallbackIsReported
PROPERTIES
  AnswersAreFinal
  CallsEnd
CHECK_DEADLOCK FALSE
