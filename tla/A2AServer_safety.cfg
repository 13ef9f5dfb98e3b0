SPECIFICATION Spec
CONSTANTS
  Sends = {m1}
  Streams = {s1}
  Tasks = {t1, t2}
  Contexts = {c1}
  None = None
  Scripts <- MCScripts
SYMMETRY MCSymmetry
INVARIANTS
  TypeOK
  ErrorMeansOver
  NoForgottenTask
  AnswerIsSettled
  ArtifactsAccounted
CHECK_DEADLOCK FALSE
PROPERTIES
  ImplementsLifecycle
  TerminalIsFinal
