SPECIFICATION LiveSpec
CONSTANTS
  Sends = {m1, m2}
  Streams = {}
  Tasks = {t1}
  Contexts = {c1}
  None = None
  Scripts <- MCShortScripts
PROPERTIES
  TaskSettles
  CallAnswered
CHECK_DEADLOCK FALSE
