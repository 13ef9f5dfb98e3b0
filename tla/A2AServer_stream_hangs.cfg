SPECIFICATION LiveSpec
CONSTANTS
  Sends = {}
  Streams = {s1}
  Tasks = {t1}
  Contexts = {c1}
  None = None
  Scripts <- MCShortScripts
PROPERTY RunIsTimed
CHECK_DEADLOCK FALSE
