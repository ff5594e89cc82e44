SPECIFICATION Spec
CONSTANTS
  Threads = {t1, t2}
  Cpus = {c1, c2}
  None = None
  Deadlines = {0, 1, 2}
  Slacks = {0, 1}
  SlackMode = "CENTER"
  MaxTime = 3
INVARIANTS
  NoPanic
  OneFiring
  ReferencesHeld
PROPERTIES
  OneShotTimerSpec
CHECK_DEADLOCK FALSE
