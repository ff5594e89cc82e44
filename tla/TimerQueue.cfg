SPECIFICATION MCSpec
CONSTANTS
  Timers = {t1, t2, t3}
  Cpus = {c1, c2}
  Deadlines = {1, 2, 3}
  Slacks = {0, 1, 2}
  Modes = {"CENTER", "EARLY", "LATE"}
  Preemptions = {2}
  MaxTime = 5
  MaxRaceTime = 3
  None = None
SYMMETRY Symmetry
ACTION_CONSTRAINT Scope
INVARIANTS
  HardwareArmed
  CancelIsFinal
  QueuesSorted
  CoalescedInWindow
CHECK_DEADLOCK FALSE
