SPECIFICATION Spec
CONSTANTS
  Threads = {t1, t2, t3}
  Futexes = {f1, f2}
  WakeCounts = {1}
  RequeueActions = {"ASSIGN_WOKEN"}
  None = None
SYMMETRY FutexSymmetry
INVARIANT FreeStatesUnowned
CHECK_DEADLOCK FALSE
