SPECIFICATION Spec
CONSTANTS
  Threads = {t1, t2, t3}
  Futexes = {f1, f2}
  WakeCounts = {0, 1}
  RequeueActions = {"RELEASE"}
  None = None
SYMMETRY FutexSymmetry
INVARIANTS
  RefsBalanced
  PoolSuffices
  OwnedHasWaiters
  OwnerSound
  NoLostWakeup
CHECK_DEADLOCK FALSE
