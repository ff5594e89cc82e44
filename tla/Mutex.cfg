SPECIFICATION FairSpec
CONSTANTS
  Threads = {t1, t2, t3, t4, t5}
  None = None
INVARIANTS
  SomebodyToWake
PROPERTIES
  MutualExclusion
  TakenAgain
