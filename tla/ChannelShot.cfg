SPECIFICATION Spec
CONSTANTS
  A = A
  B = B
  t1 = t1
  t2 = t2
  t3 = t3
  Processes = {A, B}
  Threads = {t1, t2, t3}
  ProcessOf <- TwoAndOne
  Messages = {m1, m2}
  Mortal = {}
  NumTxids = 2
  MaxTransfers <- TwoAndOneMoves
  None = None
INVARIANT
  OnlyViolatorsShot
CHECK_DEADLOCK FALSE
