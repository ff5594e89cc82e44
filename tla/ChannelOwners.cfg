SPECIFICATION FairSpec
CONSTANTS
  A = A
  B = B
  t1 = t1
  t2 = t2
  t3 = t3
  Processes = {A, B}
  Threads = {t1, t2, t3}
  ProcessOf <- TwoAndOne
  Messages = {1, 2}
  Mortal = {}
  NumTxids = 2
  MaxTransfers <- TwoAndOneMoves
  None = None
ACTION_CONSTRAINT OneCaller
PROPERTIES
  OwnerOrder
  CallReturns
CHECK_DEADLOCK FALSE
