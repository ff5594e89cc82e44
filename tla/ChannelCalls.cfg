SPECIFICATION Spec
CONSTANTS
  A = A
  B = B
  t1 = t1
  t2 = t2
  t3 = t3
  Processes = {A, B}
  Threads = {t1, t2, t3}
  ProcessOf <- TwoAndOne
  Messages = {m1, m2, m3}
  Mortal = {A}
  NumTxids = 2
  MaxTransfers <- OneEach
  None = None
SYMMETRY ThreadSymmetry
ACTION_CONSTRAINT BothCall
INVARIANTS
  ListedWaiters
  NoStrandedCaller
  UniqueTxids
  ReplyAnswersCall
  MessageConservation
CHECK_DEADLOCK FALSE
