SPECIFICATION Spec
CONSTANTS
  Threads = {t1, t2, t3}
  Objects = {o1}
  Handles = {h1}
  Keys = {k1, k2}
  Signals = {s1}
  Observers = {x1, x2}
  UserPackets = {}
  InterruptPackets = {}
  kMaxAllocatedPacketCountPerPort = 0
  BindToInterrupt = FALSE
  MaxHandleGen = 2
  MaxSemaCount = 0
  None = None
SYMMETRY ObserverSymmetry
INVARIANTS
  NoUseAfterFree
  OneOwner
  FiresOnce
  NoMissedSignal
  CancelIsFinal
