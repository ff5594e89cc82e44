SPECIFICATION FairSpec
CONSTANTS
  Threads = {t1, t2}
  Objects = {o1}
  Handles = {h1}
  Keys = {k1}
  Signals = {s1}
  Observers = {x1}
  UserPackets = {p1, p2}
  InterruptPackets = {i1}
  kMaxAllocatedPacketCountPerPort = 0
  BindToInterrupt = TRUE
  MaxHandleGen = 1
  MaxSemaCount = 1
  None = None
INVARIANTS
  NoLostWakeup
  PacketAccounting
PROPERTIES
  CallsReturn
  CloseReclaims
