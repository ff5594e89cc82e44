SPECIFICATION Spec
CONSTANTS
  h1 = h1
  h2 = h2
  h3 = h3
  o1 = o1
  o2 = o2
  a = a
  t1 = t1
  t2 = t2
  Threads = {t1, t2}
  Handles = {h1, h2, h3}
  Objects = {o1, o2}
  ObjectOf <- TwoAndOne
  Signals = {a}
  ItemLists <- Waits
INVARIANTS
  NoDanglingObserver
  NoMissedWakeup
PROPERTIES
  ResultExplained
  WaitReturns
CHECK_DEADLOCK FALSE
