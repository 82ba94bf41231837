CONSTANTS
  Procs = {p1, p2}
  Bufs = {b1, b2}
  Blocks = {k1, k2, k3}
  Val = {0, 1}
  None = None
  NoBlock = NoBlock
  MaxHold = 1
  MaxPins = 1
  DiskErrors = FALSE
SPECIFICATION FairSpec
INVARIANTS
  BufferInv
PROPERTIES
  CacheIsStore
  SleepersWoken
CHECK_DEADLOCK FALSE
