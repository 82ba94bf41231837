CONSTANTS
  Ops <- Two
  Blocks = {b1, b2, b3}
  Vals = {0, 1}
  MAXOPBLOCKS = 2
  LOGSIZE = 4
  NLOG = 4
  OpMax = 1
  NoBlock = NoBlock
SPECIFICATION FairSpec
INVARIANTS
  LogInv
  NoPanic
PROPERTIES
  ImplementsAtomicDisk
  SleepersRetry
