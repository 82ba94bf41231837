CONSTANTS
  Procs = {p1, p2}
  Byte = {0, 1}
  PIPESIZE = 2
  COUNTER = 4
  MaxN = 3
  Strings <- MCStrings
  Killable = {p1}
SPECIFICATION FairSpec
INVARIANTS
  PipeInv
  NoLostPipeWakeup
PROPERTIES
  DeliversStream
  ClosedPipesEnd
CHECK_DEADLOCK FALSE
