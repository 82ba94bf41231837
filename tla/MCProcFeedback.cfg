CONSTANTS
  NPROC = 2
  NPROCQ = 2
  Cpus <- OneCpu
  BootCpu <- Boot
  Calls <- Signals
  MaxSleep = 2
  UMAX = 3
SPECIFICATION FairSpec
INVARIANT SliceNeverWraps
PROPERTIES
  PriorityFeedback
  QueuesServed
  SleepersWake
