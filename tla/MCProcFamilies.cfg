CONSTANTS
  NPROC = 3
  NPROCQ = 1
  Cpus <- TwoCpus
  BootCpu <- Boot
  Calls <- Families
  MaxSleep = 0
  UMAX = 1
SPECIFICATION Spec
INVARIANTS
  NoLostExit
  NoOrphans
