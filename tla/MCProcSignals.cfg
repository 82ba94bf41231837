CONSTANTS
  NPROC = 2
  NPROCQ = 2
  Cpus <- TwoCpus
  BootCpu <- Boot
  Calls <- Signals
  MaxSleep = 1
  UMAX = 3
SPECIFICATION Spec
INVARIANTS
  RunQueues
  OneCpuPerProcess
  RunnableQueued
  NoLostTick
