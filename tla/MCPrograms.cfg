SPECIFICATION Spec
CONSTANTS
    NPROC = 8  NOFILE = 8  NFILE = 10  NINODES = 28  MAXFILE = 6  CHUNK = 2  PIPESIZE = 2
    PGSIZE = 2  NPAGE = 66  NPTENTRIES = 4  KTABLES = 1  TEXT = 1  KERNBASE = 1000  MAXARGS = 6  N = 2  BIG = 40
    Sessions <- MCSessions
INVARIANTS RefsExact TestsPass LinesMean LispMeans
PROPERTY SessionEnds
CHECK_DEADLOCK TRUE
