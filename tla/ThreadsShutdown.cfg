SPECIFICATION Spec
CONSTANTS
  main = main
  idle = idle
  NULL = NULL
  t1 = t1
  t2 = t2
  t3 = t3
  TCB <- MCTCB
  FREE_TCB_LIST_SIZE = 4
  TORT_SIZE = 6
  Kinds = {"test"}
  MaxSleep = 1
  OutOfMemory = TRUE
  StaleKill = FALSE
  Shutdown = TRUE
CONSTRAINT MCTableNotFull
SYMMETRY MCSymmetry
INVARIANTS
  ThreadLsExact
PROPERTIES
  CleanIsComplete
