SPECIFICATION Spec
CONSTANTS
  main = main
  idle = idle
  NULL = NULL
  t1 = t1
  t2 = t2
  t3 = t3
  TCB <- MCTCB
  FREE_TCB_LIST_SIZE = 4
  TORT_SIZE = 3
  Kinds = {"test", "user"}
  MaxSleep = 2
  OutOfMemory = FALSE
  StaleKill = FALSE
  Shutdown = FALSE
SYMMETRY MCSymmetry
INVARIANTS
  QueueOwnership
  NoFallback
  StackSafety
  FreeBlocksUnused
PROPERTIES
  DeadStaysDead
