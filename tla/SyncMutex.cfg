SPECIFICATION SyncSpec
CONSTANTS
  main = main
  idle = idle
  NULL = NULL
  t1 = t1
  t2 = t2
  t3 = t3
  TCB <- MCTCB
  FREE_TCB_LIST_SIZE = 4
  TORT_SIZE = 4
  Kinds = {"test"}
  MaxSleep = 1
  OutOfMemory = FALSE
  StaleKill = FALSE
  Shutdown = FALSE
  SemInit = 0
  MaxCount = 2
  MaxDepth = 1
  Exiting = FALSE
SYMMETRY MCSymmetry
INVARIANTS
  MutualExclusion
  NoLostUnlock
  NoLostPost
