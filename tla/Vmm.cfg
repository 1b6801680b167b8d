SPECIFICATION Spec
CONSTANTS
  FRAMES = 34
  ENTRIES = 2
  BufferPages = {1, 2}
  StackPages = 1
INVARIANTS
  OneUse
  KernelReachable
  
