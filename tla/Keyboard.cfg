SPECIFICATION SysSpec
CHECK_DEADLOCK FALSE
CONSTANTS
  KEYBOARD_BUFFER_SIZE = 2
  NUL = NUL
  Chars <- MCChars
  Lower <- MCLower
  Upper <- MCUpper
  Raised = {"GP", "SS", "NMI", "NP", "unused"}
  MaxNest = 2
INVARIANTS
  RingConsistent
  
PROPERTIES
  ImplementsQueue
  FullIsTemporary
  LineIsServed
