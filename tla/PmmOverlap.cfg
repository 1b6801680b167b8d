SPECIFICATION SysSpec
CHECK_DEADLOCK FALSE
CONSTANTS
  Firmwares <- MCOneRegion
  MAP_ENTRIES = 3
  Maps <- MCOneMap
  Sizes = {1, 2}
  BYTE = 2
  DescBits = 1
INVARIANTS
  BlocksDisjoint
