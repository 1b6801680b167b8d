SPECIFICATION SysSpec
CHECK_DEADLOCK FALSE
CONSTANTS
  Firmwares <- MCFirmwares
  MAP_ENTRIES = 3
  Maps <- MCMaps
  Sizes = {1, 3}
  BYTE = 2
  DescBits = 1
INVARIANTS
  PagesDisjoint
  
  HandoverIsSound
  LoaderDataKept
PROPERTIES
  CallsReturn
