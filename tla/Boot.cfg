SPECIFICATION BootSpec
CHECK_DEADLOCK FALSE
CONSTANTS
  TotalClusters = 4
  Slack = 0
  EntryCount = 2
  UnitsPerCluster = 2
  Sizes = {0, 1, 3}
  MaxFile = 4
  Names <- MCNames
  ShortNames = {"S", "L"}
  name_to_83 <- MCTo83
  Pieces <- MCPieces
  FsInfos <- MCFsInfos
  DirNames = {"long2"}
  MaxCalls = 5
  MaxFaults = 1
  Disks <- MCDisks
  Machines <- MCMachines
  LBA28_LAST = 4
  LBA28_COUNT = 2
  LBA48_LAST = 6
  LBA48_COUNT = 2
  Devs = {0, 1}
  Funcs = {0, 1}
  Bus <- MCBus
  MaxControllers = 2
  Gpt <- MCGpt
  TableSectors <- MCTable
  EspAt <- MCEsp
  Volumes = {"system"}
  sectors_per_cluster = 2
  MaxUses = 2
  FileMachines <- MCFileMachines
  ScreenMachines <- MCScreenMachines
  width = 3
  height = 3
  MaxGpus = 2
  MINUTE = 3
INVARIANTS
  ChainsIntact
  NothingLeaks
  SizeIsBacked
  NamesUnambiguous
  ReadIsExact
  WriteIsExact
  MountIsGenuine
  DrawingIsExact
PROPERTIES
  ImplementsFiles
  FullMeansFull
  BootReachesShell
