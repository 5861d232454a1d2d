SPECIFICATION MCSpec
CONSTANTS
  Values <- MCValues
  Sizes <- MCSizes
  DefaultSize = 4
  NsInSec = 4
  NsInMs = 2
  Day = 8
  Hour = 4
  Minute = 2
  Operands <- MCOperands
  Pairs <- MCPairs
  Doubles <- MCDoubles
  Readings <- MCReadings
  Resolution = 1
  MaxSec = 8
  general = general
  special1 = special1
  special2 = special2
  Ptrs <- MCPtrs
  Interfaces <- MCInterfaces
  Special <- MCSpecial
  Bases = {"X", "Y", "f", "g"}
  Paths = {"both", "other", "newer"}
  Library <- MCLibraries
  ApiVersion = 1
  Instances = {i1, i2, i3}
  Null = Null
  Batteries = {b1, b2}
  Loads = {0, 3}
  Voltages <- MCVoltages
  IdModulus = 3
  NamedConstructor = TRUE
  SelfAssignment = FALSE
  VideoFiles <- MCVideoFiles
  Bytes = 2
  MaxLoads = 4
  AudioFiles <- MCAudioFiles
  MaxFiles = 3
INVARIANTS
  TimesAreExact
  TimesReadAsTheyAre
  PointersOfferTheirInstance
  PluginsOutliveTheirUsers
  DiskIsKept
  UrisReadBack
  MediaAreOfTheirFile
PROPERTIES
  ImplementsWindow
  FindsAreStable
  
CHECK_DEADLOCK FALSE
