SPECIFICATION MCSpec
CONSTANTS
  Times = {0, 1, 3}
  Positions <- MCPositions
  Values = {0, 3}
  Lengths = {2, 3}
  MaxKeys = 3
  LateEdits = FALSE
  NoSplines = NoSplines
  Clock = {1, 2, 5}
  LastTick = 5
  MaxWaypoints = 3
  NodeNames = {hip, knee}
  KeyTimes = {0, 1, 3}
  Poses = {1, 2}
  Factors = {2}
  MaxValue = 4
  Garbage <- MCGarbage
  Null = Null
  MaxNodes = 3
  Transforms <- MCTransforms
  TreeFactors <- MCFactors
  BvhFiles <- MCBvhFiles
  MaxAnims = 1
  Temps = {clip}
  Default = tmp
  Device = video0
  Targets = {clip, saved}
  Stamps <- MCStamps
  Period = 2
  Sizes = {small, large}
  Lookahead = 1
  Lossy = TRUE
  BitRates = {"auto"}
  Resizes = FALSE
  Concurrent = FALSE
  MaxFrames = 2
  NoName = NoName
  NoSize = NoSize
INVARIANTS
  SplinesFollowKeys
  ValuesFollowKeys
  PosesFollowKeys
  
  RecordingsAreSound
PROPERTIES
  PositionInRange
  RecordingsAreKept
CONSTRAINT
  Bounded
SYMMETRY SizesAlike
CHECK_DEADLOCK FALSE
