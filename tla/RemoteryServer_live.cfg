SPECIFICATION MCSpec
CONSTANTS
  MaxFrames = 2
  Lengths = {0, 2, 3}
  MaxLength = 3
  MaxLost = 1
  ViewerStays = TRUE

  
PROPERTIES
  
  TreesReachTheViewer
CHECK_DEADLOCK FALSE
