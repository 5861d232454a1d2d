SPECIFICATION Spec
CONSTANTS
  Kinds = {"OpenGL", "D3D11"}
  MaxSamples = 3
  MaxTrees = 3
  Capacity = 1
  ViewerStays = FALSE
PROPERTIES
  UnbindReturns
CHECK_DEADLOCK FALSE
