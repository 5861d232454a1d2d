SPECIFICATION MCSpec
CONSTANTS
  Files <- MCFiles
  Document <- MCDocument
  Again <- MCAgain
  MaxLoads = 2
  t1 = t1
  t2 = t2
  Threads = {t1, t2}
  MeshFiles = {"a.stl"}
  Others = {"box"}
  Makeable <- MCMakeable
  Loadable <- MCLoadable
  Solids <- MCSolids
  Offsets <- MCOffsets
  MaxMeshes = 2
  Epsilon = 1
  ObjFiles <- MCObjFiles
  ObjLines <- MCObjLines
  MtlFiles <- MCMtlFiles
  StlFiles <- MCStlFiles
  StlFaces <- MCStlFaces
  SvgFiles <- MCSvgFiles
  Samples = 2
  ExtraStep = TRUE
  Tol = 5
INVARIANTS
  OneMeshPerName
  FacesAreKept
  DocumentsAreRead
  ExportReadsBack
  
  OutlinesAreTheText
ACTION_CONSTRAINT
  FewMeshes
SYMMETRY Alike
CHECK_DEADLOCK FALSE
