SPECIFICATION Spec
CONSTANTS
  NrInode = 5
  NrEntry = 9
  MaxFile = 3
  IntMax = 3
  SubDirs <- MCSubDirs
  SectSize = 18
  FsOffset = 72
  FsSize = 126
  UserOffset = 18
  Segments <- MCSegments
  UserMemory <- MCUserMemory
  Paths <- MCPaths
  Lens = {1}
  MaxWork = 4
INVARIANTS TypeOK RootNamesSurvive SearchesSurvive ProgramKept
PROPERTY KeepsItsPromise
