SPECIFICATION Spec
CONSTANTS
  NrInode = 4
  NrEntry = 4
  MaxFile = 2
  SubDirs <- MCSubDirs
  MaxPcb = 3
  MaxFp = 5
  MaxSysFile = 2
  Paths <- MCPaths
  Lens = {1}
  Seeks = {0}
  IntMax = 2
  MaxFilenum = 4
  MaxLinks = 2
  Disciplined = FALSE
INVARIANT ScansEndInside
