SPECIFICATION Spec
CONSTANTS
  NrInode = 3
  NrEntry = 4
  MaxFile = 2
  SubDirs <- MCSubDirs
  MaxPcb = 4
  MaxFp = 5
  MaxSysFile = 2
  Paths <- MCPaths
  Lens = {1, 2}
  Seeks <- MCSeeks
  IntMax = 2
  MaxFilenum = 5
  MaxLinks = 3
  Disciplined = TRUE
INVARIANTS LinksExact OpenFilesExist  SizesFit
