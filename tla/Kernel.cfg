SPECIFICATION KernelSpec
CONSTANTS
  MaxPcb = 4
  Quantum = 1
  IntMin <- MCIntMin
  IntMax = 2
  Sems = {}
  Null = Null
  SleepTimes = {1}
  InitValues = {}
  ReadSizes = {}
  SemBound = 0
  MaxTyped = 0
  Disciplined = TRUE
  NrInode = 4
  NrEntry = 4
  MaxFile = 2
  SubDirs <- MCSubDirs
  MaxFp = 4
  MaxSysFile = 2
  Lens = {1}
  MaxFilenum = 5
  MaxLinks = 2
  Cells = {c}
  Strings <- MCStrings
  Nothing = Nothing
INVARIANT PathsResolve
PROPERTIES ImplementsOpenFiles PrivateMemories
