SPECIFICATION Spec
CONSTANTS
  MaxPcb = 4
  Quantum = 2
  IntMin <- MCIntMin
  IntMax = 1
  Sems = {s}
  Null = Null
  SleepTimes = {0, 1}
  InitValues = {0, 1}
  ReadSizes = {1}
  SemBound = 1
  MaxTyped = 1
  Disciplined = FALSE
INVARIANT ForkFindsItsSlot
