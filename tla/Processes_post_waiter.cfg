SPECIFICATION Spec
CONSTANTS
  MaxPcb = 4
  Quantum = 2
  IntMin <- MCIntMin
  IntMax = 1
  Sems = {s1, s2}
  Null = Null
  SleepTimes = {0, 1}
  InitValues = {0, 1}
  ReadSizes = {1}
  SemBound = 1
  MaxTyped = 1
  Disciplined = FALSE
INVARIANT PostFindsAWaiter
