SPECIFICATION Spec
CONSTANTS
  MaxPcb = 4
  Quantum = 1
  IntMin <- MCIntMin
  IntMax = 2
  Sems = {s1, s2}
  Null = Null
  SleepTimes = {1, 2}
  InitValues = {0, 1}
  ReadSizes = {}
  SemBound = 2
  MaxTyped = 0
  Disciplined = TRUE
INVARIANTS NoWaiterLost WaitersAccounted NeverPanics
PROPERTY CountsItsUnits
