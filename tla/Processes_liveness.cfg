SPECIFICATION FairSpec
CONSTANTS
  MaxPcb = 3
  Quantum = 2
  IntMin <- MCIntMin
  IntMax = 1
  Sems = {s}
  Null = Null
  SleepTimes = {0, 1}
  InitValues = {0}
  ReadSizes = {1}
  SemBound = 1
  MaxTyped = 1
  Disciplined = FALSE
PROPERTIES RunnableRuns SleeperWakes
