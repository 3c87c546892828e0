CONSTANTS
  t1 = t1
  t2 = t2
  t3 = t3
  s1 = s1
  s2 = s2
  idle = idle
  Order <- TwoThreads
  Sems = {s1}
  MaxInit = 1
  MaxValue = 1
SPECIFICATION Spec
PROPERTIES
  CallsReturn
  BootCompletes
  RunnableRuns
