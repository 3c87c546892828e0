CONSTANTS
  p1 = p1
  p2 = p2
  p3 = p3
  p4 = p4
  c1 = c1
  c2 = c2
  mutex = mutex
  next = next
  MaxInit = 1
  Procs <- MCProcs
  Conds <- MCConds
  Sems <- MCSems
SPECIFICATION MonSpec
SYMMETRY Symmetry
INVARIANTS
  MonTypeOK
  QueueMatchesValue
  SleepersQueued
  MutualExclusion
  CountsExact
  NoStrandedPermit
  NotWedged
\* Every thread may wait on a condition nobody signals any more.
CHECK_DEADLOCK FALSE
