CONSTANTS
  MaxStart = 6
  MAX_PROCESS = 5
  NPages = 22
  Programs = {"any"}
SPECIFICATION ProcSpec
INVARIANT ExitEnds
\* When init exits too early the kernel hangs.
CHECK_DEADLOCK FALSE
