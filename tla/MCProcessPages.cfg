CONSTANTS
  MaxStart = 6
  MAX_PROCESS = 5
  NPages = 22
  Programs = {"user_main"}
SPECIFICATION ProcSpec
INVARIANT PagesKept
\* When init exits too early the kernel hangs.
CHECK_DEADLOCK FALSE
