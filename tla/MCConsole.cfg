CONSTANTS
  Width = 3
  Height = 2
  t1 = t1
  t2 = t2
  Threads <- MCThreads
  Printed = {7}
  UsedKeys = {"lf_shift", "rt_shift", "caps_lock", "arrow", "letter", "tab"}
  TextLen = 2
  MaxPort = 2
SPECIFICATION ConsoleSpec
SYMMETRY Symmetry
INVARIANTS
  ConsoleTypeOK
  CursorOnScreen
  LettersRight
