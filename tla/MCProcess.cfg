CONSTANTS
  MaxStart = 6
  MAX_PROCESS = 5
  NPages = 22
  Programs = {"user_main", "any"}
SPECIFICATION ProcSpec
INVARIANTS
  ProcTypeOK
  FamilyTree
  AreasFound
PROPERTIES
  ReapsOwnChild
  WaitersReturn
  AllCollected
\* When init exits too early the kernel hangs.
CHECK_DEADLOCK FALSE
