CONSTANTS
  HDR = 2
  PAGE_SIZE = 8
  NPages = 4
  Sizes = {1, 4, 6, 9}
SPECIFICATION MallocSpec
INVARIANTS
  MallocTypeOK
  ChunksDisjoint
  BlocksKept
  NoLeak
  Coalesced
\* A full heap whose blocks nobody frees is legal.
CHECK_DEADLOCK FALSE
