CONSTANTS
  NPages = 7
  MaxBlock = 3
SPECIFICATION PageSpec
INVARIANTS
  PageTypeOK
  PagesOnce
  FreeNumExact
  OneResident
\* With a block of no pages in front nothing can be allocated any more.
CHECK_DEADLOCK FALSE
